-------------------------- MODULE ConnectionsProofs -------------------------
(***************************************************************************)
(* Proofs about Connections: for any number of connections, clients,       *)
(* processes and slots of data_sock, the room of epoll_wait counts the     *)
(* open connections, a claim has an open connection of its registrant, and *)
(* only subscribers are notified.                                          *)
(***************************************************************************)
EXTENDS Connections, FiniteSetTheorems, WellFoundedInduction, TLAPS

Distinct(s) == \A i, j \in DOMAIN s : s[i] = s[j] => i = j

Open == {i \in Slot : sock[i] # NULL}

(* The connections that wait to be accepted are others than the accepted.  *)
BacklogOK ==
  /\ backlog \in Seq(Conn) /\ Distinct(backlog)
  /\ \A k \in DOMAIN backlog :
       end[backlog[k]] \in {"up", "hup"} /\ \A i \in Slot : sock[i] # backlog[k]

(* A registrant has an open connection whose slot knows it by its pid, so  *)
(* that closing that slot unclaims its records.                            *)
ClaimsOK ==
  /\ reg_pid \in [Rec -> Client \cup {Nobody, NULL}]
  /\ \A r \in Rec : reg_pid[r] \in Client =>
       \E i \in Slot : /\ sock[i] # NULL /\ Owner[sock[i]] = reg_pid[r]
                       /\ pid[i] = reg_pid[r]

CountOK == failures \in Nat /\ maxevents = Cardinality(Open) - failures

ConnOK == TypeOK /\ BacklogOK /\ ClaimsOK /\ CountOK /\ OnlySubscribers

(* The batch in progress: a hangup is of a slot that is still open; while  *)
(* the event of ctrl_sock is pending, somebody waits to be accepted; and   *)
(* the loop that drops all connections starts with all slots taken.        *)
BatchOK ==
  /\ at \in [step : {"wait", "handle", "drop"}, hups : Seq(Slot),
             others : Seq(Slot \cup {Listen}), slot : 0..MaxDataConn]
  /\ Distinct(at.hups) /\ Distinct(at.others)
  /\ \A k \in DOMAIN at.hups : sock[at.hups[k]] # NULL
  /\ \A k \in DOMAIN at.others : at.others[k] = Listen => backlog # <<>>
  /\ at.step = "wait" => at.hups = <<>> /\ at.others = <<>>
  /\ at.step = "handle" => (at.hups # <<>> \/ at.others # <<>>) /\ at.slot = 0
  /\ at.step = "drop" =>
       /\ at.hups = <<>> /\ at.others # <<>> /\ Head(at.others) = Listen
       /\ \A j \in Slot : sock[j] = NULL <=> j < at.slot

IInv == ConnOK /\ BatchOK

-----------------------------------------------------------------------------
(* Lemmas about the operators.                                             *)

(* The slots that are open are finitely many.                              *)
LEMMA OpenFinite ==
  IsFiniteSet(Slot) /\ IsFiniteSet(Open) /\ Cardinality(Open) \in Nat
<1>1. IsFiniteSet(Slot)
  BY SlotAssumption, FS_Interval DEF Slot
<1>2. Open \subseteq Slot
  BY DEF Open
<1>3. IsFiniteSet(Open)
  BY <1>1, <1>2, FS_Subset
<1> QED
  BY <1>1, <1>3, FS_CardinalityType

(* A non-empty set of naturals has a least element.                        *)
LEMMA LeastNat ==
  ASSUME NEW T \in SUBSET Nat, NEW t \in T
  PROVE  \E n \in T : \A m \in T : n <= m
<1> DEFINE R == {ss \in Nat \X Nat : ss[1] < ss[2]}
<1>1. IsWellFoundedOn(R, Nat)
  BY NatLessThanWellFounded DEF OpToRel
<1>2. \A n, m \in Nat : ~(<<m, n>> \in R) => n <= m
  OBVIOUS
<1> HIDE DEF R
<1>3. T # {} /\ T \subseteq Nat
  OBVIOUS
<1>4. PICK n \in T : \A m \in T : ~(<<m, n>> \in R)
  BY <1>1, <1>3, WFMin, Zenon
<1> QED
  BY <1>2, <1>4, Zenon

(* The loop over data_sock finds a free slot when there is one.            *)
LEMMA LowestFree ==
  ASSUME Free # {}
  PROVE  Lowest(Free) \in Slot /\ sock[Lowest(Free)] = NULL
<1>1. Free \in SUBSET Nat
  BY SlotAssumption DEF Free, Slot
<1>2. PICK f \in Free : TRUE
  OBVIOUS
<1>3. PICK n \in Free : \A m \in Free : n <= m
  BY <1>1, <1>2, LeastNat
<1> DEFINE First(i) == \A j \in Free : i <= j
<1>4. Lowest(Free) = CHOOSE i \in Free : First(i)
  BY DEF Lowest
<1>5. First(n)
  BY <1>3
<1> HIDE DEF First
<1>6. Lowest(Free) \in Free
  BY <1>3, <1>4, <1>5
<1> QED
  BY <1>6 DEF Free

(* Taking the head off a batch or off the backlog.                         *)
LEMMA TailDistinct ==
  ASSUME NEW S, NEW s \in Seq(S), s # <<>>, Distinct(s)
  PROVE  /\ Head(s) = s[1] /\ 1 \in DOMAIN s /\ Head(s) \in S
         /\ Tail(s) \in Seq(S) /\ Distinct(Tail(s)) /\ Len(Tail(s)) = Len(s) - 1
         /\ Len(s) \in Nat \ {0} /\ (Len(s) = 1 \/ Tail(s) # <<>>) /\ (Len(s) > 1 => Tail(s) # <<>>)
         /\ \A k \in DOMAIN Tail(s) : Tail(s)[k] # Head(s) /\ k + 1 \in DOMAIN s /\ Tail(s)[k] = s[k + 1]
<1>1. /\ Len(s) \in Nat \ {0} /\ DOMAIN s = 1..Len(s) /\ Head(s) = s[1] /\ Head(s) \in S
      /\ Tail(s) \in Seq(S) /\ DOMAIN Tail(s) = 1..(Len(s) - 1) /\ Len(Tail(s)) = Len(s) - 1
      /\ \A k \in 1..(Len(s) - 1) : Tail(s)[k] = s[k + 1]
  OBVIOUS
<1>2. \A k \in 1..(Len(s) - 1) : k + 1 \in DOMAIN s /\ k + 1 # 1
  BY <1>1
<1>3. Distinct(Tail(s))
  BY <1>1, <1>2 DEF Distinct
<1>4. \A k \in 1..(Len(s) - 1) : Tail(s)[k] # Head(s)
  BY <1>1, <1>2 DEF Distinct
<1>5. (Len(s) = 1 \/ Tail(s) # <<>>) /\ (Len(s) > 1 => Tail(s) # <<>>)
  <2> DEFINE t == Tail(s)
  <2>1. t \in Seq(S) /\ Len(t) = Len(s) - 1
    BY <1>1
  <2> HIDE DEF t
  <2>2. (Len(s) = 1 \/ t # <<>>) /\ (Len(s) > 1 => t # <<>>)
    BY <1>1, <2>1
  <2> QED
    BY <2>2, Zenon DEF t
<1> QED
  BY <1>1, <1>2, <1>3, <1>4, <1>5

(* Appending a new element.                                                *)
LEMMA AppendDistinct ==
  ASSUME NEW S, NEW s \in Seq(S), Distinct(s), NEW x \in S, \A k \in DOMAIN s : s[k] # x
  PROVE  /\ Append(s, x) \in Seq(S) /\ Distinct(Append(s, x)) /\ Append(s, x) # <<>>
         /\ \A k \in DOMAIN Append(s, x) :
              Append(s, x)[k] = x \/ (k \in DOMAIN s /\ Append(s, x)[k] = s[k])
<1> DEFINE t == Append(s, x)
<1>1. /\ Len(s) \in Nat /\ DOMAIN s = 1..Len(s)
      /\ t \in Seq(S) /\ DOMAIN t = 1..(Len(s) + 1) /\ t[Len(s) + 1] = x
      /\ \A k \in 1..Len(s) : t[k] = s[k]
  OBVIOUS
<1> HIDE DEF t
<1>2. \A k \in DOMAIN t : k = Len(s) + 1 \/ k \in 1..Len(s)
  BY <1>1
<1>3. Distinct(t)
  BY <1>1, <1>2 DEF Distinct
<1>4. t # <<>>
  BY <1>1
<1> QED
  BY <1>1, <1>2, <1>3, <1>4 DEF t

-----------------------------------------------------------------------------
(* What the operations do to the connections.                              *)

(* Closing an open slot.                                                   *)
LEMMA CloseOK ==
  ASSUME ConnOK, NEW i \in Slot, sock[i] # NULL, ctrl_data_close(i),
         UNCHANGED <<pid, mask, backlog, failures>>
  PROVE  ConnOK' /\ sock' = [sock EXCEPT ![i] = NULL]
<1> DEFINE c == sock[i]
<1>1. /\ sock' = [sock EXCEPT ![i] = NULL] /\ maxevents' = maxevents - 1
      /\ end' = [end EXCEPT ![c] = "idle"]
      /\ subscribed' = subscribed \ {c}
      /\ reg_pid' = [r \in Rec |-> IF reg_pid[r] = pid[i] THEN Nobody ELSE reg_pid[r]]
  BY DEF ctrl_data_close, Reg!Unclaim
<1>2. c \in Conn /\ sock \in [Slot -> Conn \cup {NULL}]
  BY DEF ConnOK, TypeOK
<1>3. sock'[i] = NULL /\ \A j \in Slot \ {i} : sock'[j] = sock[j] /\ sock[j] # c
  BY <1>1, <1>2 DEF ConnOK, TypeOK
<1>4. TypeOK'
  <2>1. /\ sock' \in [Slot -> Conn \cup {NULL}] /\ maxevents' \in Int
        /\ end' \in [Conn -> {"idle", "up", "hup"}]
    BY <1>1, <1>2 DEF ConnOK, TypeOK
  <2>2. \A j \in Slot : sock'[j] # NULL => end'[sock'[j]] \in {"up", "hup"}
    BY <1>1, <1>2, <1>3 DEF ConnOK, TypeOK
  <2>3. \A j, k \in Slot : sock'[j] # NULL /\ sock'[j] = sock'[k] => j = k
    BY <1>3 DEF ConnOK, TypeOK
  <2> QED
    BY <2>1, <2>2, <2>3 DEF ConnOK, TypeOK
<1>5. BacklogOK'
  <2>1. \A k \in DOMAIN backlog : backlog[k] \in Conn /\ backlog[k] # c
    BY DEF ConnOK, BacklogOK
  <2>2. \A k \in DOMAIN backlog : end'[backlog[k]] \in {"up", "hup"}
    BY <1>1, <2>1 DEF ConnOK, BacklogOK, TypeOK
  <2>3. \A k \in DOMAIN backlog : \A j \in Slot : sock'[j] # backlog[k]
    BY <1>3, <2>1, NameAssumption DEF ConnOK, BacklogOK
  <2> QED
    BY <2>2, <2>3 DEF ConnOK, BacklogOK
<1>6. ClaimsOK'
  <2>1. reg_pid' \in [Rec -> Client \cup {Nobody, NULL}]
    BY <1>1 DEF ConnOK, ClaimsOK
  <2>2. ASSUME NEW r \in Rec, reg_pid'[r] \in Client
        PROVE  \E j \in Slot : /\ sock'[j] # NULL /\ Owner[sock'[j]] = reg_pid'[r]
                               /\ pid'[j] = reg_pid'[r]
    <3>1. reg_pid'[r] = reg_pid[r] /\ reg_pid[r] # pid[i]
      BY <1>1, <2>2, NameAssumption
    <3>2. PICK j \in Slot : sock[j] # NULL /\ Owner[sock[j]] = reg_pid[r] /\ pid[j] = reg_pid[r]
      BY <2>2, <3>1 DEF ConnOK, ClaimsOK
    <3>3. j # i
      BY <3>1, <3>2
    <3> QED
      BY <1>3, <3>1, <3>2, <3>3
  <2> QED
    BY <2>1, <2>2 DEF ClaimsOK
<1>7. CountOK'
  <2>1. Open' = Open \ {i} /\ i \in Open
    BY <1>3 DEF Open
  <2>2. Cardinality(Open') = Cardinality(Open) - 1 /\ Cardinality(Open) \in Nat
    BY <2>1, OpenFinite, FS_RemoveElement, Zenon
  <2> QED
    BY <1>1, <2>2 DEF ConnOK, CountOK
<1>8. OnlySubscribers'
  BY <1>1, <1>3 DEF ConnOK, OnlySubscribers
<1> QED
  BY <1>1, <1>4, <1>5, <1>6, <1>7, <1>8 DEF ConnOK

(* Accepting, or failing to accept, into a free slot.                      *)
LEMMA AcceptOK ==
  ASSUME ConnOK, NEW i \in Slot, sock[i] = NULL, backlog # <<>>, accept(i)
  PROVE  ConnOK'
<1> DEFINE c == Head(backlog)
<1>1. /\ backlog \in Seq(Conn) /\ Distinct(backlog) /\ sock \in [Slot -> Conn \cup {NULL}]
      /\ mask \in [Slot -> BOOLEAN]
  BY DEF ConnOK, BacklogOK, TypeOK
<1>2. /\ c \in Conn /\ c = backlog[1] /\ 1 \in DOMAIN backlog
      /\ Tail(backlog) \in Seq(Conn) /\ Distinct(Tail(backlog))
      /\ \A k \in DOMAIN Tail(backlog) :
           Tail(backlog)[k] # c /\ k + 1 \in DOMAIN backlog /\ Tail(backlog)[k] = backlog[k + 1]
  BY <1>1, TailDistinct
<1>3. pid' = pid /\ subscribed' = subscribed
  BY DEF accept
<1>4. ASSUME sock' = [sock EXCEPT ![i] = c], mask' = [mask EXCEPT ![i] = FALSE],
             maxevents' = maxevents + 1, backlog' = Tail(backlog),
             UNCHANGED <<end, inbox, records, failures>>
      PROVE  ConnOK'
  <2>1. sock'[i] = c /\ \A j \in Slot \ {i} : sock'[j] = sock[j] /\ sock[j] # c
    BY <1>1, <1>2, <1>4 DEF ConnOK, BacklogOK
  <2>2. c # NULL /\ end[c] \in {"up", "hup"}
    BY <1>2, NameAssumption DEF ConnOK, BacklogOK
  <2>3. TypeOK'
    <3>1. sock' \in [Slot -> Conn \cup {NULL}] /\ mask' \in [Slot -> BOOLEAN] /\ maxevents' \in Int
      BY <1>1, <1>2, <1>4 DEF ConnOK, TypeOK
    <3>2. \A j \in Slot : sock'[j] # NULL => end'[sock'[j]] \in {"up", "hup"}
      BY <1>4, <2>1, <2>2 DEF ConnOK, TypeOK
    <3>3. \A j, k \in Slot : sock'[j] # NULL /\ sock'[j] = sock'[k] => j = k
      BY <2>1 DEF ConnOK, TypeOK
    <3> QED
      BY <1>3, <1>4, <3>1, <3>2, <3>3 DEF ConnOK, TypeOK
  <2>4. BacklogOK'
    <3>1. ASSUME NEW k \in DOMAIN backlog'
          PROVE  end'[backlog'[k]] \in {"up", "hup"} /\ \A j \in Slot : sock'[j] # backlog'[k]
      BY <1>2, <1>4, <2>1 DEF ConnOK, BacklogOK
    <3> QED
      BY <1>2, <1>4, <3>1 DEF BacklogOK
  <2>5. ClaimsOK'
    <3>1. reg_pid' = reg_pid
      BY <1>4 DEF records
    <3>2. ASSUME NEW r \in Rec, reg_pid[r] \in Client
          PROVE  \E j \in Slot : /\ sock'[j] # NULL /\ Owner[sock'[j]] = reg_pid[r]
                                 /\ pid[j] = reg_pid[r]
      BY <2>1, <3>2 DEF ConnOK, ClaimsOK
    <3> QED
      BY <1>3, <3>1, <3>2 DEF ConnOK, ClaimsOK
  <2>6. CountOK'
    <3>1. Open' = Open \cup {i} /\ i \notin Open
      BY <2>1, <2>2 DEF Open
    <3>2. Cardinality(Open') = Cardinality(Open) + 1 /\ Cardinality(Open) \in Nat
      BY <3>1, OpenFinite, FS_AddElement, Zenon
    <3> QED
      BY <1>4, <3>2 DEF ConnOK, CountOK
  <2>7. OnlySubscribers'
    BY <1>1, <1>3, <1>4, <2>1 DEF ConnOK, OnlySubscribers
  <2> QED
    BY <2>3, <2>4, <2>5, <2>6, <2>7 DEF ConnOK
<1>5. ASSUME failures' = failures + 1, mask' = [mask EXCEPT ![i] = FALSE],
             maxevents' = maxevents - 1, backlog' = Tail(backlog),
             end' = [end EXCEPT ![c] = "idle"], Reg!Unclaim(pid[i]), sock' = sock
      PROVE  ConnOK'
  <2>1. \A j \in Slot : sock[j] # c
    BY <1>2 DEF ConnOK, BacklogOK
  <2>2. TypeOK'
    <3>1. mask' \in [Slot -> BOOLEAN] /\ maxevents' \in Int /\ end' \in [Conn -> {"idle", "up", "hup"}]
      BY <1>1, <1>2, <1>5 DEF ConnOK, TypeOK
    <3>2. \A j \in Slot : sock'[j] # NULL => end'[sock'[j]] \in {"up", "hup"}
      BY <1>1, <1>2, <1>5, <2>1 DEF ConnOK, TypeOK
    <3> QED
      BY <1>3, <1>5, <3>1, <3>2 DEF ConnOK, TypeOK
  <2>3. BacklogOK'
    <3>1. ASSUME NEW k \in DOMAIN backlog'
          PROVE  end'[backlog'[k]] \in {"up", "hup"} /\ \A j \in Slot : sock'[j] # backlog'[k]
      <4>1. backlog'[k] # c /\ k + 1 \in DOMAIN backlog /\ backlog'[k] = backlog[k + 1]
        BY <1>2, <1>5
      <4>2. backlog[k + 1] \in Conn /\ end[backlog[k + 1]] \in {"up", "hup"}
            /\ \A j \in Slot : sock[j] # backlog[k + 1]
        BY <1>1, <4>1 DEF ConnOK, BacklogOK
      <4> QED
        BY <1>2, <1>5, <4>1, <4>2 DEF ConnOK, TypeOK
    <3> QED
      BY <1>2, <1>5, <3>1 DEF BacklogOK
  <2>4. ClaimsOK'
    <3>1. reg_pid' = [r \in Rec |-> IF reg_pid[r] = pid[i] THEN Nobody ELSE reg_pid[r]]
      BY <1>5 DEF Reg!Unclaim
    <3>2. ASSUME NEW r \in Rec, reg_pid'[r] \in Client
          PROVE  \E j \in Slot : /\ sock[j] # NULL /\ Owner[sock[j]] = reg_pid'[r]
                                 /\ pid[j] = reg_pid'[r]
      BY <3>1, <3>2, NameAssumption DEF ConnOK, ClaimsOK
    <3>3. reg_pid' \in [Rec -> Client \cup {Nobody, NULL}]
      BY <3>1 DEF ConnOK, ClaimsOK
    <3> QED
      BY <1>3, <1>5, <3>2, <3>3 DEF ClaimsOK
  <2>5. CountOK'
    BY <1>5, OpenFinite DEF ConnOK, CountOK, Open
  <2>6. OnlySubscribers'
    BY <1>1, <1>3, <1>5 DEF ConnOK, OnlySubscribers
  <2> QED
    BY <2>2, <2>3, <2>4, <2>5, <2>6 DEF ConnOK
<1>6. ASSUME UNCHANGED <<sock, mask, maxevents, backlog, end, inbox, records, failures>>
      PROVE  ConnOK'
  BY <1>3, <1>6 DEF ConnOK, TypeOK, BacklogOK, ClaimsOK, CountOK, Open, OnlySubscribers, records
<1> QED
  BY <1>4, <1>5, <1>6 DEF accept, MaskAfterAccept, EventsAfterAccept

(* A message of a connection: its sender is what the slot's pid becomes    *)
(* before the record is claimed.                                           *)
LEMMA MessageOK ==
  ASSUME ConnOK, NEW i \in Slot, sock[i] # NULL, pid' = [pid EXCEPT ![i] = Owner[sock[i]]],
         NEW m \in Msg, handle_command(i, m),
         UNCHANGED <<sock, maxevents, backlog, end, failures>>
  PROVE  ConnOK'
<1> DEFINE c == Owner[sock[i]]
<1>1. sock[i] \in Conn /\ c \in Client /\ pid \in [Slot -> Client \cup {Nobody}]
  BY OwnerAssumption DEF ConnOK, TypeOK
<1>2. \/ reg_pid' = reg_pid
      \/ m.rec \in Rec /\ reg_pid' = [reg_pid EXCEPT ![m.rec] = c]
      \/ m.rec \in Rec /\ reg_pid' = [reg_pid EXCEPT ![m.rec] = NULL]
  <2>1. m.cmd \in {"procprio", "procremove"} => m.rec \in Rec
    BY DEF Msg
  <2>2. CASE m.cmd = "procprio" /\ reg_pid[m.rec] \in {c, Nobody, NULL}
    <3>1. Reg!Prioritize(c, m.rec, 0)
      BY <2>2 DEF handle_command
    <3> QED
      BY <2>1, <2>2, <3>1 DEF Reg!Prioritize
  <2>3. CASE m.cmd = "procremove" /\ reg_pid[m.rec] \in {c, Nobody}
    <3>1. Reg!Unregister(c, m.rec)
      BY <2>3 DEF handle_command
    <3> QED
      BY <2>1, <2>3, <3>1 DEF Reg!Unregister
  <2>4. CASE /\ ~(m.cmd = "procprio" /\ reg_pid[m.rec] \in {c, Nobody, NULL})
             /\ ~(m.cmd = "procremove" /\ reg_pid[m.rec] \in {c, Nobody})
    <3>1. UNCHANGED records
      BY <2>4 DEF handle_command
    <3> QED
      BY <3>1 DEF records
  <2> QED
    BY <2>2, <2>3, <2>4
<1>3. \/ mask' = mask /\ subscribed' = subscribed
      \/ mask' = [mask EXCEPT ![i] = TRUE] /\ subscribed' = subscribed \cup {sock[i]}
  BY DEF handle_command
<1>4. TypeOK'
  BY <1>1, <1>3, Zenon DEF ConnOK, TypeOK
<1>5. BacklogOK' /\ CountOK'
  BY DEF ConnOK, BacklogOK, CountOK, Open
<1>6. ClaimsOK'
  <2>1. reg_pid' \in [Rec -> Client \cup {Nobody, NULL}]
    BY <1>1, <1>2 DEF ConnOK, ClaimsOK
  <2>2. ASSUME NEW r \in Rec, reg_pid'[r] \in Client
        PROVE  \E j \in Slot : /\ sock[j] # NULL /\ Owner[sock[j]] = reg_pid'[r]
                               /\ pid'[j] = reg_pid'[r]
    <3>1. pid'[i] = c /\ \A j \in Slot \ {i} : pid'[j] = pid[j]
      BY <1>1
    <3>2. CASE reg_pid'[r] = c
      BY <3>1, <3>2
    <3>3. CASE reg_pid'[r] # c
      <4>1. reg_pid'[r] = reg_pid[r]
        BY <1>2, <2>2, <3>3, NameAssumption DEF ConnOK, ClaimsOK
      <4>2. PICK j \in Slot : sock[j] # NULL /\ Owner[sock[j]] = reg_pid[r] /\ pid[j] = reg_pid[r]
        BY <2>2, <4>1 DEF ConnOK, ClaimsOK
      <4> QED
        BY <3>1, <3>3, <4>1, <4>2
    <3> QED
      BY <3>2, <3>3
  <2> QED
    BY <2>1, <2>2 DEF ClaimsOK
<1>7. OnlySubscribers'
  BY <1>3, SMTT(20) DEF ConnOK, OnlySubscribers, TypeOK
<1> QED
  BY <1>4, <1>5, <1>6, <1>7 DEF ConnOK

(* The handler of a data connection.                                       *)
LEMMA CommandOK ==
  ASSUME ConnOK, NEW i \in Slot, ctrl_command_handler(i)
  PROVE  ConnOK' /\ backlog' = backlog
<1>1. CASE UNCHANGED <<records, conn_vars, client_vars>>
  BY <1>1 DEF ConnOK, TypeOK, BacklogOK, ClaimsOK, CountOK, Open, OnlySubscribers,
              records, conn_vars, client_vars
<1>2. CASE sock[i] # NULL /\ ctrl_data_close(i) /\ UNCHANGED <<pid, mask, backlog, failures>>
  BY <1>2, CloseOK
<1>3. CASE /\ sock[i] # NULL /\ pid' = [pid EXCEPT ![i] = Owner[sock[i]]]
           /\ \E m \in Msg : handle_command(i, m)
           /\ UNCHANGED <<sock, maxevents, backlog, end, failures>>
  BY <1>3, MessageOK, Zenon
<1> QED
  BY <1>1, <1>2, <1>3 DEF ctrl_command_handler

-----------------------------------------------------------------------------
(* The batches of mainloop.                                                *)

(* An order of a finite set lists each of its elements once.               *)
LEMMA OrderOf ==
  ASSUME NEW S, IsFiniteSet(S), NEW o \in Orders(S)
  PROVE  /\ o \in Seq(S) /\ Distinct(o)
         /\ S # {} => o # <<>>
<1>1. Cardinality(S) \in Nat /\ (Cardinality(S) = 0 => S = {})
  BY FS_CardinalityType, FS_EmptySet
<1>2. o \in [1..Cardinality(S) -> S] /\ Distinct(o)
  BY DEF Orders, Distinct
<1>3. o \in Seq(S) /\ Len(o) = Cardinality(S)
  BY <1>1, <1>2
<1> QED
  BY <1>1, <1>2, <1>3

(* Done drops the event that was handled.                                  *)
LEMMA DoneOK ==
  ASSUME BatchOK, at.others # <<>>, at' = Done,
         \A k \in DOMAIN Tail(at.others) : Tail(at.others)[k] = Listen => backlog' # <<>>
  PROVE  BatchOK'
<1>1. at.others \in Seq(Slot \cup {Listen}) /\ Distinct(at.others)
  BY DEF BatchOK
<1>2. /\ Tail(at.others) \in Seq(Slot \cup {Listen}) /\ Distinct(Tail(at.others))
      /\ Len(at.others) \in Nat \ {0} /\ (Len(at.others) > 1 => Tail(at.others) # <<>>)
  BY <1>1, TailDistinct
<1>3. Distinct(<<>>) /\ <<>> \in Seq(Slot) /\ <<>> \in Seq(Slot \cup {Listen}) /\ 0 \in 0..MaxDataConn
  BY SlotAssumption DEF Distinct
<1>4. CASE Len(at.others) > 1
  <2>1. at' = [step |-> "handle", hups |-> <<>>, others |-> Tail(at.others), slot |-> 0]
    BY <1>4, Zenon DEF Done, Waiting
  <2>2. Tail(at.others) # <<>>
    BY <1>2, <1>4, Zenon
  <2> QED
    BY <1>2, <1>3, <2>1, <2>2 DEF BatchOK
<1>5. CASE ~(Len(at.others) > 1)
  <2>1. at' = [step |-> "wait", hups |-> <<>>, others |-> <<>>, slot |-> 0]
    BY <1>5 DEF Done, Waiting
  <2> QED
    BY <1>3, <2>1 DEF BatchOK
<1> QED
  BY <1>4, <1>5

(* epoll_wait reports hangups of open slots, and ctrl_sock only while      *)
(* somebody waits to be accepted.                                          *)
LEMMA WaitStep ==
  ASSUME IInv, epoll_wait
  PROVE  IInv'
<1>1. /\ UNCHANGED <<records, conn_vars, client_vars>> /\ Hups \cup Others # {}
  BY DEF epoll_wait
<1>2. PICK h \in Orders(Hups), o \in Orders(Others) :
        at' = [step |-> "handle", hups |-> h, others |-> o, slot |-> 0]
  BY Zenon DEF epoll_wait, Waiting
<1>3. /\ Hups \subseteq Slot /\ IsFiniteSet(Hups)
      /\ Others \subseteq Slot \cup {Listen} /\ IsFiniteSet(Others)
  <2>1. Hups \subseteq Slot /\ Others \subseteq Slot \cup {Listen}
    BY DEF Hups, Others
  <2>2. IsFiniteSet(Slot) /\ IsFiniteSet(Slot \cup {Listen})
    BY OpenFinite, FS_AddElement
  <2> QED
    BY <2>1, <2>2, FS_Subset
<1>4. /\ h \in Seq(Hups) /\ Distinct(h) /\ (Hups # {} => h # <<>>)
      /\ o \in Seq(Others) /\ Distinct(o) /\ (Others # {} => o # <<>>)
  BY <1>3, OrderOf
<1>5. h \in Seq(Slot) /\ o \in Seq(Slot \cup {Listen})
  BY <1>3, <1>4
<1>6. \A k \in DOMAIN h : sock[h[k]] # NULL
  BY <1>4 DEF Hups
<1>7. \A k \in DOMAIN o : o[k] = Listen => backlog # <<>>
  <2>1. \A k \in DOMAIN o : o[k] \in Others
    BY <1>4
  <2>2. Listen \notin Slot
    BY SlotAssumption DEF Listen, Slot
  <2> QED
    BY <2>1, <2>2 DEF Others
<1>8. h # <<>> \/ o # <<>>
  BY <1>1, <1>4
<1>9. BatchOK'
  BY <1>1, <1>2, <1>4, <1>5, <1>6, <1>7, <1>8, SlotAssumption, SMTT(20)
    DEF BatchOK, conn_vars, client_vars
<1>10. ConnOK'
  BY <1>1 DEF IInv, ConnOK, TypeOK, BacklogOK, ClaimsOK, CountOK, Open, OnlySubscribers,
              records, conn_vars, client_vars
<1> QED
  BY <1>9, <1>10 DEF IInv

(* The first pass closes each slot that was hung up once.                  *)
LEMMA FirstPassStep ==
  ASSUME IInv, first_pass
  PROVE  IInv'
<1> DEFINE i == Head(at.hups)
<1>1. /\ at.step = "handle" /\ at.hups # <<>> /\ at.hups \in Seq(Slot) /\ Distinct(at.hups)
      /\ ctrl_data_close(i) /\ UNCHANGED <<pid, mask, backlog, failures>>
  BY DEF first_pass, IInv, BatchOK
<1>2. /\ i = at.hups[1] /\ 1 \in DOMAIN at.hups /\ i \in Slot
      /\ Tail(at.hups) \in Seq(Slot) /\ Distinct(Tail(at.hups))
      /\ Len(at.hups) \in Nat \ {0} /\ (Len(at.hups) = 1 \/ Tail(at.hups) # <<>>)
      /\ \A k \in DOMAIN Tail(at.hups) :
           Tail(at.hups)[k] # i /\ k + 1 \in DOMAIN at.hups /\ Tail(at.hups)[k] = at.hups[k + 1]
  BY <1>1, TailDistinct
<1>3. sock[i] # NULL
  BY <1>2 DEF IInv, BatchOK
<1>4. ConnOK' /\ sock' = [sock EXCEPT ![i] = NULL]
  BY <1>1, <1>2, <1>3, CloseOK DEF IInv
<1>5. BatchOK'
  <2>1. CASE Len(at.hups) = 1 /\ at.others = <<>>
    <3>1. at' = [step |-> "wait", hups |-> <<>>, others |-> <<>>, slot |-> 0]
      BY <2>1 DEF first_pass, Waiting
    <3> QED
      BY <3>1, SlotAssumption DEF BatchOK, Distinct
  <2>2. CASE ~(Len(at.hups) = 1 /\ at.others = <<>>)
    <3>1. at' = [at EXCEPT !.hups = Tail(at.hups)]
      BY <2>2 DEF first_pass
    <3>2. /\ at' \in [step : {"wait", "handle", "drop"}, hups : Seq(Slot),
                      others : Seq(Slot \cup {Listen}), slot : 0..MaxDataConn]
          /\ at'.step = "handle" /\ at'.hups = Tail(at.hups) /\ at'.others = at.others
          /\ at'.slot = 0
      BY <1>1, <1>2, <3>1, Zenon DEF IInv, BatchOK
    <3>3. Tail(at.hups) # <<>> \/ at.others # <<>>
      BY <1>2, <2>2, Zenon
    <3>4. \A k \in DOMAIN Tail(at.hups) : sock'[Tail(at.hups)[k]] # NULL
      <4> SUFFICES ASSUME NEW k \in DOMAIN Tail(at.hups)
                   PROVE  sock'[Tail(at.hups)[k]] # NULL
        OBVIOUS
      <4>1. /\ Tail(at.hups)[k] # i /\ Tail(at.hups)[k] = at.hups[k + 1]
            /\ k + 1 \in DOMAIN at.hups
        BY <1>2
      <4>2. at.hups[k + 1] \in Slot /\ sock[at.hups[k + 1]] # NULL
        BY <1>1, <4>1 DEF IInv, BatchOK
      <4>3. sock \in [Slot -> Conn \cup {NULL}]
        BY DEF IInv, ConnOK, TypeOK
      <4> QED
        BY <1>4, <4>1, <4>2, <4>3
    <3> QED
      BY <1>1, <1>2, <3>2, <3>3, <3>4 DEF IInv, BatchOK
  <2> QED
    BY <2>1, <2>2
<1> QED
  BY <1>4, <1>5 DEF IInv

(* An event of a data connection, also one that became stale: its slot was *)
(* closed earlier in the batch.                                            *)
LEMMA DataStep ==
  ASSUME IInv, NEW i \in Slot, ctrl_data_handler(i)
  PROVE  IInv'
<1>1. /\ at.step = "handle" /\ at.hups = <<>> /\ at' = Done /\ ctrl_command_handler(i)
  BY DEF ctrl_data_handler, Second
<1>2. ConnOK' /\ backlog' = backlog
  BY <1>1, CommandOK DEF IInv
<1>3. at.others # <<>> /\ at.others \in Seq(Slot \cup {Listen}) /\ Distinct(at.others)
  BY <1>1 DEF IInv, BatchOK
<1>4. \A k \in DOMAIN Tail(at.others) : k + 1 \in DOMAIN at.others /\ Tail(at.others)[k] = at.others[k + 1]
  BY <1>3, TailDistinct
<1>5. \A k \in DOMAIN Tail(at.others) : Tail(at.others)[k] = Listen => backlog' # <<>>
  BY <1>2, <1>4 DEF IInv, BatchOK
<1>6. BatchOK'
  BY <1>1, <1>3, <1>5, DoneOK DEF IInv
<1> QED
  BY <1>2, <1>6 DEF IInv

(* The event of ctrl_sock, when a slot is free and when none is.           *)
LEMMA ConnectStep ==
  ASSUME IInv, ctrl_connect_handler
  PROVE  IInv'
<1>1. at.step = "handle" /\ at.hups = <<>> /\ Head(at.others) = Listen
  BY DEF ctrl_connect_handler, Second
<1>2. at.others # <<>> /\ at.others \in Seq(Slot \cup {Listen}) /\ Distinct(at.others)
  BY <1>1 DEF IInv, BatchOK
<1>3. /\ Head(at.others) = at.others[1] /\ 1 \in DOMAIN at.others
      /\ \A k \in DOMAIN Tail(at.others) : Tail(at.others)[k] # Head(at.others)
  BY <1>2, TailDistinct
<1>4. backlog # <<>>
  BY <1>1, <1>3 DEF IInv, BatchOK
<1>5. CASE Free # {}
  <2>1. accept(Lowest(Free)) /\ at' = Done
    BY <1>5 DEF ctrl_connect_handler
  <2>2. ConnOK'
    BY <1>4, <1>5, <2>1, LowestFree, AcceptOK DEF IInv
  <2>3. BatchOK'
    BY <1>1, <1>2, <1>3, <2>1, DoneOK DEF IInv
  <2> QED
    BY <2>2, <2>3 DEF IInv
<1>6. CASE Free = {}
  <2>1. at' = [at EXCEPT !.step = "drop"] /\ UNCHANGED <<records, conn_vars, client_vars>>
    BY <1>6 DEF ctrl_connect_handler
  <2>2. ConnOK'
    BY <2>1 DEF IInv, ConnOK, TypeOK, BacklogOK, ClaimsOK, CountOK, Open, OnlySubscribers,
                records, conn_vars, client_vars
  <2>3. /\ at' \in [step : {"wait", "handle", "drop"}, hups : Seq(Slot),
                    others : Seq(Slot \cup {Listen}), slot : 0..MaxDataConn]
        /\ at'.step = "drop" /\ at'.hups = at.hups /\ at'.others = at.others /\ at'.slot = 0
    BY <1>1, <2>1 DEF IInv, BatchOK
  <2>4. \A j \in Slot : sock[j] # NULL /\ ~(j < 0)
    BY <1>6, SlotAssumption DEF Free, Slot
  <2>5. BatchOK'
    BY <1>1, <1>2, <1>4, <2>1, <2>3, <2>4 DEF IInv, BatchOK, conn_vars, client_vars
  <2> QED
    BY <2>2, <2>5 DEF IInv
<1> QED
  BY <1>5, <1>6

(* The loop that drops all connections, and the accept that ends it.       *)
LEMMA DropStep ==
  ASSUME IInv, drop_connections
  PROVE  IInv'
<1>1. /\ at.step = "drop" /\ at.hups = <<>> /\ at.others # <<>> /\ Head(at.others) = Listen
      /\ at.others \in Seq(Slot \cup {Listen}) /\ Distinct(at.others)
      /\ at.slot \in 0..MaxDataConn
      /\ \A j \in Slot : sock[j] = NULL <=> j < at.slot
  BY DEF drop_connections, IInv, BatchOK
<1>2. /\ Head(at.others) = at.others[1] /\ 1 \in DOMAIN at.others
      /\ \A k \in DOMAIN Tail(at.others) : Tail(at.others)[k] # Head(at.others)
  BY <1>1, TailDistinct
<1>3. backlog # <<>>
  BY <1>1, <1>2 DEF IInv, BatchOK
<1>4. CASE at.slot < MaxDataConn
  <2>1. /\ ctrl_data_close(at.slot) /\ at' = [at EXCEPT !.slot = at.slot + 1]
        /\ UNCHANGED <<pid, mask, backlog, failures>>
    BY <1>4 DEF drop_connections
  <2>2. at.slot \in Slot /\ ~(at.slot < at.slot) /\ at.slot + 1 \in 0..MaxDataConn
    BY <1>1, <1>4, SlotAssumption DEF Slot
  <2>3. ConnOK' /\ sock' = [sock EXCEPT ![at.slot] = NULL]
    BY <1>1, <2>1, <2>2, CloseOK DEF IInv
  <2>4. /\ at' \in [step : {"wait", "handle", "drop"}, hups : Seq(Slot),
                    others : Seq(Slot \cup {Listen}), slot : 0..MaxDataConn]
        /\ at'.step = "drop" /\ at'.hups = at.hups /\ at'.others = at.others
        /\ at'.slot = at.slot + 1
    BY <1>1, <2>1, <2>2 DEF IInv, BatchOK
  <2>5. \A j \in Slot : sock'[j] = NULL <=> j < at.slot + 1
    <3> SUFFICES ASSUME NEW j \in Slot PROVE sock'[j] = NULL <=> j < at.slot + 1
      OBVIOUS
    <3>1. j \in Int /\ at.slot \in Int
      BY <1>1, SlotAssumption DEF Slot
    <3>2. sock \in [Slot -> Conn \cup {NULL}]
      BY DEF IInv, ConnOK, TypeOK
    <3>3. CASE j = at.slot
      BY <2>3, <3>1, <3>2, <3>3
    <3>4. CASE j # at.slot
      BY <1>1, <2>3, <3>1, <3>2, <3>4
    <3> QED
      BY <3>3, <3>4
  <2>6. \A k \in DOMAIN at'.hups : sock'[at'.hups[k]] # NULL
    BY <1>1, <2>4
  <2>7. BatchOK'
    BY <1>1, <1>3, <2>1, <2>4, <2>5, <2>6 DEF IInv, BatchOK
  <2> QED
    BY <2>3, <2>7 DEF IInv
<1>5. CASE ~(at.slot < MaxDataConn)
  <2>1. accept(0) /\ at' = Done
    BY <1>5 DEF drop_connections
  <2>2. 0 \in Slot /\ 0 < at.slot
    BY <1>1, <1>5, SlotAssumption DEF Slot
  <2>3. ConnOK'
    BY <1>1, <1>3, <2>1, <2>2, AcceptOK DEF IInv
  <2>4. BatchOK'
    BY <1>1, <1>2, <2>1, DoneOK DEF IInv
  <2> QED
    BY <2>3, <2>4 DEF IInv
<1> QED
  BY <1>4, <1>5

(* What the clients do.                                                    *)
LEMMA ClientStep ==
  ASSUME IInv, NEW c \in Conn, connect(c) \/ hang_up(c) \/ send(c)
  PROVE  IInv'
<1>1. UNCHANGED <<records, conn_vars, at>>
  BY DEF connect, hang_up, send
<1>2. ClaimsOK' /\ CountOK' /\ OnlySubscribers'
  BY <1>1 DEF IInv, ConnOK, ClaimsOK, CountOK, Open, OnlySubscribers, records, conn_vars
<1>3. CASE connect(c)
  <2>1. end[c] = "idle" /\ end' = [end EXCEPT ![c] = "up"] /\ backlog' = Append(backlog, c)
    BY <1>3 DEF connect
  <2>2. /\ backlog \in Seq(Conn) /\ Distinct(backlog) /\ end \in [Conn -> {"idle", "up", "hup"}]
        /\ \A k \in DOMAIN backlog : backlog[k] # c
    BY <2>1 DEF IInv, ConnOK, BacklogOK, TypeOK
  <2>3. \A i \in Slot : sock[i] # c
    BY <2>1, NameAssumption, SMTT(20) DEF IInv, ConnOK, TypeOK
  <2>4. /\ backlog' \in Seq(Conn) /\ Distinct(backlog') /\ backlog' # <<>>
        /\ \A k \in DOMAIN backlog' : backlog'[k] = c \/ (k \in DOMAIN backlog /\ backlog'[k] = backlog[k])
    BY <2>1, <2>2, AppendDistinct, SMTT(20)
  <2>5. BacklogOK'
    <3>1. ASSUME NEW k \in DOMAIN backlog'
          PROVE  end'[backlog'[k]] \in {"up", "hup"} /\ \A i \in Slot : sock[i] # backlog'[k]
      <4>1. CASE backlog'[k] = c
        BY <2>1, <2>2, <2>3, <4>1
      <4>2. CASE k \in DOMAIN backlog /\ backlog'[k] = backlog[k]
        <5>1. backlog[k] \in Conn /\ end[backlog[k]] \in {"up", "hup"} /\ backlog[k] # c
          BY <2>2, <4>2 DEF IInv, ConnOK, BacklogOK
        <5> QED
          BY <2>1, <2>2, <4>2, <5>1 DEF IInv, ConnOK, BacklogOK
      <4> QED
        BY <2>4, <4>1, <4>2
    <3> QED
      BY <1>1, <2>4, <3>1 DEF BacklogOK, conn_vars
  <2>6. TypeOK'
    BY <1>1, <2>1, <2>3, SMTT(20) DEF IInv, ConnOK, TypeOK, conn_vars
  <2>7. BatchOK'
    BY <1>1, <2>4 DEF IInv, BatchOK, conn_vars
  <2> QED
    BY <1>2, <2>5, <2>6, <2>7 DEF IInv, ConnOK
<1>4. CASE hang_up(c) \/ send(c)
  <2>1. backlog' = backlog /\ (end' = end \/ (end[c] = "up" /\ end' = [end EXCEPT ![c] = "hup"]))
    BY <1>4 DEF hang_up, send
  <2>2. TypeOK'
    BY <1>1, <2>1, SMTT(20) DEF IInv, ConnOK, TypeOK, conn_vars
  <2>3. BacklogOK'
    <3>1. \A k \in DOMAIN backlog : backlog[k] \in Conn /\ end'[backlog[k]] \in {"up", "hup"}
      BY <2>1 DEF IInv, ConnOK, BacklogOK, TypeOK
    <3> QED
      BY <1>1, <2>1, <3>1 DEF IInv, ConnOK, BacklogOK, conn_vars
  <2>4. BatchOK'
    BY <1>1, <2>1 DEF IInv, BatchOK, conn_vars
  <2> QED
    BY <1>2, <2>2, <2>3, <2>4 DEF IInv, ConnOK
<1> QED
  BY <1>3, <1>4

(* The invariant holds of a daemon that has just started ...               *)
LEMMA InitIInv == Init => IInv
<1> SUFFICES ASSUME Init PROVE IInv
  OBVIOUS
<1>1. TypeOK /\ OnlySubscribers
  BY DEF Init, TypeOK, OnlySubscribers
<1>2. BacklogOK
  BY DEF Init, BacklogOK, Distinct
<1>3. ClaimsOK
  BY NameAssumption DEF Init, ClaimsOK, Reg!Init
<1>4. CountOK
  <2>1. Open = {}
    BY DEF Init, Open
  <2> QED
    BY <2>1, FS_EmptySet DEF Init, CountOK
<1>5. BatchOK
  BY SlotAssumption DEF Init, BatchOK, Waiting, Distinct
<1> QED
  BY <1>1, <1>2, <1>3, <1>4, <1>5 DEF IInv, ConnOK

(* ... and every step keeps it.                                            *)
LEMMA NextIInv == IInv /\ [Next]_vars => IInv'
<1> SUFFICES ASSUME IInv, [Next]_vars PROVE IInv'
  OBVIOUS
<1>1. CASE main_thread
  BY <1>1, WaitStep, FirstPassStep, ConnectStep, DropStep, DataStep DEF main_thread
<1>2. CASE \E c \in Conn : connect(c) \/ hang_up(c) \/ send(c)
  BY <1>2, ClientStep
<1>3. CASE UNCHANGED vars
  <2>1. ConnOK'
    <3>0. /\ reg_pid' = reg_pid /\ slots' = slots /\ sock' = sock /\ pid' = pid /\ mask' = mask
          /\ maxevents' = maxevents /\ subscribed' = subscribed /\ failures' = failures
          /\ backlog' = backlog /\ end' = end /\ inbox' = inbox /\ at' = at
      BY <1>3, Zenon DEF vars, records, conn_vars, client_vars
    <3>1. TypeOK' /\ BacklogOK'
      BY <3>0, Zenon DEF IInv, ConnOK, TypeOK, BacklogOK
    <3>2. ClaimsOK'
      BY <3>0, Zenon DEF IInv, ConnOK, ClaimsOK
    <3>3. CountOK' /\ OnlySubscribers'
      BY <3>0, Zenon DEF IInv, ConnOK, CountOK, Open, OnlySubscribers
    <3> QED
      BY <3>1, <3>2, <3>3, Zenon DEF ConnOK
  <2>2. BatchOK'
    BY <1>3 DEF IInv, BatchOK, vars, conn_vars, client_vars
  <2> QED
    BY <2>1, <2>2, SMTT(20) DEF IInv
<1> QED
  BY <1>1, <1>2, <1>3 DEF Next

(* The invariant of the connections and the batch, for every number of     *)
(* connections, clients and slots.                                         *)
THEOREM ConnectionsInvariant == Spec => []IInv
  BY InitIInv, NextIInv, PTL DEF Spec

(* The room that epoll_wait is given is the number of open connections,    *)
(* less the accepted ones that could not be added to epollfd.              *)
THEOREM EventsAreCounted == Spec => []EventsCounted
<1>1. IInv => EventsCounted
  BY DEF IInv, ConnOK, CountOK, Open, EventsCounted
<1> QED
  BY <1>1, ConnectionsInvariant, PTL

(* ctrl_data_close unclaims in time: the registrant of a claimed record    *)
(* always has an open connection.                                          *)
THEOREM ClaimantsAreConnected == Spec => []ClaimantConnected
<1>1. IInv => ClaimantConnected
  BY DEF IInv, ConnOK, ClaimsOK, ClaimantConnected
<1> QED
  BY <1>1, ConnectionsInvariant, PTL

(* No connection inherits the subscriptions of the one that had its slot.  *)
THEOREM OnlySubscribersNotified == Spec => []OnlySubscribers
<1>1. IInv => OnlySubscribers
  BY DEF IInv, ConnOK
<1> QED
  BY <1>1, ConnectionsInvariant, PTL
=============================================================================
