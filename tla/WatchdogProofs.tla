--------------------------- MODULE WatchdogProofs ---------------------------
(***************************************************************************)
(* Proofs about Watchdog: for any number of processes, oom_score_adj       *)
(* values and descriptors, the watchdog thread never follows a pointer     *)
(* into a record that the main thread has freed.  The second part proves   *)
(* what VictimSearch says of the main thread's own choice of a victim.     *)
(***************************************************************************)
EXTENDS Watchdog, TLAPS

(* The record in hand, while the main thread is at one of the places.      *)
InHand(places) == IF main.at \in places THEN {main.rec} ELSE {}

(* The records in the hash chain, and those in the lists.                  *)
Linked == alloc \ InHand({"unslot", "free"})
Slotted == alloc \ InHand({"slot", "free"})

(* The types of the watchdog thread's state.                               *)
DogOK ==
  /\ dog \in [at : {"sigwait", "find", "kill", "invalidate", "walk", "crashed"},
              score : Int, prev_pid : Proc \cup {NULL},
              target : [pid : Proc, pidfd : Fd, valid : BOOLEAN] \cup {NULL},
              ptr : Proc \cup {NULL}]
  /\ dog.at \in {"find", "kill"} => dog.score \in Score
  /\ dog.at = "kill" => dog.target \in [pid : Proc, pidfd : Fd, valid : BOOLEAN]

(* The types of the two threads' own state.                                *)
ThreadsOK ==
  /\ main \in [at : {"idle", "handler", "slot", "unslot", "free", "hung"},
               rec : Proc \cup {NULL}]
  /\ main.at \in {"slot", "unslot", "free"} => main.rec \in alloc
  /\ DogOK

(* A record has one descriptor of its own, open until it is freed.         *)
RecordsOK ==
  /\ alloc \in SUBSET Proc
  /\ oomadj \in [Proc -> Int] /\ valid \in [Proc -> BOOLEAN]
  /\ pidfd \in [Proc -> Int]
  /\ \A p \in alloc : oomadj[p] \in Score /\ pidfd[p] \in Fd
  /\ files \in [Fd -> Proc \cup {NULL}]
  /\ \A f \in Fd : files[f] # NULL => files[f] \in alloc /\ pidfd[files[f]] = f
  /\ state \in [Proc -> {"running", "dying", "dead"}]

(* A list holds each of its records once.                                  *)
Distinct(s) == \A i, j \in DOMAIN s : s[i] = s[j] => i = j

(* The list of s holds the slotted records with oomadj s, each once.       *)
SlotsOK ==
  /\ slots \in [Score -> Seq(Proc)]
  /\ \A s \in Score : Distinct(slots[s]) /\ Range(slots[s]) = {p \in Slotted : oomadj[p] = s}

(* The chain is closed under pidhash_next, its head has no predecessor and *)
(* no record has two; a record that was unlinked and not yet freed still   *)
(* points to an allocated record.                                          *)
ChainOK ==
  /\ hnext \in [Proc -> Proc \cup {NULL}]
  /\ bucket \in Linked \cup {NULL}
  /\ \A p \in alloc : hnext[p] \in alloc \cup {NULL}
  /\ \A p \in Linked : hnext[p] \in Linked \cup {NULL}
  /\ \A p \in Linked : hnext[p] # NULL => hnext[p] # bucket
  /\ \A p, q \in Linked : hnext[p] # NULL /\ hnext[p] = hnext[q] => p = q

(* Where the walk of pid_invalidate may be: at any record before the main  *)
(* thread has had the lock, and only in the chain when it is about to free.*)
WalkOK ==
  dog.at = "walk" =>
    /\ dog.ptr \in alloc \cup {NULL}
    /\ main.at = "free" => dog.ptr # main.rec

IInv == ThreadsOK /\ RecordsOK /\ SlotsOK /\ ChainOK /\ WalkOK

-----------------------------------------------------------------------------
(* Lemmas about the operators.                                             *)

(* adjslot_remove takes one record out of a list and keeps the others.     *)
LEMMA RemoveOne ==
  ASSUME NEW s \in Seq(Proc), Distinct(s), NEW p \in Range(s)
  PROVE  /\ adjslot_remove(s, p) \in Seq(Proc) /\ Distinct(adjslot_remove(s, p))
         /\ Range(adjslot_remove(s, p)) = Range(s) \ {p}
<1> DEFINE i == CHOOSE k \in DOMAIN s : s[k] = p
           r == adjslot_remove(s, p)
<1>1. i \in DOMAIN s /\ s[i] = p
  BY DEF Range
<1>2. /\ Len(s) \in Nat /\ DOMAIN s = 1..Len(s) /\ i \in 1..Len(s)
      /\ \A k \in 1..Len(s) : s[k] \in Proc
  BY <1>1
<1>3. r = SubSeq(s, 1, i - 1) \o SubSeq(s, i + 1, Len(s))
  BY DEF adjslot_remove
<1> HIDE DEF i, r
<1>4. /\ r \in Seq(Proc) /\ Len(r) = Len(s) - 1
      /\ \A k \in 1..(Len(s) - 1) : r[k] = IF k < i THEN s[k] ELSE s[k + 1]
  <2> DEFINE u == SubSeq(s, 1, i - 1)
             v == SubSeq(s, i + 1, Len(s))
  <2>1. /\ u \in Seq(Proc) /\ Len(u) = i - 1
        /\ \A k \in 1..(i - 1) : u[k] = s[k]
    BY <1>2
  <2>2. /\ v \in Seq(Proc) /\ Len(v) = Len(s) - i
        /\ \A k \in 1..(Len(s) - i) : v[k] = s[k + i]
    <3>1. i + 1 \in Int /\ Len(s) \in Int /\ \A k \in (i + 1)..Len(s) : s[k] \in Proc
      BY <1>2
    <3>2. /\ v \in Seq(Proc)
          /\ Len(v) = IF i + 1 <= Len(s) THEN Len(s) - (i + 1) + 1 ELSE 0
          /\ \A k \in 1..(Len(s) - (i + 1) + 1) : v[k] = s[(i + 1) + k - 1]
      BY <3>1
    <3> HIDE DEF v
    <3>3. Len(v) = Len(s) - i
      <4>1. Len(s) \in Int /\ i \in Int /\ i <= Len(s)
        BY <1>2
      <4>2. Len(v) = IF i + 1 <= Len(s) THEN Len(s) - (i + 1) + 1 ELSE 0
        BY <3>2
      <4> QED
        BY <4>1, <4>2
    <3>4. ASSUME NEW k \in 1..(Len(s) - i) PROVE v[k] = s[k + i]
      <4>1. k \in 1..(Len(s) - (i + 1) + 1) /\ (i + 1) + k - 1 = k + i
        BY <1>2
      <4> QED
        BY <3>2, <4>1
    <3> QED
      BY <3>2, <3>3, <3>4
  <2> HIDE DEF u, v
  <2>3. r = u \o v
    BY <1>3 DEF u, v
  <2>4. /\ r \in Seq(Proc) /\ Len(r) = Len(u) + Len(v)
        /\ \A k \in 1..(Len(u) + Len(v)) :
             r[k] = IF k <= Len(u) THEN u[k] ELSE v[k - Len(u)]
    <3>1. u \in Seq(Proc) /\ v \in Seq(Proc)
      BY <2>1, <2>2
    <3>2. Len(u) \in Nat /\ Len(v) \in Nat
      BY <3>1
    <3>3. r \in Seq(Proc) /\ Len(r) = Len(u) + Len(v)
      BY <2>3, <3>1
    <3>4. ASSUME NEW k \in 1..(Len(u) + Len(v))
          PROVE  r[k] = IF k <= Len(u) THEN u[k] ELSE v[k - Len(u)]
      BY <2>3, <3>1, <3>2
    <3> QED
      BY <3>3, <3>4
  <2>5. Len(r) = Len(s) - 1
    BY <1>2, <2>1, <2>2, <2>4
  <2>6. ASSUME NEW k \in 1..(Len(s) - 1)
        PROVE  r[k] = IF k < i THEN s[k] ELSE s[k + 1]
    <3>1. r[k] = IF k <= i - 1 THEN u[k] ELSE v[k - (i - 1)]
      BY <1>2, <2>1, <2>2, <2>4
    <3>2. CASE k < i
      BY <1>2, <2>1, <3>1, <3>2
    <3>3. CASE k >= i
      <4>1. k - (i - 1) \in 1..(Len(s) - i) /\ (k - (i - 1)) + i = k + 1
        BY <1>2, <3>3
      <4> QED
        BY <1>2, <2>2, <3>1, <3>3, <4>1
    <3> QED
      BY <1>2, <3>2, <3>3
  <2> QED
    BY <2>4, <2>5, <2>6
<1>5. DOMAIN r = 1..(Len(s) - 1)
  BY <1>4
<1>6. Distinct(r)
  <2> SUFFICES ASSUME NEW j \in 1..(Len(s) - 1), NEW k \in 1..(Len(s) - 1), r[j] = r[k]
               PROVE  j = k
    BY <1>5 DEF Distinct
  <2> DEFINE skip(n) == IF n < i THEN n ELSE n + 1
  <2>1. skip(j) \in 1..Len(s) /\ skip(k) \in 1..Len(s)
    BY <1>2
  <2>2. s[skip(j)] = s[skip(k)]
    BY <1>4
  <2>3. skip(j) = skip(k)
    BY <1>2, <2>1, <2>2 DEF Distinct
  <2> QED
    BY <1>2, <2>3
<1>7. ASSUME NEW x \in Range(r) PROVE x \in Range(s) \ {p}
  <2>1. PICK k \in 1..(Len(s) - 1) : x = r[k]
    BY <1>5 DEF Range
  <2>2. PICK j \in 1..Len(s) : x = s[j] /\ j # i
    <3>1. CASE k < i
      BY <1>2, <1>4, <2>1, <3>1
    <3>2. CASE k >= i
      <4>1. k + 1 \in 1..Len(s) /\ k + 1 # i /\ x = s[k + 1]
        BY <1>2, <1>4, <2>1, <3>2
      <4> QED
        BY <4>1
    <3> QED
      BY <1>2, <3>1, <3>2
  <2>3. s[j] # s[i]
    BY <1>1, <1>2, <2>2 DEF Distinct
  <2> QED
    BY <1>1, <1>2, <2>2, <2>3 DEF Range
<1>8. ASSUME NEW x \in Range(s), x # p PROVE x \in Range(r)
  <2>1. PICK k \in 1..Len(s) : x = s[k]
    BY <1>2 DEF Range
  <2>2. k # i
    BY <1>1, <1>8, <2>1
  <2>3. CASE k < i
    <3>1. k \in DOMAIN r /\ r[k] = x
      BY <1>2, <1>4, <1>5, <2>1, <2>3
    <3> QED
      BY <3>1 DEF Range
  <2>4. CASE k > i
    <3>1. k - 1 \in DOMAIN r /\ r[k - 1] = x
      BY <1>2, <1>4, <1>5, <2>1, <2>4
    <3> QED
      BY <3>1 DEF Range
  <2> QED
    BY <1>2, <2>2, <2>3, <2>4
<1> QED
  BY <1>4, <1>6, <1>7, <1>8 DEF r

(* What proc_unslot leaves of the lists: everything but the record.        *)
LEMMA UnslottedLists ==
  ASSUME RecordsOK, SlotsOK, NEW p \in Slotted
  PROVE  /\ Unslotted(p) \in [Score -> Seq(Proc)]
         /\ \A s \in Score : /\ Distinct(Unslotted(p)[s])
                            /\ Range(Unslotted(p)[s]) = {q \in Slotted \ {p} : oomadj[q] = s}
<1> DEFINE a == oomadj[p]
           r == adjslot_remove(slots[a], p)
<1>1. p \in alloc /\ a \in Score
  BY DEF Slotted, RecordsOK
<1>2. slots[a] \in Seq(Proc) /\ Distinct(slots[a]) /\ p \in Range(slots[a])
  BY <1>1 DEF SlotsOK
<1>3. r \in Seq(Proc) /\ Distinct(r) /\ Range(r) = Range(slots[a]) \ {p}
  BY <1>2, RemoveOne
<1> HIDE DEF r
<1>4. /\ Unslotted(p) \in [Score -> Seq(Proc)] /\ Unslotted(p)[a] = r
      /\ \A s \in Score \ {a} : Unslotted(p)[s] = slots[s]
  BY <1>1, <1>3 DEF Unslotted, SlotsOK, r
<1>5. Range(slots[a]) = {q \in Slotted : oomadj[q] = a}
  BY <1>1 DEF SlotsOK
<1>6. ASSUME NEW s \in Score
      PROVE  /\ Distinct(Unslotted(p)[s])
             /\ Range(Unslotted(p)[s]) = {q \in Slotted \ {p} : oomadj[q] = s}
  <2>1. CASE s = a
    <3>1. Range(r) = {q \in Slotted \ {p} : oomadj[q] = a}
      BY <1>3, <1>5
    <3> QED
      BY <1>3, <1>4, <2>1, <3>1
  <2>2. CASE s # a
    <3>1. Unslotted(p)[s] = slots[s] /\ Distinct(slots[s])
          /\ Range(slots[s]) = {q \in Slotted : oomadj[q] = s}
      BY <1>4, <2>2 DEF SlotsOK
    <3>2. {q \in Slotted : oomadj[q] = s} = {q \in Slotted \ {p} : oomadj[q] = s}
      BY <2>2
    <3> QED
      BY <3>1, <3>2
  <2> QED
    BY <2>1, <2>2
<1> QED
  BY <1>4, <1>6
-----------------------------------------------------------------------------
(* The invariant is inductive.                                             *)

(* It holds of a service that has just started.                            *)
LEMMA InitIInv == Init => IInv
<1> SUFFICES ASSUME Init PROVE IInv
  OBVIOUS
<1>1. ThreadsOK
  BY DEF Init, ThreadsOK, DogOK, Asleep
<1>2. RecordsOK
  BY DEF Init, RecordsOK
<1>3. SlotsOK
  <2>1. Slotted = {}
    BY DEF Init, Slotted, InHand
  <2>2. \A s \in Score : slots[s] = <<>>
    BY DEF Init
  <2>3. Distinct(<<>>) /\ Range(<<>>) = {}
    BY DEF Distinct, Range
  <2> QED
    BY <2>1, <2>2, <2>3 DEF Init, SlotsOK
<1>4. ChainOK
  BY DEF Init, ChainOK, Linked, InHand
<1>5. WalkOK
  BY DEF Init, WalkOK, Asleep
<1> QED
  BY <1>1, <1>2, <1>3, <1>4, <1>5 DEF IInv

(* Steps that change neither the lists nor which records are slotted.      *)
LEMMA SameLists ==
  ASSUME SlotsOK, slots' = slots, oomadj' = oomadj, Slotted' = Slotted
  PROVE  SlotsOK'
  BY DEF SlotsOK

(* Steps that change neither the chain nor which records are in it.        *)
LEMMA SameChain ==
  ASSUME ChainOK, hnext' = hnext, bucket' = bucket, alloc' = alloc, Linked' = Linked
  PROVE  ChainOK'
  BY DEF ChainOK

(* The steps of call_handler, and a handler that hangs.                    *)
LEMMA HandlerStep ==
  ASSUME IInv, call_handler_start \/ call_handler_end \/ handler_hangs
  PROVE  IInv'
<1>1. /\ UNCHANGED <<registry, state, dog>>
      /\ main.at \in {"idle", "handler"}
      /\ main' \in [at : {"idle", "handler", "hung"}, rec : {NULL}]
  BY DEF IInv, ThreadsOK, DogOK, call_handler_start, call_handler_end, handler_hangs, Main
<1>2. Linked' = Linked /\ Slotted' = Slotted
  BY <1>1 DEF Linked, Slotted, InHand, registry
<1>3. ThreadsOK'
  BY <1>1 DEF IInv, ThreadsOK, DogOK, registry
<1>4. RecordsOK'
  BY <1>1 DEF IInv, RecordsOK, registry
<1>5. SlotsOK' /\ ChainOK'
  BY <1>1, <1>2, SameLists, SameChain DEF IInv, registry
<1>6. WalkOK'
  BY <1>1 DEF IInv, WalkOK, registry
<1> QED
  BY <1>3, <1>4, <1>5, <1>6 DEF IInv

(* A new record is the head of the chain before it is in a list.           *)
LEMMA InsertStep ==
  ASSUME IInv, NEW p \in Proc, NEW s \in Score, NEW f \in Fd, proc_insert(p, s, f)
  PROVE  IInv'
<1>1. /\ main.at = "handler" /\ main' = [at |-> "slot", rec |-> p]
      /\ p \notin alloc /\ alloc' = alloc \cup {p}
      /\ hnext' = [hnext EXCEPT ![p] = bucket] /\ bucket' = p
      /\ oomadj' = [oomadj EXCEPT ![p] = s]
      /\ UNCHANGED <<slots, state, timer, dog>>
  BY DEF proc_insert, Main
<1>2. Linked = alloc /\ Linked' = alloc \cup {p} /\ Slotted = alloc /\ Slotted' = alloc
  BY <1>1 DEF Linked, Slotted, InHand
<1>3. p # NULL /\ alloc \subseteq Proc /\ s \in Int
  BY NullAssumption, ScoreAssumption DEF IInv, RecordsOK
<1>4. ThreadsOK'
  BY <1>1 DEF IInv, ThreadsOK, DogOK
<1>5. RecordsOK'
  <2>1. /\ pidfd' = [pidfd EXCEPT ![p] = f] /\ files' = [files EXCEPT ![f] = p]
        /\ valid' = [valid EXCEPT ![p] = TRUE] /\ files[f] = NULL
    BY DEF proc_insert
  <2>2. f \in Int
    BY FdAssumption
  <2>3. ASSUME NEW g \in Fd, files'[g] # NULL
        PROVE  files'[g] \in alloc' /\ pidfd'[files'[g]] = g
    BY <1>1, <1>3, <2>1, <2>3 DEF IInv, RecordsOK
  <2> QED
    BY <1>1, <1>3, <2>1, <2>2, <2>3 DEF IInv, RecordsOK
<1>6. SlotsOK'
  <2>1. \A t \in Score : {q \in Slotted' : oomadj'[q] = t} = {q \in Slotted : oomadj[q] = t}
    BY <1>1, <1>2, <1>3 DEF IInv, RecordsOK
  <2> QED
    BY <1>1, <2>1 DEF IInv, SlotsOK
<1>7. ChainOK'
  BY <1>1, <1>2, <1>3 DEF IInv, ChainOK
<1>8. WalkOK'
  BY <1>1 DEF IInv, WalkOK
<1> QED
  BY <1>4, <1>5, <1>6, <1>7, <1>8 DEF IInv

(* proc_slot puts the record at the head of the list of its oomadj.        *)
LEMMA SlotStep ==
  ASSUME IInv, proc_slot
  PROVE  IInv'
<1> DEFINE p == main.rec
           a == oomadj[p]
<1>1. /\ main.at = "slot" /\ main' = [at |-> "handler", rec |-> NULL]
      /\ slots' = [slots EXCEPT ![a] = <<p>> \o slots[a]]
      /\ UNCHANGED <<bucket, hnext, alloc, oomadj, pidfd, valid, files, state, timer, dog>>
  BY DEF proc_slot, Main
<1>2. p \in alloc /\ p \in Proc /\ a \in Score
  BY <1>1 DEF IInv, ThreadsOK, DogOK, RecordsOK
<1>3. Linked' = Linked /\ Slotted = alloc \ {p} /\ Slotted' = alloc
  BY <1>1 DEF Linked, Slotted, InHand
<1>4. ThreadsOK' /\ RecordsOK' /\ WalkOK'
  BY <1>1 DEF IInv, ThreadsOK, DogOK, RecordsOK, WalkOK
<1>5. ChainOK'
  BY <1>1, <1>3, SameChain DEF IInv
<1>6. SlotsOK'
  <2> DEFINE l == slots[a]
             r == <<p>> \o l
  <2>1. l \in Seq(Proc) /\ Distinct(l) /\ Range(l) = {q \in alloc \ {p} : oomadj[q] = a}
    BY <1>2, <1>3 DEF IInv, SlotsOK
  <2>2. /\ r \in Seq(Proc) /\ Len(r) = Len(l) + 1 /\ r[1] = p
        /\ \A i \in 2..(Len(l) + 1) : r[i] = l[i - 1]
    BY <1>2, <2>1
  <2>3. DOMAIN r = 1..(Len(l) + 1) /\ DOMAIN l = 1..Len(l) /\ Len(l) \in Nat
    BY <2>1, <2>2
  <2> HIDE DEF r, l
  <2>4. \A i \in 1..Len(l) : l[i] # p
    BY <2>1, <2>3, Zenon DEF Range
  <2>5. Distinct(r)
    <3> SUFFICES ASSUME NEW i \in 1..(Len(l) + 1), NEW j \in 1..(Len(l) + 1), r[i] = r[j]
                 PROVE  i = j
      BY <2>3 DEF Distinct
    <3>1. \A k \in 2..(Len(l) + 1) : k - 1 \in 1..Len(l) /\ r[k] # p
      BY <2>2, <2>3, <2>4
    <3>2. CASE i = 1 \/ j = 1
      BY <2>2, <2>3, <3>1, <3>2
    <3>3. CASE i # 1 /\ j # 1
      <4>1. l[i - 1] = l[j - 1] /\ i - 1 \in DOMAIN l /\ j - 1 \in DOMAIN l
        BY <2>2, <2>3, <3>3
      <4>2. i - 1 = j - 1
        BY <2>1, <4>1 DEF Distinct
      <4> QED
        BY <2>3, <4>2
    <3> QED
      BY <3>2, <3>3
  <2>6. Range(r) = Range(l) \cup {p}
    <3>1. ASSUME NEW x \in Range(r) PROVE x \in Range(l) \cup {p}
      BY <2>2, <2>3 DEF Range
    <3>2. p \in Range(r)
      BY <2>2, <2>3 DEF Range
    <3>3. ASSUME NEW x \in Range(l) PROVE x \in Range(r)
      <4>1. PICK i \in 1..Len(l) : x = l[i]
        BY <2>3 DEF Range
      <4>2. i + 1 \in DOMAIN r /\ r[i + 1] = x
        BY <2>2, <2>3, <4>1
      <4> QED
        BY <4>2 DEF Range
    <3> QED
      BY <3>1, <3>2, <3>3
  <2>7. Range(r) = {q \in alloc : oomadj[q] = a}
    BY <1>2, <2>1, <2>6, SMTT(20)
  <2>8. /\ slots' \in [Score -> Seq(Proc)] /\ slots'[a] = r
        /\ \A t \in Score \ {a} : slots'[t] = slots[t]
    BY <1>1, <1>2, <2>2 DEF IInv, SlotsOK, r, l
  <2>9. \A t \in Score \ {a} : {q \in alloc : oomadj[q] = t} = {q \in alloc \ {p} : oomadj[q] = t}
    OBVIOUS
  <2>10. ASSUME NEW t \in Score
         PROVE  Distinct(slots'[t]) /\ Range(slots'[t]) = {q \in Slotted' : oomadj'[q] = t}
    <3>1. CASE t = a
      BY <1>1, <1>3, <2>5, <2>7, <2>8, <3>1, Zenon
    <3>2. CASE t # a
      <4>1. slots'[t] = slots[t] /\ Distinct(slots[t])
            /\ Range(slots[t]) = {q \in alloc \ {p} : oomadj[q] = t}
        BY <1>3, <2>8, <3>2 DEF IInv, SlotsOK
      <4> QED
        BY <1>1, <1>3, <2>9, <3>2, <4>1
    <3> QED
      BY <3>1, <3>2
  <2> QED
    BY <2>8, <2>10 DEF SlotsOK
<1> QED
  BY <1>4, <1>5, <1>6 DEF IInv
(* update_record takes a record out of its list before it moves.           *)
LEMMA UpdateStep ==
  ASSUME IInv, NEW p \in Proc, NEW s \in Score, update_record(p, s)
  PROVE  IInv'
<1>1. /\ main.at = "handler" /\ main' = [at |-> "slot", rec |-> p] /\ p \in alloc
      /\ slots' = Unslotted(p) /\ oomadj' = [oomadj EXCEPT ![p] = s]
      /\ UNCHANGED <<bucket, hnext, alloc, pidfd, valid, files, state, timer, dog>>
  BY DEF update_record, Main
<1>2. Linked' = Linked /\ Slotted = alloc /\ Slotted' = alloc \ {p}
  BY <1>1 DEF Linked, Slotted, InHand
<1>3. s \in Int
  BY ScoreAssumption
<1>4. ThreadsOK' /\ RecordsOK' /\ WalkOK'
  BY <1>1, <1>3 DEF IInv, ThreadsOK, DogOK, RecordsOK, WalkOK
<1>5. ChainOK'
  BY <1>1, <1>2, SameChain DEF IInv
<1>6. SlotsOK'
  <2>1. /\ slots' \in [Score -> Seq(Proc)]
        /\ \A t \in Score : /\ Distinct(slots'[t])
                            /\ Range(slots'[t]) = {q \in Slotted \ {p} : oomadj[q] = t}
    BY <1>1, <1>2, UnslottedLists DEF IInv
  <2>2. \A t \in Score : {q \in Slotted \ {p} : oomadj[q] = t} = {q \in Slotted' : oomadj'[q] = t}
    BY <1>1, <1>2 DEF IInv, RecordsOK
  <2> QED
    BY <2>1, <2>2 DEF SlotsOK
<1> QED
  BY <1>4, <1>5, <1>6 DEF IInv

(* pid_remove unlinks a record; the walk may still stand on it.            *)
LEMMA RemoveStep ==
  ASSUME IInv, NEW p \in Proc, pid_remove(p)
  PROVE  IInv'
<1>1. /\ main.at = "handler" /\ main' = [at |-> "unslot", rec |-> p] /\ p \in alloc
      /\ UNCHANGED <<slots, alloc, oomadj, pidfd, valid, files, state, timer, dog>>
  BY DEF pid_remove, Main
<1>2. Linked = alloc /\ Linked' = alloc \ {p} /\ Slotted' = Slotted
  BY <1>1 DEF Linked, Slotted, InHand
<1>3. alloc \subseteq Proc /\ p # NULL
  BY NullAssumption DEF IInv, RecordsOK
<1>4. ThreadsOK' /\ RecordsOK' /\ WalkOK'
  BY <1>1 DEF IInv, ThreadsOK, DogOK, RecordsOK, WalkOK
<1>5. SlotsOK'
  BY <1>1, <1>2, SameLists DEF IInv
<1>6. ChainOK'
  <2>1. CASE bucket = p
    <3>1. bucket' = hnext[p] /\ hnext' = hnext
      BY <2>1 DEF pid_remove
    <3> QED
      BY <1>1, <1>2, <1>3, <2>1, <3>1 DEF IInv, ChainOK
  <2>2. CASE bucket # p
    <3>1. /\ bucket' = bucket
          /\ hnext' = [q \in Proc |-> IF q \in alloc /\ hnext[q] = p THEN hnext[p] ELSE hnext[q]]
      BY <2>2 DEF pid_remove
    <3>2. /\ hnext \in [Proc -> Proc \cup {NULL}] /\ bucket \in alloc \cup {NULL}
          /\ \A q \in alloc : hnext[q] \in alloc \cup {NULL}
          /\ \A q \in alloc : hnext[q] # NULL => hnext[q] # bucket
          /\ \A q, r \in alloc : hnext[q] # NULL /\ hnext[q] = hnext[r] => q = r
      BY <1>2 DEF IInv, ChainOK
    <3>3. hnext' \in [Proc -> Proc \cup {NULL}] /\ \A q \in alloc : hnext'[q] \in alloc \cup {NULL}
      BY <1>3, <3>1, <3>2
    <3>4. \A q \in alloc \ {p} : hnext'[q] \in (alloc \ {p}) \cup {NULL}
      BY <1>1, <1>3, <3>1, <3>2
    <3>5. \A q \in alloc \ {p} : hnext'[q] # NULL => hnext'[q] # bucket
      BY <1>1, <1>3, <3>1, <3>2
    <3>6. \A q, r \in alloc \ {p} : hnext'[q] # NULL /\ hnext'[q] = hnext'[r] => q = r
      BY <1>1, <1>3, <3>1, <3>2
    <3> QED
      BY <1>1, <1>2, <2>2, <3>1, <3>2, <3>3, <3>4, <3>5, <3>6 DEF ChainOK
  <2> QED
    BY <2>1, <2>2
<1> QED
  BY <1>4, <1>5, <1>6 DEF IInv

(* proc_unslot waits until no walk is under way.                           *)
LEMMA UnslotStep ==
  ASSUME IInv, proc_unslot
  PROVE  IInv'
<1> DEFINE p == main.rec
<1>1. /\ main.at = "unslot" /\ main' = [at |-> "free", rec |-> p] /\ dog.at # "walk"
      /\ slots' = Unslotted(p)
      /\ UNCHANGED <<bucket, hnext, alloc, oomadj, pidfd, valid, files, state, timer, dog>>
  BY DEF proc_unslot, Main, Reading
<1>2. p \in alloc /\ p \in Proc
  BY <1>1 DEF IInv, ThreadsOK, DogOK, RecordsOK
<1>3. Linked' = Linked /\ Slotted = alloc /\ Slotted' = alloc \ {p}
  BY <1>1 DEF Linked, Slotted, InHand
<1>4. ThreadsOK' /\ RecordsOK' /\ WalkOK'
  BY <1>1, <1>2 DEF IInv, ThreadsOK, DogOK, RecordsOK, WalkOK
<1>5. ChainOK'
  BY <1>1, <1>3, SameChain DEF IInv
<1>6. SlotsOK'
  <2>1. /\ slots' \in [Score -> Seq(Proc)]
        /\ \A t \in Score : /\ Distinct(slots'[t])
                            /\ Range(slots'[t]) = {q \in Slotted \ {p} : oomadj[q] = t}
    BY <1>1, <1>2, <1>3, UnslottedLists DEF IInv
  <2> QED
    BY <1>1, <1>3, <2>1 DEF SlotsOK
<1> QED
  BY <1>4, <1>5, <1>6 DEF IInv

(* The record that is freed is in no list and not in the chain, and no     *)
(* walk stands on it.                                                      *)
LEMMA FreeStep ==
  ASSUME IInv, close_and_free
  PROVE  IInv'
<1> DEFINE p == main.rec
<1>1. /\ main.at = "free" /\ main' = [at |-> "handler", rec |-> NULL]
      /\ alloc' = alloc \ {p}
      /\ files' = [files EXCEPT ![pidfd[p]] = NULL]
      /\ hnext' = [q \in Proc |-> IF q = p THEN NULL ELSE hnext[q]]
      /\ oomadj' = [q \in Proc |-> IF q = p THEN 0 ELSE oomadj[q]]
      /\ pidfd' = [q \in Proc |-> IF q = p THEN -1 ELSE pidfd[q]]
      /\ valid' = [q \in Proc |-> q # p /\ valid[q]]
      /\ UNCHANGED <<bucket, slots, state, timer, dog>>
  BY DEF close_and_free, Forget, Main
<1>2. p \in alloc /\ p \in Proc /\ alloc \subseteq Proc /\ p # NULL
  BY <1>1, NullAssumption DEF IInv, ThreadsOK, DogOK, RecordsOK
<1>3. /\ Linked = alloc \ {p} /\ Linked' = alloc \ {p}
      /\ Slotted = alloc \ {p} /\ Slotted' = alloc \ {p}
  BY <1>1 DEF Linked, Slotted, InHand
<1>4. ThreadsOK'
  BY <1>1 DEF IInv, ThreadsOK, DogOK
<1>5. RecordsOK'
  <2>1. valid' \in [Proc -> BOOLEAN]
    BY <1>1
  <2>2. oomadj' \in [Proc -> Int] /\ pidfd' \in [Proc -> Int] /\ files' \in [Fd -> Proc \cup {NULL}]
    BY <1>1, <1>2 DEF IInv, RecordsOK
  <2>3. \A q \in alloc' : oomadj'[q] \in Score /\ pidfd'[q] \in Fd
    BY <1>1, <1>2 DEF IInv, RecordsOK
  <2>4. ASSUME NEW f \in Fd, files'[f] # NULL
        PROVE  files'[f] \in alloc' /\ pidfd'[files'[f]] = f
    <3>1. pidfd[p] \in Fd /\ f # pidfd[p] /\ files'[f] = files[f]
      BY <1>1, <1>2, <2>4 DEF IInv, RecordsOK
    <3>2. files[f] \in alloc /\ pidfd[files[f]] = f
      BY <2>4, <3>1 DEF IInv, RecordsOK
    <3> QED
      BY <1>1, <1>2, <3>1, <3>2
  <2> QED
    BY <1>1, <1>2, <2>1, <2>2, <2>3, <2>4, SMTT(20) DEF IInv, RecordsOK
<1>6. SlotsOK'
  <2>1. \A t \in Score : {q \in Slotted' : oomadj'[q] = t} = {q \in Slotted : oomadj[q] = t}
    BY <1>1, <1>2, <1>3
  <2> QED
    BY <1>1, <2>1, Zenon DEF IInv, SlotsOK
<1>7. ChainOK'
  BY <1>1, <1>2, <1>3 DEF IInv, ChainOK
<1>8. WalkOK'
  BY <1>1 DEF IInv, WalkOK
<1> QED
  BY <1>4, <1>5, <1>6, <1>7, <1>8 DEF IInv

(* Steps that leave the main thread and the registry alone.                *)
LEMMA DogStep ==
  ASSUME IInv, UNCHANGED <<main, registry>>, ThreadsOK', WalkOK',
         state' \in [Proc -> {"running", "dying", "dead"}]
  PROVE  IInv'
<1>1. Linked' = Linked /\ Slotted' = Slotted
  BY DEF Linked, Slotted, InHand, registry
<1>2. SlotsOK' /\ ChainOK'
  BY <1>1, SameLists, SameChain DEF IInv, registry
<1>3. RecordsOK'
  BY DEF IInv, RecordsOK, registry
<1> QED
  BY <1>2, <1>3 DEF IInv

(* The timer, an exit, and a stuttering step.                              *)
LEMMA QuietStep ==
  ASSUME IInv, \/ create_timer \/ timer_expires \/ \E p \in Proc : exit(p)
               \/ UNCHANGED vars
  PROVE  IInv'
<1>1. UNCHANGED <<main, registry, dog>> /\ state' \in [Proc -> {"running", "dying", "dead"}]
  BY DEF IInv, RecordsOK, create_timer, timer_expires, exit, vars
<1>2. ThreadsOK' /\ WalkOK'
  BY <1>1 DEF IInv, ThreadsOK, DogOK, WalkOK, registry
<1> QED
  BY <1>1, <1>2, DogStep

(* A bite starts at the highest score.                                     *)
LEMMA BiteStep ==
  ASSUME IInv, bite
  PROVE  IInv'
<1>1. /\ UNCHANGED <<main, registry, state>>
      /\ \E s \in Highest(Score) : dog' = [Asleep EXCEPT !.at = "find", !.score = s]
  BY Zenon DEF bite
<1>2. PICK s \in Score : dog' = [Asleep EXCEPT !.at = "find", !.score = s]
  BY <1>1, Zenon DEF Highest
<1>3. /\ Score \subseteq Int
      /\ dog' = [at |-> "find", score |-> s, prev_pid |-> NULL, target |-> NULL, ptr |-> NULL]
  BY <1>2, ScoreAssumption, Zenon DEF Asleep
<1>4. s \in Int
  BY <1>3
<1>5. DogOK' /\ WalkOK'
  BY <1>3, <1>4 DEF DogOK, WalkOK
<1>6. ThreadsOK' /\ WalkOK' /\ state' \in [Proc -> {"running", "dying", "dead"}]
  BY <1>1, <1>5, Zenon DEF IInv, ThreadsOK, RecordsOK, registry
<1> QED
  BY <1>1, <1>6, DogStep

(* find_victim copies a record that is in a list.                          *)
LEMMA FindStep ==
  ASSUME IInv, find_victim
  PROVE  IInv'
<1> DEFINE list == slots[dog.score]
           found == IF dog.prev_pid # NULL /\ proc_adj_prev(list, dog.prev_pid) # NULL
                    THEN proc_adj_prev(list, dog.prev_pid) ELSE proc_adj_tail(list)
           lower == {s \in Score : 0 <= s /\ s < dog.score}
           copy == [pid |-> found, pidfd |-> pidfd[found], valid |-> valid[found]]
           next == IF lower = {} THEN {Asleep}
                   ELSE {[dog EXCEPT !.score = s, !.prev_pid = NULL] : s \in Highest(lower)}
<1>1. PICK n \in next :
        /\ dog.at = "find" /\ UNCHANGED <<main, registry, state, timer>>
        /\ dog' = (IF dog.prev_pid # NULL /\ list = <<>> THEN [dog EXCEPT !.at = "crashed"]
                   ELSE IF found \in Proc THEN [dog EXCEPT !.at = "kill", !.target = copy]
                   ELSE n)
  BY Zenon DEF find_victim, Dog
<1>2. n = Asleep \/ \E s \in Score : n = [dog EXCEPT !.score = s, !.prev_pid = NULL]
  BY Zenon DEF Highest
<1> HIDE DEF next
<1>3. WalkOK' /\ state' \in [Proc -> {"running", "dying", "dead"}]
  <2>1. dog'.at # "walk"
    <3> HIDE DEF list, found, copy
    <3>1. /\ dog.at = "find"
          /\ dog \in [at : {"sigwait", "find", "kill", "invalidate", "walk", "crashed"},
                      score : Int, prev_pid : Proc \cup {NULL},
                      target : [pid : Proc, pidfd : Fd, valid : BOOLEAN] \cup {NULL},
                      ptr : Proc \cup {NULL}]
      BY <1>1, Zenon DEF IInv, ThreadsOK, DogOK
    <3>2. n.at # "walk"
      <4>1. CASE n = Asleep
        BY <4>1 DEF Asleep
      <4>2. ASSUME NEW s \in Score, n = [dog EXCEPT !.score = s, !.prev_pid = NULL]
            PROVE  n.at # "walk"
        BY <3>1, <4>2
      <4> QED
        BY <1>2, <4>1, <4>2, Zenon
    <3>3. \/ dog' = [dog EXCEPT !.at = "crashed"]
          \/ dog' = [dog EXCEPT !.at = "kill", !.target = copy] \/ dog' = n
      BY <1>1, Zenon
    <3>4. CASE dog' = n
      BY <3>2, <3>4
    <3>5. CASE dog' = [dog EXCEPT !.at = "crashed"]
      BY <3>1, <3>5
    <3>6. CASE dog' = [dog EXCEPT !.at = "kill", !.target = copy]
      BY <3>1, <3>6
    <3> QED
      BY <3>3, <3>4, <3>5, <3>6, Zenon
  <2> QED
    BY <1>1, <2>1 DEF IInv, WalkOK, RecordsOK
<1>4. ThreadsOK'
  <2>1. dog.score \in Score /\ Score \subseteq Int /\ \A s \in Score : s <= 1000
    BY <1>1, ScoreAssumption DEF IInv, ThreadsOK, DogOK, OOM_SCORE_ADJ_MAX
  <2>2. list \in Seq(Proc) /\ Range(list) \subseteq alloc
    <3>1. dog.score \in Score
      BY <2>1, Zenon
    <3>2. SlotsOK
      BY Zenon DEF IInv
    <3>3. Slotted \subseteq alloc
      BY Zenon DEF Slotted
    <3>4. \A s \in Score : slots[s] \in Seq(Proc) /\ Range(slots[s]) \subseteq alloc
      BY <3>2, <3>3, Zenon DEF SlotsOK
    <3> QED
      BY <3>1, <3>4, Zenon
  <2>3. found \in Proc => found \in alloc
    <3>1. \A i \in DOMAIN list : list[i] \in alloc
      BY <2>2 DEF Range
    <3>2. Len(list) \in Nat /\ DOMAIN list = 1..Len(list) /\ (list # <<>> => Len(list) \in DOMAIN list)
      BY <2>2
    <3>3. proc_adj_tail(list) \in alloc \cup {NULL}
      BY <3>1, <3>2 DEF proc_adj_tail
    <3>4. proc_adj_prev(list, dog.prev_pid) \in alloc \cup {NULL, HEAD}
      <4> DEFINE i == CHOOSE i \in DOMAIN list : list[i] = dog.prev_pid
      <4>1. CASE dog.prev_pid \notin Range(list)
        BY <4>1 DEF proc_adj_prev
      <4>2. CASE dog.prev_pid \in Range(list)
        <5>1. i \in DOMAIN list
          BY <4>2 DEF Range
        <5>2. proc_adj_prev(list, dog.prev_pid) = IF i = 1 THEN HEAD ELSE list[i - 1]
          BY <4>2 DEF proc_adj_prev
        <5> HIDE DEF i
        <5>3. i # 1 => i - 1 \in DOMAIN list
          BY <3>2, <5>1
        <5> QED
          BY <3>1, <5>2, <5>3
      <4> QED
        BY <4>1, <4>2
    <3> QED
      BY <3>3, <3>4, NullAssumption
  <2>4. found \in Proc => copy \in [pid : Proc, pidfd : Fd, valid : BOOLEAN]
    BY <2>3 DEF IInv, RecordsOK
  <2>5. dog \in [at : {"sigwait", "find", "kill", "invalidate", "walk", "crashed"},
                 score : Int, prev_pid : Proc \cup {NULL},
                 target : [pid : Proc, pidfd : Fd, valid : BOOLEAN] \cup {NULL},
                 ptr : Proc \cup {NULL}]
    BY DEF IInv, ThreadsOK, DogOK
  <2> HIDE DEF list, found, lower, copy
  <2>6. DogOK'
    <3>1. CASE dog.prev_pid # NULL /\ list = <<>>
      BY <1>1, <2>5, <3>1 DEF DogOK
    <3>2. CASE ~(dog.prev_pid # NULL /\ list = <<>>) /\ found \in Proc
      <4>1. dog' = [dog EXCEPT !.at = "kill", !.target = copy]
        BY <1>1, <3>2
      <4> DEFINE Copies == [pid : Proc, pidfd : Fd, valid : BOOLEAN]
      <4>2. copy \in Copies
        BY <2>4, <3>2
      <4>3. dog \in [at : {"sigwait", "find", "kill", "invalidate", "walk", "crashed"},
                     score : Int, prev_pid : Proc \cup {NULL}, target : Copies \cup {NULL},
                     ptr : Proc \cup {NULL}]
        BY <2>5
      <4> HIDE DEF Copies
      <4>4. /\ dog' \in [at : {"sigwait", "find", "kill", "invalidate", "walk", "crashed"},
                         score : Int, prev_pid : Proc \cup {NULL}, target : Copies \cup {NULL},
                         ptr : Proc \cup {NULL}]
            /\ dog'.at = "kill" /\ dog'.target = copy /\ dog'.score = dog.score
        BY <4>1, <4>2, <4>3, Zenon
      <4> QED
        BY <2>1, <4>2, <4>4 DEF DogOK, Copies
    <3>3. CASE ~(dog.prev_pid # NULL /\ list = <<>>) /\ found \notin Proc
      <4>1. dog' = n
        BY <1>1, <3>3
      <4>2. CASE n = Asleep
        BY <4>1, <4>2 DEF Asleep, DogOK
      <4>3. ASSUME NEW s \in Score, n = [dog EXCEPT !.score = s, !.prev_pid = NULL]
            PROVE  DogOK'
        <5>1. s \in Int
          BY <2>1
        <5> QED
          BY <1>1, <2>5, <4>1, <4>3, <5>1, Zenon DEF DogOK
      <4> QED
        BY <1>2, <4>2, <4>3, Zenon
    <3> QED
      BY <3>1, <3>2, <3>3
  <2> QED
    BY <1>1, <2>6 DEF IInv, ThreadsOK, DogOK, registry
<1> QED
  BY <1>1, <1>3, <1>4, DogStep

(* kill_target signals the owner of an open descriptor.                    *)
LEMMA KillStep ==
  ASSUME IInv, kill_target
  PROVE  IInv'
<1> DEFINE f == dog.target.pidfd
           hit == files[f]
<1>1. /\ dog.at = "kill" /\ UNCHANGED <<main, registry, timer>>
      /\ \/ /\ hit # NULL
            /\ state' = [state EXCEPT ![hit] = IF state[hit] = "running" THEN "dying" ELSE state[hit]]
            /\ dog' = [dog EXCEPT !.at = "invalidate"]
         \/ /\ state' = state
            /\ dog' = [dog EXCEPT !.at = "find", !.prev_pid = dog.target.pid]
  BY DEF kill_target
<1>2. f \in Fd /\ dog.target.pid \in Proc
  BY <1>1 DEF IInv, ThreadsOK, DogOK
<1>3. hit # NULL => hit \in Proc
  BY <1>2 DEF IInv, RecordsOK
<1>4. state' \in [Proc -> {"running", "dying", "dead"}]
  BY <1>1, <1>3 DEF IInv, RecordsOK
<1>5. ThreadsOK' /\ WalkOK'
  BY <1>1, <1>2, Zenon DEF IInv, ThreadsOK, DogOK, WalkOK, registry
<1> QED
  BY <1>1, <1>4, <1>5, DogStep

(* pid_invalidate starts at the head of the chain.                         *)
LEMMA InvalidateStep ==
  ASSUME IInv, pid_invalidate
  PROVE  IInv'
<1>1. /\ dog' = [dog EXCEPT !.at = "walk", !.ptr = bucket]
      /\ UNCHANGED <<main, registry, state, timer>>
  BY DEF pid_invalidate, Dog
<1>2. bucket \in Linked \cup {NULL} /\ Linked \subseteq alloc /\ alloc \subseteq Proc
  BY DEF IInv, ChainOK, RecordsOK, Linked
<1>3. dog'.at = "walk" /\ dog'.ptr = bucket
  BY <1>1 DEF IInv, ThreadsOK, DogOK
<1>4. ThreadsOK'
  BY <1>1, <1>2, Zenon DEF IInv, ThreadsOK, DogOK, registry
<1>5. main.at = "free" => main.rec \notin Linked /\ main.rec # NULL
  BY NullAssumption DEF Linked, InHand, IInv, ThreadsOK, RecordsOK
<1>6. WalkOK'
  BY <1>1, <1>2, <1>3, <1>5 DEF WalkOK, registry
<1> QED
  BY <1>1, <1>4, <1>6, DogStep DEF IInv, RecordsOK

(* The walk goes on along pidhash_next: from an allocated record to an     *)
(* allocated one, from a record in the chain to one in the chain.          *)
LEMMA LookupStep ==
  ASSUME IInv, pid_lookup
  PROVE  IInv'
<1>1. /\ dog.at = "walk"
      /\ UNCHANGED <<main, bucket, hnext, slots, alloc, oomadj, pidfd, files, state, timer>>
      /\ \/ dog' = Asleep
         \/ dog.ptr # NULL /\ dog' = [dog EXCEPT !.ptr = hnext[dog.ptr]]
      /\ \/ valid' = valid
         \/ dog.ptr # NULL /\ valid' = [valid EXCEPT ![dog.ptr] = FALSE]
  BY DEF pid_lookup
<1>2. /\ dog.ptr \in alloc \cup {NULL} /\ alloc \subseteq Proc
      /\ main.at = "free" => dog.ptr # main.rec
  BY <1>1 DEF IInv, WalkOK, RecordsOK
<1>3. Linked' = Linked /\ Slotted' = Slotted
  BY <1>1 DEF Linked, Slotted, InHand
<1>4. SlotsOK' /\ ChainOK'
  BY <1>1, <1>3, SameLists, SameChain DEF IInv
<1>5. RecordsOK'
  <2>1. valid' \in [Proc -> BOOLEAN]
    BY <1>1, <1>2, Zenon DEF IInv, RecordsOK
  <2> QED
    BY <1>1, <2>1 DEF IInv, RecordsOK
<1>6. ThreadsOK' /\ WalkOK'
  <2>1. CASE dog' = Asleep
    BY <1>1, <2>1 DEF IInv, ThreadsOK, DogOK, WalkOK, Asleep
  <2>2. CASE dog.ptr # NULL /\ dog' = [dog EXCEPT !.ptr = hnext[dog.ptr]]
    <3>1. dog.ptr \in alloc /\ hnext[dog.ptr] \in alloc \cup {NULL}
      BY <1>2, <2>2 DEF IInv, ChainOK
    <3>2. main.at = "free" => hnext[dog.ptr] # main.rec
      <4> SUFFICES ASSUME main.at = "free" PROVE hnext[dog.ptr] # main.rec
        OBVIOUS
      <4>1. Linked = alloc \ {main.rec} /\ main.rec # NULL
        BY NullAssumption DEF Linked, InHand, IInv, ThreadsOK, RecordsOK
      <4> QED
        BY <1>2, <3>1, <4>1 DEF IInv, ChainOK
    <3>3. dog'.ptr = hnext[dog.ptr] /\ dog'.at = "walk"
      BY <1>1, <2>2 DEF IInv, ThreadsOK, DogOK
    <3>4. WalkOK'
      BY <1>1, <3>1, <3>2, <3>3 DEF WalkOK
    <3>5. ThreadsOK'
      BY <1>1, <1>2, <2>2, <3>1, <3>3 DEF IInv, ThreadsOK, DogOK
    <3> QED
      BY <3>4, <3>5
  <2> QED
    BY <1>1, <2>1, <2>2
<1> QED
  BY <1>4, <1>5, <1>6 DEF IInv

(* A restart forgets everything.                                           *)
LEMMA RestartStep ==
  ASSUME IInv, restart
  PROVE  IInv'
<1>1. /\ dog' = Asleep /\ main' = [at |-> "idle", rec |-> NULL]
      /\ bucket' = NULL /\ alloc' = {} /\ state' = state
      /\ slots' = [s \in Score |-> <<>>] /\ files' = [f \in Fd |-> NULL]
  BY DEF restart
<1>2. /\ hnext' = [p \in Proc |-> NULL] /\ oomadj' = [p \in Proc |-> 0]
      /\ pidfd' = [p \in Proc |-> -1] /\ valid' = [p \in Proc |-> FALSE]
  BY Zenon DEF restart, Forget
<1>3. Linked' = {} /\ Slotted' = {}
  BY <1>1 DEF Linked, Slotted, InHand
<1>4. ThreadsOK' /\ WalkOK'
  <2>1. /\ Asleep \in [at : {"sigwait", "find", "kill", "invalidate", "walk", "crashed"},
                       score : Int, prev_pid : Proc \cup {NULL},
                       target : [pid : Proc, pidfd : Fd, valid : BOOLEAN] \cup {NULL},
                       ptr : Proc \cup {NULL}]
        /\ Asleep.at = "sigwait"
    BY DEF Asleep
  <2>2. DogOK' /\ WalkOK'
    BY <1>1, <2>1 DEF DogOK, WalkOK
  <2>3. main'.at = "idle" /\ main' \in [at : {"idle", "handler", "slot", "unslot", "free", "hung"},
                                        rec : Proc \cup {NULL}]
    BY <1>1
  <2> QED
    BY <2>2, <2>3 DEF ThreadsOK
<1>5. RecordsOK'
  BY <1>1, <1>2 DEF IInv, RecordsOK
<1>6. SlotsOK'
  <2>1. Distinct(<<>>) /\ Range(<<>>) = {}
    BY DEF Distinct, Range
  <2>2. slots' \in [Score -> Seq(Proc)] /\ \A s \in Score : slots'[s] = <<>>
    BY <1>1
  <2> QED
    BY <1>3, <2>1, <2>2 DEF SlotsOK
<1>7. ChainOK'
  BY <1>1, <1>2, <1>3 DEF ChainOK
<1> QED
  BY <1>4, <1>5, <1>6, <1>7 DEF IInv

(* Every step keeps the invariant.                                         *)
LEMMA NextIInv == IInv /\ [Next]_vars => IInv'
<1> SUFFICES ASSUME IInv, [Next]_vars PROVE IInv'
  OBVIOUS
<1>1. CASE main_thread
  BY <1>1, HandlerStep, InsertStep, UpdateStep, RemoveStep, SlotStep, UnslotStep, FreeStep
     DEF main_thread
<1>2. CASE watchdog_main
  BY <1>2, QuietStep, BiteStep, FindStep, KillStep, InvalidateStep, LookupStep DEF watchdog_main
<1>3. CASE timer_expires \/ (\E p \in Proc : exit(p)) \/ UNCHANGED vars
  BY <1>3, QuietStep
<1>4. CASE restart
  BY <1>4, RestartStep
<1> QED
  BY <1>1, <1>2, <1>3, <1>4 DEF Next

(* The watchdog thread reads no record after the main thread has freed it, *)
(* whatever the interleaving of pid_invalidate's walk with registrations,  *)
(* moves and removals, and no list, chain pointer or open descriptor       *)
(* refers to a freed record.                                               *)
THEOREM WatchdogNoUseAfterFree == Spec => []NoUseAfterFree
<1>1. IInv => NoUseAfterFree
  <2> SUFFICES ASSUME IInv PROVE NoUseAfterFree
    OBVIOUS
  <2>1. \A s \in Score : Range(slots[s]) \subseteq alloc
    BY DEF IInv, SlotsOK, Slotted
  <2>2. bucket \in alloc \cup {NULL} /\ \A p \in alloc : hnext[p] \in Proc \cup {NULL}
    BY DEF IInv, ChainOK, Linked, RecordsOK
  <2> QED
    BY <2>1, <2>2 DEF IInv, NoUseAfterFree, TypeOK, ThreadsOK, RecordsOK, WalkOK
<1> QED
  BY <1>1, InitIInv, NextIInv, PTL DEF Spec

-----------------------------------------------------------------------------
(* VictimSearch.tla: find_and_kill_process kills the most expendable       *)
(* process that it can, and spares the preferred apps.  Its lists and      *)
(* processes are those of a behaviour of its own.                          *)
CONSTANTS Level, MinScore, Size, Preferred, KillHeaviest, UseHooks, UserdebugBuild

VARIABLES search, script

Search == INSTANCE VictimSearch

(* What VictimSearch assumes of its constants; Watchdog assumes the rest.  *)
SearchConstants ==
  /\ Level \subseteq 0..1000 /\ MinScore \subseteq 0..1001
  /\ Size \in [Proc -> Nat] /\ Preferred \subseteq Proc

(* A level and a bound on levels are integers.                             *)
LEMMA Scored == SearchConstants => Level \subseteq Int /\ MinScore \subseteq Int
  BY DEF SearchConstants

(* The elements of a list are the same inside and outside the instance.    *)
LEMMA SameRange == \A s : Search!Range(s) = Range(s)
  BY Zenon DEF Search!Range, Range

(* So is the removal of one.                                               *)
LEMMA SameRemove == \A s, p : Search!adjslot_remove(s, p) = adjslot_remove(s, p)
  BY Zenon DEF Search!adjslot_remove, adjslot_remove

(* Every list holds a process at most once, and no two hold the same one.  *)
ListsOK(sl) ==
  /\ sl \in [Level -> Seq(Proc)]
  /\ \A l \in Level : Distinct(sl[l])
  /\ \A l, m \in Level : l # m => Range(sl[l]) \cap Range(sl[m]) = {}

(* Taking a process out of the lists.                                      *)
LEMMA TakenOut ==
  ASSUME ListsOK(slots), NEW p
  PROVE  /\ ListsOK(Search!Without(p))
         /\ \A l \in Level : Range(Search!Without(p)[l]) = Range(slots[l]) \ {p}
<1> DEFINE sl == Search!Without(p)
<1>1. sl = [l \in Level |-> IF p \in Search!Range(slots[l])
                           THEN Search!adjslot_remove(slots[l], p) ELSE slots[l]]
  BY Zenon DEF Search!Without
<1> HIDE DEF sl
<1>2. ASSUME NEW l \in Level
      PROVE  sl[l] \in Seq(Proc) /\ Distinct(sl[l]) /\ Range(sl[l]) = Range(slots[l]) \ {p}
  <2>1. slots[l] \in Seq(Proc) /\ Distinct(slots[l])
    BY Zenon DEF ListsOK
  <2>2. CASE p \in Range(slots[l])
    <3>1. sl[l] = adjslot_remove(slots[l], p)
      BY <1>1, <2>2, SameRange, SameRemove, Zenon
    <3>2. /\ adjslot_remove(slots[l], p) \in Seq(Proc)
          /\ Distinct(adjslot_remove(slots[l], p))
          /\ Range(adjslot_remove(slots[l], p)) = Range(slots[l]) \ {p}
      BY <2>1, <2>2, RemoveOne
    <3> QED
      BY <3>1, <3>2, Zenon
  <2>3. CASE p \notin Range(slots[l])
    <3>1. sl[l] = slots[l]
      BY <1>1, <2>3, SameRange, Zenon
    <3> QED
      BY <2>1, <2>3, <3>1
  <2> QED
    BY <2>2, <2>3
<1>3. \A l, m \in Level : l # m => Range(sl[l]) \cap Range(sl[m]) = {}
  BY <1>2, Zenon DEF ListsOK
<1>4. sl \in [Level -> Seq(Proc)]
  <2>1. sl = [l \in Level |-> sl[l]]
    BY <1>1
  <2> QED
    BY <1>2, <2>1
<1> QED
  BY <1>2, <1>3, <1>4 DEF ListsOK, sl

(* procprio takes the process out and puts it at the head of a list.       *)
LEMMA PutIn ==
  ASSUME ListsOK(slots), NEW p \in Proc, NEW l \in Level,
         slots' = [Search!Without(p) EXCEPT ![l] = <<p>> \o @]
  PROVE  ListsOK(slots')
<1>1. PICK sl : sl = Search!Without(p)
  OBVIOUS
<1>2. ListsOK(sl) /\ \A m \in Level : p \notin Range(sl[m])
  BY <1>1, TakenOut
<1>3. PICK s : s = sl[l]
  OBVIOUS
<1>4. PICK t : t = <<p>> \o s
  BY Zenon
<1>5. s \in Seq(Proc) /\ Distinct(s) /\ p \notin Range(s)
  BY <1>2, <1>3 DEF ListsOK
<1>6. /\ t \in Seq(Proc) /\ Len(t) = Len(s) + 1 /\ Len(s) \in Nat
      /\ t[1] = p /\ \A i \in 2..Len(t) : t[i] = s[i - 1]
  BY <1>4, <1>5
<1>7. Distinct(t)
  <2> SUFFICES ASSUME NEW i \in 1..Len(t), NEW j \in 1..Len(t), t[i] = t[j] PROVE i = j
    BY <1>6 DEF Distinct
  <2>1. \A k \in 2..Len(t) : k - 1 \in 1..Len(s) /\ t[k] = s[k - 1] /\ t[k] # p
    BY <1>5, <1>6 DEF Range
  <2>2. \A m, n \in 1..Len(s) : s[m] = s[n] => m = n
    BY <1>5 DEF Distinct
  <2>3. CASE i = 1 \/ j = 1
    BY <1>6, <2>1, <2>3
  <2>4. CASE i # 1 /\ j # 1
    <3>1. i \in 2..Len(t) /\ j \in 2..Len(t)
      BY <1>6, <2>4
    <3>2. i - 1 = j - 1
      BY <2>1, <2>2, <3>1, Zenon
    <3> QED
      BY <3>1, <3>2
  <2> QED
    BY <2>3, <2>4
<1>8. Range(t) = Range(s) \cup {p}
  <2>0. DOMAIN s = 1..Len(s) /\ DOMAIN t = 1..Len(t)
    BY <1>5, <1>6
  <2>1. ASSUME NEW x \in Range(t) PROVE x \in Range(s) \cup {p}
    <3>1. PICK k \in 1..Len(t) : x = t[k]
      BY <2>0, <2>1, Zenon DEF Range
    <3>2. k = 1 \/ (k \in 2..Len(t) /\ k - 1 \in 1..Len(s))
      BY <1>6
    <3> QED
      BY <1>6, <2>0, <3>1, <3>2, Zenon DEF Range
  <2>2. ASSUME NEW x \in Range(s) PROVE x \in Range(t)
    <3>1. PICK k \in 1..Len(s) : x = s[k]
      BY <2>0, <2>2, Zenon DEF Range
    <3>2. k + 1 \in 1..Len(t) /\ t[k + 1] = x
      BY <1>6, <3>1
    <3> QED
      BY <2>0, <3>2, Zenon DEF Range
  <2>3. p \in Range(t)
    BY <1>6, <2>0 DEF Range
  <2> QED
    BY <2>1, <2>2, <2>3
<1>9. slots' = [sl EXCEPT ![l] = t]
  BY <1>1, <1>3, <1>4
<1>10. /\ slots' \in [Level -> Seq(Proc)] /\ slots'[l] = t
       /\ \A m \in Level \ {l} : slots'[m] = sl[m]
  <2>1. sl \in [Level -> Seq(Proc)] /\ t \in Seq(Proc)
    BY <1>2, <1>6, Zenon DEF ListsOK
  <2> QED
    BY <1>9, <2>1, Zenon
<1>11. \A m \in Level : Distinct(slots'[m])
  BY <1>2, <1>7, <1>10, Zenon DEF ListsOK
<1>12. \A m, n \in Level : m # n => Range(slots'[m]) \cap Range(slots'[n]) = {}
  <2> SUFFICES ASSUME NEW m \in Level, NEW n \in Level, m # n
               PROVE  Range(slots'[m]) \cap Range(slots'[n]) = {}
    OBVIOUS
  <2>1. Range(sl[m]) \cap Range(sl[n]) = {} /\ p \notin Range(sl[m]) /\ p \notin Range(sl[n])
    BY <1>2 DEF ListsOK
  <2>2. CASE m # l /\ n # l
    BY <1>10, <2>1, <2>2
  <2>3. CASE m = l
    <3>1. Range(slots'[m]) = Range(sl[m]) \cup {p} /\ slots'[n] = sl[n]
      BY <1>3, <1>8, <1>10, <2>3, Zenon
    <3> QED
      BY <2>1, <3>1
  <2>4. CASE n = l
    <3>1. Range(slots'[n]) = Range(sl[n]) \cup {p} /\ slots'[m] = sl[m]
      BY <1>3, <1>8, <1>10, <2>4, Zenon
    <3> QED
      BY <2>1, <3>1
  <2> QED
    BY <2>2, <2>3, <2>4, Zenon
<1> QED
  BY <1>10, <1>11, <1>12, Zenon DEF ListsOK

(* proc_get_size is a natural number, and positive only of the living.     *)
LEMMA Sizes ==
  ASSUME SearchConstants, NEW p \in Proc
  PROVE  /\ Search!proc_get_size(p) \in Nat
         /\ Search!proc_get_size(p) > 0 => Search!proc_get_size(p) = Size[p]
  BY DEF SearchConstants, Search!proc_get_size

(* proc_get_heaviest: no process with memory, or the heaviest of those     *)
(* that are not preferred if one of them has any, or of the preferred.     *)
LEMMA GotHeaviest ==
  ASSUME SearchConstants, NEW list \in Seq(Proc), NEW h \in Search!proc_get_heaviest(list)
  PROVE  /\ h = NULL => \A q \in Range(list) : Search!proc_get_size(q) = 0
         /\ h # NULL =>
              /\ h \in Range(list)
              /\ \A q \in Range(list) : Search!proc_get_size(q) > 0 =>
                   /\ h \in Preferred => q \in Preferred
                   /\ (q \in Preferred <=> h \in Preferred) => Size[q] <= Size[h]
<1>1. PICK sized : sized = Search!Sized(list)
  OBVIOUS
<1>2. sized = {p \in Range(list) : Search!proc_get_size(p) > 0}
  BY <1>1, SameRange, Zenon DEF Search!Sized
<1>3. Range(list) \subseteq Proc
  BY DEF Range
<1>4. \A q \in Range(list) : /\ Search!proc_get_size(q) \in Nat
                             /\ Search!proc_get_size(q) > 0 => Search!proc_get_size(q) = Size[q]
  BY <1>3, Sizes
<1>5. CASE sized = {}
  <2>1. h = NULL
    BY <1>1, <1>5, Zenon DEF Search!proc_get_heaviest
  <2> QED
    BY <1>2, <1>4, <1>5, <2>1
<1>6. CASE sized # {}
  <2>1. PICK ps : ps = IF sized \subseteq Preferred THEN sized ELSE sized \ Preferred
    BY Zenon
  <2>2. h \in Search!FirstHeaviest(list, ps)
    BY <1>1, <1>6, <2>1, Zenon DEF Search!proc_get_heaviest
  <2>3. h \in ps /\ \A q \in ps : Search!proc_get_size(q) <= Search!proc_get_size(h)
    BY <2>2, Zenon DEF Search!FirstHeaviest
  <2>4. h \in sized /\ (h \in Preferred => sized \subseteq Preferred)
    BY <2>1, <2>3, Zenon
  <2>5. h \in Range(list) /\ h # NULL /\ Search!proc_get_size(h) = Size[h]
    BY <1>2, <1>3, <1>4, <2>4, NullAssumption, Zenon
  <2>6. ASSUME NEW q \in Range(list), Search!proc_get_size(q) > 0
        PROVE  /\ h \in Preferred => q \in Preferred
               /\ (q \in Preferred <=> h \in Preferred) => Size[q] <= Size[h]
    <3>1. q \in sized /\ Search!proc_get_size(q) = Size[q]
      BY <1>2, <1>4, <2>6, Zenon
    <3>2. (q \in Preferred <=> h \in Preferred) => q \in ps
      BY <2>1, <2>4, <3>1, Zenon
    <3> QED
      BY <2>3, <2>4, <2>5, <3>1, <3>2, Zenon
  <2> QED
    BY <2>5, <2>6, Zenon
<1> QED
  BY <1>5, <1>6

-----------------------------------------------------------------------------
(* The search has no use for a level any more.                             *)
Spent(l) ==
  \/ Range(slots[l]) = {} \/ l \in search.gave_up
  \/ /\ Search!choose_heaviest_task(l)
     /\ \A p \in Range(slots[l]) : Search!proc_get_size(p) = 0

(* The levels it is through with.                                          *)
Passed ==
  {l \in Level : /\ l >= search.min /\ l \notin search.left
                 /\ search.at # "level" => l # search.level}

(* The process in hand is the one to choose, where it is for its size.     *)
Best ==
  Search!choose_heaviest_task(search.level) =>
    \A q \in Range(slots[search.level]) :
      Search!proc_get_size(q) > 0 =>
        /\ search.procp \in Preferred => q \in Preferred
        /\ (q \in Preferred <=> search.procp \in Preferred) => Size[q] <= Size[search.procp]

SearchTyped ==
  search \in [at : {"level", "pick", "check", "kill", "end", "script", "repeat"}, min : Int,
              left : SUBSET Level, level : Level \cup {NULL}, procp : Proc \cup {NULL},
              killed_size : Int, victims : SUBSET Proc, gave_up : SUBSET Level]

(* The loop is at a level, and the levels to come are lower.               *)
AtLevel ==
  search.at \in {"pick", "check", "kill"} =>
    /\ search.level \in Level /\ search.level >= search.min
    /\ \A l \in search.left : l < search.level

SearchOK ==
  /\ SearchTyped /\ AtLevel
  /\ \A l \in search.left : l >= search.min
  /\ \/ search.at \in {"pick", "check", "kill"}
     \/ search.at = "level" /\ search.killed_size = 0
     => \A l \in Passed : Spent(l)
  /\ search.at \in {"check", "kill"} => search.procp \in Range(slots[search.level]) /\ Best

StateOK == state \in [Proc -> {"alive", "zombie", "gone"}]

SearchInv == ListsOK(slots) /\ StateOK /\ (search # NULL => SearchOK)

(* While a search runs, records are dropped and processes die.             *)
Later ==
  /\ ListsOK(slots') /\ \A l \in Level : Range(slots'[l]) \subseteq Range(slots[l])
  /\ StateOK' /\ \A p \in Proc : state'[p] = "alive" => state[p] = "alive"

(* A process that is listed is one.                                        *)
LEMMA Listed ==
  ASSUME ListsOK(slots), NEW l \in Level
  PROVE  slots[l] \in Seq(Proc) /\ Range(slots[l]) \subseteq Proc
<1>1. slots[l] \in Seq(Proc)
  BY Zenon DEF ListsOK
<1> QED
  BY <1>1 DEF Range

(* No process grows.                                                       *)
LEMMA SizeLater ==
  ASSUME SearchConstants, Later, NEW p \in Proc
  PROVE  Search!proc_get_size(p)' \in {0, Search!proc_get_size(p)}
  BY Zenon DEF Later, Search!proc_get_size

(* What is spent stays so.                                                 *)
LEMMA SpentLater ==
  ASSUME SearchConstants, ListsOK(slots), Later, NEW l \in Level, Spent(l),
         l \in search.gave_up => l \in search'.gave_up
  PROVE  Spent(l)'
<1>1. Range(slots'[l]) \subseteq Range(slots[l]) /\ Range(slots[l]) \subseteq Proc
  BY Listed, Zenon DEF Later
<1>2. CASE Range(slots[l]) = {}
  <2>1. Range(slots'[l]) = {}
    BY <1>1, <1>2
  <2> QED
    BY <2>1, Zenon DEF Spent
<1>3. CASE l \in search.gave_up
  BY <1>3, Zenon DEF Spent
<1>4. CASE /\ Search!choose_heaviest_task(l)
           /\ \A p \in Range(slots[l]) : Search!proc_get_size(p) = 0
  <2>1. ASSUME NEW p \in Range(slots'[l]) PROVE Search!proc_get_size(p)' = 0
    <3>1. p \in Range(slots[l]) /\ p \in Proc
      BY <1>1, Zenon
    <3>2. Search!proc_get_size(p)' \in {0, Search!proc_get_size(p)}
      BY <3>1, SizeLater, Zenon
    <3> QED
      BY <1>4, <3>1, <3>2, Zenon
  <2>2. Search!choose_heaviest_task(l)'
    BY <1>4, Zenon DEF Search!choose_heaviest_task
  <2> QED
    BY <2>1, <2>2, Zenon DEF Spent
<1> QED
  BY <1>2, <1>3, <1>4, Zenon DEF Spent

(* The process in hand stays the one to choose.                            *)
LEMMA BestLater ==
  ASSUME SearchConstants, ListsOK(slots), Later, Best, search.level \in Level,
         search'.level = search.level, search'.procp = search.procp
  PROVE  Best'
<1>1. PICK l : l = search.level
  OBVIOUS
<1>2. PICK h : h = search.procp
  OBVIOUS
<1>3. Range(slots'[l]) \subseteq Range(slots[l]) /\ Range(slots[l]) \subseteq Proc
  BY <1>1, Listed, Zenon DEF Later
<1>4. Search!choose_heaviest_task(l)' <=> Search!choose_heaviest_task(l)
  BY Zenon DEF Search!choose_heaviest_task
<1>5. ASSUME NEW q \in Range(slots'[l]), Search!proc_get_size(q)' > 0
      PROVE  q \in Range(slots[l]) /\ Search!proc_get_size(q) > 0
  <2>1. q \in Range(slots[l]) /\ q \in Proc
    BY <1>3, Zenon
  <2>2. Search!proc_get_size(q)' \in {0, Search!proc_get_size(q)}
    BY <2>1, SizeLater, Zenon
  <2> QED
    BY <1>5, <2>1, <2>2
<1> QED
  BY <1>1, <1>2, <1>4, <1>5, Zenon DEF Best

(* Nothing happens to the lists and the processes.                         *)
LEMMA Still == ListsOK(slots) /\ StateOK /\ UNCHANGED <<slots, state>> => Later
  BY Zenon DEF Later, StateOK

(* What takes a process out of the lists.                                  *)
LEMMA DropLater ==
  ASSUME ListsOK(slots), StateOK, NEW p, slots' = Search!Without(p),
         state' \in [Proc -> {"alive", "zombie", "gone"}],
         \A q \in Proc : state'[q] = "alive" => state[q] = "alive"
  PROVE  Later
<1>1. /\ ListsOK(slots')
      /\ \A l \in Level : Range(slots'[l]) = Range(slots[l]) \ {p}
  BY TakenOut
<1> QED
  BY <1>1, Zenon DEF Later, StateOK

(* A process leaves the living.                                            *)
LEMMA DieLater ==
  ASSUME ListsOK(slots), StateOK, UNCHANGED slots, NEW p \in Proc, NEW s \in {"zombie", "gone"},
         state' = [state EXCEPT ![p] = s]
  PROVE  Later
<1>1. StateOK' /\ \A q \in Proc : state'[q] = "alive" => state[q] = "alive"
  BY DEF StateOK
<1> QED
  BY <1>1, Zenon DEF Later

(* A step that the search does not take part in.                           *)
LEMMA SearchStays ==
  ASSUME SearchConstants, SearchInv, Later, search' = search,
         search.at \in {"check", "kill"} => slots' = slots
  PROVE  SearchInv'
<1>1. ListsOK(slots') /\ StateOK'
  BY Zenon DEF Later
<1> SUFFICES ASSUME search # NULL PROVE SearchOK'
  BY <1>1, Zenon DEF SearchInv
<1>2. SearchOK /\ ListsOK(slots)
  BY Zenon DEF SearchInv
<1>3. SearchTyped' /\ AtLevel' /\ \A l \in search'.left : l >= search'.min
  BY <1>2, Zenon DEF SearchOK, SearchTyped, AtLevel
<1>4. Passed' = Passed
  BY Zenon DEF Passed
<1>5. ASSUME \/ search.at \in {"pick", "check", "kill"}
             \/ search.at = "level" /\ search.killed_size = 0,
             NEW l \in Passed
      PROVE  Spent(l)'
  <2>1. Spent(l) /\ l \in Level
    BY <1>2, <1>5, Zenon DEF SearchOK, Passed
  <2> QED
    BY <1>2, <2>1, SpentLater, Zenon
<1>6. ASSUME search.at \in {"check", "kill"}
      PROVE  search'.procp \in Range(slots'[search'.level]) /\ Best'
  <2>1. search.procp \in Range(slots[search.level]) /\ Best /\ search.level \in Level
    BY <1>2, <1>6, Zenon DEF SearchOK, AtLevel
  <2>2. Best'
    BY <1>2, <2>1, BestLater, Zenon
  <2> QED
    BY <1>6, <2>1, <2>2, Zenon
<1> QED
  BY <1>3, <1>4, <1>5, <1>6, Zenon DEF SearchOK

(* A step that ends the search, or leaves it with nothing in hand.         *)
LEMMA SearchOver ==
  ASSUME SearchInv, ListsOK(slots'), StateOK',
         search' = NULL \/ search' = [search EXCEPT !.at = "end"]
           \/ search' = [search EXCEPT !.at = "script"]
           \/ search' = [search EXCEPT !.at = "repeat"],
         search = NULL => search' = NULL
  PROVE  SearchInv'
<1> SUFFICES ASSUME search' # NULL PROVE SearchOK'
  BY Zenon DEF SearchInv
<1>1. SearchOK /\ search # NULL
  BY Zenon DEF SearchInv
<1>2. PICK a \in {"end", "script", "repeat"} : search' = [search EXCEPT !.at = a]
  BY Zenon
<1>3. SearchTyped' /\ search'.at = a /\ search'.left = search.left /\ search'.min = search.min
  BY <1>1, <1>2 DEF SearchOK, SearchTyped
<1>4. search'.at \notin {"level", "pick", "check", "kill"}
  BY <1>3
<1>5. \A l \in search'.left : l >= search'.min
  BY <1>1, <1>3 DEF SearchOK
<1> QED
  BY <1>3, <1>4, <1>5, Zenon DEF SearchOK, AtLevel

(* find_and_kill_process starts with no level passed.                      *)
LEMMA StartSearch ==
  ASSUME SearchConstants, SearchInv, NEW min \in MinScore, Search!find_and_kill_process(min)
  PROVE  SearchInv'
<1>1. ListsOK(slots') /\ StateOK' /\ min \in Int /\ Level \subseteq Int
  BY Scored, Zenon DEF SearchInv, StateOK, Search!find_and_kill_process
<1>2. search' = [at |-> "level", min |-> min, left |-> Search!Levels(min), level |-> NULL,
                 procp |-> NULL, killed_size |-> 0, victims |-> {}, gave_up |-> {}]
  BY Zenon DEF Search!find_and_kill_process
<1>3. Search!Levels(min) = {l \in Level : l >= min}
  BY Zenon DEF Search!Levels
<1>4. SearchTyped'
  <2>1. Search!Levels(min) \in SUBSET Level /\ 0 \in Int
    BY <1>3
  <2>2. \A L \in SUBSET Level :
          [at |-> "level", min |-> min, left |-> L, level |-> NULL,
           procp |-> NULL, killed_size |-> 0, victims |-> {}, gave_up |-> {}]
            \in [at : {"level", "pick", "check", "kill", "end", "script", "repeat"}, min : Int,
                 left : SUBSET Level, level : Level \cup {NULL}, procp : Proc \cup {NULL},
                 killed_size : Int, victims : SUBSET Proc, gave_up : SUBSET Level]
    BY <1>1, <2>1, Zenon
  <2> QED
    BY <1>2, <2>1, <2>2, Zenon DEF SearchTyped
<1>5. search'.at = "level" /\ search'.min = min /\ search'.left = {l \in Level : l >= min}
  BY <1>2, <1>3, Zenon
<1>6. Passed' = {}
  BY <1>5 DEF Passed
<1>7. AtLevel' /\ \A l \in search'.left : l >= search'.min
  BY <1>5, Zenon DEF AtLevel
<1>8. SearchOK'
  BY <1>4, <1>5, <1>6, <1>7 DEF SearchOK
<1> QED
  BY <1>1, <1>8, Zenon DEF SearchInv

(* The next lower level: nothing is passed by it.                          *)
LEMMA NextLevelStep ==
  ASSUME SearchConstants, SearchInv, Search!next_level
  PROVE  SearchInv'
<1>1. /\ ListsOK(slots) /\ StateOK /\ SearchOK /\ search # NULL /\ search.at = "level"
      /\ UNCHANGED <<slots, state>>
  BY Zenon DEF SearchInv, Search!next_level, Search!At
<1>2. Later /\ ListsOK(slots') /\ StateOK'
  BY <1>1, Still, Zenon DEF Later
<1>3. CASE search' = [search EXCEPT !.at = "end"]
  BY <1>1, <1>2, <1>3, SearchOver, Zenon
<1>4. ASSUME search.killed_size = 0, NEW n \in Search!NextLevel,
             search' = [search EXCEPT !.at = "pick", !.level = n, !.left = @ \ {n}]
      PROVE  SearchInv'
  <2>2. search' = [search EXCEPT !.at = "pick", !.level = n, !.left = @ \ {n}]
    BY <1>4
  <2>3. search.left \subseteq Level /\ Level \subseteq Int
    BY <1>1, Scored DEF SearchOK, SearchTyped
  <2>4. n \in search.left /\ \A t \in search.left : t <= n
    BY Zenon DEF Search!NextLevel
  <2>5. SearchTyped'
    BY <1>1, <2>2, <2>3, <2>4, Zenon DEF SearchOK, SearchTyped
  <2>6. /\ search'.at = "pick" /\ search'.level = n /\ search'.left = search.left \ {n}
        /\ search'.min = search.min /\ search'.gave_up = search.gave_up
    BY <1>1, <2>2 DEF SearchOK, SearchTyped
  <2>7. AtLevel' /\ \A l \in search'.left : l >= search'.min
    <3>1. n \in Level /\ n >= search.min /\ \A l \in search.left : l >= search.min
      BY <1>1, <2>3, <2>4 DEF SearchOK
    <3>2. ASSUME NEW l \in search.left \ {n} PROVE l < n
      <4>1. l \in Int /\ n \in Int /\ l <= n /\ l # n
        BY <2>3, <2>4, Zenon
      <4> QED
        BY <4>1
    <3> QED
      BY <2>6, <3>1, <3>2, Zenon DEF AtLevel
  <2>8. ASSUME NEW l \in Passed' PROVE Spent(l)'
    <3>1. l \in Level /\ l \in Passed
      BY <1>1, <2>6, <2>8 DEF Passed
    <3>2. Spent(l)
      BY <1>1, <1>4, <3>1, Zenon DEF SearchOK
    <3> QED
      BY <1>1, <1>2, <2>6, <3>1, <3>2, SpentLater, Zenon
  <2>9. SearchOK'
    BY <2>5, <2>6, <2>7, <2>8, Zenon DEF SearchOK
  <2> QED
    BY <1>2, <2>9, Zenon DEF SearchInv
<1> QED
  BY <1>3, <1>4, Zenon DEF Search!next_level

(* The pick of a process: the heaviest or the tail, or the level is spent. *)
LEMMA Picked ==
  ASSUME SearchConstants, ListsOK(slots), NEW l \in Level, NEW h,
         h \in IF Search!choose_heaviest_task(l) THEN Search!proc_get_heaviest(slots[l])
               ELSE {Search!proc_adj_tail(slots[l])}
  PROVE  /\ h = NULL => \/ Range(slots[l]) = {}
                        \/ /\ Search!choose_heaviest_task(l)
                           /\ \A p \in Range(slots[l]) : Search!proc_get_size(p) = 0
         /\ h # NULL =>
              /\ h \in Range(slots[l])
              /\ Search!choose_heaviest_task(l) =>
                   \A q \in Range(slots[l]) : Search!proc_get_size(q) > 0 =>
                     /\ h \in Preferred => q \in Preferred
                     /\ (q \in Preferred <=> h \in Preferred) => Size[q] <= Size[h]
<1>1. slots[l] \in Seq(Proc) /\ Range(slots[l]) \subseteq Proc
  BY Listed
<1>2. CASE Search!choose_heaviest_task(l)
  <2>1. h \in Search!proc_get_heaviest(slots[l])
    BY <1>2, Zenon
  <2>2. PICK s : s = slots[l]
    OBVIOUS
  <2>3. s \in Seq(Proc) /\ h \in Search!proc_get_heaviest(s)
    BY <1>1, <2>1, <2>2, Zenon
  <2>4. /\ h = NULL => \A q \in Range(s) : Search!proc_get_size(q) = 0
        /\ h # NULL =>
             /\ h \in Range(s)
             /\ \A q \in Range(s) : Search!proc_get_size(q) > 0 =>
                  /\ h \in Preferred => q \in Preferred
                  /\ (q \in Preferred <=> h \in Preferred) => Size[q] <= Size[h]
    BY <2>3, GotHeaviest, Zenon
  <2> QED
    BY <1>2, <2>2, <2>4, Zenon
<1>3. CASE ~Search!choose_heaviest_task(l)
  <2>1. PICK s : s = slots[l]
    OBVIOUS
  <2>2. s \in Seq(Proc) /\ h = IF s = <<>> THEN NULL ELSE s[Len(s)]
    BY <1>1, <1>3, <2>1, Zenon DEF Search!proc_adj_tail
  <2>3. s = <<>> => Range(s) = {}
    BY DEF Range
  <2>4. s # <<>> => Len(s) \in DOMAIN s
    BY <2>2
  <2>5. s # <<>> => h \in Range(s)
    BY <2>2, <2>4, Zenon DEF Range
  <2>6. Range(s) \subseteq Proc
    BY <1>1, <2>1
  <2> QED
    BY <1>3, <2>1, <2>2, <2>3, <2>5, <2>6, NullAssumption, Zenon
<1> QED
  BY <1>2, <1>3

(* pick.                                                                   *)
LEMMA PickStep ==
  ASSUME SearchConstants, SearchInv, Search!pick
  PROVE  SearchInv'
<1>1. /\ ListsOK(slots) /\ StateOK /\ SearchOK /\ search # NULL /\ search.at = "pick"
      /\ UNCHANGED <<slots, state>>
  BY Zenon DEF SearchInv, Search!pick, Search!At
<1>2. Later /\ ListsOK(slots') /\ StateOK'
  BY <1>1, Still, Zenon DEF Later
<1>3. PICK l : l = search.level
  OBVIOUS
<1>4. PICK h \in IF Search!choose_heaviest_task(l) THEN Search!proc_get_heaviest(slots[l])
                  ELSE {Search!proc_adj_tail(slots[l])} :
        search' = [search EXCEPT !.procp = h, !.at = IF h = NULL THEN "level" ELSE "check"]
  BY <1>3, Zenon DEF Search!pick
<1>5. search' = [search EXCEPT !.procp = h, !.at = IF h = NULL THEN "level" ELSE "check"]
  BY <1>4, Zenon
<1>6. l \in Level /\ l >= search.min /\ \A m \in search.left : m < l
  BY <1>1, <1>3, Zenon DEF SearchOK, AtLevel
<1>7. Range(slots[l]) \subseteq Proc
  BY <1>1, <1>6, Listed, Zenon
<1>8. /\ h = NULL => \/ Range(slots[l]) = {}
                     \/ /\ Search!choose_heaviest_task(l)
                        /\ \A p \in Range(slots[l]) : Search!proc_get_size(p) = 0
      /\ h # NULL =>
           /\ h \in Range(slots[l])
           /\ Search!choose_heaviest_task(l) =>
                \A q \in Range(slots[l]) : Search!proc_get_size(q) > 0 =>
                  /\ h \in Preferred => q \in Preferred
                  /\ (q \in Preferred <=> h \in Preferred) => Size[q] <= Size[h]
  BY <1>1, <1>4, <1>6, Picked, Zenon
<1>9. SearchTyped'
  <2>1. h \in Proc \cup {NULL}
    BY <1>7, <1>8, Zenon
  <2> QED
    BY <1>1, <1>5, <2>1, Zenon DEF SearchOK, SearchTyped
<1>10. /\ search'.at = (IF h = NULL THEN "level" ELSE "check") /\ search'.procp = h
       /\ search'.level = l /\ search'.left = search.left /\ search'.min = search.min
       /\ search'.gave_up = search.gave_up
  BY <1>1, <1>3, <1>5 DEF SearchOK, SearchTyped
<1>11. AtLevel' /\ \A m \in search'.left : m >= search'.min
  BY <1>1, <1>6, <1>10, Zenon DEF AtLevel, SearchOK
<1>12. ASSUME NEW m \in Passed' PROVE Spent(m)'
  <2>1. m \in Level /\ m >= search.min /\ m \notin search.left
    BY <1>10, <1>12 DEF Passed
  <2>2. CASE m # l
    <3>1. m \in Passed
      BY <1>3, <2>1, <2>2, Zenon DEF Passed
    <3>2. Spent(m)
      BY <1>1, <3>1, Zenon DEF SearchOK
    <3> QED
      BY <1>1, <1>2, <1>10, <2>1, <3>2, SpentLater, Zenon
  <2>3. CASE m = l
    <3>1. h = NULL
      BY <1>10, <1>12, <2>3 DEF Passed
    <3>2. Spent(m)
      BY <1>8, <2>3, <3>1, Zenon DEF Spent
    <3> QED
      BY <1>1, <1>2, <1>10, <2>1, <3>2, SpentLater, Zenon
  <2> QED
    BY <2>2, <2>3
<1>13. ASSUME search'.at \in {"check", "kill"}
       PROVE  search'.procp \in Range(slots'[search'.level]) /\ Best'
  <2>1. h # NULL
    BY <1>10, <1>13
  <2>2. slots' = slots /\ state' = state
    BY <1>1, Zenon
  <2>3. \A q : Search!proc_get_size(q)' = Search!proc_get_size(q)
    BY <2>2, Zenon DEF Search!proc_get_size
  <2>4. Search!choose_heaviest_task(l)' <=> Search!choose_heaviest_task(l)
    BY Zenon DEF Search!choose_heaviest_task
  <2> QED
    BY <1>8, <1>10, <2>1, <2>2, <2>3, <2>4, Zenon DEF Best
<1>14. SearchOK'
  BY <1>9, <1>11, <1>12, <1>13, Zenon DEF SearchOK
<1> QED
  BY <1>2, <1>14, Zenon DEF SearchInv

(* drop_gone.                                                              *)
LEMMA DropStep ==
  ASSUME SearchConstants, SearchInv, NEW p, Search!drop_gone(p)
  PROVE  SearchInv'
<1>1. /\ ListsOK(slots) /\ StateOK /\ search.at = "pick" /\ search' = search
      /\ slots' = Search!Without(p) /\ state' = state
  BY Zenon DEF SearchInv, Search!drop_gone, Search!At
<1>2. Later
  BY <1>1, DropLater, Zenon DEF StateOK
<1>3. search.at \notin {"check", "kill"}
  BY <1>1
<1> QED
  BY <1>1, <1>2, <1>3, SearchStays, Zenon

(* check_passes.                                                           *)
LEMMA PassStep ==
  ASSUME SearchConstants, SearchInv, Search!check_passes
  PROVE  SearchInv'
<1>1. /\ ListsOK(slots) /\ StateOK /\ SearchOK /\ search # NULL /\ search.at = "check"
      /\ UNCHANGED <<slots, state>> /\ search' = [search EXCEPT !.at = "kill"]
  BY Zenon DEF SearchInv, Search!check_passes, Search!At
<1>2. Later /\ ListsOK(slots') /\ StateOK'
  BY <1>1, Still, Zenon DEF Later
<1>3. /\ search'.at = "kill" /\ search'.procp = search.procp /\ search'.gave_up = search.gave_up
      /\ search'.level = search.level /\ search'.left = search.left /\ search'.min = search.min
      /\ SearchTyped'
  BY <1>1 DEF SearchOK, SearchTyped
<1>4. AtLevel' /\ \A m \in search'.left : m >= search'.min
  BY <1>1, <1>3, Zenon DEF AtLevel, SearchOK
<1>5. ASSUME NEW m \in Passed' PROVE Spent(m)'
  <2>1. m \in Level /\ m \in Passed
    BY <1>1, <1>3, <1>5 DEF Passed
  <2>2. Spent(m)
    BY <1>1, <2>1, Zenon DEF SearchOK
  <2> QED
    BY <1>1, <1>2, <1>3, <2>1, <2>2, SpentLater, Zenon
<1>6. search'.procp \in Range(slots'[search'.level]) /\ Best'
  <2>1. search.procp \in Range(slots[search.level]) /\ Best /\ search.level \in Level
    BY <1>1, Zenon DEF SearchOK, AtLevel
  <2>2. Best'
    BY <1>1, <1>2, <1>3, <2>1, BestLater, Zenon
  <2> QED
    BY <1>1, <1>3, <2>1, <2>2, Zenon
<1>7. SearchOK'
  BY <1>3, <1>4, <1>5, <1>6, Zenon DEF SearchOK
<1> QED
  BY <1>2, <1>7, Zenon DEF SearchInv

(* kill_one_process returns: the loop goes on at the same level, the       *)
(* search has killed something, or it gives the level up.                  *)
LEMMA ResultStep ==
  ASSUME SearchConstants, SearchInv, search # NULL, search.at \in {"check", "kill"}, Later,
         NEW r \in Int, NEW killed \in SUBSET Proc, Search!Result(r, killed)
  PROVE  SearchInv'
<1>1. ListsOK(slots) /\ SearchOK /\ ListsOK(slots') /\ StateOK'
  BY Zenon DEF SearchInv, Later
<1>2. PICK l : l = search.level
  OBVIOUS
<1>3. l \in Level /\ l >= search.min /\ \A m \in search.left : m < l
  BY <1>1, <1>2, Zenon DEF SearchOK, AtLevel
<1>4. PICK g : g = IF r = 0 THEN search.gave_up \cup {l} ELSE search.gave_up
  BY Zenon
<1>5. PICK a : a = IF r < 0 THEN "pick" ELSE "level"
  OBVIOUS
<1>6. search' = [search EXCEPT !.killed_size = r, !.procp = NULL, !.at = a,
                               !.victims = @ \cup killed, !.gave_up = g]
  BY <1>2, <1>4, <1>5, SMTT(20) DEF Search!Result
<1>7. /\ search.gave_up \in SUBSET Level /\ g \in SUBSET Level /\ search.gave_up \subseteq g
      /\ a \in {"pick", "level"}
  BY <1>1, <1>3, <1>4, <1>5 DEF SearchOK, SearchTyped
<1>8. SearchTyped'
  BY <1>1, <1>6, <1>7, Zenon DEF SearchOK, SearchTyped
<1>9. /\ search'.at = a /\ search'.killed_size = r /\ search'.level = l
      /\ search'.left = search.left /\ search'.min = search.min /\ search'.gave_up = g
  BY <1>1, <1>2, <1>6 DEF SearchOK, SearchTyped
<1>10. AtLevel' /\ \A m \in search'.left : m >= search'.min
  BY <1>1, <1>3, <1>9, Zenon DEF AtLevel, SearchOK
<1>11. ASSUME NEW m \in Passed', a = "pick" \/ r = 0 PROVE Spent(m)'
  <2>1. m \in Level /\ m >= search.min /\ m \notin search.left
    BY <1>9, <1>11 DEF Passed
  <2>2. CASE m # l
    <3>1. m \in Passed
      BY <1>2, <2>1, <2>2, Zenon DEF Passed
    <3>2. Spent(m)
      BY <1>1, <3>1, Zenon DEF SearchOK
    <3> QED
      BY <1>1, <1>7, <1>9, <2>1, <3>2, SpentLater, Zenon
  <2>3. CASE m = l
    <3>1. r = 0
      BY <1>9, <1>11, <2>3 DEF Passed
    <3>2. m \in search'.gave_up
      BY <1>4, <1>9, <2>3, <3>1
    <3> QED
      BY <3>2, Zenon DEF Spent
  <2> QED
    BY <2>2, <2>3
<1>12. SearchOK'
  <2>1. search'.at \notin {"check", "kill"}
    BY <1>7, <1>9
  <2>2. ASSUME \/ search'.at \in {"pick", "check", "kill"}
               \/ search'.at = "level" /\ search'.killed_size = 0
        PROVE  a = "pick" \/ r = 0
    BY <1>9, <2>1, <2>2
  <2> QED
    BY <1>8, <1>10, <1>11, <2>1, <2>2, Zenon DEF SearchOK
<1> QED
  BY <1>1, <1>12, Zenon DEF SearchInv

(* kill_one_process: its checks fail, the hook frees memory, or it kills.  *)
LEMMA KillOneStep ==
  ASSUME SearchConstants, SearchInv,
         Search!check_fails \/ Search!hook_frees \/ Search!kill
  PROVE  SearchInv'
<1>1. ListsOK(slots) /\ StateOK /\ (search # NULL => SearchOK)
  BY Zenon DEF SearchInv
<1>2. CASE Search!check_fails
  <2>1. /\ search # NULL /\ search.at = "check" /\ slots' = Search!Without(search.procp)
        /\ state' = state /\ Search!Result(-1, {})
    BY <1>2, Zenon DEF Search!check_fails, Search!At
  <2>2. Later
    BY <1>1, <2>1, DropLater, Zenon DEF StateOK
  <2>3. -1 \in Int /\ {} \in SUBSET Proc
    OBVIOUS
  <2> QED
    BY <2>1, <2>2, <2>3, ResultStep, Zenon
<1>3. CASE Search!hook_frees
  <2>1. /\ search # NULL /\ search.at = "check" /\ UNCHANGED <<slots, state>>
        /\ Search!Result(1, {})
    BY <1>3, Zenon DEF Search!hook_frees, Search!At
  <2>2. Later
    BY <1>1, <2>1, Still, Zenon
  <2>3. 1 \in Int /\ {} \in SUBSET Proc
    OBVIOUS
  <2> QED
    BY <2>1, <2>2, <2>3, ResultStep, Zenon
<1>4. CASE Search!kill
  <2>1. PICK p : p = search.procp
    OBVIOUS
  <2>2. /\ search # NULL /\ search.at = "kill" /\ slots' = Search!Without(p)
        /\ \/ /\ Search!Result(Size[p], {p})
              /\ state' = [state EXCEPT ![p] = IF @ = "alive" THEN "zombie" ELSE @]
           \/ Search!Result(0, {}) /\ state' = state
    BY <1>4, <2>1, Zenon DEF Search!kill, Search!At
  <2>3. p \in Proc
    <3>1. p \in Range(slots[search.level]) /\ search.level \in Level
      BY <1>1, <2>1, <2>2, Zenon DEF SearchOK, AtLevel
    <3> QED
      BY <1>1, <3>1, Listed, Zenon
  <2>4. /\ state' \in [Proc -> {"alive", "zombie", "gone"}]
        /\ \A q \in Proc : state'[q] = "alive" => state[q] = "alive"
    BY <1>1, <2>2, <2>3 DEF StateOK
  <2>5. Later
    BY <1>1, <2>2, <2>4, DropLater, Zenon
  <2>6. PICK r \in Int, killed \in SUBSET Proc : Search!Result(r, killed)
    <3>1. Size[p] \in Int /\ {p} \in SUBSET Proc /\ 0 \in Int /\ {} \in SUBSET Proc
      BY <2>3 DEF SearchConstants
    <3> QED
      BY <2>2, <3>1, Zenon
  <2> QED
    BY <2>2, <2>5, <2>6, ResultStep, Zenon
<1> QED
  BY <1>2, <1>3, <1>4

(* The end of the search, and the pass over /proc.                         *)
LEMMA ScriptStep ==
  ASSUME SearchConstants, SearchInv,
         \/ Search!return \/ Search!proc_get_script \/ Search!opendir \/ Search!closedir
         \/ \E p \in Proc : Search!readdir(p)
  PROVE  SearchInv'
<1>1. ListsOK(slots) /\ StateOK /\ slots' = slots /\ search # NULL
      /\ search.at \notin {"check", "kill"}
  BY DEF SearchInv, Search!return, Search!proc_get_script, Search!opendir, Search!closedir,
         Search!readdir, Search!At
<1>2. Later /\ ListsOK(slots') /\ StateOK'
  <2>1. CASE state' = state
    BY <1>1, <2>1, Still, Zenon DEF Later
  <2>2. CASE \E p \in Proc : state' = [state EXCEPT ![p] = "zombie"]
    <3>1. PICK p \in Proc : state' = [state EXCEPT ![p] = "zombie"]
      BY <2>2, Zenon
    <3>2. "zombie" \in {"zombie", "gone"} /\ UNCHANGED slots
      BY <1>1
    <3> QED
      BY <1>1, <3>1, <3>2, DieLater, Zenon DEF Later
  <2> QED
    BY <2>1, <2>2, Zenon DEF Search!return, Search!proc_get_script, Search!opendir,
         Search!closedir, Search!readdir
<1>3. \/ search' = search \/ search' = NULL \/ search' = [search EXCEPT !.at = "script"]
      \/ search' = [search EXCEPT !.at = "repeat"]
  BY Zenon DEF Search!return, Search!proc_get_script, Search!opendir, Search!closedir,
       Search!readdir
<1>4. CASE search' = search
  BY <1>1, <1>2, <1>4, SearchStays, Zenon
<1>5. CASE search' # search
  BY <1>1, <1>2, <1>3, <1>5, SearchOver, Zenon
<1> QED
  BY <1>4, <1>5

(* Every step keeps the invariant.                                         *)
LEMMA SearchStep ==
  ASSUME SearchConstants, SearchInv, [Search!Next]_Search!vars
  PROVE  SearchInv'
<1>1. ListsOK(slots) /\ StateOK
  BY Zenon DEF SearchInv
<1>2. ASSUME NEW p \in Proc, NEW l \in Level, Search!procprio(p, l) PROVE SearchInv'
  <2>1. /\ search' = NULL /\ state' = state
        /\ slots' = [Search!Without(p) EXCEPT ![l] = <<p>> \o @]
    BY <1>2, Zenon DEF Search!procprio
  <2>2. ListsOK(slots')
    BY <1>1, <2>1, PutIn, Zenon
  <2> QED
    BY <1>1, <2>1, <2>2, Zenon DEF SearchInv, StateOK
<1>3. ASSUME NEW p \in Proc, Search!watchdog_kills(p) \/ Search!dies(p) PROVE SearchInv'
  <2>1. UNCHANGED slots /\ search' = search
    BY <1>3, Zenon DEF Search!watchdog_kills, Search!dies
  <2>2. PICK s \in {"zombie", "gone"} : state' = [state EXCEPT ![p] = s]
    <3>1. CASE Search!watchdog_kills(p)
      BY <3>1, Zenon DEF Search!watchdog_kills
    <3>2. CASE Search!dies(p)
      BY <3>2, Zenon DEF Search!dies
    <3> QED
      BY <1>3, <3>1, <3>2
  <2>3. Later
    BY <1>1, <2>1, <2>2, DieLater, Zenon
  <2> QED
    BY <2>1, <2>3, SearchStays, Zenon
<1>4. CASE UNCHANGED Search!vars
  <2>1. UNCHANGED <<slots, state>> /\ search' = search
    BY <1>4 DEF Search!vars
  <2>2. Later
    BY <1>1, <2>1, Still, Zenon
  <2> QED
    BY <2>1, <2>2, SearchStays, Zenon
<1>5. CASE Search!main_thread
  BY <1>5, NextLevelStep, PickStep, DropStep, PassStep, KillOneStep, ScriptStep, Zenon
     DEF Search!main_thread
<1> QED
  BY <1>2, <1>3, <1>4, <1>5, StartSearch, Zenon DEF Search!Next

(* There is no record and no search at first.                              *)
LEMMA SearchInit == Search!Init => SearchInv
<1> SUFFICES ASSUME Search!Init PROVE SearchInv
  OBVIOUS
<1>1. slots = [l \in Level |-> <<>>] /\ state = [p \in Proc |-> "alive"] /\ search = NULL
  BY Zenon DEF Search!Init
<1>2. ListsOK(slots)
  <2>1. slots \in [Level -> Seq(Proc)] /\ \A l \in Level : slots[l] = <<>>
    BY <1>1
  <2>2. \A l \in Level : Distinct(slots[l]) /\ Range(slots[l]) = {}
    BY <2>1 DEF Distinct, Range
  <2> QED
    BY <2>1, <2>2 DEF ListsOK
<1> QED
  BY <1>1, <1>2 DEF SearchInv, StateOK

(* No process is in two places of the lists.                               *)
LEMMA SearchTypes == SearchInv => Search!TypeOK
<1> SUFFICES ASSUME SearchInv PROVE Search!TypeOK
  OBVIOUS
<1>1. ListsOK(slots) /\ (search # NULL => SearchOK)
  BY Zenon DEF SearchInv
<1>2. ASSUME NEW l \in Level, NEW m \in Level, NEW i \in DOMAIN slots[l], NEW j \in DOMAIN slots[m],
             slots[l][i] = slots[m][j]
      PROVE  l = m /\ i = j
  <2>1. slots[l][i] \in Range(slots[l]) /\ slots[m][j] \in Range(slots[m])
    BY Zenon DEF Range
  <2>2. l = m
    BY <1>1, <1>2, <2>1 DEF ListsOK
  <2> QED
    BY <1>1, <1>2, <2>2, Zenon DEF ListsOK, Distinct
<1>3. ASSUME search # NULL
      PROVE  /\ search.killed_size \in Int
             /\ search.at \in {"check", "kill"} =>
                  search.procp \in Search!Range(slots[search.level])
  <2>1. SearchOK
    BY <1>1, <1>3
  <2>2. search.killed_size \in Int
    BY <2>1 DEF SearchOK, SearchTyped
  <2> QED
    BY <2>1, <2>2, SameRange, Zenon DEF SearchOK
<1> QED
  BY <1>2, <1>3, Zenon DEF Search!TypeOK

(* find_and_kill_process kills the most expendable process, whatever the   *)
(* levels, sizes and preferred apps: when kill_one_process kills at some   *)
(* oom_score_adj, every higher one has no record left, or no process with  *)
(* memory where the heaviest is looked for, or a kill there freed nothing, *)
(* although records are dropped and processes die during the search.       *)
THEOREM VictimMostExpendable ==
  SearchConstants => (Search!Spec => []Search!MostExpendableFirst)
<1> SUFFICES ASSUME SearchConstants PROVE Search!Spec => []Search!MostExpendableFirst
  OBVIOUS
<1>1. Search!Init => SearchInv
  BY SearchInit
<1>2. SearchInv /\ [Search!Next]_Search!vars => SearchInv'
  BY SearchStep
<1>3. SearchInv => Search!MostExpendableFirst
  <2> SUFFICES ASSUME SearchInv PROVE Search!MostExpendableFirst
    OBVIOUS
  <2>1. Search!TypeOK
    BY SearchTypes
  <2>2. ASSUME Search!At("kill")
        PROVE  /\ search.level >= search.min
               /\ \A l \in Level : l > search.level =>
                    \/ slots[l] = <<>> \/ l \in search.gave_up
                    \/ /\ Search!choose_heaviest_task(l)
                       /\ \A p \in Search!Range(slots[l]) : Search!proc_get_size(p) = 0
    <3>1. ListsOK(slots) /\ SearchOK /\ search.at = "kill"
      BY <2>2, Zenon DEF SearchInv, Search!At
    <3>2. /\ search.level \in Level /\ search.level >= search.min
          /\ \A l \in search.left : l < search.level
      BY <3>1 DEF SearchOK, AtLevel
    <3>3. ASSUME NEW l \in Level, l > search.level PROVE Spent(l)
      <4>1. Level \subseteq Int /\ search.min \in Int
        BY <3>1, Scored DEF SearchOK, SearchTyped
      <4>2. l >= search.min /\ l # search.level /\ l \notin search.left
        BY <3>2, <3>3, <4>1
      <4>3. l \in Passed
        BY <4>2, Zenon DEF Passed
      <4> QED
        BY <3>1, <4>3, Zenon DEF SearchOK
    <3>4. ASSUME NEW l \in Level, Range(slots[l]) = {} PROVE slots[l] = <<>>
      <4>1. PICK s : s = slots[l]
        OBVIOUS
      <4>2. s \in Seq(Proc) /\ Range(s) = {}
        BY <3>1, <3>4, <4>1, Listed
      <4>3. s = <<>>
        BY <4>2 DEF Range
      <4> QED
        BY <4>1, <4>3
    <3> QED
      BY <3>2, <3>3, <3>4, SameRange, Zenon DEF Spent
  <2> QED
    BY <2>1, <2>2, Zenon DEF Search!MostExpendableFirst
<1> QED
  BY <1>1, <1>2, <1>3, PTL DEF Search!Spec

(* proc_get_heaviest spares the preferred apps, whatever the sizes: one of *)
(* them is killed only at a level that has no other process with memory,   *)
(* and never a lighter process than another of its kind.                   *)
THEOREM PreferredAppsSpared ==
  SearchConstants => (Search!Spec => []Search!PreferredSpared)
<1> SUFFICES ASSUME SearchConstants PROVE Search!Spec => []Search!PreferredSpared
  OBVIOUS
<1>1. Search!Init => SearchInv
  BY SearchInit
<1>2. SearchInv /\ [Search!Next]_Search!vars => SearchInv'
  BY SearchStep
<1>3. SearchInv => Search!PreferredSpared
  BY SameRange, Zenon DEF SearchInv, SearchOK, Best, Search!PreferredSpared, Search!At
<1> QED
  BY <1>1, <1>2, <1>3, PTL DEF Search!Spec
=============================================================================
