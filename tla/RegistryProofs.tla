--------------------------- MODULE RegistryProofs ---------------------------
(***************************************************************************)
(* Proofs about ProcRegistry: for any number of processes, clients,        *)
(* oom_score_adj values and hash buckets, the adj lists stay well-formed   *)
(* and the hash table indexes exactly the registered processes.            *)
(*                                                                         *)
(* And about lmkd's other table, that of the monitors in Monitors.tla, for *)
(* any set of properties and any number of restarts.                       *)
(***************************************************************************)
EXTENDS ProcRegistry, TLAPS

(* l is a pair of pointer functions, each the inverse of the other.        *)
Inverse2(l) ==
  /\ l.next \in [Node -> Node] /\ l.prev \in [Node -> Node]
  /\ \A n \in Node : l.prev[l.next[n]] = n /\ l.next[l.prev[n]] = n

(* What adjslot_remove followed by free leaves: p is linked to itself and  *)
(* its neighbours to each other.                                           *)
LEMMA RemoveLinks ==
  ASSUME NEW l, Inverse2(l), NEW p \in Node,
         NEW m, m = free(adjslot_remove(l, p), p)
  PROVE  /\ Inverse2(m)
         /\ m.next[p] = p /\ m.prev[p] = p
         /\ \A n \in Node \ {p} :
              m.next[n] = (IF l.next[n] = p THEN l.next[p] ELSE l.next[n])
<1>1. /\ m.next = [[l.next EXCEPT ![l.prev[p]] = l.next[p]] EXCEPT ![p] = p]
      /\ m.prev = [[l.prev EXCEPT ![l.next[p]] = l.prev[p]] EXCEPT ![p] = p]
  BY DEF free, adjslot_remove
<1>2. /\ l.next \in [Node -> Node] /\ l.prev \in [Node -> Node]
      /\ \A n \in Node : l.prev[l.next[n]] = n /\ l.next[l.prev[n]] = n
      /\ l.next[p] \in Node /\ l.prev[p] \in Node
  BY DEF Inverse2
<1>3. m.next \in [Node -> Node] /\ m.prev \in [Node -> Node]
  BY <1>1, <1>2, SMTT(30)
<1>4. \A n \in Node : m.next[n] = (IF n = p THEN p ELSE IF n = l.prev[p] THEN l.next[p] ELSE l.next[n])
  BY <1>1, <1>2
<1>5. \A n \in Node : m.prev[n] = (IF n = p THEN p ELSE IF n = l.next[p] THEN l.prev[p] ELSE l.prev[n])
  BY <1>1, <1>2
<1>6. \A n \in Node : m.prev[m.next[n]] = n
  BY <1>2, <1>4, <1>5, SMTT(30)
<1>7. \A n \in Node : m.next[m.prev[n]] = n
  BY <1>2, <1>4, <1>5
<1>8. Inverse2(m)
  BY <1>3, <1>6, <1>7, ZenonT(30) DEF Inverse2
<1>9. m.next[p] = p /\ m.prev[p] = p
  BY <1>4, <1>5
<1>10. \A n \in Node \ {p} :
         m.next[n] = (IF l.next[n] = p THEN l.next[p] ELSE l.next[n])
  BY <1>2, <1>4
<1> QED
  BY <1>8, <1>9, <1>10

(* What adjslot_insert does with an element that is linked to itself.      *)
LEMMA InsertLinks ==
  ASSUME NEW l, Inverse2(l), NEW head \in Node, NEW new \in Node, head # new,
         l.next[new] = new, l.prev[new] = new,
         NEW m, m = adjslot_insert(l, head, new)
  PROVE  /\ Inverse2(m)
         /\ m.next[head] = new /\ m.next[new] = l.next[head] /\ l.next[head] # new
         /\ \A n \in Node \ {head, new} : m.next[n] = l.next[n] /\ l.next[n] # new
<1>1. /\ m.next = [[l.next EXCEPT ![new] = l.next[head]] EXCEPT ![head] = new]
      /\ m.prev = [[l.prev EXCEPT ![new] = head] EXCEPT ![l.next[head]] = new]
  BY DEF adjslot_insert
<1>2. /\ l.next \in [Node -> Node] /\ l.prev \in [Node -> Node]
      /\ \A n \in Node : l.prev[l.next[n]] = n /\ l.next[l.prev[n]] = n
      /\ l.next[head] \in Node
  BY DEF Inverse2
<1>3. l.next[head] # new /\ \A n \in Node \ {new} : l.next[n] # new /\ l.prev[n] # new
  BY <1>2
<1>4. m.next \in [Node -> Node] /\ m.prev \in [Node -> Node]
  <2>1. m.next \in [Node -> Node]
    BY <1>1, <1>2, SMTT(30)
  <2>2. m.prev \in [Node -> Node]
    BY <1>1, <1>2, SMTT(30)
  <2> QED
    BY <2>1, <2>2
<1>5. \A n \in Node : m.next[n] = (IF n = head THEN new ELSE IF n = new THEN l.next[head] ELSE l.next[n])
  BY <1>1, <1>2
<1>6. \A n \in Node : m.prev[n] = (IF n = l.next[head] THEN new ELSE IF n = new THEN head ELSE l.prev[n])
  BY <1>1, <1>2
<1>7. \A n \in Node : m.prev[m.next[n]] = n
  BY <1>2, <1>3, <1>5, <1>6
<1>8. \A n \in Node : m.next[m.prev[n]] = n
  BY <1>2, <1>3, <1>5, <1>6, SMTT(30)
<1> QED
  BY <1>3, <1>4, <1>5, <1>7, <1>8, ZenonT(30) DEF Inverse2

(* adjslot_insert does not look at the old pointers of the new element.    *)
LEMMA InsertIgnoresOld ==
  ASSUME NEW l, l.next \in [Node -> Node], l.prev \in [Node -> Node],
         NEW head \in Node, NEW new \in Node, head # new, l.next[head] # new
  PROVE  LET m == free(l, new)
         IN  /\ adjslot_insert(l, head, new).next = adjslot_insert(m, head, new).next
             /\ adjslot_insert(l, head, new).prev = adjslot_insert(m, head, new).prev
  BY DEF adjslot_insert, free

(* The pointers, with the lists of the live elements.  o is oomadj.        *)
Linked(l, live, o) ==
  /\ Inverse2(l)
  /\ \A n \in live \cup Adj :
       /\ l.next[n] \in live \cup Adj
       /\ (IF l.next[n] \in Pid THEN o[l.next[n]] ELSE l.next[n])
            = (IF n \in Pid THEN o[n] ELSE n)
  /\ \A p \in Pid \ live : l.next[p] = p /\ l.prev[p] = p

(* Removing a live element keeps the lists of the others.                  *)
LEMMA RemoveLinked ==
  ASSUME NEW l, NEW live \in SUBSET Pid, NEW o \in [Pid -> Adj], Linked(l, live, o),
         NEW p \in live, NEW m, m = free(adjslot_remove(l, p), p)
  PROVE  Linked(m, live \ {p}, o)
<1>1. Inverse2(l) /\ p \in Node /\ p \in Pid /\ p \notin Adj
  BY AdjAssumption DEF Linked, Node
<1>2. /\ Inverse2(m) /\ m.next[p] = p /\ m.prev[p] = p
      /\ \A n \in Node \ {p} :
           m.next[n] = (IF l.next[n] = p THEN l.next[p] ELSE l.next[n])
  BY <1>1, RemoveLinks
<1>3. ASSUME NEW n \in (live \ {p}) \cup Adj
      PROVE  /\ m.next[n] \in (live \ {p}) \cup Adj
             /\ (IF m.next[n] \in Pid THEN o[m.next[n]] ELSE m.next[n])
                  = (IF n \in Pid THEN o[n] ELSE n)
  <2>1. n \in Node /\ n # p /\ n \in live \cup Adj /\ p \in live \cup Adj
    BY <1>1 DEF Node
  <2>2. CASE l.next[n] = p
    <3>1. m.next[n] = l.next[p] /\ l.next[p] \in live \cup Adj
      BY <1>2, <2>1, <2>2 DEF Linked
    <3>2. l.next[p] # p
      BY <1>1, <2>1, <2>2 DEF Inverse2
    <3> QED
      BY <1>1, <2>1, <2>2, <3>1, <3>2 DEF Linked
  <2>3. CASE l.next[n] # p
    BY <1>2, <2>1, <2>3 DEF Linked
  <2> QED
    BY <2>2, <2>3
<1>4. ASSUME NEW q \in Pid \ (live \ {p}), q # p
      PROVE  m.next[q] = q /\ m.prev[q] = q
  <2>1. q \in Node /\ l.next[q] = q
    BY <1>4 DEF Linked, Node
  <2>2. m.next[q] = q
    BY <1>2, <1>4, <2>1
  <2> QED
    BY <1>2, <2>1, <2>2 DEF Inverse2
<1> QED
  BY <1>2, <1>3, <1>4 DEF Linked

(* Inserting an element after the anchor of its oom_score_adj.             *)
LEMMA InsertLinked ==
  ASSUME NEW l, NEW live \in SUBSET Pid, NEW o \in [Pid -> Adj], Linked(l, live, o),
         NEW p \in Pid \ live, NEW a \in Adj, NEW m, m = adjslot_insert(l, a, p)
  PROVE  Linked(m, live \cup {p}, [o EXCEPT ![p] = a])
<1> DEFINE o2 == [o EXCEPT ![p] = a]
<1>1. /\ Inverse2(l) /\ p \in Node /\ a \in Node /\ a # p /\ p \notin Adj
      /\ l.next[p] = p /\ l.prev[p] = p
  BY AdjAssumption DEF Linked, Node
<1>2. /\ Inverse2(m)
      /\ m.next[a] = p /\ m.next[p] = l.next[a] /\ l.next[a] # p
      /\ \A n \in Node \ {a, p} : m.next[n] = l.next[n] /\ l.next[n] # p
  BY <1>1, InsertLinks
<1>3. o2[p] = a /\ \A q \in Pid \ {p} : o2[q] = o[q]
  OBVIOUS
<1>4. ASSUME NEW n \in (live \cup {p}) \cup Adj
      PROVE  /\ m.next[n] \in (live \cup {p}) \cup Adj
             /\ (IF m.next[n] \in Pid THEN o2[m.next[n]] ELSE m.next[n])
                  = (IF n \in Pid THEN o2[n] ELSE n)
  <2>1. CASE n = a
    BY <1>1, <1>2, <1>3, <2>1, AdjAssumption
  <2>2. CASE n = p
    <3>1. l.next[a] \in live \cup Adj
      BY DEF Linked
    <3>2. (IF l.next[a] \in Pid THEN o[l.next[a]] ELSE l.next[a]) = a
      BY AdjAssumption DEF Linked
    <3> QED
      BY <1>2, <1>3, <2>2, <3>1, <3>2
  <2>3. CASE n # a /\ n # p
    <3>1. n \in live \cup Adj /\ n \in Node
      BY <2>3 DEF Node
    <3>2. m.next[n] = l.next[n] /\ l.next[n] # p
      BY <1>2, <2>3, <3>1
    <3> QED
      BY <1>3, <2>3, <3>1, <3>2 DEF Linked
  <2> QED
    BY <2>1, <2>2, <2>3
<1>5. ASSUME NEW q \in Pid \ (live \cup {p})
      PROVE  m.next[q] = q /\ m.prev[q] = q
  <2>1. q \in Node \ {a, p} /\ l.next[q] = q
    BY AdjAssumption DEF Linked, Node
  <2>2. m.next[q] = q
    BY <1>2, <2>1
  <2> QED
    BY <1>2, <2>1, <2>2 DEF Inverse2
<1> QED
  BY <1>2, <1>4, <1>5 DEF Linked

(* A hash chain lists each of its records once.                            *)
Distinct(s) == \A i, j \in DOMAIN s : s[i] = s[j] => i = j

(* Unlinking a record from its chain leaves the others.                    *)
LEMMA UnhashChain ==
  ASSUME NEW s \in Seq(Pid), Distinct(s), NEW p \in Range(s)
  PROVE  /\ unhash(s, p) \in Seq(Pid) /\ Distinct(unhash(s, p))
         /\ Range(unhash(s, p)) = Range(s) \ {p}
<1> DEFINE i == CHOOSE k \in DOMAIN s : s[k] = p
           r == unhash(s, p)
<1>1. i \in DOMAIN s /\ s[i] = p
  BY DEF Range
<1>2. /\ Len(s) \in Nat /\ DOMAIN s = 1..Len(s) /\ i \in 1..Len(s)
      /\ \A k \in 1..Len(s) : s[k] \in Pid
  BY <1>1
<1>3. r = SubSeq(s, 1, i - 1) \o SubSeq(s, i + 1, Len(s))
  BY DEF unhash
<1> HIDE DEF i, r
<1>4. /\ r \in Seq(Pid) /\ Len(r) = Len(s) - 1
      /\ \A k \in 1..(Len(s) - 1) : r[k] = IF k < i THEN s[k] ELSE s[k + 1]
  <2> DEFINE u == SubSeq(s, 1, i - 1)
             v == SubSeq(s, i + 1, Len(s))
  <2>1. /\ u \in Seq(Pid) /\ Len(u) = i - 1
        /\ \A k \in 1..(i - 1) : u[k] = s[k]
    BY <1>2
  <2>2. /\ v \in Seq(Pid) /\ Len(v) = Len(s) - i
        /\ \A k \in 1..(Len(s) - i) : v[k] = s[k + i]
    <3>1. i + 1 \in Int /\ Len(s) \in Int /\ \A k \in (i + 1)..Len(s) : s[k] \in Pid
      BY <1>2
    <3>2. /\ v \in Seq(Pid)
          /\ Len(v) = IF i + 1 <= Len(s) THEN Len(s) - (i + 1) + 1 ELSE 0
          /\ \A k \in 1..(Len(s) - (i + 1) + 1) : v[k] = s[(i + 1) + k - 1]
      BY <3>1
    <3> HIDE DEF v
    <3>3. Len(v) = Len(s) - i
      <4>1. Len(s) \in Int /\ i \in Int /\ i <= Len(s)
        BY <1>2
      <4>2. Len(v) = IF i + 1 <= Len(s) THEN Len(s) - (i + 1) + 1 ELSE 0
        BY <3>2
      <4> QED
        BY <4>1, <4>2
    <3>4. ASSUME NEW k \in 1..(Len(s) - i) PROVE v[k] = s[k + i]
      <4>1. k \in 1..(Len(s) - (i + 1) + 1) /\ (i + 1) + k - 1 = k + i
        BY <1>2
      <4> QED
        BY <3>2, <4>1
    <3> QED
      BY <3>2, <3>3, <3>4
  <2> HIDE DEF u, v
  <2>3. r = u \o v
    BY <1>3 DEF u, v
  <2>4. /\ r \in Seq(Pid) /\ Len(r) = Len(u) + Len(v)
        /\ \A k \in 1..(Len(u) + Len(v)) :
             r[k] = IF k <= Len(u) THEN u[k] ELSE v[k - Len(u)]
    <3>1. u \in Seq(Pid) /\ v \in Seq(Pid)
      BY <2>1, <2>2
    <3>2. Len(u) \in Nat /\ Len(v) \in Nat
      BY <3>1
    <3>3. r \in Seq(Pid) /\ Len(r) = Len(u) + Len(v)
      BY <2>3, <3>1
    <3>4. ASSUME NEW k \in 1..(Len(u) + Len(v))
          PROVE  r[k] = IF k <= Len(u) THEN u[k] ELSE v[k - Len(u)]
      BY <2>3, <3>1, <3>2
    <3> QED
      BY <3>3, <3>4
  <2>5. Len(r) = Len(s) - 1
    BY <1>2, <2>1, <2>2, <2>4
  <2>6. ASSUME NEW k \in 1..(Len(s) - 1)
        PROVE  r[k] = IF k < i THEN s[k] ELSE s[k + 1]
    <3>1. r[k] = IF k <= i - 1 THEN u[k] ELSE v[k - (i - 1)]
      BY <1>2, <2>1, <2>2, <2>4
    <3>2. CASE k < i
      BY <1>2, <2>1, <3>1, <3>2
    <3>3. CASE k >= i
      <4>1. k - (i - 1) \in 1..(Len(s) - i) /\ (k - (i - 1)) + i = k + 1
        BY <1>2, <3>3
      <4> QED
        BY <1>2, <2>2, <3>1, <3>3, <4>1
    <3> QED
      BY <1>2, <3>2, <3>3
  <2> QED
    BY <2>4, <2>5, <2>6
<1>5. DOMAIN r = 1..(Len(s) - 1)
  BY <1>4
<1>6. Distinct(r)
  <2> SUFFICES ASSUME NEW j \in 1..(Len(s) - 1), NEW k \in 1..(Len(s) - 1), r[j] = r[k]
               PROVE  j = k
    BY <1>5 DEF Distinct
  <2> DEFINE skip(n) == IF n < i THEN n ELSE n + 1
  <2>1. skip(j) \in 1..Len(s) /\ skip(k) \in 1..Len(s)
    BY <1>2
  <2>2. s[skip(j)] = s[skip(k)]
    BY <1>4
  <2>3. skip(j) = skip(k)
    BY <1>2, <2>1, <2>2 DEF Distinct
  <2> QED
    BY <1>2, <2>3
<1>7. ASSUME NEW x \in Range(r) PROVE x \in Range(s) \ {p}
  <2>1. PICK k \in 1..(Len(s) - 1) : x = r[k]
    BY <1>5 DEF Range
  <2>2. PICK j \in 1..Len(s) : x = s[j] /\ j # i
    <3>1. CASE k < i
      BY <1>2, <1>4, <2>1, <3>1
    <3>2. CASE k >= i
      <4>1. k + 1 \in 1..Len(s) /\ k + 1 # i /\ x = s[k + 1]
        BY <1>2, <1>4, <2>1, <3>2
      <4> QED
        BY <4>1
    <3> QED
      BY <1>2, <3>1, <3>2
  <2>3. s[j] # s[i]
    BY <1>1, <1>2, <2>2 DEF Distinct
  <2> QED
    BY <1>1, <1>2, <2>2, <2>3 DEF Range
<1>8. ASSUME NEW x \in Range(s), x # p PROVE x \in Range(r)
  <2>1. PICK k \in 1..Len(s) : x = s[k]
    BY <1>2 DEF Range
  <2>2. k # i
    BY <1>1, <1>8, <2>1
  <2>3. CASE k < i
    <3>1. k \in DOMAIN r /\ r[k] = x
      BY <1>2, <1>4, <1>5, <2>1, <2>3
    <3> QED
      BY <3>1 DEF Range
  <2>4. CASE k > i
    <3>1. k - 1 \in DOMAIN r /\ r[k - 1] = x
      BY <1>2, <1>4, <1>5, <2>1, <2>4
    <3> QED
      BY <3>1 DEF Range
  <2> QED
    BY <1>2, <2>2, <2>3, <2>4
<1> QED
  BY <1>4, <1>6, <1>7, <1>8 DEF r

(* Linking a record to the front of its chain.                             *)
LEMMA PushChain ==
  ASSUME NEW s \in Seq(Pid), Distinct(s), NEW p \in Pid \ Range(s)
  PROVE  /\ <<p>> \o s \in Seq(Pid) /\ Distinct(<<p>> \o s)
         /\ Range(<<p>> \o s) = Range(s) \cup {p}
<1> DEFINE r == <<p>> \o s
<1>1. /\ Len(s) \in Nat /\ DOMAIN s = 1..Len(s)
      /\ \A k \in 1..Len(s) : s[k] \in Range(s)
  BY DEF Range
<1>2. /\ r \in Seq(Pid) /\ Len(r) = Len(s) + 1
      /\ \A k \in 1..(Len(s) + 1) : r[k] = IF k = 1 THEN p ELSE s[k - 1]
  BY <1>1
<1>3. DOMAIN r = 1..(Len(s) + 1)
  BY <1>2
<1> HIDE DEF r
<1>4. Distinct(r)
  <2> SUFFICES ASSUME NEW j \in 1..(Len(s) + 1), NEW k \in 1..(Len(s) + 1), r[j] = r[k]
               PROVE  j = k
    BY <1>3 DEF Distinct
  <2>1. ASSUME NEW n \in 1..(Len(s) + 1), n # 1
        PROVE  n - 1 \in 1..Len(s) /\ r[n] = s[n - 1] /\ r[n] # p
    <3>1. n - 1 \in 1..Len(s) /\ r[n] = s[n - 1]
      BY <1>1, <1>2, <2>1
    <3> QED
      BY <1>1, <3>1
  <2>2. CASE j = 1 \/ k = 1
    BY <1>1, <1>2, <2>1, <2>2
  <2>3. CASE j # 1 /\ k # 1
    <3>1. j - 1 = k - 1
      BY <1>1, <2>1, <2>3 DEF Distinct
    <3> QED
      BY <1>1, <3>1
  <2> QED
    BY <2>2, <2>3
<1>5. ASSUME NEW x \in Range(r) PROVE x \in Range(s) \cup {p}
  BY <1>1, <1>2, <1>3, SMTT(30) DEF Range
<1>6. p \in Range(r)
  BY <1>1, <1>2, <1>3, SMTT(30) DEF Range
<1>7. ASSUME NEW x \in Range(s) PROVE x \in Range(r)
  <2>1. PICK k \in 1..Len(s) : x = s[k]
    BY <1>1 DEF Range
  <2>2. k + 1 \in DOMAIN r /\ r[k + 1] = x
    BY <1>1, <1>2, <1>3, <2>1
  <2> QED
    BY <2>2 DEF Range
<1> QED
  BY <1>2, <1>4, <1>5, <1>6, <1>7 DEF r

(* What the walk of procpurge has yet to visit after one record.           *)
LEMMA TailChain ==
  ASSUME NEW s \in Seq(Pid), s # <<>>, Distinct(s)
  PROVE  /\ Head(s) \in Range(s) /\ Tail(s) \in Seq(Pid) /\ Distinct(Tail(s))
         /\ Range(Tail(s)) \subseteq Range(s) \ {Head(s)}
<1>1. /\ Len(s) \in Nat \ {0} /\ DOMAIN s = 1..Len(s) /\ Head(s) = s[1] /\ Tail(s) \in Seq(Pid)
      /\ DOMAIN Tail(s) = 1..(Len(s) - 1)
      /\ \A k \in 1..(Len(s) - 1) : Tail(s)[k] = s[k + 1]
  OBVIOUS
<1>2. Head(s) \in Range(s)
  BY <1>1 DEF Range
<1>3. ASSUME NEW k \in 1..(Len(s) - 1)
      PROVE  Tail(s)[k] = s[k + 1] /\ k + 1 \in DOMAIN s /\ 1 \in DOMAIN s /\ k + 1 # 1
  BY <1>1
<1>4. Distinct(Tail(s))
  BY <1>1, <1>3 DEF Distinct
<1>5. Range(Tail(s)) \subseteq Range(s) \ {Head(s)}
  BY <1>1, <1>3 DEF Range, Distinct
<1> QED
  BY <1>1, <1>2, <1>4, <1>5

-----------------------------------------------------------------------------
(* The inductive invariant: the lists and freed records of Linked, the     *)
(* hash index, and that what procpurge has yet to visit of a chain is      *)
(* still there.                                                            *)
PurgeOK ==
  purge # NULL =>
    /\ purge \in [client : Client, at : Bucket, todo : Seq(Pid)]
    /\ Distinct(purge.todo) /\ Range(purge.todo) \subseteq Range(pidhash[purge.at])

IInv == TypeOK /\ Linked(L, Live, oomadj) /\ HashIndexesRecords /\ PurgeOK

(* pid_lookup finds exactly the registered processes.                      *)
LEMMA LookupCorrect ==
  ASSUME TypeOK, HashIndexesRecords, NEW p \in Pid
  PROVE  pid_lookup(p) <=> p \in Live
  BY HashAssumption DEF pid_lookup, HashIndexesRecords, Bucket

(* Linked depends on the two pointer functions only.                       *)
LEMMA LinkedSame ==
  ASSUME NEW l, NEW m, NEW live, NEW o, Linked(l, live, o),
         m.next = l.next, m.prev = l.prev
  PROVE  Linked(m, live, o)
  BY DEF Linked, Inverse2

(* pid_remove takes one record out of the lists and of the hash table.     *)
LEMMA PidRemove ==
  ASSUME TypeOK, Linked(L, Live, oomadj), HashIndexesRecords,
         NEW p \in Live, pid_remove(p)
  PROVE  /\ pidhash' \in [Bucket -> Seq(Pid)]
         /\ next' \in [Node -> Node] /\ prev' \in [Node -> Node]
         /\ oomadj' \in [Pid -> Adj]
         /\ reg_pid' \in [Pid -> Client \cup {Nobody, NULL}]
         /\ Linked(L, Live, oomadj)' /\ HashIndexesRecords'
         /\ \A b \in Bucket : Range(pidhash'[b]) = Range(pidhash[b]) \ {p}
<1> DEFINE m == free(adjslot_remove(L, p), p)
<1>1. p \in Pid /\ Live \subseteq Pid /\ Hash[p] \in Bucket
  BY HashAssumption DEF Live, Bucket
<1>2. /\ pidhash' = [pidhash EXCEPT ![Hash[p]] = unhash(@, p)]
      /\ reg_pid' = [reg_pid EXCEPT ![p] = NULL] /\ oomadj' = oomadj
      /\ next' = m.next /\ prev' = m.prev
  BY DEF pid_remove, Install
<1>3. Live' = Live \ {p}
  BY <1>1, <1>2 DEF Live, TypeOK
<1>4. Linked(m, Live \ {p}, oomadj)
  BY <1>1, RemoveLinked DEF TypeOK
<1>5. Linked(L, Live, oomadj)'
  <2>1. L'.next = m.next /\ L'.prev = m.prev
    BY <1>2 DEF L
  <2>2. Linked(L', Live \ {p}, oomadj)
    BY <1>4, <2>1, LinkedSame
  <2> QED
    BY <1>2, <1>3, <2>2
<1>6. next' \in [Node -> Node] /\ prev' \in [Node -> Node]
  BY <1>2, <1>4, SMTT(30) DEF Linked, Inverse2
<1> HIDE DEF m
<1>7. /\ pidhash[Hash[p]] \in Seq(Pid) /\ Distinct(pidhash[Hash[p]])
      /\ p \in Range(pidhash[Hash[p]])
  BY <1>1 DEF TypeOK, HashIndexesRecords, Distinct
<1>8. /\ unhash(pidhash[Hash[p]], p) \in Seq(Pid) /\ Distinct(unhash(pidhash[Hash[p]], p))
      /\ Range(unhash(pidhash[Hash[p]], p)) = Range(pidhash[Hash[p]]) \ {p}
  BY <1>7, UnhashChain
<1>9. /\ pidhash' \in [Bucket -> Seq(Pid)]
      /\ \A b \in Bucket : pidhash'[b] = IF b = Hash[p] THEN unhash(pidhash[Hash[p]], p)
                                       ELSE pidhash[b]
  BY <1>1, <1>2, <1>8 DEF TypeOK
<1>10. \A b \in Bucket : Distinct(pidhash'[b]) /\ Range(pidhash'[b]) = Range(pidhash[b]) \ {p}
  <2> SUFFICES ASSUME NEW b \in Bucket
               PROVE  Distinct(pidhash'[b]) /\ Range(pidhash'[b]) = Range(pidhash[b]) \ {p}
    OBVIOUS
  <2>1. CASE b = Hash[p]
    BY <1>8, <1>9, <2>1
  <2>2. CASE b # Hash[p]
    <3>1. p \notin Range(pidhash[b]) /\ Distinct(pidhash[b])
      BY <2>2 DEF HashIndexesRecords, Distinct
    <3> QED
      BY <1>9, <2>2, <3>1
  <2> QED
    BY <2>1, <2>2
<1>11. HashIndexesRecords'
  <2>1. \A b \in Bucket : Range(pidhash'[b]) = {q \in Live' : Hash[q] = b}
    BY <1>3, <1>10 DEF HashIndexesRecords
  <2> QED
    BY <1>10, <2>1 DEF HashIndexesRecords, Distinct
<1>12. reg_pid' \in [Pid -> Client \cup {Nobody, NULL}] /\ oomadj' \in [Pid -> Adj]
  BY <1>1, <1>2 DEF TypeOK
<1> QED
  BY <1>5, <1>6, <1>9, <1>10, <1>11, <1>12

(* proc_insert adds a record to the list of its oom_score_adj and to its   *)
(* hash chain.                                                             *)
LEMMA ProcInsert ==
  ASSUME TypeOK, Linked(L, Live, oomadj), HashIndexesRecords,
         NEW c \in Client, NEW p \in Pid \ Live, NEW a \in Adj, proc_insert(c, p, a)
  PROVE  /\ pidhash' \in [Bucket -> Seq(Pid)]
         /\ next' \in [Node -> Node] /\ prev' \in [Node -> Node]
         /\ oomadj' \in [Pid -> Adj]
         /\ reg_pid' \in [Pid -> Client \cup {Nobody, NULL}]
         /\ Linked(L, Live, oomadj)' /\ HashIndexesRecords'
<1> DEFINE m == adjslot_insert(L, a, p)
<1>1. Live \subseteq Pid /\ Hash[p] \in Bucket /\ c # NULL
  BY HashAssumption, NameAssumption DEF Live, Bucket
<1>2. /\ pidhash' = [pidhash EXCEPT ![Hash[p]] = <<p>> \o @]
      /\ oomadj' = [oomadj EXCEPT ![p] = a] /\ reg_pid' = [reg_pid EXCEPT ![p] = c]
      /\ next' = m.next /\ prev' = m.prev
  BY DEF proc_insert, Install
<1>3. Live' = Live \cup {p}
  BY <1>1, <1>2 DEF Live, TypeOK
<1>4. Linked(m, Live \cup {p}, [oomadj EXCEPT ![p] = a])
  BY <1>1, InsertLinked, ZenonT(30) DEF TypeOK
<1>5. Linked(L, Live, oomadj)'
  <2>1. L'.next = m.next /\ L'.prev = m.prev
    BY <1>2 DEF L
  <2>2. Linked(L', Live \cup {p}, [oomadj EXCEPT ![p] = a])
    BY <1>4, <2>1, LinkedSame, SMTT(20)
  <2> QED
    BY <1>2, <1>3, <2>2
<1>6. next' \in [Node -> Node] /\ prev' \in [Node -> Node]
  BY <1>2, <1>4, SMTT(30) DEF Linked, Inverse2
<1> HIDE DEF m
<1>7. /\ pidhash[Hash[p]] \in Seq(Pid) /\ Distinct(pidhash[Hash[p]])
      /\ p \notin Range(pidhash[Hash[p]])
  BY <1>1 DEF TypeOK, HashIndexesRecords, Distinct
<1> DEFINE r == <<p>> \o pidhash[Hash[p]]
<1>8. r \in Seq(Pid) /\ Distinct(r) /\ Range(r) = Range(pidhash[Hash[p]]) \cup {p}
  BY <1>7, PushChain, SMTT(30)
<1>9. pidhash' = [pidhash EXCEPT ![Hash[p]] = r]
  BY <1>2
<1> HIDE DEF r
<1>10. /\ pidhash' \in [Bucket -> Seq(Pid)]
       /\ \A b \in Bucket : pidhash'[b] = IF b = Hash[p] THEN r ELSE pidhash[b]
  BY <1>1, <1>8, <1>9 DEF TypeOK
<1>11. HashIndexesRecords'
  <2> SUFFICES ASSUME NEW b \in Bucket
               PROVE  Distinct(pidhash'[b]) /\ Range(pidhash'[b]) = {q \in Live' : Hash[q] = b}
    BY SMTT(30) DEF HashIndexesRecords, Distinct
  <2>1. CASE b = Hash[p]
    BY <1>3, <1>8, <1>10, <2>1, SMTT(30) DEF HashIndexesRecords
  <2>2. CASE b # Hash[p]
    BY <1>3, <1>10, <2>2 DEF HashIndexesRecords, Distinct
  <2> QED
    BY <2>1, <2>2
<1>12. reg_pid' \in [Pid -> Client \cup {Nobody, NULL}] /\ oomadj' \in [Pid -> Adj]
  BY <1>2 DEF TypeOK
<1> QED
  BY <1>5, <1>6, <1>10, <1>11, <1>12

(* A known record moves to the list of its new oom_score_adj.              *)
LEMMA UpdateRecord ==
  ASSUME TypeOK, Linked(L, Live, oomadj), HashIndexesRecords,
         NEW c \in Client, NEW p \in Live, NEW a \in Adj, update_record(c, p, a)
  PROVE  /\ pidhash' = pidhash
         /\ next' \in [Node -> Node] /\ prev' \in [Node -> Node]
         /\ oomadj' \in [Pid -> Adj]
         /\ reg_pid' \in [Pid -> Client \cup {Nobody, NULL}]
         /\ Linked(L, Live, oomadj)' /\ HashIndexesRecords'
<1> DEFINE l == adjslot_remove(L, p)
           m == adjslot_insert(l, a, p)
           f == adjslot_insert(free(l, p), a, p)
<1>1. p \in Pid /\ Live \subseteq Pid /\ c # NULL /\ a \in Node /\ p \in Node /\ a # p
  BY AdjAssumption, NameAssumption DEF Live, Node
<1>2. /\ pidhash' = pidhash
      /\ oomadj' = [oomadj EXCEPT ![p] = a] /\ reg_pid' = [reg_pid EXCEPT ![p] = c]
      /\ next' = m.next /\ prev' = m.prev
  BY DEF update_record, Install
<1>3. Live' = Live
  BY <1>1, <1>2 DEF Live, TypeOK
<1>4. Linked(free(l, p), Live \ {p}, oomadj)
  BY <1>1, RemoveLinked DEF TypeOK
<1>5. (Live \ {p}) \cup {p} = Live /\ Live \ {p} \in SUBSET Pid /\ p \in Pid \ (Live \ {p})
  BY <1>1
<1>6. Linked(f, Live, [oomadj EXCEPT ![p] = a])
  <2>1. oomadj \in [Pid -> Adj]
    BY DEF TypeOK
  <2>2. Linked(f, (Live \ {p}) \cup {p}, [oomadj EXCEPT ![p] = a])
    BY <1>4, <1>5, <2>1, InsertLinked, ZenonT(30)
  <2> QED
    BY <1>5, <2>2
<1>7. /\ l.next \in [Node -> Node] /\ l.prev \in [Node -> Node]
      /\ l.next[a] # p
  <2>1. /\ L.next \in [Node -> Node] /\ L.prev \in [Node -> Node]
        /\ \A n \in Node : L.prev[L.next[n]] = n /\ L.next[L.prev[n]] = n
    BY DEF Linked, Inverse2
  <2>2. /\ l.next = [L.next EXCEPT ![L.prev[p]] = L.next[p]]
        /\ l.prev = [L.prev EXCEPT ![L.next[p]] = L.prev[p]]
    BY DEF adjslot_remove
  <2> QED
    BY <1>1, <2>1, <2>2, SMTT(30)
<1>8. m.next = f.next /\ m.prev = f.prev
  BY <1>1, <1>7, InsertIgnoresOld, SMTT(30)
<1> HIDE DEF l, m, f
<1>9. Linked(L, Live, oomadj)'
  <2>1. L'.next = f.next /\ L'.prev = f.prev
    BY <1>2, <1>8 DEF L
  <2>2. Linked(L', Live, [oomadj EXCEPT ![p] = a])
    BY <1>6, <2>1, LinkedSame
  <2> QED
    BY <1>2, <1>3, <2>2
<1>10. next' \in [Node -> Node] /\ prev' \in [Node -> Node]
  BY <1>2, <1>6, <1>8, SMTT(30) DEF Linked, Inverse2
<1>11. reg_pid' \in [Pid -> Client \cup {Nobody, NULL}] /\ oomadj' \in [Pid -> Adj]
  BY <1>2, ZenonT(30) DEF TypeOK
<1>12. HashIndexesRecords'
  BY <1>2, <1>3, SMTT(30) DEF HashIndexesRecords
<1> QED
  BY <1>2, <1>9, <1>10, <1>11, <1>12

(* The registry starts empty.                                              *)
LEMMA InitIInv == Init => IInv
<1> SUFFICES ASSUME Init PROVE IInv
  OBVIOUS
<1>1. TypeOK
  <2>1. (CHOOSE a \in Adj : TRUE) \in Adj
    BY AdjAssumption
  <2>2. <<>> \in Seq(Pid)
    OBVIOUS
  <2> QED
    BY <2>1, <2>2 DEF Init, TypeOK
<1>2. Live = {}
  BY DEF Init, Live
<1>3. Linked(L, Live, oomadj)
  BY <1>2, AdjAssumption DEF Init, L, Linked, Inverse2, Node
<1>4. HashIndexesRecords
  <2>1. Range(<<>>) = {} /\ DOMAIN <<>> = {}
    BY DEF Range
  <2> QED
    BY <1>2, <2>1 DEF Init, HashIndexesRecords
<1>5. PurgeOK
  BY DEF Init, PurgeOK
<1> QED
  BY <1>1, <1>3, <1>4, <1>5 DEF IInv

(* The lists and the index survive a step that changes neither the lists   *)
(* nor which processes are registered.                                     *)
LEMMA SameRecords ==
  ASSUME Linked(L, Live, oomadj), HashIndexesRecords,
         UNCHANGED <<pidhash, next, prev, oomadj>>, Live' = Live
  PROVE  Linked(L, Live, oomadj)' /\ HashIndexesRecords'
<1>1. L' = L
  BY DEF L
<1>2. Linked(L, Live, oomadj)'
  BY <1>1
<1> QED
  BY <1>2, SMTT(30) DEF HashIndexesRecords

(* apply_proc_prio preserves the invariant.                                *)
LEMMA ApplyProcPrioIInv ==
  ASSUME IInv, NEW c \in Client, NEW p \in Pid, NEW a \in Adj, NEW app \in BOOLEAN,
         apply_proc_prio(c, p, a, app)
  PROVE  IInv'
<1> USE DEF IInv
<1> DEFINE s == oom_adj_score(a, app)
<1>1. s \in Adj
  BY AdjAssumption DEF oom_adj_score
<1>2. kernel_adj' \in [Pid -> Adj \cup {NULL}] /\ purge' = NULL
  BY DEF apply_proc_prio, TypeOK
<1>3. PurgeOK'
  BY <1>2, SMTT(30) DEF PurgeOK
<1>4. CASE ~pid_lookup(p) /\ proc_insert(c, p, s)
  <2>1. p \in Pid \ Live
    BY <1>4, LookupCorrect
  <2> HIDE DEF s
  <2> QED
    BY <1>1, <1>2, <1>3, <1>4, <2>1, ProcInsert, SMTT(30) DEF TypeOK
<1>5. CASE pid_lookup(p) /\ update_record(c, p, s)
  <2>1. p \in Live
    BY <1>5, LookupCorrect
  <2> HIDE DEF s
  <2>2. pidhash \in [Bucket -> Seq(Pid)]
    BY DEF TypeOK
  <2> QED
    BY <1>1, <1>2, <1>3, <1>5, <2>1, <2>2, UpdateRecord DEF TypeOK
<1>6. CASE UNCHANGED <<pidhash, next, prev, oomadj, reg_pid>>
  <2>1. Live' = Live
    BY <1>6 DEF Live
  <2>2. TypeOK'
    BY <1>2, <1>6, SMTT(20) DEF TypeOK
  <2> QED
    BY <1>3, <1>6, <2>1, <2>2, SameRecords
<1> QED
  BY <1>4, <1>5, <1>6 DEF apply_proc_prio, register_oom_adj_proc

(* A removal outside procpurge preserves the invariant.                    *)
LEMMA RemoveIInv ==
  ASSUME IInv, NEW p \in Pid, pid_lookup(p), pid_remove(p),
         purge = NULL, UNCHANGED <<kernel_adj, purge>>
  PROVE  IInv'
<1>1. p \in Live
  BY LookupCorrect DEF IInv
<1> QED
  BY <1>1, PidRemove, SMTT(30) DEF IInv, TypeOK, PurgeOK

(* The steps of procpurge preserve the invariant.                          *)
LEMMA PurgeIInv ==
  ASSUME IInv, \/ \E c \in Client : cmd_procpurge(c)
               \/ purge_bucket \/ purge_record
  PROVE  IInv'
<1> USE DEF IInv
<1>1. CASE \E c \in Client : cmd_procpurge(c)
  <2> PICK c \in Client : cmd_procpurge(c)
    BY <1>1
  <2>1. UNCHANGED <<pidhash, next, prev, oomadj, reg_pid, kernel_adj>>
    BY DEF cmd_procpurge
  <2>2. TypeOK' /\ Live' = Live
    BY <2>1 DEF TypeOK, Live
  <2>3. purge' = [client |-> c, at |-> 0, todo |-> pidhash[0]] /\ 0 \in Bucket
    BY HashAssumption DEF cmd_procpurge, Bucket
  <2>4. PurgeOK'
    BY <2>1, <2>3, SMTT(30) DEF PurgeOK, TypeOK, HashIndexesRecords, Distinct
  <2> QED
    BY <2>1, <2>2, <2>4, SameRecords
<1>2. CASE purge_bucket
  <2>1. UNCHANGED <<pidhash, next, prev, oomadj, reg_pid, kernel_adj>>
    BY <1>2 DEF purge_bucket
  <2>2. TypeOK' /\ Live' = Live
    BY <2>1 DEF TypeOK, Live
  <2>3. purge \in [client : Client, at : Bucket, todo : Seq(Pid)]
    BY <1>2 DEF purge_bucket, PurgeOK
  <2>4. CASE purge.at + 1 < HashSize
    <3>1. purge.at + 1 \in Bucket
      BY <2>3, <2>4, HashAssumption DEF Bucket
    <3>2. purge' = [purge EXCEPT !.at = @ + 1, !.todo = pidhash[purge.at + 1]]
      BY <1>2, <2>4 DEF purge_bucket
    <3>3. /\ purge' \in [client : Client, at : Bucket, todo : Seq(Pid)]
          /\ purge'.at = purge.at + 1 /\ purge'.todo = pidhash[purge.at + 1]
      BY <2>3, <3>1, <3>2, ZenonT(30) DEF TypeOK
    <3>4. PurgeOK'
      BY <2>1, <3>1, <3>3, SMTT(30) DEF PurgeOK, HashIndexesRecords, Distinct
    <3> QED
      BY <2>1, <2>2, <3>4, SameRecords
  <2>5. CASE ~(purge.at + 1 < HashSize)
    <3>1. PurgeOK'
      BY <1>2, <2>5 DEF purge_bucket, PurgeOK
    <3> QED
      BY <2>1, <2>2, <3>1, SameRecords
  <2> QED
    BY <2>4, <2>5
<1>3. CASE purge_record
  <2> DEFINE p == Head(purge.todo)
  <2>1. /\ purge \in [client : Client, at : Bucket, todo : Seq(Pid)] /\ purge.todo # <<>>
        /\ Distinct(purge.todo) /\ Range(purge.todo) \subseteq Range(pidhash[purge.at])
    BY <1>3 DEF purge_record, PurgeOK
  <2>2. /\ purge' = [purge EXCEPT !.todo = Tail(purge.todo)]
        /\ kernel_adj' = kernel_adj
        /\ \/ pid_remove(p)
           \/ UNCHANGED <<pidhash, next, prev, oomadj, reg_pid>>
    BY <1>3 DEF purge_record, Todo
  <2>3. /\ p \in Range(purge.todo) /\ Tail(purge.todo) \in Seq(Pid)
        /\ Distinct(Tail(purge.todo))
        /\ Range(Tail(purge.todo)) \subseteq Range(purge.todo) \ {p}
    BY <2>1, TailChain
  <2>4. /\ purge' \in [client : Client, at : Bucket, todo : Seq(Pid)]
        /\ purge'.at = purge.at /\ purge'.todo = Tail(purge.todo)
    BY <2>1, <2>2, <2>3, ZenonT(30)
  <2>5. p \in Live
    BY <2>1, <2>3, SMTT(30) DEF HashIndexesRecords
  <2> HIDE DEF p
  <2>6. CASE pid_remove(p)
    <3>1. /\ pidhash' \in [Bucket -> Seq(Pid)]
          /\ next' \in [Node -> Node] /\ prev' \in [Node -> Node]
          /\ oomadj' \in [Pid -> Adj]
          /\ reg_pid' \in [Pid -> Client \cup {Nobody, NULL}]
          /\ Linked(L, Live, oomadj)' /\ HashIndexesRecords'
          /\ \A b \in Bucket : Range(pidhash'[b]) = Range(pidhash[b]) \ {p}
      BY <2>5, <2>6, PidRemove, ZenonT(30)
    <3>2. purge.at \in Bucket
      BY <2>1
    <3>3. Range(Tail(purge.todo)) \subseteq Range(pidhash'[purge.at])
      BY <2>1, <2>3, <3>1, <3>2, SMTT(30)
    <3>4. PurgeOK'
      BY <2>3, <2>4, <3>3, SMTT(30) DEF PurgeOK
    <3> QED
      BY <2>2, <3>1, <3>4 DEF TypeOK
  <2>7. CASE UNCHANGED <<pidhash, next, prev, oomadj, reg_pid>>
    <3>1. TypeOK' /\ Live' = Live
      BY <2>2, <2>7 DEF TypeOK, Live
    <3>2. PurgeOK'
      BY <2>1, <2>3, <2>4, <2>7, SMTT(30) DEF PurgeOK
    <3> QED
      BY <2>7, <3>1, <3>2, SameRecords
  <2> QED
    BY <2>2, <2>6, <2>7
<1> QED
  BY <1>1, <1>2, <1>3

(* remove_claims preserves the invariant: a record that loses its claimant *)
(* stays registered.                                                       *)
LEMMA RemoveClaimsIInv ==
  ASSUME IInv, NEW c \in Client, remove_claims(c)
  PROVE  IInv'
<1>1. /\ UNCHANGED <<pidhash, next, prev, oomadj, kernel_adj, purge>>
      /\ reg_pid' = [p \in Pid |->
                       IF pid_lookup(p) /\ reg_pid[p] = c THEN Nobody ELSE reg_pid[p]]
  BY DEF remove_claims
<1>2. Live' = Live
  BY <1>1, NameAssumption DEF Live
<1>3. TypeOK'
  BY <1>1 DEF IInv, TypeOK
<1>4. PurgeOK'
  BY <1>1, SMTT(30) DEF IInv, PurgeOK
<1> QED
  BY <1>1, <1>2, <1>3, <1>4, SameRecords DEF IInv

(* Every step of the registry preserves the invariant.                     *)
LEMMA NextIInv == IInv /\ [Next]_vars => IInv'
<1> SUFFICES ASSUME IInv, [Next]_vars PROVE IInv'
  OBVIOUS
<1>1. ASSUME NEW c \in Client, NEW p \in Pid, NEW a \in Adj, NEW app \in BOOLEAN,
             apply_proc_prio(c, p, a, app)
      PROVE  IInv'
  BY <1>1, ApplyProcPrioIInv
<1>2. ASSUME NEW p \in Pid, remove_victim(p) \/ \E c \in Client : cmd_procremove(c, p)
      PROVE  IInv'
  BY <1>2, RemoveIInv DEF remove_victim, cmd_procremove
<1>3. ASSUME NEW c \in Client, remove_claims(c) PROVE IInv'
  BY <1>3, RemoveClaimsIInv
<1>4. ASSUME NEW c \in Client, cmd_procpurge(c) PROVE IInv'
  BY <1>4, PurgeIInv
<1>5. CASE purge_bucket \/ purge_record
  BY <1>5, PurgeIInv
<1>6. CASE (\E p \in Pid : process_dies(p)) \/ UNCHANGED vars
  <2>1. UNCHANGED <<pidhash, next, prev, oomadj, reg_pid, purge>>
    BY <1>6 DEF process_dies, vars
  <2>2. kernel_adj' \in [Pid -> Adj \cup {NULL}]
    BY <1>6, SMTT(30) DEF process_dies, vars, IInv, TypeOK
  <2>3. TypeOK' /\ Live' = Live
    BY <2>1, <2>2, SMTT(30) DEF IInv, TypeOK, Live
  <2>4. PurgeOK'
    BY <2>1, SMTT(30) DEF IInv, PurgeOK
  <2> QED
    BY <2>1, <2>3, <2>4, SameRecords DEF IInv
<1> QED
  BY <1>1, <1>2, <1>3, <1>4, <1>5, <1>6 DEF Next

-----------------------------------------------------------------------------
(* The invariant holds in every reachable state of the registry.           *)
THEOREM RegistryInvariant == Spec => []IInv
  BY InitIInv, NextIInv, PTL DEF Spec

(* Whatever the clients ask for, and however removals interleave with a    *)
(* procpurge, the adj lists stay circular lists of registered processes    *)
(* with the same oom_score_adj, and never reach a freed record.            *)
THEOREM ListsCorrect == Spec => [](TypeOK /\ ListsWellFormed)
<1>1. IInv => TypeOK /\ ListsWellFormed
  <2> SUFFICES ASSUME IInv PROVE TypeOK /\ ListsWellFormed
    OBVIOUS
  <2>1. Live \cup Adj \subseteq Node
    BY DEF Live, Node
  <2> QED
    BY <2>1, SMTT(30) DEF IInv, Linked, Inverse2, ListsWellFormed, Home, L
<1> QED
  BY <1>1, RegistryInvariant, PTL

(* pid_lookup finds every registered process and nothing else, and a       *)
(* record is in one hash chain once.                                       *)
THEOREM IndexCorrect ==
  Spec => [](HashIndexesRecords /\ \A p \in Pid : pid_lookup(p) <=> p \in Live)
<1>1. IInv => HashIndexesRecords /\ \A p \in Pid : pid_lookup(p) <=> p \in Live
  BY LookupCorrect DEF IInv
<1> QED
  BY <1>1, RegistryInvariant, PTL

(* Nothing that the purging client may claim is left in the part of the    *)
(* hash table that its purge has visited.                                  *)
Visited ==
  purge # NULL =>
    \A p \in Live : Hash[p] <= purge.at /\ reg_pid[p] \in {purge.client, Nobody}
                      => p \in Range(purge.todo)

(* The elements of a sequence are its head and those of its tail.          *)
LEMMA HeadOrTail ==
  ASSUME NEW s \in Seq(Pid), s # <<>>, NEW x \in Range(s), x # Head(s)
  PROVE  x \in Range(Tail(s))
<1>1. PICK i \in DOMAIN s : x = s[i]
  BY DEF Range
<1>2. /\ Len(s) \in Nat /\ DOMAIN s = 1..Len(s) /\ i # 1
      /\ DOMAIN Tail(s) = 1..(Len(s) - 1)
      /\ \A j \in 1..(Len(s) - 1) : Tail(s)[j] = s[j + 1]
  BY <1>1
<1>3. i - 1 \in DOMAIN Tail(s) /\ Tail(s)[i - 1] = x
  BY <1>1, <1>2
<1> QED
  BY <1>3 DEF Range

(* A purge leaves nothing behind it: a chain is walked from its head when  *)
(* the chains before it are done, and no other command runs in between.    *)
LEMMA VisitedStep == IInv /\ Visited /\ [Next]_vars => Visited'
<1> SUFFICES ASSUME IInv, Visited, [Next]_vars, purge' # NULL,
                    NEW p \in Live', Hash[p] <= purge'.at, reg_pid'[p] \in {purge'.client, Nobody}
             PROVE  p \in Range(purge'.todo)
  BY DEF Visited
<1>1. p \in Pid /\ Hash[p] \in 0..(HashSize - 1) /\ HashSize \in Nat
  BY HashAssumption DEF Live
<1>2. CASE \E c \in Client : cmd_procpurge(c)
  <2>1. purge'.at = 0 /\ purge'.todo = pidhash[0] /\ reg_pid' = reg_pid
    BY <1>2 DEF cmd_procpurge
  <2>2. Hash[p] = 0 /\ 0 \in Bucket /\ p \in Live
    BY <1>1, <2>1, HashAssumption DEF Bucket, Live
  <2>3. Range(pidhash[0]) = {q \in Live : Hash[q] = 0}
    BY <2>2 DEF IInv, HashIndexesRecords
  <2> QED
    BY <2>1, <2>2, <2>3
<1>3. CASE purge_bucket
  <2>1. /\ purge \in [client : Client, at : Bucket, todo : Seq(Pid)]
        /\ purge # NULL /\ purge.todo = <<>> /\ reg_pid' = reg_pid
    BY <1>3 DEF IInv, PurgeOK, purge_bucket
  <2>2. /\ purge.at + 1 < HashSize
        /\ purge' = [purge EXCEPT !.at = @ + 1, !.todo = pidhash[purge.at + 1]]
    BY <1>3 DEF purge_bucket
  <2>3. purge'.at = purge.at + 1 /\ purge'.todo = pidhash[purge.at + 1] /\ purge'.client = purge.client
    BY <2>1, <2>2
  <2>4. p \in Live
    BY <2>1 DEF Live
  <2>5. ~(Hash[p] <= purge.at)
    <3>1. p \notin Range(purge.todo)
      BY <2>1 DEF Range
    <3> QED
      BY <2>1, <2>3, <2>4, <3>1 DEF Visited
  <2>6. Hash[p] = purge.at + 1 /\ purge.at + 1 \in Bucket
    BY <1>1, <2>1, <2>3, <2>5 DEF Bucket
  <2>7. Range(pidhash[purge.at + 1]) = {q \in Live : Hash[q] = purge.at + 1}
    BY <2>6 DEF IInv, HashIndexesRecords
  <2> QED
    BY <2>3, <2>4, <2>6, <2>7
<1>4. CASE purge_record
  <2> DEFINE q == Head(purge.todo)
  <2>1. /\ purge \in [client : Client, at : Bucket, todo : Seq(Pid)]
        /\ purge # NULL /\ purge.todo # <<>> /\ Distinct(purge.todo)
    BY <1>4 DEF IInv, PurgeOK, purge_record
  <2>2. /\ purge' = [purge EXCEPT !.todo = Tail(purge.todo)]
        /\ \/ claim_record(purge.client, q) /\ reg_pid' = [reg_pid EXCEPT ![q] = NULL]
           \/ ~claim_record(purge.client, q) /\ reg_pid' = reg_pid
    BY <1>4 DEF purge_record, Todo, pid_remove
  <2>3. purge'.at = purge.at /\ purge'.todo = Tail(purge.todo) /\ purge'.client = purge.client
    BY <2>1, <2>2
  <2>4. reg_pid \in [Pid -> Client \cup {Nobody, NULL}] /\ q \in Pid
    BY <2>1 DEF IInv, TypeOK
  <2>5. p # q /\ reg_pid'[p] = reg_pid[p]
    <3> HIDE DEF q
    <3>1. reg_pid'[p] # NULL
      BY DEF Live
    <3> QED
      BY <1>1, <2>2, <2>3, <2>4, <3>1 DEF claim_record
  <2>6. p \in Live
    BY <1>1, <2>5 DEF Live
  <2>7. p \in Range(purge.todo)
    BY <2>1, <2>3, <2>5, <2>6 DEF Visited
  <2> QED
    BY <2>1, <2>3, <2>5, <2>7, HeadOrTail
<1>5. CASE (\E x \in Pid : process_dies(x)) \/ UNCHANGED vars
  <2>1. reg_pid' = reg_pid /\ purge' = purge
    BY <1>5 DEF process_dies, vars
  <2>2. p \in Live
    BY <2>1 DEF Live
  <2> QED
    BY <2>1, <2>2 DEF Visited
<1>6. CASE \/ \E c \in Client :
                \/ \E x \in Pid, a \in Adj, app \in BOOLEAN : apply_proc_prio(c, x, a, app)
                \/ \E x \in Pid : cmd_procremove(c, x)
                \/ remove_claims(c)
           \/ \E x \in Pid : remove_victim(x)
  <2>1. purge' = NULL
    BY <1>6 DEF apply_proc_prio, cmd_procremove, remove_claims, remove_victim
  <2> QED
    BY <2>1
<1> QED
  BY <1>2, <1>3, <1>4, <1>5, <1>6 DEF Next

(* A procpurge ends only when no record is left that its client registered *)
(* or could claim, however many records it removed on the way.             *)
THEOREM PurgeIsComplete == Spec => PurgeComplete
<1>1. Init => Visited
  BY DEF Init, Visited
<1>2. IInv /\ Visited /\ [Next]_vars
        => [purge # NULL /\ purge' = NULL =>
              \A p \in Live : reg_pid[p] \notin {purge.client, Nobody}]_vars
  <2> SUFFICES ASSUME IInv, Visited, [Next]_vars, purge # NULL, purge' = NULL,
                      NEW p \in Live, reg_pid[p] \in {purge.client, Nobody}
               PROVE  FALSE
    OBVIOUS
  <2>1. purge \in [client : Client, at : Bucket, todo : Seq(Pid)]
    BY DEF IInv, PurgeOK
  <2>2. ~purge_record
    <3> SUFFICES ASSUME purge_record PROVE FALSE
      OBVIOUS
    <3>1. purge.todo # <<>> /\ Distinct(purge.todo) /\ purge' = [purge EXCEPT !.todo = Tail(purge.todo)]
      BY DEF IInv, PurgeOK, purge_record, Todo
    <3>2. Tail(purge.todo) \in Seq(Pid)
      BY <2>1, <3>1
    <3>3. purge' \in [client : Client, at : Bucket, todo : Seq(Pid)]
      BY <2>1, <3>1, <3>2, ZenonT(30)
    <3>4. Bucket \subseteq Nat
      BY HashAssumption DEF Bucket
    <3> QED
      BY <3>3, <3>4, NullAssumption, Zenon
  <2>3. purge_bucket
    BY <2>2 DEF Next, vars, apply_proc_prio, cmd_procremove, cmd_procpurge, remove_claims,
                remove_victim, process_dies
  <2>4. purge.todo = <<>>
    BY <2>3 DEF purge_bucket
  <2>5. ~(purge.at + 1 < HashSize)
    <3> SUFFICES ASSUME purge.at + 1 < HashSize PROVE FALSE
      OBVIOUS
    <3>1. purge' = [purge EXCEPT !.at = @ + 1, !.todo = pidhash[purge.at + 1]]
      BY <2>3 DEF purge_bucket
    <3>2. purge.at + 1 \in Bucket
      BY <2>1, HashAssumption DEF Bucket
    <3>3. purge' \in [client : Client, at : Bucket, todo : Seq(Pid)]
      <4>1. pidhash \in [Bucket -> Seq(Pid)]
        BY DEF IInv, TypeOK
      <4> QED
        BY <2>1, <3>1, <3>2, <4>1, ZenonT(30)
    <3>4. Bucket \subseteq Nat
      BY HashAssumption DEF Bucket
    <3> QED
      BY <3>3, <3>4, NullAssumption, Zenon
  <2>6. Hash[p] <= purge.at
    <3>1. p \in Pid
      BY DEF Live
    <3> QED
      BY <2>1, <2>5, <3>1, HashAssumption DEF Bucket
  <2>7. p \in Range(purge.todo)
    BY <2>6 DEF Visited
  <2> QED
    BY <2>4, <2>7 DEF Range
<1> QED
  BY <1>1, <1>2, VisitedStep, RegistryInvariant, PTL DEF Spec, PurgeComplete

-----------------------------------------------------------------------------
CONSTANTS HasInkernelModule, ForceInkernel, UserspaceLmk, Props, KernelMayRefuse, MaxChanges,
          MaxCrashes

VARIABLES up, mon, monitors_initialized, use_psi_monitors, use_inkernel_interface,
          boot_completed_handled, memevent_listener, direct_reclaim_threshold, applied,
          delay_monitors_until_boot, props, booted, reinit, notify, changes, crashes

Mons == INSTANCE Monitors

(* What Monitors assumes of its constants.                                 *)
MonitorsConstants ==
  Props \subseteq [use_psi : BOOLEAN, stall : SUBSET (1..3), direct_reclaim : BOOLEAN]

(* mpevfd and maxevents when the levels S have a monitor of this kind.     *)
Of(S, kind) == [fd |-> [l \in 0..3 |-> IF l \in S THEN kind ELSE "none"],
                maxevents |-> Cardinality(S)]

Kind(psi) == IF psi THEN "psi" ELSE "vmpressure"

Wanted(psi, p) == IF psi THEN p.stall ELSE 0..2

(* The properties that init_monitors reads.                                *)
Readable(p) == p.use_psi \in BOOLEAN /\ p.stall \in SUBSET (1..3)

(* What it leaves of monitors, when it succeeds with them.                 *)
Leaves(result, p) == /\ result.psi \in BOOLEAN
                     /\ result.mon = Of(Wanted(result.psi, p), Kind(result.psi))

(* The levels of a set, counted one by one.                                *)
Levels(T) == (IF 0 \in T THEN 1 ELSE 0) + (IF 1 \in T THEN 1 ELSE 0)
             + (IF 2 \in T THEN 1 ELSE 0) + (IF 3 \in T THEN 1 ELSE 0)

(* A level less is one less of the count.                                  *)
LEMMA LevelLess ==
  ASSUME NEW T \in SUBSET (0..3), NEW x \in T
  PROVE  Levels(T \ {x}) = Levels(T) - 1
  BY SMT DEF Levels

(* Only the empty set has a count of zero.                                 *)
LEMMA LevelNone ==
  ASSUME NEW T \in SUBSET (0..3)
  PROVE  Levels(T) \in 0..4 /\ (Levels(T) = 0 <=> T = {})
  BY SMT DEF Levels

(* Cardinality counts the same.                                            *)
LEMMA SameLevels == \A S \in SUBSET (0..3) : Cardinality(S) = Levels(S)
<1> SUFFICES ASSUME NEW S \in SUBSET (0..3) PROVE Cardinality(S) = Levels(S)
  OBVIOUS
<1> DEFINE Rest(T) == T \ {CHOOSE x : x \in T}
           Counts(g) == g = [T \in SUBSET S |-> IF T = {} THEN 0 ELSE 1 + g[Rest(T)]]
           CS == CHOOSE g : Counts(g)
           f == [T \in SUBSET S |-> Levels(T)]
<1>1. ASSUME NEW T \in SUBSET S, T # {}
      PROVE  Rest(T) \in SUBSET S /\ Levels(Rest(T)) = Levels(T) - 1
  <2>1. PICK x : x = CHOOSE y : y \in T
    OBVIOUS
  <2>2. x \in T
    BY <1>1, <2>1, Zenon
  <2> QED
    BY <2>1, <2>2, LevelLess, ZenonT(30)
<1>2. Cardinality(S) = CS[S]
  BY Zenon DEF Cardinality
<1> HIDE DEF Rest
<1>3. Counts(f)
  <2>1. ASSUME NEW T \in SUBSET S PROVE f[T] = IF T = {} THEN 0 ELSE 1 + f[Rest(T)]
    <3>1. CASE T = {}
      BY <3>1, LevelNone
    <3>2. CASE T # {}
      <4>1. Rest(T) \in SUBSET S /\ Levels(Rest(T)) = Levels(T) - 1
        BY <1>1, <3>2
      <4>2. f[T] = Levels(T) /\ f[Rest(T)] = Levels(Rest(T)) /\ Levels(T) \in 0..4
        BY <4>1, LevelNone
      <4> HIDE DEF f
      <4>3. PICK a : a = f[T]
        OBVIOUS
      <4>4. PICK b : b = f[Rest(T)]
        OBVIOUS
      <4>5. a = 1 + b
        BY <4>1, <4>2, <4>3, <4>4
      <4> QED
        BY <3>2, <4>3, <4>4, <4>5, Zenon
    <3> QED
      BY <3>1, <3>2
  <2> QED
    BY <2>1, Zenon
<1>4. Counts(CS)
  <2> HIDE DEF Counts, f
  <2> QED
    BY <1>3, Zenon
<1> HIDE DEF CS
<1>5. ASSUME NEW T \in SUBSET S PROVE CS[T] = IF T = {} THEN 0 ELSE 1 + CS[Rest(T)]
  BY <1>4, Zenon
<1> DEFINE P(k) == \A T \in SUBSET S : Levels(T) = k => CS[T] = k
<1>6. P(0)
  BY <1>5, LevelNone
<1>7. ASSUME NEW k \in 0..3, P(k) PROVE P(k + 1)
  <2> SUFFICES ASSUME NEW T \in SUBSET S, Levels(T) = k + 1 PROVE CS[T] = k + 1
    OBVIOUS
  <2>1. T # {}
    BY LevelNone
  <2>2. Rest(T) \in SUBSET S /\ Levels(Rest(T)) = k
    BY <1>1, <2>1
  <2>3. CS[Rest(T)] = k
    BY <1>7, <2>2, Zenon
  <2>4. CS[T] = 1 + CS[Rest(T)]
    BY <1>5, <2>1, Zenon
  <2>5. 1 + k = k + 1
    OBVIOUS
  <2> QED
    BY <2>3, <2>4, <2>5, Zenon
<1> HIDE DEF P
<1>8. P(0) /\ P(1) /\ P(2) /\ P(3) /\ P(4)
  BY <1>6, <1>7
<1>9. Levels(S) \in {0, 1, 2, 3, 4} /\ S \in SUBSET S
  BY LevelNone
<1> QED
  BY <1>2, <1>8, <1>9 DEF P

(* The number of levels in a set of them.                                  *)
LEMMA LevelCount == /\ \A S \in SUBSET (0..3) : Cardinality(S) \in Nat
                    /\ Cardinality({}) = 0
  BY SameLevels, LevelNone

(* Cardinality is the same operator inside and outside the instance.       *)
LEMMA SameCount == \A S : Mons!Cardinality(S) = Cardinality(S)
  BY Zenon DEF Mons!Cardinality, Cardinality

(* No monitor.                                                             *)
LEMMA NoneOf == /\ Mons!None = [fd |-> [l \in 0..3 |-> "none"], maxevents |-> 0]
                /\ \A kind : Mons!None = Of({}, kind)
<1>1. Mons!None = [fd |-> [l \in 0..3 |-> "none"], maxevents |-> 0]
  BY Zenon DEF Mons!None, Mons!Level, Mons!LOW, Mons!SUPER_CRITICAL
<1>2. ASSUME NEW kind PROVE [l \in 0..3 |-> IF l \in {} THEN kind ELSE "none"] =
                            [l \in 0..3 |-> "none"]
  OBVIOUS
<1> QED
  BY <1>1, <1>2, LevelCount, Zenon DEF Of

(* Registering on an empty table gives the table of what was registered.   *)
LEMMA Registered ==
  ASSUME NEW S \in SUBSET (0..3), NEW kind
  PROVE  Mons!Register(Mons!None, S, kind) = Of(S, kind)
<1>1. Cardinality(S) \in Nat
  BY LevelCount
<1>2. 0 + Cardinality(S) = Cardinality(S)
  BY <1>1
<1>3. Mons!None.fd = [l \in 0..3 |-> "none"] /\ Mons!None.maxevents = 0
  BY NoneOf
<1>4. [l \in 0..3 |-> IF l \in S THEN kind ELSE Mons!None.fd[l]] =
      [l \in 0..3 |-> IF l \in S THEN kind ELSE "none"]
  BY <1>3
<1>5. Mons!Register(Mons!None, S, kind) =
        [fd |-> [l \in 0..3 |-> IF l \in S THEN kind ELSE Mons!None.fd[l]],
         maxevents |-> Mons!None.maxevents + Cardinality(S)]
  BY SameCount, Zenon DEF Mons!Register, Mons!Level, Mons!LOW, Mons!SUPER_CRITICAL
<1> QED
  BY <1>2, <1>3, <1>4, <1>5, Zenon DEF Of

(* Destroying all of the levels that have a monitor empties the table.     *)
LEMMA Destroyed ==
  ASSUME NEW W \in SUBSET (0..3), NEW S \in SUBSET (0..3), W \subseteq S, NEW kind, kind # "none"
  PROVE  Mons!Destroy(Of(W, kind), S) = Mons!None
<1> DEFINE m == Of(W, kind)
           open == {l \in S : m.fd[l] # "none"}
<1>1. m.fd = [l \in 0..3 |-> IF l \in W THEN kind ELSE "none"] /\ m.maxevents = Cardinality(W)
  BY DEF Of
<1>2. open = W
  BY <1>1, Zenon
<1>3. Cardinality(W) - Cardinality(W) = 0
  BY LevelCount
<1>4. [l \in 0..3 |-> IF l \in W THEN "none" ELSE m.fd[l]] = [l \in 0..3 |-> "none"]
  BY <1>1
<1>5. Mons!Destroy(m, S) = [fd |-> [l \in 0..3 |-> IF l \in open THEN "none" ELSE m.fd[l]],
                            maxevents |-> m.maxevents - Cardinality(open)]
  BY SameCount, Zenon DEF Mons!Destroy, Mons!Level, Mons!LOW, Mons!SUPER_CRITICAL
<1> HIDE DEF m, open
<1>6. Mons!Destroy(m, S) = [fd |-> [l \in 0..3 |-> "none"], maxevents |-> 0]
  BY <1>1, <1>2, <1>3, <1>4, <1>5, Zenon
<1> QED
  BY <1>6, NoneOf, Zenon DEF m

(* What init_monitors leaves when it succeeds on an empty table.           *)
LEMMA Started ==
  ASSUME NEW p, Readable(p), NEW r, NEW s, Mons!init_monitors(Mons!None, p, r, s).ok
  PROVE  Leaves(Mons!init_monitors(Mons!None, p, r, s), p)
<1> DEFINE result == Mons!init_monitors(Mons!None, p, r, s)
           psi == p.use_psi /\ p.stall \cap r = {}
           done == Mons!Before(p.stall, r)
           after == IF p.use_psi THEN Mons!init_psi_monitors(Mons!None, p, r) ELSE Mons!None
           vm == 0..2
           common == Mons!Before(vm, s)
<1>1. result = IF psi THEN [ok |-> TRUE, psi |-> TRUE, mon |-> after]
               ELSE [ok |-> common = vm, psi |-> FALSE,
                     mon |-> Mons!Register(after, common, "vmpressure")]
  BY ZenonT(30) DEF Mons!init_monitors, Mons!LOW, Mons!CRITICAL
<1>2. /\ p.stall \in SUBSET (0..3) /\ done \subseteq p.stall /\ done \in SUBSET (0..3)
      /\ vm \in SUBSET (0..3)
  BY DEF Mons!Before, Readable
<1>3. p.stall \cap r = {} <=> done = p.stall
  BY DEF Mons!Before, Readable
<1>4. after = IF psi THEN Of(p.stall, "psi") ELSE Mons!None
  <2>1. Mons!init_psi_monitors(Mons!None, p, r) =
          IF done = p.stall THEN Mons!Register(Mons!None, p.stall, "psi")
          ELSE Mons!Destroy(Mons!Register(Mons!None, done, "psi"), done)
    BY DEF Mons!init_psi_monitors
  <2>2. Mons!Register(Mons!None, p.stall, "psi") = Of(p.stall, "psi")
    BY <1>2, Registered
  <2>3. Mons!Destroy(Mons!Register(Mons!None, done, "psi"), done) = Mons!None
    <3>1. Mons!Register(Mons!None, done, "psi") = Of(done, "psi")
      BY <1>2, Registered
    <3>2. Mons!Destroy(Of(done, "psi"), done) = Mons!None
      <4> HIDE DEF done
      <4> QED
        BY <1>2, Destroyed, SMTT(20)
    <3> QED
      BY <3>1, <3>2, SMTT(20)
  <2> QED
    BY <1>3, <2>1, <2>2, <2>3, Zenon
<1> HIDE DEF after, common, done
<1>5. CASE psi
  BY <1>1, <1>4, <1>5, SMTT(20) DEF Wanted, Kind, Leaves
<1>6. CASE ~psi
  <2>1. common = vm
    <3>1. result.ok
      OBVIOUS
    <3>2. result = [ok |-> common = vm, psi |-> FALSE,
                    mon |-> Mons!Register(after, common, "vmpressure")]
      BY <1>1, <1>6, Zenon
    <3> HIDE DEF result
    <3> QED
      BY <3>1, <3>2, Zenon
  <2>2. Mons!Register(Mons!None, vm, "vmpressure") = Of(vm, "vmpressure")
    BY <1>2, Registered
  <2> QED
    BY <1>1, <1>4, <1>6, <2>1, <2>2, SMTT(20) DEF Wanted, Kind, Leaves
<1> QED
  BY <1>5, <1>6, ZenonT(30)

(* No state of lmkd survives it.                                           *)
MonInv ==
  /\ Mons!TypeOK
  /\ mon = IF monitors_initialized
           THEN Of(Wanted(use_psi_monitors, applied), Kind(use_psi_monitors))
           ELSE Mons!None
  /\ boot_completed_handled /\ ~memevent_listener => ~direct_reclaim_threshold
  /\ ~up => ~boot_completed_handled /\ ~monitors_initialized

(* The types of lmkd's variables and those of the system.                  *)
LmkdTyped ==
  /\ {up, monitors_initialized, use_psi_monitors, use_inkernel_interface, boot_completed_handled,
      memevent_listener, direct_reclaim_threshold} \subseteq BOOLEAN
  /\ applied \in Props /\ (memevent_listener => boot_completed_handled)

SystemTyped ==
  /\ props \in Props /\ {booted, notify, delay_monitors_until_boot} \subseteq BOOLEAN
  /\ reinit \in {"", "0", "1"}

(* The table of monitors of every mode is of its type.                     *)
LEMMA OfTyped ==
  ASSUME NEW S \in SUBSET (0..3), NEW kind \in {"psi", "vmpressure"}
  PROVE  Of(S, kind) \in [fd : [Mons!Level -> {"none", "psi", "vmpressure"}], maxevents : Int]
<1>1. Cardinality(S) \in Int
  BY LevelCount
<1> QED
  BY <1>1 DEF Of, Mons!Level, Mons!LOW, Mons!SUPER_CRITICAL

(* So is the table the invariant states, monitors started or not.          *)
LEMMA TableTyped ==
  ASSUME MonitorsConstants, NEW initialized, NEW psi, NEW p \in Props
  PROVE  (IF initialized THEN Of(Wanted(psi, p), Kind(psi)) ELSE Mons!None)
           \in [fd : [Mons!Level -> {"none", "psi", "vmpressure"}], maxevents : Int]
<1>1. Wanted(psi, p) \in SUBSET (0..3) /\ Kind(psi) \in {"psi", "vmpressure"}
  BY DEF Wanted, Kind, MonitorsConstants
<1>2. {} \in SUBSET (0..3) /\ "psi" \in {"psi", "vmpressure"}
  OBVIOUS
<1> QED
  BY <1>1, <1>2, NoneOf, OfTyped, Zenon

(* The invariant of the next state, from its parts.                        *)
LEMMA MonInvAgain ==
  ASSUME MonitorsConstants, LmkdTyped', SystemTyped',
         mon' = IF monitors_initialized'
                THEN Of(Wanted(use_psi_monitors', applied'), Kind(use_psi_monitors'))
                ELSE Mons!None,
         boot_completed_handled' /\ ~memevent_listener' => ~direct_reclaim_threshold',
         ~up' => ~boot_completed_handled' /\ ~monitors_initialized'
  PROVE  MonInv'
<1>1. mon' \in [fd : [Mons!Level -> {"none", "psi", "vmpressure"}], maxevents : Int]
  BY TableTyped, Zenon DEF LmkdTyped
<1>2. Mons!TypeOK'
  BY <1>1, Zenon DEF Mons!TypeOK, LmkdTyped, SystemTyped
<1> QED
  BY <1>2, Zenon DEF MonInv

(* The type invariant gives both.                                          *)
LEMMA Typed == Mons!TypeOK => LmkdTyped /\ SystemTyped
  BY Zenon DEF Mons!TypeOK, LmkdTyped, SystemTyped

(* lmkd is gone.                                                           *)
LEMMA GoneStep ==
  ASSUME MonitorsConstants, MonInv, Mons!Gone, SystemTyped'
  PROVE  MonInv'
<1>1. props \in Props
  BY Typed, Zenon DEF MonInv, SystemTyped
<1>2. /\ up' = FALSE /\ monitors_initialized' = FALSE /\ boot_completed_handled' = FALSE
      /\ direct_reclaim_threshold' = FALSE /\ memevent_listener' = FALSE /\ mon' = Mons!None
      /\ use_psi_monitors' = FALSE /\ use_inkernel_interface' = TRUE /\ applied' = props
  BY DEF Mons!Gone
<1>3. LmkdTyped'
  BY <1>1, <1>2, Zenon DEF LmkdTyped
<1> QED
  BY <1>2, <1>3, MonInvAgain

(* main.                                                                   *)
LEMMA MainStep ==
  ASSUME MonitorsConstants, MonInv, Mons!main
  PROVE  MonInv'
<1>1. LmkdTyped /\ SystemTyped /\ ~up /\ ~boot_completed_handled /\ ~monitors_initialized
  BY Typed DEF MonInv, Mons!main
<1>2. SystemTyped' /\ props' = props
  BY <1>1, Zenon DEF SystemTyped, Mons!main, Mons!system
<1>3. props.use_psi \in BOOLEAN /\ props.stall \in SUBSET (1..3) /\ props.direct_reclaim \in BOOLEAN
  BY <1>1, Zenon DEF SystemTyped, MonitorsConstants
<1>4. ~memevent_listener /\ mon = Mons!None
  BY <1>1 DEF MonInv, LmkdTyped
<1>5. CASE /\ up' = TRUE /\ applied' = props /\ direct_reclaim_threshold' = props.direct_reclaim
           /\ use_inkernel_interface' = Mons!InkernelAtInit
           /\ UNCHANGED <<mon, monitors_initialized, use_psi_monitors,
                          boot_completed_handled, memevent_listener>>
  <2>1. Mons!InkernelAtInit \in BOOLEAN
    BY DEF Mons!InkernelAtInit
  <2>2. LmkdTyped'
    BY <1>1, <1>3, <1>5, <2>1, Zenon DEF LmkdTyped, SystemTyped
  <2> QED
    BY <1>1, <1>2, <1>4, <1>5, <2>2, MonInvAgain
<1>6. ASSUME NEW r \in Mons!Refusals, NEW s \in Mons!CommonRefusals,
             Mons!init_monitors(Mons!None, props, r, s).ok, up' = TRUE,
             Mons!Initialized(Mons!init_monitors(Mons!None, props, r, s)),
             applied' = props, direct_reclaim_threshold' = props.direct_reclaim,
             use_inkernel_interface' = FALSE,
             UNCHANGED <<boot_completed_handled, memevent_listener>>
      PROVE  MonInv'
  <2> DEFINE result == Mons!init_monitors(Mons!None, props, r, s)
  <2>1. result.psi \in BOOLEAN /\ result.mon = Of(Wanted(result.psi, props), Kind(result.psi))
    <3>1. Readable(props)
      BY <1>3, Zenon DEF Readable
    <3>2. Leaves(Mons!init_monitors(Mons!None, props, r, s), props)
      BY <1>6, <3>1, Started, Zenon
    <3> QED
      BY <3>2, Zenon DEF Leaves
  <2>2. mon' = result.mon /\ use_psi_monitors' = result.psi /\ monitors_initialized' = TRUE
    BY <1>6 DEF Mons!Initialized
  <2> HIDE DEF result
  <2>3. LmkdTyped'
    BY <1>1, <1>3, <1>6, <2>1, <2>2, Zenon DEF LmkdTyped, SystemTyped
  <2> QED
    BY <1>1, <1>2, <1>4, <1>6, <2>1, <2>2, <2>3, MonInvAgain
<1>7. CASE Mons!Gone
  BY <1>2, <1>7, GoneStep
<1> QED
  BY <1>5, <1>6, <1>7, Zenon DEF Mons!main

(* destroy_monitors destroys every monitor there is.                       *)
LEMMA AllDestroyed ==
  ASSUME MonitorsConstants, MonInv
  PROVE  monitors_initialized => Mons!destroy_monitors(mon) = Mons!None
<1> SUFFICES ASSUME monitors_initialized PROVE Mons!destroy_monitors(mon) = Mons!None
  OBVIOUS
<1> DEFINE W == Wanted(use_psi_monitors, applied)
           S == IF use_psi_monitors THEN 1..3 ELSE 0..2
<1>1. mon = Of(W, Kind(use_psi_monitors)) /\ applied \in Props
  BY Typed DEF MonInv, LmkdTyped
<1>2. W \in SUBSET (0..3) /\ S \in SUBSET (0..3) /\ W \subseteq S /\ Kind(use_psi_monitors) # "none"
  BY <1>1 DEF Wanted, Kind, MonitorsConstants
<1>3. Mons!destroy_monitors(mon) = Mons!Destroy(mon, S)
  BY Zenon DEF Mons!destroy_monitors, Mons!LOW, Mons!MEDIUM, Mons!CRITICAL, Mons!SUPER_CRITICAL
<1> HIDE DEF W, S
<1> QED
  BY <1>1, <1>2, <1>3, Destroyed

(* LMK_UPDATE_PROPS, when lmkd is the killer.                              *)
LEMMA UpdateStep ==
  ASSUME MonitorsConstants, ~Mons!InkernelAtUpdate, MonInv, up, SystemTyped', Mons!cmd_update_props
  PROVE  MonInv'
<1>1. LmkdTyped /\ SystemTyped
  BY Typed DEF MonInv
<1>2. props.use_psi \in BOOLEAN /\ props.stall \in SUBSET (1..3) /\ props.direct_reclaim \in BOOLEAN
  BY <1>1, Zenon DEF SystemTyped, MonitorsConstants
<1>3. /\ applied' = props /\ up' = up /\ boot_completed_handled' = boot_completed_handled
      /\ memevent_listener' = memevent_listener
      /\ use_inkernel_interface' = FALSE
      /\ direct_reclaim_threshold' = (props.direct_reclaim /\ memevent_listener)
  BY Zenon DEF Mons!cmd_update_props, Mons!ThresholdAfterUpdate, Mons!InkernelAtUpdate
<1>4. CASE ~monitors_initialized
  <2>1. UNCHANGED <<mon, monitors_initialized, use_psi_monitors>> /\ mon = Mons!None
    BY <1>4 DEF Mons!cmd_update_props, MonInv
  <2>2. LmkdTyped'
    BY <1>1, <1>2, <1>3, <2>1, Zenon DEF LmkdTyped, SystemTyped
  <2> QED
    BY <1>3, <1>4, <2>1, <2>2, MonInvAgain, Zenon
<1>5. CASE monitors_initialized
  <2>1. PICK r \in Mons!Refusals, s \in Mons!CommonRefusals :
          /\ Mons!Reinitialized(r, s).ok
          /\ Mons!Initialized(Mons!Reinitialized(r, s))
    BY <1>5 DEF Mons!cmd_update_props
  <2> DEFINE result == Mons!init_monitors(Mons!None, props, r, s)
  <2>2. Mons!Reinitialized(r, s) = result
    BY <1>5, AllDestroyed DEF Mons!Reinitialized
  <2>3. result.psi \in BOOLEAN /\ result.mon = Of(Wanted(result.psi, props), Kind(result.psi))
    <3>1. Readable(props) /\ Mons!init_monitors(Mons!None, props, r, s).ok
      BY <1>2, <2>1, <2>2, Zenon DEF Readable
    <3>2. Leaves(Mons!init_monitors(Mons!None, props, r, s), props)
      BY <3>1, Started, Zenon
    <3> QED
      BY <3>2, Zenon DEF Leaves
  <2>4. mon' = result.mon /\ use_psi_monitors' = result.psi /\ monitors_initialized' = TRUE
    <3>1. /\ mon' = Mons!Reinitialized(r, s).mon /\ use_psi_monitors' = Mons!Reinitialized(r, s).psi
          /\ monitors_initialized' = TRUE
      BY <2>1 DEF Mons!Initialized
    <3> QED
      BY <2>2, <3>1
  <2> HIDE DEF result
  <2>5. LmkdTyped'
    BY <1>1, <1>2, <1>3, <2>3, <2>4, Zenon DEF LmkdTyped, SystemTyped
  <2> QED
    BY <1>3, <2>3, <2>4, <2>5, MonInvAgain, Zenon
<1> QED
  BY <1>4, <1>5

(* LMK_START_MONITORING.                                                   *)
LEMMA StartStep ==
  ASSUME MonitorsConstants, MonInv, Mons!cmd_start_monitoring
  PROVE  MonInv'
<1>1. LmkdTyped /\ SystemTyped /\ up
  BY Typed DEF MonInv, Mons!cmd_start_monitoring
<1>2. SystemTyped'
  BY <1>1, Zenon DEF SystemTyped, Mons!cmd_start_monitoring, Mons!system
<1>3. CASE UNCHANGED <<up, Mons!lmkd>>
  <2>1. LmkdTyped'
    BY <1>1, <1>3 DEF LmkdTyped, Mons!lmkd
  <2> QED
    BY <1>2, <1>3, <2>1, MonInvAgain DEF Mons!lmkd, MonInv
<1>4. ASSUME ~monitors_initialized,
             NEW r \in Mons!Refusals, NEW s \in Mons!CommonRefusals,
             Mons!init_monitors(mon, [applied EXCEPT !.use_psi = props.use_psi], r, s).ok,
             Mons!Initialized(
               Mons!init_monitors(mon, [applied EXCEPT !.use_psi = props.use_psi], r, s)),
             UNCHANGED <<up, use_inkernel_interface, boot_completed_handled,
                         memevent_listener, direct_reclaim_threshold, applied>>
      PROVE  MonInv'
  <2>1. PICK p : p = [applied EXCEPT !.use_psi = props.use_psi]
    BY Zenon
  <2>2. p.use_psi \in BOOLEAN /\ p.stall \in SUBSET (1..3) /\ p.stall = applied.stall
    BY <1>1, <2>1, Zenon DEF LmkdTyped, SystemTyped, MonitorsConstants
  <2>3. mon = Mons!None
    BY <1>4 DEF MonInv
  <2> DEFINE result == Mons!init_monitors(Mons!None, p, r, s)
  <2>4. result.ok /\ mon' = result.mon /\ use_psi_monitors' = result.psi
        /\ monitors_initialized' = TRUE
    BY <1>4, <2>1, <2>3 DEF Mons!Initialized
  <2>5. result.psi \in BOOLEAN /\ result.mon = Of(Wanted(result.psi, p), Kind(result.psi))
    <3>1. Readable(p) /\ Mons!init_monitors(Mons!None, p, r, s).ok
      BY <2>2, <2>4, Zenon DEF Readable
    <3>2. Leaves(Mons!init_monitors(Mons!None, p, r, s), p)
      BY <3>1, Started, Zenon
    <3> QED
      BY <3>2, Zenon DEF Leaves
  <2>6. Wanted(result.psi, p) = Wanted(result.psi, applied)
    BY <2>2 DEF Wanted
  <2> HIDE DEF result
  <2>7. LmkdTyped'
    BY <1>1, <1>4, <2>4, <2>5 DEF LmkdTyped
  <2> QED
    BY <1>1, <1>2, <1>4, <2>4, <2>5, <2>6, <2>7, MonInvAgain DEF MonInv
<1>5. CASE Mons!Gone
  BY <1>2, <1>5, GoneStep
<1> QED
  BY <1>3, <1>4, <1>5, Zenon DEF Mons!cmd_start_monitoring

(* The other actions change no monitor.                                    *)
LEMMA MonStep ==
  ASSUME MonitorsConstants, ~Mons!InkernelAtUpdate, MonInv, [Mons!Next]_Mons!vars
  PROVE  MonInv'
<1>1. LmkdTyped /\ SystemTyped
  BY Typed, SMTT(20) DEF MonInv
<1>2. ASSUME UNCHANGED <<up, Mons!lmkd>>, SystemTyped' PROVE MonInv'
  <2>1. LmkdTyped'
    BY <1>1, <1>2 DEF LmkdTyped, Mons!lmkd
  <2> QED
    BY <1>2, <2>1, MonInvAgain, SMTT(20) DEF Mons!lmkd, MonInv
<1>3. CASE Mons!issue_reinit
  <2>1. SystemTyped'
    BY <1>1, <1>3, Zenon DEF SystemTyped, Mons!issue_reinit
  <2>2. CASE up /\ Mons!cmd_update_props
    BY <2>1, <2>2, UpdateStep
  <2>3. CASE Mons!Gone
    BY <2>1, <2>3, GoneStep, SMTT(20)
  <2> QED
    BY <1>2, <1>3, <2>1, <2>2, <2>3, Zenon DEF Mons!issue_reinit, Mons!cmd_update_props_fails
<1>4. CASE Mons!on_boot_completed
  <2>1. SystemTyped'
    BY <1>1, <1>4, Zenon DEF SystemTyped, Mons!on_boot_completed
  <2>2. /\ UNCHANGED <<up, mon, monitors_initialized, use_psi_monitors, use_inkernel_interface,
                       applied>>
        /\ \/ UNCHANGED <<boot_completed_handled, memevent_listener, direct_reclaim_threshold>>
           \/ /\ up /\ boot_completed_handled' = TRUE /\ memevent_listener' \in BOOLEAN
              /\ direct_reclaim_threshold' = (direct_reclaim_threshold /\ memevent_listener')
    BY <1>4, Zenon DEF Mons!on_boot_completed, Mons!HandledAfterBoot
  <2>3. LmkdTyped'
    <3>1. CASE UNCHANGED <<boot_completed_handled, memevent_listener, direct_reclaim_threshold>>
      BY <1>1, <2>2, <3>1, SMTT(20) DEF LmkdTyped
    <3>2. CASE /\ boot_completed_handled' = TRUE /\ memevent_listener' \in BOOLEAN
               /\ direct_reclaim_threshold' = (direct_reclaim_threshold /\ memevent_listener')
      <4>1. direct_reclaim_threshold' \in BOOLEAN
        BY <3>2, Zenon
      <4> QED
        BY <1>1, <2>2, <3>2, <4>1 DEF LmkdTyped
    <3> QED
      BY <2>2, <3>1, <3>2, Zenon
  <2> QED
    BY <1>1, <2>1, <2>2, <2>3, MonInvAgain, SMTT(20) DEF MonInv
<1>5. CASE Mons!set_property
  <2>1. UNCHANGED <<up, Mons!lmkd>>
    BY <1>5 DEF Mons!set_property
  <2>2. SystemTyped'
    BY <1>1, <1>5, Zenon DEF SystemTyped, Mons!set_property, Mons!ReinitTrigger
  <2> QED
    BY <1>2, <2>1, <2>2
<1>6. CASE Mons!boot_completes
  <2>1. UNCHANGED <<up, Mons!lmkd>>
    BY <1>6 DEF Mons!boot_completes
  <2>2. SystemTyped'
    BY <1>1, <1>6, Zenon DEF SystemTyped, Mons!boot_completes
  <2> QED
    BY <1>2, <2>1, <2>2
<1>7. CASE Mons!crash
  <2>1. SystemTyped'
    BY <1>1, <1>7, Zenon DEF SystemTyped, Mons!crash
  <2> QED
    BY <1>7, <2>1, GoneStep DEF Mons!crash
<1>8. CASE UNCHANGED Mons!vars
  <2>1. UNCHANGED <<up, Mons!lmkd>> /\ SystemTyped'
    BY <1>1, <1>8, Zenon DEF SystemTyped, Mons!vars, Mons!system
  <2> QED
    BY <1>2, <2>1
<1> QED
  BY <1>3, <1>4, <1>5, <1>6, <1>7, <1>8, MainStep, StartStep DEF Mons!Next

(* No lmkd runs at first.                                                  *)
LEMMA MonInit == MonitorsConstants /\ Mons!Init => MonInv
<1> SUFFICES ASSUME MonitorsConstants, Mons!Init PROVE MonInv
  OBVIOUS
<1>1. mon = Mons!None /\ ~monitors_initialized /\ applied \in Props
  BY Zenon DEF Mons!Init
<1>2. mon \in [fd : [Mons!Level -> {"none", "psi", "vmpressure"}], maxevents : Int]
  BY <1>1, TableTyped, Zenon
<1>3. Mons!TypeOK
  BY <1>2, Zenon DEF Mons!TypeOK, Mons!Init
<1> QED
  BY <1>1, <1>3, Zenon DEF MonInv, Mons!Init

(* The invariant says which monitors there are.                            *)
LEMMA MonMatch == MonInv => Mons!MonitorsMatch
<1> SUFFICES ASSUME MonInv PROVE Mons!MonitorsMatch
  OBVIOUS
<1> DEFINE wanted == IF ~monitors_initialized THEN {}
                     ELSE IF use_psi_monitors THEN applied.stall ELSE 0..2
<1>1. mon = Of(wanted, Kind(use_psi_monitors))
  <2>1. CASE ~monitors_initialized
    BY <2>1, NoneOf DEF MonInv
  <2>2. CASE monitors_initialized
    BY <2>2 DEF MonInv, Wanted
  <2> QED
    BY <2>1, <2>2, SMTT(20)
<1> HIDE DEF wanted
<1>2. mon.maxevents = Cardinality(wanted)
  BY <1>1 DEF Of
<1>3. ASSUME NEW l \in 0..3
      PROVE  mon.fd[l] = IF l \notin wanted THEN "none"
                         ELSE IF use_psi_monitors THEN "psi" ELSE "vmpressure"
  BY <1>1 DEF Of, Kind
<1> QED
  BY <1>2, <1>3, SameCount, Zenon
     DEF wanted, MonInv, Mons!MonitorsMatch, Mons!Level, Mons!LOW, Mons!CRITICAL,
         Mons!SUPER_CRITICAL

(* Where no in-kernel driver is the killer, for any set of properties:     *)
(* maxevents counts the monitors, and they are exactly those of the mode   *)
(* and the properties in force, whatever init_psi_monitors and             *)
(* init_mp_common were refused, however often LMK_UPDATE_PROPS destroyed   *)
(* and replaced them and wherever lmkd crashed; and lmkd drops a direct    *)
(* reclaim threshold that it has no listener for.                          *)
THEOREM MonitorsMatchProps ==
  MonitorsConstants /\ ~Mons!InkernelAtUpdate => (Mons!Spec => []Mons!MonitorsMatch)
<1> SUFFICES ASSUME MonitorsConstants, ~Mons!InkernelAtUpdate
             PROVE  Mons!Spec => []Mons!MonitorsMatch
  OBVIOUS
<1>1. Mons!Init => MonInv
  BY MonInit
<1>2. MonInv /\ [Mons!Next]_Mons!vars => MonInv'
  BY MonStep
<1>3. MonInv => Mons!MonitorsMatch
  BY MonMatch
<1> QED
  BY <1>1, <1>2, <1>3, PTL DEF Mons!Spec
=============================================================================
