--------------------------- MODULE KillReportsProofs ------------------------
(***************************************************************************)
(* Proofs about the reports of the in-kernel killer, for any pids, names,  *)
(* buffer, hash table and number of reports: the table of names is a map,  *)
(* and each reported death is passed on once, with the name if it is       *)
(* known.  The kill counters of the other mode are in KillCountProofs.     *)
(***************************************************************************)
EXTENDS KillReports, FiniteSetTheorems, WellFoundedInduction, TLAPS

(* A set of naturals has a least element.                                  *)
LEMMA LeastNat ==
  ASSUME NEW T \in SUBSET Nat, NEW t \in T
  PROVE  \E n \in T : \A m \in T : n <= m
<1> DEFINE R == {ss \in Nat \X Nat : ss[1] < ss[2]}
<1>1. IsWellFoundedOn(R, Nat)
  BY NatLessThanWellFounded DEF OpToRel
<1>2. \A n, m \in Nat : ~(<<m, n>> \in R) => n <= m
  OBVIOUS
<1> HIDE DEF R
<1>3. T # {} /\ T \subseteq Nat
  OBVIOUS
<1>4. PICK n \in T : \A m \in T : ~(<<m, n>> \in R)
  BY <1>1, <1>3, WFMin, Zenon
<1> QED
  BY <1>2, <1>4, Zenon

(* The length of a concatenation.                                          *)
LEMMA CatLen ==
  ASSUME NEW E, NEW u \in Seq(E), NEW v \in Seq(E)
  PROVE  Len(u \o v) = Len(u) + Len(v)
  OBVIOUS

(* The elements of a concatenation.                                        *)
LEMMA CatElements ==
  ASSUME NEW E, NEW u \in Seq(E), NEW v \in Seq(E)
  PROVE  /\ \A k \in 1..Len(u) : (u \o v)[k] = u[k]
         /\ \A k \in 1..Len(v) : (u \o v)[Len(u) + k] = v[k]
  OBVIOUS

Cut(s, i) == SubSeq(s, 1, i - 1) \o SubSeq(s, i + 1, Len(s))

(* Cutting one element out of a chain.                                     *)
LEMMA CutOut ==
  ASSUME NEW E, NEW s \in Seq(E), NEW i \in 1..Len(s)
  PROVE  /\ Cut(s, i) \in Seq(E) /\ DOMAIN Cut(s, i) = 1..(Len(s) - 1)
         /\ \A k \in 1..(Len(s) - 1) : Cut(s, i)[k] = IF k < i THEN s[k] ELSE s[k + 1]
<1> DEFINE u == SubSeq(s, 1, i - 1)
           v == SubSeq(s, i + 1, Len(s))
           n == Len(s)
           r == Cut(s, i)
<1>1. n \in Nat /\ i \in 1..n
  OBVIOUS
<1>2. u \in Seq(E) /\ Len(u) = i - 1 /\ \A k \in 1..(i - 1) : u[k] = s[k]
  BY <1>1
<1>3. v \in Seq(E)
  BY <1>1
<1>4. Len(v) = n - i
  BY <1>1
<1>5. \A k \in 1..(n - i) : v[k] = s[i + k]
  BY <1>1
<1>6. r = u \o v
  BY DEF Cut
<1> HIDE DEF u, v, n, r
<1>7. r \in Seq(E) /\ Len(r) = (i - 1) + (n - i)
  <2>1. r \in Seq(E)
    BY <1>2, <1>3, <1>6
  <2>2. Len(r) = Len(u) + Len(v)
    BY <1>2, <1>3, <1>6, CatLen, Zenon
  <2> QED
    BY <1>2, <1>4, <2>1, <2>2
<1>8. \A k \in 1..(i - 1) : r[k] = u[k]
  BY <1>2, <1>3, <1>6
<1>9. \A k \in 1..(n - i) : r[(i - 1) + k] = v[k]
  BY <1>1, <1>2, <1>3, <1>4, <1>6
<1>10. ASSUME NEW k \in 1..(n - 1) PROVE r[k] = IF k < i THEN s[k] ELSE s[k + 1]
  <2>1. CASE k < i
    BY <1>1, <1>2, <1>8, <2>1
  <2>2. CASE k >= i
    <3> DEFINE j == k - (i - 1)
    <3>1. j \in 1..(n - i) /\ (i - 1) + j = k /\ i + j = k + 1
      BY <1>1, <2>2
    <3> HIDE DEF j
    <3>2. r[(i - 1) + j] = s[i + j]
      BY <1>5, <1>9, <3>1
    <3> QED
      BY <1>1, <2>2, <3>1, <3>2
  <2> QED
    BY <1>1, <2>1, <2>2
<1>11. DOMAIN r = 1..(n - 1)
  <2>1. Len(r) = n - 1
    BY <1>1, <1>7
  <2> QED
    BY <1>7, <2>1
<1> QED
  BY <1>7, <1>10, <1>11 DEF n, r

(* The names the table holds: they fit the buffer and have no space.       *)
Stored == {n \in Seq(STRING) : Len(n) < PathMax /\ \A j \in 1..Len(n) : n[j] # " "}

Entry == [pid : Pid, taskname : Stored]

(* The chain c of the hash value h holds f[p] for each p of that value     *)
(* that has a name, once, and nothing else.                                *)
Chain(c, h, f) ==
  /\ c \in Seq(Entry)
  /\ \A i \in 1..Len(c) : Kernel!pid_hashfn(c[i].pid) = h /\ c[i].taskname = f[c[i].pid]
  /\ \A i, j \in 1..Len(c) : c[i].pid = c[j].pid => i = j
  /\ \A p \in Pid : Kernel!pid_hashfn(p) = h /\ f[p] # NULL => \E i \in 1..Len(c) : c[i].pid = p

Hash == 0..(HashSize - 1)

(* A pid hashes into the table, and a stored name is not NULL.             *)
LEMMA Hashing ==
  /\ \A p \in Pid : Kernel!pid_hashfn(p) \in Hash
  /\ NULL \notin Stored
<1>1. \A p \in Nat : p % HashSize \in 0..(HashSize - 1)
  BY ReportsAssumption
<1> QED
  BY <1>1, ReportsAssumption, Zenon DEF Kernel!pid_hashfn, Hash, Stored

(* What the entries of a chain are.                                        *)
LEMMA Entries ==
  ASSUME NEW c \in Seq(Entry)
  PROVE  \A k \in 1..Len(c) : c[k] \in Entry /\ c[k].pid \in Pid /\ c[k].taskname \in Stored
<1>1. \A k \in 1..Len(c) : c[k] \in Entry
  OBVIOUS
<1>2. \A e \in Entry : e.pid \in Pid /\ e.taskname \in Stored
  BY DEF Entry
<1> QED
  BY <1>1, <1>2, Zenon

(* Taking p's entry out of its chain.                                      *)
LEMMA ChainCut ==
  ASSUME NEW c, NEW h, NEW f \in [Pid -> {NULL} \cup Stored], Chain(c, h, f),
         NEW i \in 1..Len(c)
  PROVE  Chain(Cut(c, i), h, [f EXCEPT ![c[i].pid] = NULL])
<1> DEFINE d == Cut(c, i)
           p == c[i].pid
           g == [f EXCEPT ![p] = NULL]
           n == Len(c)
<1>1. /\ c \in Seq(Entry) /\ n \in Nat /\ i \in 1..n
  BY DEF Chain
<1>2. c[i] \in Entry
  BY <1>1
<1>3. p \in Pid
  BY <1>2 DEF Entry
<1>4. /\ d \in Seq(Entry) /\ DOMAIN d = 1..(n - 1)
      /\ \A k \in 1..(n - 1) : d[k] = IF k < i THEN c[k] ELSE c[k + 1]
  BY <1>1, CutOut
<1>5. Len(d) = n - 1
  BY <1>1, <1>4
<1>6. \A q \in Pid : g[q] = IF q = p THEN NULL ELSE f[q]
  BY <1>3
<1>7. /\ \A k \in 1..n : Kernel!pid_hashfn(c[k].pid) = h /\ c[k].taskname = f[c[k].pid]
      /\ \A k, j \in 1..n : c[k].pid = c[j].pid => k = j
      /\ \A q \in Pid : Kernel!pid_hashfn(q) = h /\ f[q] # NULL => \E k \in 1..n : c[k].pid = q
  BY DEF Chain
<1>8. \A k \in 1..n : c[k].pid \in Pid
  BY <1>1, Entries
<1>9. p = c[i].pid
  OBVIOUS
<1> HIDE DEF d, p, g, n
<1>10. ASSUME NEW k \in 1..(n - 1)
       PROVE  Kernel!pid_hashfn(d[k].pid) = h /\ d[k].taskname = g[d[k].pid] /\ d[k].pid # p
  <2> DEFINE K == IF k < i THEN k ELSE k + 1
  <2>1. K \in 1..n /\ K # i /\ d[k] = c[K]
    BY <1>1, <1>4
  <2> HIDE DEF K
  <2>2. c[K].pid # p /\ c[K].pid \in Pid
    BY <1>1, <1>7, <1>8, <1>9, <2>1
  <2> QED
    BY <1>6, <1>7, <2>1, <2>2
<1>11. ASSUME NEW k \in 1..(n - 1), NEW j \in 1..(n - 1), d[k].pid = d[j].pid
       PROVE  k = j
  <2> DEFINE K == IF k < i THEN k ELSE k + 1
             J == IF j < i THEN j ELSE j + 1
  <2>1. K \in 1..n /\ J \in 1..n /\ d[k] = c[K] /\ d[j] = c[J]
    BY <1>1, <1>4
  <2>2. K = J
    BY <1>7, <1>11, <2>1
  <2> QED
    BY <1>1, <2>2
<1>12. ASSUME NEW q \in Pid, Kernel!pid_hashfn(q) = h, g[q] # NULL
       PROVE  \E k \in 1..(n - 1) : d[k].pid = q
  <2>1. q # p /\ f[q] # NULL
    BY <1>6, <1>12
  <2>2. PICK j \in 1..n : c[j].pid = q
    BY <1>7, <1>12, <2>1
  <2>3. j # i
    BY <1>9, <2>1, <2>2
  <2> DEFINE k == IF j < i THEN j ELSE j - 1
  <2>4. k \in 1..(n - 1) /\ d[k] = c[j]
    BY <1>1, <1>4, <2>3
  <2> QED
    BY <2>2, <2>4
<1>13. Chain(d, h, g)
  BY <1>4, <1>5, <1>10, <1>11, <1>12, Zenon DEF Chain
<1> QED
  BY <1>13 DEF d, g, p

Push(e, c) == <<e>> \o c

(* Putting an element before a sequence.                                   *)
LEMMA Before ==
  ASSUME NEW E, NEW c \in Seq(E), NEW e \in E
  PROVE  /\ Push(e, c) \in Seq(E) /\ Len(Push(e, c)) = Len(c) + 1
         /\ Push(e, c)[1] = e /\ \A k \in 1..Len(c) : Push(e, c)[k + 1] = c[k]
<1>1. Push(e, c) \in Seq(E)
  BY DEF Push
<1>2. Len(Push(e, c)) = Len(c) + 1
  BY DEF Push
<1>3. Push(e, c)[1] = e
  BY DEF Push
<1>4. ASSUME NEW k \in 1..Len(c) PROVE Push(e, c)[k + 1] = c[k]
  BY DEF Push
<1> QED
  BY <1>1, <1>2, <1>3, <1>4

(* Putting an entry of p before a chain that has none.                     *)
LEMMA ChainAdd ==
  ASSUME NEW c, NEW h, NEW f \in [Pid -> {NULL} \cup Stored], Chain(c, h, f),
         NEW p \in Pid, Kernel!pid_hashfn(p) = h, f[p] = NULL, NEW m \in Stored
  PROVE  Chain(<<[pid |-> p, taskname |-> m]>> \o c, h, [f EXCEPT ![p] = m])
<1> DEFINE e == [pid |-> p, taskname |-> m]
           d == Push(e, c)
           g == [f EXCEPT ![p] = m]
           n == Len(c)
<1>1. /\ c \in Seq(Entry) /\ n \in Nat
  BY DEF Chain
<1>2. e \in Entry /\ e.pid = p /\ e.taskname = m
  BY DEF Entry
<1>3. \A q \in Pid : g[q] = IF q = p THEN m ELSE f[q]
  OBVIOUS
<1>4. /\ \A k \in 1..n : Kernel!pid_hashfn(c[k].pid) = h /\ c[k].taskname = f[c[k].pid]
      /\ \A k, j \in 1..n : c[k].pid = c[j].pid => k = j
      /\ \A q \in Pid : Kernel!pid_hashfn(q) = h /\ f[q] # NULL => \E k \in 1..n : c[k].pid = q
  BY DEF Chain
<1>5. \A k \in 1..n : c[k] \in Entry /\ c[k].pid \in Pid /\ c[k].taskname \in Stored
  BY <1>1, Entries
<1>6. \A k \in 1..n : c[k].pid # p
  BY <1>4, <1>5, Hashing
<1> HIDE DEF e
<1>7. /\ d \in Seq(Entry) /\ Len(d) = n + 1
      /\ d[1] = e /\ \A k \in 1..n : d[k + 1] = c[k]
  <2>1. c \in Seq(Entry) /\ e \in Entry
    BY <1>1, <1>2
  <2> QED
    BY ONLY <2>1, Before
<1> HIDE DEF d, g, n
<1>8. \A k \in 1..(n + 1) : d[k] = IF k = 1 THEN e ELSE c[k - 1]
  <2> SUFFICES ASSUME NEW k \in 1..(n + 1), k # 1 PROVE d[k] = c[k - 1]
    BY <1>7
  <2>1. k - 1 \in 1..n /\ (k - 1) + 1 = k
    BY <1>1
  <2> QED
    BY <1>7, <2>1, Zenon
<1>9. ASSUME NEW k \in 1..(n + 1)
       PROVE  Kernel!pid_hashfn(d[k].pid) = h /\ d[k].taskname = g[d[k].pid]
  <2>1. CASE k = 1
    BY <1>2, <1>7, <1>3, <2>1
  <2>2. CASE k # 1
    <3>1. k - 1 \in 1..n /\ d[k] = c[k - 1]
      BY <1>1, <1>8, <2>2
    <3> QED
      BY <1>3, <1>4, <1>5, <1>6, <3>1
  <2> QED
    BY <2>1, <2>2
<1>10. ASSUME NEW k \in 1..(n + 1), NEW j \in 1..(n + 1), d[k].pid = d[j].pid
       PROVE  k = j
  <2>1. CASE k = 1 /\ j = 1
    BY <2>1
  <2>2. CASE k = 1 /\ j # 1
    <3>1. j - 1 \in 1..n /\ d[j] = c[j - 1]
      BY <1>1, <1>8, <2>2
    <3> QED
      BY <1>2, <1>7, <1>6, <1>10, <2>2, <3>1
  <2>3. CASE k # 1 /\ j = 1
    <3>1. k - 1 \in 1..n /\ d[k] = c[k - 1]
      BY <1>1, <1>8, <2>3
    <3> QED
      BY <1>2, <1>7, <1>6, <1>10, <2>3, <3>1
  <2>4. CASE k # 1 /\ j # 1
    <3>1. k - 1 \in 1..n /\ d[k] = c[k - 1] /\ j - 1 \in 1..n /\ d[j] = c[j - 1]
      BY <1>1, <1>8, <2>4
    <3>2. k - 1 = j - 1
      BY <1>4, <1>10, <3>1
    <3> QED
      BY <3>2
  <2> QED
    BY <2>1, <2>2, <2>3, <2>4
<1>11. ASSUME NEW q \in Pid, Kernel!pid_hashfn(q) = h, g[q] # NULL
       PROVE  \E k \in 1..(n + 1) : d[k].pid = q
  <2>1. CASE q = p
    BY <1>1, <1>2, <1>7, <2>1
  <2>2. CASE q # p
    <3>1. PICK j \in 1..n : c[j].pid = q
      BY <1>3, <1>4, <1>11, <2>2
    <3>2. j + 1 \in 1..(n + 1) /\ d[j + 1] = c[j]
      BY <1>1, <1>7
    <3> QED
      BY <3>1, <3>2
  <2> QED
    BY <2>1, <2>2
<1>12. Chain(d, h, g)
  BY <1>7, <1>9, <1>10, <1>11 DEF Chain
<1> QED
  BY <1>12 DEF d, g, e, Push

(* A chain is indifferent to the names of other hash values.               *)
LEMMA ChainOther ==
  ASSUME NEW c, NEW h, NEW f \in [Pid -> {NULL} \cup Stored], Chain(c, h, f),
         NEW p \in Pid, Kernel!pid_hashfn(p) # h, NEW m
  PROVE  Chain(c, h, [f EXCEPT ![p] = m])
<1>1. \A i \in 1..Len(c) : c[i].pid \in Pid
  BY Entries DEF Chain
<1> QED
  BY <1>1 DEF Chain

(* The state of the in-kernel mode: types, ...                             *)
Known == {"not", "own", "other"}
Report == [pid : Pid, of : {"leader", "thread", "incomplete"}, known : Known]
Told == [named : BOOLEAN, known : Known]
Handlers == [op : {"idle", "poll", "poll_remove", "remove"}, pid : Pid \cup {NULL},
             told : {NULL} \cup Told]

KernelTypes ==
  /\ cmdline \in [Pid -> {NULL} \cup Seq(STRING)]
  /\ registered \in [Pid -> {NULL} \cup Stored]
  /\ reports \in Seq(Report) /\ Len(reports) <= MaxReports
  /\ handler \in Handlers /\ untold \in [Pid -> Int]
  /\ handler.op \in {"poll_remove", "remove"} => handler.pid \in Pid
  /\ handler.op \in {"poll", "poll_remove"} => kpoll_open

(* ... each chain of the table holds the names last stored of its pids, ... *)
Table ==
  /\ pidhash \in [Hash -> Seq(Entry)]
  /\ \A h \in Hash : Chain(pidhash[h], h, registered)

(* ... and a report still to be read whose process lmkd knew when it was   *)
(* killed finds a name in the table, which is not about to go.             *)
NamesKept ==
  kpoll_open => \A i \in 1..Len(reports) : reports[i].known # "not" =>
    /\ registered[reports[i].pid] # NULL
    /\ handler.op = "remove" => reports[i].pid # handler.pid

(* The leaders' deaths of p among the reports r.                           *)
Deaths(p, r) == {i \in DOMAIN r : r[i].pid = p /\ r[i].of = "leader"}

Counted == \A p \in Pid : untold[p] = Cardinality(Deaths(p, reports))

ToldNamed == handler.told # NULL /\ handler.told.known # "not" => handler.told.named

KernelInv == KernelTypes /\ Table /\ NamesKept /\ Counted /\ ToldNamed

(* The search of a chain.                                                  *)
LEMMA Found ==
  ASSUME KernelTypes, Table, NEW p \in Pid
  PROVE  LET c == pidhash[Kernel!pid_hashfn(p)]
             i == Kernel!Position(p)
         IN  \/ i = 0 /\ registered[p] = NULL
             \/ i \in 1..Len(c) /\ c[i].pid = p /\ c[i].taskname = registered[p] /\ registered[p] # NULL
<1> DEFINE h == Kernel!pid_hashfn(p)
           c == pidhash[h]
           mine == {i \in 1..Len(c) : c[i].pid = p}
           First(i) == \A j \in mine : i <= j
<1>1. h \in Hash /\ Chain(c, h, registered)
  BY Hashing DEF Table
<1>2. Kernel!Position(p) = IF mine = {} THEN 0 ELSE CHOOSE i \in mine : First(i)
  BY DEF Kernel!Position
<1>3. CASE mine = {}
  <2>1. Kernel!Position(p) = 0
    BY <1>2, <1>3
  <2>2. ~ \E i \in 1..Len(c) : c[i].pid = p
    BY <1>3
  <2> HIDE DEF c
  <2>3. registered[p] = NULL
    BY <1>1, <2>2 DEF Chain
  <2> QED
    BY <2>1, <2>3
<1>4. CASE mine # {}
  <2>1. mine \in SUBSET Nat
    BY <1>1 DEF Chain
  <2>2. PICK n \in mine : \A m \in mine : n <= m
    BY <1>4, <2>1, LeastNat, Zenon
  <2>3. First(n)
    BY <2>2
  <2> HIDE DEF First
  <2>4. Kernel!Position(p) \in mine
    BY <1>2, <1>4, <2>2, <2>3
  <2> DEFINE i == Kernel!Position(p)
  <2>5. i \in 1..Len(c) /\ c[i].pid = p
    BY <2>4
  <2> HIDE DEF c, i
  <2>6. c[i].taskname = registered[p]
    BY <1>1, <2>5 DEF Chain
  <2>7. c[i].taskname # NULL
    BY <1>1, <2>5, Entries, Hashing DEF Chain
  <2> QED
    BY <2>5, <2>6, <2>7 DEF c, i
<1> QED
  BY <1>3, <1>4

(* Looking a name up.                                                      *)
LEMMA LookUp ==
  ASSUME KernelTypes, Table, NEW p \in Pid
  PROVE  Kernel!stats_get_task_name(p) = registered[p]
  BY Found, ReportsAssumption DEF Kernel!stats_get_task_name

(* Removing a name.                                                        *)
LEMMA Removed ==
  ASSUME KernelTypes, Table, NEW p \in Pid
  PROVE  /\ registered \in [Pid -> {NULL} \cup Stored]
         /\ [registered EXCEPT ![p] = NULL] \in [Pid -> {NULL} \cup Stored]
         /\ Chain(Kernel!Without(p), Kernel!pid_hashfn(p), [registered EXCEPT ![p] = NULL])
<1> DEFINE h == Kernel!pid_hashfn(p)
           c == pidhash[h]
           i == Kernel!Position(p)
           g == [registered EXCEPT ![p] = NULL]
<1>1. h \in Hash /\ Chain(c, h, registered)
  BY Hashing DEF Table
<1>2. registered \in [Pid -> {NULL} \cup Stored] /\ g \in [Pid -> {NULL} \cup Stored]
  BY DEF KernelTypes
<1>3. Kernel!Without(p) = IF i = 0 THEN c ELSE Cut(c, i)
  BY DEF Kernel!Without, Cut
<1>4. \/ i = 0 /\ registered[p] = NULL
      \/ i \in 1..Len(c) /\ c[i].pid = p
  BY Found
<1>5. CASE i = 0 /\ registered[p] = NULL
  <2>1. g = registered
    BY <1>2, <1>5
  <2> QED
    BY <1>1, <1>2, <1>3, <1>5, <2>1, Zenon
<1>6. CASE i \in 1..Len(c) /\ c[i].pid = p
  <2> HIDE DEF c, i
  <2>1. i # 0
    BY <1>6
  <2>2. Chain(Cut(c, i), h, [registered EXCEPT ![c[i].pid] = NULL])
    BY <1>1, <1>2, <1>6, ChainCut, Zenon
  <2> QED
    BY <1>2, <1>3, <1>6, <2>1, <2>2
<1> QED
  BY <1>4, <1>5, <1>6

(* Writing a chain back leaves the others as they are.                     *)
LEMMA TableWith ==
  ASSUME KernelTypes, Table, NEW p \in Pid, NEW c, NEW m \in {NULL} \cup Stored,
         Chain(c, Kernel!pid_hashfn(p), [registered EXCEPT ![p] = m]),
         pidhash' = [pidhash EXCEPT ![Kernel!pid_hashfn(p)] = c],
         registered' = [registered EXCEPT ![p] = m]
  PROVE  Table'
<1> DEFINE h == Kernel!pid_hashfn(p)
<1>1. h \in Hash
  BY Hashing
<1>2. /\ pidhash \in [Hash -> Seq(Entry)] /\ \A k \in Hash : Chain(pidhash[k], k, registered)
      /\ registered \in [Pid -> {NULL} \cup Stored]
  BY DEF Table, KernelTypes
<1>3. c \in Seq(Entry)
  BY DEF Chain
<1> HIDE DEF h
<1>4. pidhash' \in [Hash -> Seq(Entry)] /\ \A k \in Hash : pidhash'[k] = IF k = h THEN c ELSE pidhash[k]
  BY <1>1, <1>2, <1>3 DEF h
<1>5. ASSUME NEW k \in Hash PROVE Chain(pidhash'[k], k, registered')
  <2>1. CASE k = h
    BY <1>4, <2>1 DEF h
  <2>2. CASE k # h
    <3>1. Chain(pidhash[k], k, [registered EXCEPT ![p] = m])
      BY <1>2, <2>2, ChainOther, Zenon DEF h
    <3> QED
      BY <1>4, <2>2, <3>1
  <2> QED
    BY <2>1, <2>2
<1> QED
  BY <1>4, <1>5, Zenon DEF Table, Hash, Entry, Stored

(* proc_get_name returns a name that fits the buffer and has no space,     *)
(* whatever the command line.                                              *)
LEMMA NameFits ==
  ASSUME NEW p \in Pid, cmdline[p] \in Seq(STRING)
  PROVE  Kernel!proc_get_name(p) \in Stored
<1> DEFINE c == cmdline[p]
           Plain(k) == \A i \in 1..k : c[i] # " "
           fits == {k \in 0..Len(c) : k < PathMax /\ Plain(k)}
           Last(k) == \A j \in fits : j <= k
           K == CHOOSE k \in fits : Last(k)
           gaps == {Len(c) - k : k \in fits}
<1>1. Kernel!proc_get_name(p) = SubSeq(c, 1, K)
  BY DEF Kernel!proc_get_name
<1>2. c \in Seq(STRING) /\ Len(c) \in Nat
  OBVIOUS
<1>3. \A k \in fits : k \in 0..Len(c) /\ k < PathMax /\ Plain(k)
  BY Zenon
<1>4. PathMax \in Nat \ {0}
  BY ReportsAssumption
<1>5. 0 \in fits
  <2>1. 1..0 = {}
    OBVIOUS
  <2>2. Plain(0)
    BY <2>1, Zenon
  <2> HIDE DEF Plain, c
  <2>3. 0 \in 0..Len(c) /\ 0 < PathMax
    BY <1>4, <1>2
  <2> QED
    BY <2>2, <2>3
<1>6. \A k \in fits : k \in 0..Len(c)
  BY <1>3, Zenon
<1> HIDE DEF c, fits
<1>7. gaps \in SUBSET Nat /\ Len(c) - 0 \in gaps
  <2>1. \A k \in fits : Len(c) - k \in Nat
    BY <1>2, <1>6
  <2> QED
    BY <1>5, <2>1, Zenon
<1>8. PICK g \in gaps : \A m \in gaps : g <= m
  BY <1>7, LeastNat, Zenon
<1>9. PICK n \in fits : g = Len(c) - n
  BY <1>8
<1>10. Last(n)
  <2> SUFFICES ASSUME NEW j \in fits PROVE j <= n
    OBVIOUS
  <2>1. Len(c) - n <= Len(c) - j
    BY <1>8, <1>9
  <2> QED
    BY <1>2, <1>6, <2>1
<1> HIDE DEF Last
<1>11. K \in fits
  BY <1>9, <1>10
<1> HIDE DEF K
<1>12. K \in 0..Len(c) /\ K < PathMax /\ \A i \in 1..K : c[i] # " "
  BY <1>3, <1>11, Zenon
<1>13. K \in 0..Len(c)
  BY <1>12, Zenon
<1>14. SubSeq(c, 1, K) \in Seq(STRING) /\ Len(SubSeq(c, 1, K)) = K
  BY <1>2, <1>13
<1>15. \A i \in 1..K : SubSeq(c, 1, K)[i] = c[i]
  BY <1>2, <1>13
<1>16. \A i \in 1..K : SubSeq(c, 1, K)[i] # " "
  BY <1>12, <1>15, Zenon
<1> HIDE DEF Plain
<1> DEFINE d == SubSeq(c, 1, K)
<1>17. d \in Seq(STRING) /\ Len(d) < PathMax /\ \A i \in 1..Len(d) : d[i] # " "
  BY <1>12, <1>14, <1>16, Zenon
<1> HIDE DEF d
<1>18. d \in Stored
  BY <1>17, Zenon DEF Stored
<1> QED
  BY <1>1, <1>18 DEF d

(* A part of 1..n is finite.                                               *)
LEMMA UpTo ==
  ASSUME NEW n \in Nat, NEW S, S \subseteq 1..n
  PROVE  IsFiniteSet(S) /\ Cardinality(S) \in Nat
<1>1. IsFiniteSet(1..n)
  BY FS_Interval
<1>2. IsFiniteSet(S)
  BY <1>1, FS_Subset, Zenon
<1> QED
  BY <1>2, FS_CardinalityType, Zenon

(* A report comes in.                                                      *)
LEMMA DeathsAppend ==
  ASSUME NEW r \in Seq(Report), NEW e \in Report, NEW p \in Pid
  PROVE  Cardinality(Deaths(p, Append(r, e)))
           = Cardinality(Deaths(p, r)) + (IF e.pid = p /\ e.of = "leader" THEN 1 ELSE 0)
<1> DEFINE n == Len(r)
           s == Append(r, e)
<1>1. /\ n \in Nat /\ DOMAIN r = 1..n /\ DOMAIN s = 1..(n + 1)
      /\ s[n + 1] = e /\ \A i \in 1..n : s[i] = r[i]
  OBVIOUS
<1> HIDE DEF n, s
<1>2. Deaths(p, r) \subseteq 1..n /\ n + 1 \notin Deaths(p, r)
  BY <1>1 DEF Deaths
<1>3. IsFiniteSet(Deaths(p, r)) /\ Cardinality(Deaths(p, r)) \in Nat
  BY <1>1, <1>2, UpTo, Zenon
<1>4. CASE e.pid = p /\ e.of = "leader"
  <2>1. Deaths(p, s) = Deaths(p, r) \cup {n + 1}
    BY <1>1, <1>4 DEF Deaths
  <2> QED
    BY <1>2, <1>3, <1>4, <2>1, FS_AddElement, ZenonT(30) DEF s
<1>5. CASE ~(e.pid = p /\ e.of = "leader")
  <2>1. Deaths(p, s) = Deaths(p, r)
    BY <1>1, <1>5 DEF Deaths
  <2> QED
    BY <1>3, <1>5, <2>1 DEF s
<1> QED
  BY <1>4, <1>5

(* The oldest report is read.                                              *)
LEMMA DeathsTail ==
  ASSUME NEW r \in Seq(Report), r # <<>>, NEW p \in Pid
  PROVE  Cardinality(Deaths(p, Tail(r)))
           = Cardinality(Deaths(p, r)) - (IF r[1].pid = p /\ r[1].of = "leader" THEN 1 ELSE 0)
<1> DEFINE n == Len(r)
           s == Tail(r)
           D == Deaths(p, r) \ {1}
           T == Deaths(p, s)
           f == [i \in T |-> i + 1]
<1>1. /\ n \in Nat \ {0} /\ DOMAIN r = 1..n /\ DOMAIN s = 1..(n - 1)
      /\ \A i \in 1..(n - 1) : s[i] = r[i + 1]
  OBVIOUS
<1> HIDE DEF n, s
<1>2. Deaths(p, r) \subseteq 1..n /\ T \subseteq 1..(n - 1)
  BY <1>1 DEF Deaths
<1>3. /\ IsFiniteSet(Deaths(p, r)) /\ Cardinality(Deaths(p, r)) \in Nat
      /\ IsFiniteSet(T) /\ IsFiniteSet(D)
  <2>1. n - 1 \in Nat /\ D \subseteq 1..n
    BY <1>1, <1>2
  <2> HIDE DEF D, T
  <2> QED
    BY <1>1, <1>2, <2>1, UpTo, Zenon
<1>4. \A i \in T : i + 1 \in D
  BY <1>1 DEF Deaths
<1>5. \A j \in D : j - 1 \in T /\ (j - 1) + 1 = j
  BY <1>1 DEF Deaths
<1>6. \A i, j \in T : i + 1 = j + 1 => i = j
  BY <1>2
<1>7. f \in Bijection(T, D)
  <2> HIDE DEF T, D
  <2>1. f \in [T -> D]
    BY <1>4
  <2>2. \A i, j \in T : f[i] = f[j] => i = j
    BY <1>6
  <2>3. \A j \in D : \E i \in T : f[i] = j
    BY <1>5
  <2> HIDE DEF f
  <2>4. f \in Injection(T, D)
    BY <2>1, <2>2 DEF Injection, IsInjective
  <2>5. f \in Surjection(T, D)
    BY <2>1, <2>3 DEF Surjection
  <2> QED
    BY <2>4, <2>5 DEF Bijection
<1>8. Cardinality(T) = Cardinality(D)
  <2> HIDE DEF T, D, f
  <2>1. ExistsBijection(T, D)
    BY <1>7 DEF ExistsBijection
  <2> QED
    BY <1>3, <2>1, FS_Bijection, Zenon
<1>9. CASE r[1].pid = p /\ r[1].of = "leader"
  <2>1. 1 \in Deaths(p, r)
    BY <1>1, <1>9 DEF Deaths
  <2>2. Cardinality(D) = Cardinality(Deaths(p, r)) - 1
    BY <1>3, <2>1, FS_RemoveElement
  <2> QED
    BY <1>8, <1>9, <2>2 DEF s
<1>10. CASE ~(r[1].pid = p /\ r[1].of = "leader")
  <2>1. D = Deaths(p, r)
    BY <1>10 DEF Deaths
  <2>2. Cardinality(T) = Cardinality(Deaths(p, r))
    BY <1>8, <2>1, Zenon
  <2> HIDE DEF T
  <2>3. Cardinality(T) = Cardinality(Deaths(p, r)) - 0
    BY <1>3, <2>2
  <2> QED
    BY <1>10, <2>3 DEF s, T
<1> QED
  BY <1>9, <1>10

(* What becomes of the knowledge of a name does not change the deaths.     *)
LEMMA DeathsSame ==
  ASSUME NEW r \in Seq(Report), NEW s \in Seq(Report), DOMAIN s = DOMAIN r,
         \A i \in DOMAIN r : s[i].pid = r[i].pid /\ s[i].of = r[i].of, NEW p \in Pid
  PROVE  Deaths(p, s) = Deaths(p, r)
  BY DEF Deaths

(* A sequence written element by element.                                  *)
LEMMA SameDomain ==
  ASSUME NEW E, NEW r \in Seq(E), NEW s, s = [i \in DOMAIN r |-> s[i]],
         \A i \in 1..Len(r) : s[i] \in E
  PROVE  s \in Seq(E) /\ Len(s) = Len(r) /\ DOMAIN s = DOMAIN r
<1>1. DOMAIN s = 1..Len(r) /\ Len(r) \in Nat /\ DOMAIN r = 1..Len(r)
  OBVIOUS
<1>2. s \in [1..Len(r) -> E]
  BY <1>1
<1> QED
  BY <1>1, <1>2

(* Parts of the invariant a step leaves alone.                             *)
LEMMA PartsKept ==
  /\ Table /\ UNCHANGED <<pidhash, registered>> => Table'
  /\ Counted /\ UNCHANGED <<reports, untold>> => Counted'
  /\ ToldNamed /\ UNCHANGED handler => ToldNamed'
<1>1. Table /\ UNCHANGED <<pidhash, registered>> => Table'
  BY DEF Table, Hash, Chain
<1>2. Counted /\ UNCHANGED <<reports, untold>> => Counted'
  BY DEF Counted, Deaths
<1>3. ToldNamed /\ UNCHANGED handler => ToldNamed'
  BY DEF ToldNamed
<1> QED
  BY <1>1, <1>2, <1>3, SMTT(20)

(* What the kernel's part of the initial states gives.                     *)
LEMMA InitKernel == Kernel!Init => KernelInv
<1> SUFFICES ASSUME Kernel!Init PROVE KernelInv
  OBVIOUS
<1> USE DEF Kernel!Init
<1>1. KernelTypes
  <2>1. reports \in Seq(Report) /\ Len(reports) = 0
    OBVIOUS
  <2>2. handler \in Handlers /\ handler.op = "idle"
    BY DEF Kernel!Idle, Kernel!In, Handlers
  <2> QED
    BY <2>1, <2>2, ReportsAssumption DEF KernelTypes
<1>2. Table
  <2>1. pidhash \in [Hash -> Seq(Entry)] /\ \A h \in Hash : pidhash[h] = <<>>
    BY DEF Hash
  <2>2. ASSUME NEW h \in Hash PROVE Chain(<<>>, h, registered)
    BY DEF Chain
  <2> QED
    BY <2>1, <2>2, Zenon DEF Table
<1>3. NamesKept
  BY DEF NamesKept
<1>4. Counted
  <2>1. \A p \in Pid : Deaths(p, reports) = {}
    BY DEF Deaths
  <2> QED
    BY <2>1, FS_EmptySet, Zenon DEF Counted
<1>5. ToldNamed
  BY DEF ToldNamed, Kernel!Idle, Kernel!In
<1> QED
  BY <1>1, <1>2, <1>3, <1>4, <1>5 DEF KernelInv

(* Processes come and go.                                                  *)
LEMMA StepProcesses ==
  ASSUME KernelInv, NEW p \in Pid, Kernel!start(p) \/ Kernel!reap(p)
  PROVE  KernelInv'
<1>1. UNCHANGED <<kpoll_open, pidhash, reports, handler, registered, untold>>
  BY DEF Kernel!start, Kernel!reap, Kernel!setup
<1>2. cmdline' \in [Pid -> {NULL} \cup Seq(STRING)]
  <2>1. cmdline \in [Pid -> {NULL} \cup Seq(STRING)] /\ Name \subseteq Seq(STRING)
    BY ReportsAssumption DEF KernelInv, KernelTypes
  <2> QED
    BY <2>1 DEF Kernel!start, Kernel!reap
<1>3. KernelTypes'
  BY <1>1, <1>2, Zenon DEF KernelInv, KernelTypes, Handlers, Report, Known, Told, Stored
<1>4. NamesKept'
  BY <1>1 DEF KernelInv, NamesKept
<1> QED
  BY <1>1, <1>3, <1>4, PartsKept DEF KernelInv

(* The driver kills a process and holds a report.                          *)
LEMMA StepKill ==
  ASSUME KernelInv, NEW p \in Pid, Kernel!lowmem_kill(p)
  PROVE  KernelInv'
<1>1. /\ UNCHANGED <<kpoll_open, pidhash, handler, registered>>
      /\ cmdline' = [cmdline EXCEPT ![p] = <<>>] /\ Len(reports) < MaxReports
  BY DEF Kernel!lowmem_kill, Kernel!setup
<1>2. PICK of \in {"leader", "thread", "incomplete"} :
        /\ reports' = Append(reports,
             [pid |-> p, of |-> of,
              known |-> IF registered[p] = NULL \/ handler.pid = p THEN "not"
                        ELSE IF registered[p] = Kernel!proc_get_name(p) THEN "own" ELSE "other"])
        /\ untold' = IF of = "leader" THEN [untold EXCEPT ![p] = @ + 1] ELSE untold
  BY DEF Kernel!lowmem_kill
<1> DEFINE known == IF registered[p] = NULL \/ handler.pid = p THEN "not"
                    ELSE IF registered[p] = Kernel!proc_get_name(p) THEN "own" ELSE "other"
           e == [pid |-> p, of |-> of, known |-> known]
<1>3. known \in Known /\ (known # "not" => registered[p] # NULL /\ handler.pid # p)
  BY DEF Known
<1>4. reports' = Append(reports, e)
  BY <1>2, SMTT(20)
<1> HIDE DEF known
<1>5. e \in Report /\ e.pid = p /\ e.of = of /\ e.known = known
  BY <1>3 DEF Report
<1> HIDE DEF e
<1>6. reports \in Seq(Report) /\ Len(reports) \in Nat
  BY DEF KernelInv, KernelTypes
<1>7. /\ reports' \in Seq(Report) /\ Len(reports') = Len(reports) + 1
      /\ reports'[Len(reports) + 1] = e /\ \A i \in 1..Len(reports) : reports'[i] = reports[i]
  BY <1>4, <1>5, <1>6
<1>8. KernelTypes'
  <2>1. Len(reports') <= MaxReports
    BY <1>1, <1>6, <1>7, ReportsAssumption, SMTT(20)
  <2>2. untold' \in [Pid -> Int] /\ cmdline' \in [Pid -> {NULL} \cup Seq(STRING)]
    BY <1>1, <1>2, SMTT(20) DEF KernelInv, KernelTypes
  <2> QED
    BY <1>1, <1>7, <2>1, <2>2, Zenon DEF KernelInv, KernelTypes, Handlers, Report, Known, Told, Stored
<1>9. NamesKept'
  <2> SUFFICES ASSUME kpoll_open, NEW i \in 1..Len(reports'), reports'[i].known # "not"
               PROVE  /\ registered[reports'[i].pid] # NULL
                      /\ handler.op = "remove" => reports'[i].pid # handler.pid
    BY <1>1 DEF NamesKept
  <2>1. CASE i = Len(reports) + 1
    BY <1>3, <1>5, <1>7, <2>1, SMTT(20)
  <2>2. CASE i # Len(reports) + 1
    <3>1. i \in 1..Len(reports) /\ reports'[i] = reports[i]
      BY <1>6, <1>7, <2>2, SMTT(20)
    <3> QED
      BY <3>1 DEF KernelInv, NamesKept
  <2> QED
    BY <2>1, <2>2
<1>10. Counted'
  <2> SUFFICES ASSUME NEW q \in Pid PROVE untold'[q] = Cardinality(Deaths(q, reports'))
    BY DEF Counted
  <2>1. Cardinality(Deaths(q, Append(reports, e)))
          = Cardinality(Deaths(q, reports)) + (IF e.pid = q /\ e.of = "leader" THEN 1 ELSE 0)
    BY <1>5, <1>6, DeathsAppend
  <2>2. untold[q] = Cardinality(Deaths(q, reports)) /\ untold \in [Pid -> Int]
    BY DEF KernelInv, Counted, KernelTypes
  <2>3. untold'[q] = untold[q] + (IF e.pid = q /\ e.of = "leader" THEN 1 ELSE 0)
    BY <1>2, <1>5, <2>2
  <2> QED
    BY <1>4, <2>1, <2>2, <2>3
<1>11. Table' /\ ToldNamed'
  BY <1>1, PartsKept DEF KernelInv
<1> QED
  BY <1>8, <1>9, <1>10, <1>11 DEF KernelInv

(* apply_proc_prio stores the name of p.                                   *)
LEMMA StepStore ==
  ASSUME KernelInv, NEW p \in Pid, Kernel!apply_proc_prio(p)
  PROVE  KernelInv'
<1> DEFINE n == Kernel!proc_get_name(p)
           h == Kernel!pid_hashfn(p)
<1>1. /\ UNCHANGED <<kpoll_open, cmdline, handler, untold>> /\ handler = Kernel!Idle
      /\ cmdline[p] # NULL /\ registered' = [registered EXCEPT ![p] = n]
      /\ pidhash' = IF Kernel!stats_get_task_name(p) = n THEN pidhash
                    ELSE [pidhash EXCEPT ![h] = <<[pid |-> p, taskname |-> n]>> \o Kernel!Without(p)]
  BY DEF Kernel!apply_proc_prio, Kernel!setup, Kernel!stats_store_taskname, Kernel!Others
<1>2. reports' = [i \in DOMAIN reports |->
                   IF /\ reports[i].pid = p /\ reports[i].known = "own" /\ registered[p] # n
                   THEN [reports[i] EXCEPT !.known = "other"] ELSE reports[i]]
  BY DEF Kernel!apply_proc_prio
<1>3. n \in Stored
  <2>1. cmdline[p] \in Seq(STRING)
    BY <1>1 DEF KernelInv, KernelTypes
  <2> QED
    BY <2>1, NameFits
<1> HIDE DEF n
<1>4. KernelTypes /\ Table /\ registered \in [Pid -> {NULL} \cup Stored]
  BY DEF KernelInv, KernelTypes
<1>5. registered' \in [Pid -> {NULL} \cup Stored] /\ \A q \in Pid : registered'[q] = IF q = p THEN n ELSE registered[q]
  BY <1>1, <1>3, <1>4
<1>6. Table'
  <2>1. CASE Kernel!stats_get_task_name(p) = n
    <3>1. registered[p] = n
      BY <1>4, <2>1, LookUp
    <3>2. registered' = registered /\ pidhash' = pidhash
      BY <1>1, <1>4, <2>1, <3>1
    <3> QED
      BY <1>4, <3>2 DEF Table, Hash, Chain
  <2>2. CASE Kernel!stats_get_task_name(p) # n
    <3> DEFINE g == [registered EXCEPT ![p] = NULL]
               c == <<[pid |-> p, taskname |-> n]>> \o Kernel!Without(p)
    <3>1. g \in [Pid -> {NULL} \cup Stored] /\ Chain(Kernel!Without(p), h, g) /\ g[p] = NULL
      BY <1>4, Removed, Zenon
    <3>2. [g EXCEPT ![p] = n] = [registered EXCEPT ![p] = n]
      BY <1>4, Zenon
    <3> HIDE DEF g
    <3>3. Chain(c, h, [g EXCEPT ![p] = n])
      BY <1>3, <3>1, ChainAdd, Zenon
    <3> HIDE DEF c
    <3>4. Chain(c, h, [registered EXCEPT ![p] = n])
      BY <3>2, <3>3
    <3>5. pidhash' = [pidhash EXCEPT ![h] = c]
      BY <1>1, <2>2 DEF c
    <3> QED
      BY <1>1, <1>3, <1>4, <3>4, <3>5, TableWith, Zenon
  <2> QED
    BY <2>1, <2>2, SMTT(20)
<1>7. /\ reports \in Seq(Report) /\ Len(reports) \in Nat /\ DOMAIN reports = 1..Len(reports)
      /\ \A i \in 1..Len(reports) : reports[i] \in Report
  BY <1>4 DEF KernelTypes
<1>8. \A r \in Report : /\ [r EXCEPT !.known = "other"] \in Report
                        /\ [r EXCEPT !.known = "other"].pid = r.pid
                        /\ [r EXCEPT !.known = "other"].of = r.of /\ r.pid \in Pid
  BY DEF Report, Known
<1>9. \A i \in 1..Len(reports) : /\ reports'[i] \in Report /\ reports'[i].pid = reports[i].pid
                                 /\ reports'[i].of = reports[i].of /\ reports[i].pid \in Pid
                                 /\ reports'[i].known # "not" => reports[i].known # "not"
  <2> SUFFICES ASSUME NEW i \in 1..Len(reports)
               PROVE  /\ reports'[i] \in Report /\ reports'[i].pid = reports[i].pid
                      /\ reports'[i].of = reports[i].of /\ reports[i].pid \in Pid
                      /\ reports'[i].known # "not" => reports[i].known # "not"
    OBVIOUS
  <2>1. CASE reports[i].pid = p /\ reports[i].known = "own" /\ registered[p] # n
    <3>1. reports'[i] = [reports[i] EXCEPT !.known = "other"]
      BY <1>2, <1>7, <2>1
    <3> QED
      BY <1>7, <1>8, <2>1, <3>1
  <2>2. CASE ~(reports[i].pid = p /\ reports[i].known = "own" /\ registered[p] # n)
    <3>1. reports'[i] = reports[i]
      BY <1>2, <1>7, <2>2
    <3> QED
      BY <1>7, <1>8, <3>1, Zenon
  <2> QED
    BY <2>1, <2>2, SMTT(20)
<1>10. reports' \in Seq(Report) /\ Len(reports') = Len(reports) /\ DOMAIN reports' = DOMAIN reports
  BY <1>2, <1>7, <1>9, SameDomain
<1>11. KernelTypes'
  BY <1>1, <1>4, <1>5, <1>10, Zenon DEF KernelTypes, Handlers, Report, Known, Told, Stored
<1>12. NamesKept'
  <2> SUFFICES ASSUME kpoll_open, NEW i \in 1..Len(reports), reports'[i].known # "not"
               PROVE  registered'[reports'[i].pid] # NULL
    BY <1>1, <1>10, Zenon DEF NamesKept, Kernel!Idle, Kernel!In
  <2>1. registered[reports[i].pid] # NULL
    BY <1>9, Zenon DEF KernelInv, NamesKept
  <2> QED
    BY <1>3, <1>5, <1>9, <2>1, Hashing
<1>13. Counted'
  <2>1. \A q \in Pid : Deaths(q, reports') = Deaths(q, reports)
    BY <1>7, <1>9, <1>10, DeathsSame, SMTT(20)
  <2> QED
    BY <1>1, <2>1, Zenon DEF KernelInv, Counted
<1>14. ToldNamed'
  BY <1>1 DEF KernelInv, ToldNamed
<1> QED
  BY <1>6, <1>11, <1>12, <1>13, <1>14 DEF KernelInv

(* LMK_PROCPURGE forgets every name.                                       *)
LEMMA StepPurge ==
  ASSUME KernelInv, Kernel!cmd_procpurge
  PROVE  KernelInv'
<1>1. /\ UNCHANGED <<kpoll_open, cmdline, handler, untold>>
      /\ pidhash' = [h \in DOMAIN pidhash |-> <<>>] /\ registered' = [p \in Pid |-> NULL]
      /\ reports' = [i \in DOMAIN reports |-> [reports[i] EXCEPT !.known = "not"]]
  BY DEF Kernel!cmd_procpurge, Kernel!setup
<1>2. Table'
  <2>1. pidhash' \in [Hash -> Seq(Entry)] /\ \A h \in Hash : pidhash'[h] = <<>>
    <3>1. DOMAIN pidhash = Hash
      BY DEF KernelInv, Table
    <3>2. <<>> \in Seq(Entry)
      OBVIOUS
    <3> QED
      BY <1>1, <3>1, <3>2, Zenon
  <2>2. ASSUME NEW h \in Hash PROVE Chain(<<>>, h, registered')
    BY <1>1 DEF Chain
  <2> QED
    BY <2>1, <2>2, Zenon DEF Table, Hash, Entry, Stored
<1>3. /\ reports \in Seq(Report) /\ Len(reports) \in Nat /\ DOMAIN reports = 1..Len(reports)
      /\ \A i \in 1..Len(reports) : reports[i] \in Report
  BY DEF KernelInv, KernelTypes
<1>4. \A r \in Report : /\ [r EXCEPT !.known = "not"] \in Report
                        /\ [r EXCEPT !.known = "not"].pid = r.pid
                        /\ [r EXCEPT !.known = "not"].of = r.of
                        /\ [r EXCEPT !.known = "not"].known = "not"
  BY DEF Report, Known
<1>5. \A i \in 1..Len(reports) : /\ reports'[i] \in Report /\ reports'[i].pid = reports[i].pid
                                 /\ reports'[i].of = reports[i].of /\ reports'[i].known = "not"
  BY <1>1, <1>3, <1>4, Zenon
<1>6. reports' \in Seq(Report) /\ Len(reports') = Len(reports) /\ DOMAIN reports' = DOMAIN reports
  BY <1>1, <1>3, <1>5, SameDomain
<1>7. KernelTypes'
  <2>1. registered' \in [Pid -> {NULL} \cup Stored]
    BY <1>1
  <2> QED
    BY <1>1, <1>6, <2>1, Zenon DEF KernelInv, KernelTypes, Handlers, Report, Known, Told, Stored
<1>8. NamesKept'
  BY <1>5, <1>6 DEF NamesKept
<1>9. Counted'
  <2>1. \A q \in Pid : Deaths(q, reports') = Deaths(q, reports)
    BY <1>3, <1>5, <1>6, DeathsSame
  <2> QED
    BY <1>1, <2>1, SMTT(20) DEF KernelInv, Counted
<1>10. ToldNamed'
  BY <1>1 DEF KernelInv, ToldNamed
<1> QED
  BY <1>2, <1>7, <1>8, <1>9, <1>10 DEF KernelInv

(* LMK_PROCREMOVE begins, or the kernel's event is taken: the reports are  *)
(* read first if the file is open.                                         *)
LEMMA StepEnter ==
  ASSUME KernelInv, Kernel!kernel_event_handler \/ \E p \in Pid : Kernel!cmd_procremove(p)
  PROVE  KernelInv'
<1> USE DEF Kernel!In, Kernel!Idle, Kernel!RemoveFirst
<1>1. UNCHANGED <<kpoll_open, pidhash, cmdline, reports, registered, untold>>
  BY DEF Kernel!kernel_event_handler, Kernel!cmd_procremove, Kernel!setup
<1>2. /\ handler' \in Handlers /\ handler'.told = NULL
      /\ handler'.op \in {"poll", "poll_remove"} => kpoll_open
      /\ handler'.op \in {"poll_remove", "remove"} => handler'.pid \in Pid
      /\ handler'.op = "remove" => ~kpoll_open
  <2>1. CASE Kernel!kernel_event_handler
    BY <2>1 DEF Kernel!kernel_event_handler, Handlers
  <2>2. CASE \E p \in Pid : Kernel!cmd_procremove(p)
    BY <2>2 DEF Kernel!cmd_procremove, Handlers
  <2> QED
    BY <2>1, <2>2
<1>3. KernelTypes'
  BY <1>1, <1>2, Zenon DEF KernelInv, KernelTypes, Handlers, Report, Known, Told, Stored
<1>4. NamesKept'
  BY <1>1, <1>2, Zenon DEF KernelInv, NamesKept
<1>5. ToldNamed'
  BY <1>2 DEF ToldNamed
<1> QED
  BY <1>1, <1>3, <1>4, <1>5, PartsKept, SMTT(20) DEF KernelInv

(* One turn of poll_kernel's loop: the oldest report is taken, or the loop *)
(* ends.                                                                   *)
LEMMA StepPoll ==
  ASSUME KernelInv, Kernel!poll_kernel
  PROVE  KernelInv'
<1> DEFINE r == Head(reports)
<1>1. /\ UNCHANGED <<kpoll_open, pidhash, cmdline, registered>>
      /\ handler.op \in {"poll", "poll_remove"}
  BY DEF Kernel!poll_kernel, Kernel!setup
<1>2. kpoll_open /\ handler \in Handlers /\ reports \in Seq(Report) /\ untold \in [Pid -> Int]
  BY <1>1 DEF KernelInv, KernelTypes
<1>3. ASSUME reports # <<>>
      PROVE  /\ Len(reports) \in Nat /\ r = reports[1] /\ r \in Report
             /\ 1 \in 1..Len(reports) /\ Tail(reports) \in Seq(Report)
             /\ Len(Tail(reports)) = Len(reports) - 1
             /\ \A i \in 1..(Len(reports) - 1) : Tail(reports)[i] = reports[i + 1]
  BY <1>2, <1>3, SMTT(20)
<1>4. ASSUME reports # <<>>, reports' = Tail(reports), handler'.op = handler.op, handler' \in Handlers,
             handler'.pid = handler.pid, untold' \in [Pid -> Int]
      PROVE  KernelTypes' /\ NamesKept'
  <2>1. KernelTypes'
    <3>1. Len(reports') <= MaxReports /\ reports' \in Seq(Report)
      BY <1>3, <1>4, ReportsAssumption DEF KernelInv, KernelTypes
    <3> QED
      BY <1>1, <1>4, <3>1, Zenon DEF KernelInv, KernelTypes, Handlers, Report, Known, Told, Stored
  <2>2. ASSUME NEW i \in 1..Len(reports'), reports'[i].known # "not"
        PROVE  registered[reports'[i].pid] # NULL
    <3>1. i + 1 \in 1..Len(reports) /\ reports'[i] = reports[i + 1]
      BY <1>3, <1>4
    <3> QED
      BY <1>2, <2>2, <3>1 DEF KernelInv, NamesKept
  <2> QED
    BY <1>1, <1>4, <2>1, <2>2 DEF NamesKept
<1>5. CASE /\ reports # <<>> /\ Kernel!Logged(r) /\ reports' = Tail(reports)
           /\ untold' = [untold EXCEPT ![r.pid] = @ - 1]
           /\ handler' = [handler EXCEPT !.told =
                [named |-> Kernel!stats_get_task_name(r.pid) # NULL, known |-> r.known]]
  <2> DEFINE t == [named |-> Kernel!stats_get_task_name(r.pid) # NULL, known |-> r.known]
  <2>1. r.pid \in Pid /\ r.known \in Known /\ r.of = "leader"
    BY <1>3, <1>5 DEF Report, Kernel!Logged
  <2>2. t \in Told /\ t.known = r.known /\ t.named = (Kernel!stats_get_task_name(r.pid) # NULL)
    BY <2>1, Zenon DEF Told
  <2>3. handler' = [handler EXCEPT !.told = t]
    BY <1>5
  <2> HIDE DEF t
  <2>4. handler' \in Handlers /\ handler'.op = handler.op /\ handler'.pid = handler.pid /\ handler'.told = t
    BY <1>2, <2>2, <2>3 DEF Handlers
  <2>5. untold' \in [Pid -> Int] /\ \A q \in Pid : untold'[q] = untold[q] - (IF q = r.pid THEN 1 ELSE 0)
    BY <1>2, <1>5, <2>1
  <2>6. ToldNamed'
    <3> SUFFICES ASSUME r.known # "not" PROVE t.named
      BY <2>2, <2>4 DEF ToldNamed
    <3>1. registered[r.pid] # NULL
      BY <1>2, <1>3, <1>5, Zenon DEF KernelInv, NamesKept
    <3> QED
      BY <2>1, <2>2, <3>1, LookUp, Zenon DEF KernelInv
  <2>7. Counted'
    <3> SUFFICES ASSUME NEW q \in Pid PROVE untold'[q] = Cardinality(Deaths(q, Tail(reports)))
      BY <1>5 DEF Counted
    <3>1. Cardinality(Deaths(q, Tail(reports)))
            = Cardinality(Deaths(q, reports)) - (IF reports[1].pid = q /\ reports[1].of = "leader" THEN 1 ELSE 0)
      BY <1>2, <1>5, DeathsTail
    <3>2. untold[q] = Cardinality(Deaths(q, reports)) /\ untold[q] \in Int
      BY <1>2 DEF KernelInv, Counted
    <3> QED
      BY <1>3, <1>5, <2>1, <2>5, <3>1, <3>2
  <2>8. KernelTypes' /\ NamesKept'
    BY <1>4, <1>5, <2>4, <2>5
  <2> QED
    BY <1>1, <2>6, <2>7, <2>8, PartsKept DEF KernelInv
<1>6. CASE /\ reports # <<>> /\ ~Kernel!Logged(r) /\ reports' = Tail(reports)
           /\ UNCHANGED <<untold, handler>>
  <2>1. KernelTypes' /\ NamesKept'
    BY <1>2, <1>4, <1>6
  <2>2. Counted'
    <3> SUFFICES ASSUME NEW q \in Pid PROVE untold[q] = Cardinality(Deaths(q, Tail(reports)))
      BY <1>6 DEF Counted
    <3>1. Cardinality(Deaths(q, Tail(reports)))
            = Cardinality(Deaths(q, reports)) - (IF reports[1].pid = q /\ reports[1].of = "leader" THEN 1 ELSE 0)
      BY <1>2, <1>6, DeathsTail
    <3>2. untold[q] = Cardinality(Deaths(q, reports)) /\ untold[q] \in Int
      BY <1>2 DEF KernelInv, Counted
    <3>3. reports[1].of # "leader"
      BY <1>3, <1>6 DEF Kernel!Logged
    <3> QED
      BY <3>1, <3>2, <3>3
  <2> QED
    BY <1>1, <1>6, <2>1, <2>2, PartsKept DEF KernelInv
<1>7. CASE /\ reports = <<>> /\ UNCHANGED <<reports, untold>>
           /\ handler' = IF handler.op = "poll" THEN Kernel!Idle ELSE Kernel!In("remove", handler.pid)
  <2>1. /\ handler' \in Handlers /\ handler'.told = NULL /\ handler'.op \in {"idle", "remove"}
        /\ handler'.op = "remove" => handler'.pid \in Pid
    BY <1>1, <1>7 DEF KernelInv, KernelTypes, Handlers, Kernel!Idle, Kernel!In
  <2>2. KernelTypes'
    BY <1>1, <1>7, <2>1, Zenon DEF KernelInv, KernelTypes, Handlers, Report, Known, Told, Stored
  <2>3. NamesKept' /\ ToldNamed'
    BY <1>7, <2>1 DEF NamesKept, ToldNamed
  <2> QED
    BY <1>1, <1>7, <2>2, <2>3, PartsKept, SMTT(20) DEF KernelInv
<1> QED
  BY <1>5, <1>6, <1>7 DEF Kernel!poll_kernel

(* The end of cmd_procremove.                                              *)
LEMMA StepRemove ==
  ASSUME KernelInv, Kernel!remove
  PROVE  KernelInv'
<1> DEFINE p == handler.pid
<1>1. /\ UNCHANGED <<kpoll_open, cmdline, reports, untold>> /\ handler.op = "remove"
      /\ pidhash' = [pidhash EXCEPT ![Kernel!pid_hashfn(p)] = Kernel!Without(p)]
      /\ registered' = [registered EXCEPT ![p] = NULL] /\ handler' = Kernel!Idle
  BY DEF Kernel!remove, Kernel!setup, Kernel!stats_remove_taskname
<1>2. KernelTypes /\ Table /\ p \in Pid /\ registered \in [Pid -> {NULL} \cup Stored]
  BY <1>1 DEF KernelInv, KernelTypes
<1>3. p = handler.pid
  OBVIOUS
<1> HIDE DEF p
<1>4. /\ Chain(Kernel!Without(p), Kernel!pid_hashfn(p), [registered EXCEPT ![p] = NULL])
      /\ registered' \in [Pid -> {NULL} \cup Stored]
  BY <1>1, <1>2, Removed, Zenon
<1>5. Table'
  BY <1>1, <1>2, <1>4, TableWith, Zenon
<1>6. handler' \in Handlers /\ handler'.op = "idle" /\ handler'.told = NULL
  BY <1>1 DEF Kernel!Idle, Kernel!In, Handlers
<1>7. KernelTypes'
  BY <1>1, <1>2, <1>4, <1>6, Zenon DEF KernelTypes, Handlers, Report, Known, Told, Stored
<1>8. NamesKept'
  <2> SUFFICES ASSUME kpoll_open, NEW i \in 1..Len(reports), reports[i].known # "not"
               PROVE  registered'[reports[i].pid] # NULL
    BY <1>1, <1>6, SMTT(20) DEF NamesKept
  <2>1. registered[reports[i].pid] # NULL /\ reports[i].pid # p
    BY <1>1, <1>3 DEF KernelInv, NamesKept
  <2>2. reports[i].pid \in Pid
    <3>1. reports[i] \in Report
      BY <1>2, SMTT(20) DEF KernelTypes
    <3> QED
      BY <3>1 DEF Report
  <2> QED
    BY <1>1, <1>2, <2>1, <2>2, SMTT(20)
<1>9. Counted' /\ ToldNamed'
  BY <1>1, <1>6 DEF KernelInv, Counted, Deaths, ToldNamed
<1> QED
  BY <1>5, <1>7, <1>8, <1>9 DEF KernelInv

(* A step of either kind keeps the invariant.                              *)
LEMMA NextKernel == KernelInv /\ [Kernel!Next]_kvars => KernelInv'
<1> SUFFICES ASSUME KernelInv, [Kernel!Next]_kvars PROVE KernelInv'
  OBVIOUS
<1>1. CASE UNCHANGED kvars
  <2>1. UNCHANGED <<kpoll_open, pidhash, cmdline, reports, handler, registered, untold>>
    BY <1>1 DEF kvars
  <2>2. KernelTypes'
    BY <2>1, Zenon DEF KernelInv, KernelTypes, Handlers, Report, Known, Told, Stored
  <2>3. Table'
    BY <2>1, PartsKept DEF KernelInv
  <2>4. NamesKept' /\ Counted' /\ ToldNamed'
    BY <2>1, Zenon DEF KernelInv, NamesKept, Counted, ToldNamed, Deaths
  <2> QED
    BY <2>2, <2>3, <2>4 DEF KernelInv
<1>2. ASSUME NEW p \in Pid,
             \/ Kernel!start(p) \/ Kernel!reap(p) \/ Kernel!lowmem_kill(p)
             \/ Kernel!apply_proc_prio(p) \/ Kernel!cmd_procremove(p)
      PROVE  KernelInv'
  BY <1>2, StepProcesses, StepKill, StepStore, StepEnter, Zenon
<1>3. CASE \/ Kernel!cmd_procpurge \/ Kernel!kernel_event_handler
           \/ Kernel!poll_kernel \/ Kernel!remove
  BY <1>3, StepPurge, StepEnter, StepPoll, StepRemove, Zenon
<1> QED
  BY <1>1, <1>2, <1>3 DEF Kernel!Next

(* What the run checks follows from the invariant.                         *)
LEMMA KernelFollows == KernelInv => TableIsMap /\ ReportsNamed
<1> SUFFICES ASSUME KernelInv PROVE TableIsMap /\ ReportsNamed
  OBVIOUS
<1>1. pidhash \in [Hash -> Seq(Entry)] /\ \A h \in Hash : Chain(pidhash[h], h, registered)
  BY DEF KernelInv, Table
<1>2. ASSUME NEW h \in DOMAIN pidhash
      PROVE  /\ DOMAIN pidhash[h] = 1..Len(pidhash[h])
             /\ \A i \in 1..Len(pidhash[h]) : pidhash[h][i].taskname \in Stored
             /\ \A i, j \in 1..Len(pidhash[h]) : /\ Kernel!pid_hashfn(pidhash[h][i].pid) = h
                                                 /\ i # j => pidhash[h][i].pid # pidhash[h][j].pid
  <2> DEFINE c == pidhash[h]
  <2>1. c \in Seq(Entry) /\ Chain(c, h, registered)
    BY <1>1
  <2> HIDE DEF c
  <2>2. /\ DOMAIN c = 1..Len(c) /\ \A i \in 1..Len(c) : c[i].taskname \in Stored
        /\ \A i, j \in 1..Len(c) : Kernel!pid_hashfn(c[i].pid) = h /\ (i # j => c[i].pid # c[j].pid)
    BY <2>1, Entries DEF Chain
  <2> QED
    BY <2>2, Zenon DEF c
<1>3. \A n \in Stored : Len(n) < PathMax /\ \A j \in 1..Len(n) : n[j] # " "
  BY Zenon DEF Stored
<1>4. \A p \in Pid : Kernel!stats_get_task_name(p) = registered[p]
  BY LookUp DEF KernelInv
<1>5. Kernel!TypeOK
  <2>1. /\ handler.op \in {"idle", "poll", "poll_remove", "remove"}
        /\ untold \in [Pid -> Int] /\ Len(reports) <= MaxReports
    BY DEF KernelInv, KernelTypes, Handlers
  <2> QED
    BY <1>2, <1>3, <2>1, Zenon DEF Kernel!TypeOK
<1>6. TableIsMap
  BY <1>2, <1>4, <1>5 DEF TableIsMap, Kernel!TableIsMap
<1>7. ReportsNamed
  <2>1. Counted /\ ToldNamed
    BY DEF KernelInv
  <2>2. ASSUME NEW p \in Pid
        PROVE  untold[p] = Kernel!Cardinality({i \in DOMAIN reports :
                                                 reports[i].pid = p /\ reports[i].of = "leader"})
    <3>1. Kernel!Cardinality(Deaths(p, reports)) = Cardinality(Deaths(p, reports))
      BY Zenon DEF Kernel!Cardinality, Cardinality
    <3>2. untold[p] = Kernel!Cardinality(Deaths(p, reports))
      BY <2>1, <3>1 DEF Counted
    <3> QED
      BY <3>2, Zenon DEF Deaths
  <2>3. handler.told # NULL /\ handler.told.known # "not" => handler.told.named
    BY <2>1 DEF ToldNamed
  <2> QED
    BY <2>2, <2>3, Zenon DEF ReportsNamed, Kernel!ReportsNamed
<1> QED
  BY <1>6, <1>7

(* The invariant holds in every state.                                     *)
LEMMA KernelAlways == ReportsSpec => []KernelInv
<1>1. ReportsInit => KernelInv
  BY InitKernel DEF ReportsInit
<1>2. KernelInv /\ [ReportsNext]_<<use_inkernel_interface, vars, kvars>> => KernelInv'
  <2> SUFFICES ASSUME KernelInv, [ReportsNext]_<<use_inkernel_interface, vars, kvars>>
               PROVE  KernelInv'
    OBVIOUS
  <2>1. [Kernel!Next]_kvars
    BY DEF ReportsNext
  <2> QED
    BY <2>1, NextKernel
<1> QED
  BY <1>1, <1>2, PTL DEF ReportsSpec

(* The table of names is a map from pids to the names last stored, for any *)
(* pids, names, buffer and hash size, after any registrations, renames,    *)
(* removals and purges.                                                    *)
THEOREM TableCorrect == ReportsSpec => []TableIsMap
  BY KernelAlways, KernelFollows, PTL

(* Each reported death of a leader is passed on exactly once, and with a   *)
(* name if lmkd knew the process when it was killed, unless a purge came   *)
(* between.                                                                *)
THEOREM ReportsCorrect == ReportsSpec => []ReportsNamed
  BY KernelAlways, KernelFollows, PTL
=============================================================================
