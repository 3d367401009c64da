--------------------------- MODULE KillLoopProofs ---------------------------
(***************************************************************************)
(* Proofs about KillLoop: who owns the pidfds, why a wait for a victim     *)
(* always ends, and why polling goes on after it, for any number of        *)
(* processes, descriptors, levels and reaper threads.                      *)
(***************************************************************************)
EXTENDS KillLoop, FiniteSetTheorems, TLAPS

Event == {Poll, KillDone, KillFail, Ctrl} \cup {Psi(l) : l \in Level}

(* The batch starts with the poll that mainloop has put there, if any.     *)
BatchOK ==
  /\ batch \in Seq(Event)
  /\ \A k \in DOMAIN batch : batch[k] = Poll => k = 1 /\ poll_handler # NULL

(* A call has a registered victim from the moment it has chosen one.       *)
CallOK ==
  call # NULL =>
    /\ batch # <<>>
    /\ call.step # "search" => call.victim \in Proc /\ pidfd[call.victim] # -1

(* An open pidfd is the one being waited for or that of the process it is  *)
(* of; the records' pidfds are open, but for that of a victim whose kill   *)
(* has just been issued: it has become the one waited for, or it has been  *)
(* closed.                                                                 *)
Killed(p) == At("out") /\ call.victim = p

FilesOK ==
  /\ \A f \in Fd : files[f] # NULL => f = last_kill \/ pidfd[files[f]] = f
  /\ last_kill # -1 => files[last_kill] # NULL
  /\ \A p \in Proc : pidfd[p] # -1 /\ ~Killed(p) => files[pidfd[p]] = p /\ pidfd[p] # last_kill
  /\ \A v \in Proc : Killed(v) =>
       /\ \A p \in Proc : p # v => pidfd[p] # pidfd[v]
       /\ \/ last_kill = pidfd[v] /\ files[pidfd[v]] = v
          \/ last_kill = -1 /\ files[pidfd[v]] = NULL

(* The wait for a victim has something to wait for, at every moment of a   *)
(* call as well, and polling is paused between calls.                      *)
WaitOK ==
  last_kill # -1 =>
    /\ \/ state[files[last_kill]] # "running" \/ pending[files[last_kill]] > 0
       \/ reports # <<>>
    /\ call = NULL => poll_handler = NULL /\ paused_handler # NULL

IInv ==
  /\ TypeOK /\ state \in [Proc -> {"running", "dying", "dead"}]
  /\ BatchOK /\ CallOK /\ FilesOK /\ WaitOK

-----------------------------------------------------------------------------
(* Descriptors are not negative.                                           *)
LEMMA FdNat == -1 \notin Fd /\ \A f \in Fd : f >= 0 /\ ~(f < 0)
  BY FdAssumption

(* What a call is made of.                                                 *)
LEMMA CallOf ==
  ASSUME NEW c \in Calls
  PROVE  /\ c # NULL /\ c.level \in Level /\ c.step \in {"search", "kill", "out"}
         /\ c.victim \in Proc \cup {NULL}
  BY CallAssumption DEF Calls

(* Reaper::async_kill leaves room for no process to have more requests     *)
(* than there are threads.                                                 *)
LEMMA RoomForOne ==
  ASSUME pending \in [Proc -> 0..ThreadCnt], PoolHasRoom, NEW p \in Proc
  PROVE  pending[p] + 1 \in 0..ThreadCnt
<1> DEFINE All == Proc \X (1..ThreadCnt)
           R == {r \in All : r[2] <= pending[r[1]]}
           Mine == {p} \X (1..ThreadCnt)
<1>1. SUFFICES ASSUME pending[p] = ThreadCnt PROVE FALSE
  BY BoundAssumption
<1>2. Mine \subseteq R
  BY <1>1
<1>3. IsFiniteSet(1..ThreadCnt) /\ Cardinality(1..ThreadCnt) = ThreadCnt
  BY FS_Interval, BoundAssumption
<1>4. IsFiniteSet(All)
  BY <1>3, FS_Product, ProcAssumption, Zenon
<1>5. IsFiniteSet(R) /\ R \subseteq All
  BY <1>4, FS_Subset
<1>6. IsFiniteSet({p}) /\ Cardinality({p}) = 1
  BY FS_Singleton, Zenon
<1>7. Cardinality(Mine) = ThreadCnt
  BY <1>3, <1>6, FS_Product, BoundAssumption, SMTT(20)
<1>8. Cardinality(Mine) <= Cardinality(R)
  BY <1>2, <1>5, FS_Subset
<1>9. Cardinality(R) < ThreadCnt
  BY DEF PoolHasRoom
<1>10. Cardinality(R) \in Nat
  BY <1>5, FS_CardinalityType
<1> QED
  BY <1>7, <1>8, <1>9, <1>10, BoundAssumption

(* stop_wait_for_proc_kill closes the pidfd waited for, if any.            *)
LEMMA StopWait ==
  ASSUME TypeOK, Install(stop_wait_for_proc_kill(W))
  PROVE  /\ last_kill' = -1 /\ files' \in [Fd -> Proc \cup {NULL}]
         /\ \A f \in Fd : files'[f] = IF f = last_kill THEN NULL ELSE files[f]
<1>1. files \in [Fd -> Proc \cup {NULL}] /\ last_kill \in Fd \cup {-1}
  BY DEF TypeOK
<1>2. CASE last_kill = -1
  <2>1. stop_wait_for_proc_kill(W) = W
    BY <1>2 DEF stop_wait_for_proc_kill, W
  <2> QED
    BY <1>1, <1>2, <2>1, FdNat DEF Install, W
<1>3. CASE last_kill \in Fd
  <2>1. stop_wait_for_proc_kill(W) = [files |-> [files EXCEPT ![last_kill] = NULL], last |-> -1]
    BY <1>3, FdNat, Zenon DEF stop_wait_for_proc_kill, W, Close
  <2> QED
    BY <1>1, <1>3, <2>1 DEF Install
<1> QED
  BY <1>1, <1>2, <1>3

(* pid_remove closes the record's pidfd unless it is the one waited for.   *)
LEMMA PidRemove ==
  ASSUME TypeOK, NEW p \in Proc, pidfd[p] # -1, pid_remove(p)
  PROVE  /\ pidfd' = [pidfd EXCEPT ![p] = -1] /\ pidfd[p] \in Fd /\ last_kill' = last_kill
         /\ files' \in [Fd -> Proc \cup {NULL}]
         /\ \A f \in Fd : files'[f] = IF f = pidfd[p] /\ f # last_kill THEN NULL ELSE files[f]
<1>1. /\ files \in [Fd -> Proc \cup {NULL}] /\ pidfd \in [Proc -> Fd \cup {-1}]
      /\ pidfd[p] \in Fd
  BY DEF TypeOK
<1>2. CASE pidfd[p] # last_kill
  <2>1. Install([files |-> [files EXCEPT ![pidfd[p]] = NULL], last |-> last_kill])
    BY <1>2 DEF pid_remove, Close, W
  <2> QED
    BY <1>1, <1>2, <2>1 DEF Install, pid_remove
<1>3. CASE pidfd[p] = last_kill
  BY <1>1, <1>3 DEF Install, W, pid_remove
<1> QED
  BY <1>2, <1>3

(* The polling state and the batch after a handler.                        *)
PollTypes == {poll_handler, paused_handler} \subseteq Level \cup {NULL}

LEMMA TailBatch ==
  ASSUME BatchOK, batch # <<>>, batch' = Tail(batch)
  PROVE  BatchOK'
<1>1. /\ batch' \in Seq(Event) /\ DOMAIN batch' = 1..(Len(batch) - 1)
      /\ \A k \in 1..(Len(batch) - 1) : batch'[k] = batch[k + 1] /\ k + 1 \in DOMAIN batch /\ k + 1 # 1
  BY DEF BatchOK
<1> QED
  BY <1>1 DEF BatchOK

LEMMA HandlerEnd ==
  ASSUME PollTypes, BatchOK, batch # <<>>, NEW h \in Level \cup {NULL},
         NEW u \in {"START", "PAUSE", "RESUME", "CRIT_UPGRADE", "DO_NOT_CHANGE"},
         h \in Level \/ u \in {"RESUME", "DO_NOT_CHANGE"},
         call_handler_end(h, u)
  PROVE  /\ PollTypes' /\ BatchOK'
         /\ u = "PAUSE" => poll_handler' = NULL /\ paused_handler' # NULL
         /\ u = "RESUME" => poll_handler' = paused_handler
         /\ u = "DO_NOT_CHANGE" /\ poll_handler = NULL =>
              UNCHANGED <<poll_handler, paused_handler>>
<1>1. BatchOK'
  BY TailBatch DEF call_handler_end
<1>2. CASE u = "START"
  BY <1>1, <1>2 DEF call_handler_end, PollTypes
<1>3. CASE u = "PAUSE"
  BY <1>1, <1>3, ProcAssumption DEF call_handler_end, PollTypes
<1>4. CASE u = "RESUME"
  BY <1>1, <1>4 DEF call_handler_end, PollTypes
<1>5. CASE u = "CRIT_UPGRADE"
  BY <1>1, <1>5, LevelAssumption DEF call_handler_end, PollTypes
<1>6. CASE u = "DO_NOT_CHANGE"
  BY <1>1, <1>6 DEF call_handler_end, PollTypes
<1> QED
  BY <1>2, <1>3, <1>4, <1>5, <1>6

LEMMA NoKill ==
  ASSUME PollTypes, BatchOK, batch # <<>>, NEW c \in Calls, NEW waiting, no_kill(c, waiting)
  PROVE  /\ PollTypes' /\ BatchOK'
         /\ waiting => poll_handler' = NULL /\ paused_handler' # NULL
<1>1. c.level \in Level
  BY CallOf
<1>2. CASE waiting
  <2>1. call_handler_end(c.level, "PAUSE")
    BY <1>2 DEF no_kill
  <2> QED
    BY <1>1, <2>1, HandlerEnd
<1>3. CASE ~waiting
  <2>1. PICK u \in {"START", "CRIT_UPGRADE", "DO_NOT_CHANGE"} : call_handler_end(c.level, u)
    BY <1>3 DEF no_kill
  <2> QED
    BY <1>1, <1>3, <2>1, HandlerEnd
<1> QED
  BY <1>2, <1>3

-----------------------------------------------------------------------------
(* How the files' invariant survives the two ways to close a pidfd.        *)
LEMMA StopFiles ==
  ASSUME IInv, Install(stop_wait_for_proc_kill(W)), pidfd' = pidfd, ~At("out"), ~At("out")'
  PROVE  /\ last_kill' = -1 /\ files' \in [Fd -> Proc \cup {NULL}] /\ FilesOK'
<1>1. TypeOK
  BY DEF IInv
<1>2. /\ last_kill' = -1 /\ files' \in [Fd -> Proc \cup {NULL}]
      /\ \A f \in Fd : files'[f] = IF f = last_kill THEN NULL ELSE files[f]
  BY <1>1, StopWait
<1>3. \A p \in Proc : ~Killed(p) /\ ~Killed(p)'
  BY DEF Killed, At
<1>4. /\ files \in [Fd -> Proc \cup {NULL}] /\ pidfd \in [Proc -> Fd \cup {-1}] /\ -1 \notin Fd
  BY <1>1, FdNat DEF TypeOK
<1> QED
  BY <1>2, <1>3, <1>4, ProcAssumption DEF IInv, FilesOK

LEMMA RemoveFiles ==
  ASSUME IInv, NEW p \in Proc, pidfd[p] # -1, pid_remove(p),
         At("out") => call.victim = p, ~At("out")'
  PROVE  /\ last_kill' = last_kill /\ files' \in [Fd -> Proc \cup {NULL}]
         /\ pidfd' \in [Proc -> Fd \cup {-1}] /\ FilesOK'
         /\ last_kill # -1 => files'[last_kill] = files[last_kill]
<1>1. TypeOK
  BY DEF IInv
<1>2. /\ pidfd' = [pidfd EXCEPT ![p] = -1] /\ pidfd[p] \in Fd /\ last_kill' = last_kill
      /\ files' \in [Fd -> Proc \cup {NULL}]
      /\ \A f \in Fd : files'[f] = IF f = pidfd[p] /\ f # last_kill THEN NULL ELSE files[f]
  BY <1>1, PidRemove
<1>3. \A q \in Proc : ~Killed(q)' /\ (Killed(q) => q = p)
  BY DEF Killed
<1>4. /\ files \in [Fd -> Proc \cup {NULL}] /\ pidfd \in [Proc -> Fd \cup {-1}] /\ -1 \notin Fd
      /\ last_kill \in Fd \cup {-1} /\ NULL \notin Proc
  BY <1>1, FdNat, ProcAssumption DEF TypeOK
<1>5. \A q \in Proc : q # p /\ pidfd[q] # -1 =>
        files[pidfd[q]] = q /\ pidfd[q] # last_kill /\ pidfd[q] # pidfd[p]
  <2>1. CASE Killed(p)
    BY <1>3, <2>1 DEF IInv, FilesOK
  <2>2. CASE ~Killed(p)
    BY <1>3, <1>4, <2>2 DEF IInv, FilesOK
  <2> QED
    BY <2>1, <2>2
<1>6. \A f \in Fd : files'[f] # NULL => f = last_kill \/ pidfd'[files'[f]] = f
  <2> SUFFICES ASSUME NEW f \in Fd, files'[f] # NULL, f # last_kill PROVE pidfd'[files'[f]] = f
    OBVIOUS
  <2>1. files'[f] = files[f] /\ f # pidfd[p] /\ pidfd[files[f]] = f
    BY <1>2 DEF IInv, FilesOK
  <2>2. files[f] \in Proc /\ files[f] # p
    BY <1>2, <1>4, <2>1
  <2> QED
    BY <1>2, <1>4, <2>1, <2>2
<1>7. last_kill # -1 => files'[last_kill] = files[last_kill]
  BY <1>2, <1>4
<1>8. \A q \in Proc : pidfd'[q] # -1 => files'[pidfd'[q]] = q /\ pidfd'[q] # last_kill
  BY <1>2, <1>4, <1>5
<1> QED
  BY <1>2, <1>3, <1>4, <1>6, <1>7, <1>8 DEF IInv, FilesOK

(* The pool ends a request, or a process exits.                            *)
LEMMA PoolStep ==
  ASSUME IInv, NEW p \in Proc, request_ends(p) \/ process_exits(p)
  PROVE  IInv'
<1>1. UNCHANGED <<wait_vars, poll_vars, call_vars>>
  BY DEF request_ends, process_exits
<1>2. /\ pending \in [Proc -> 0..ThreadCnt] /\ reports \in Seq(Proc)
      /\ state \in [Proc -> {"running", "dying", "dead"}]
  BY DEF IInv, TypeOK
<1>3. /\ pending' \in [Proc -> 0..ThreadCnt] /\ reports' \in Seq(Proc)
      /\ state' \in [Proc -> {"running", "dying", "dead"}]
      /\ \A q \in Proc : state[q] # "running" \/ pending[q] > 0 \/ reports # <<>>
           => state'[q] # "running" \/ pending'[q] > 0 \/ reports' # <<>>
  <2>1. CASE Pool!Deliver(p)
    <3>1. /\ pending[p] > 0 /\ pending' = [pending EXCEPT ![p] = pending[p] - 1] /\ reports' = reports
          /\ state' = [state EXCEPT ![p] = IF state[p] = "running" THEN "dying" ELSE state[p]]
      BY <2>1 DEF Pool!Deliver
    <3>2. pending' \in [Proc -> 0..ThreadCnt]
      BY <1>2, <3>1, BoundAssumption
    <3>3. state'[p] # "running" /\ state' \in [Proc -> {"running", "dying", "dead"}]
      BY <1>2, <3>1
    <3>4. \A q \in Proc : q # p => pending'[q] = pending[q] /\ state'[q] = state[q]
      BY <1>2, <3>1
    <3> QED
      BY <1>2, <3>1, <3>2, <3>3, <3>4
  <2>2. CASE Pool!Report(p)
    <3>1. reports' \in Seq(Proc) /\ reports' # <<>>
      BY <1>2, <2>2 DEF Pool!Report
    <3> QED
      BY <1>2, <2>2, <3>1, BoundAssumption DEF Pool!Report
  <2>3. CASE Pool!Exit(p)
    BY <1>2, <2>3 DEF Pool!Exit
  <2> QED
    BY <2>1, <2>2, <2>3 DEF request_ends, process_exits
<1>4. TypeOK' /\ BatchOK' /\ CallOK' /\ FilesOK'
  BY <1>1, <1>3, SMTT(20) DEF IInv, TypeOK, BatchOK, CallOK, FilesOK, Killed, At, wait_vars,
                                poll_vars, call_vars
<1>5. WaitOK'
  <2>1. last_kill # -1 => files[last_kill] \in Proc
    BY FdNat DEF IInv, TypeOK, FilesOK
  <2> QED
    BY <1>1, <1>3, <2>1 DEF IInv, WaitOK, wait_vars, poll_vars, call_vars
<1> QED
  BY <1>3, <1>4, <1>5 DEF IInv

-----------------------------------------------------------------------------
(* The top of mainloop: the poll comes first in a batch, and once.         *)
LEMMA BatchesOK ==
  ASSUME NEW s \in Batches
  PROVE  s \in Seq(Event) /\ \A k \in DOMAIN s : s[k] # Poll
<1>1. PICK S \in SUBSET ({Psi(l) : l \in Level} \cup {Ctrl}) : s \in Orders(Ready \cup S)
  BY Zenon DEF Batches
<1>2. s \in [1..Cardinality(Ready \cup S) -> Ready \cup S]
  BY <1>1, Zenon DEF Orders
<1>3. Ready \cup S \subseteq Event \ {Poll}
  <2>1. \A l \in Level : Psi(l).source # Poll.source
    BY DEF Psi, Poll
  <2>2. KillDone.source # Poll.source /\ KillFail.source # Poll.source /\ Ctrl.source # Poll.source
    BY DEF KillDone, KillFail, Ctrl, Poll
  <2>3. Poll \notin {KillDone, KillFail, Ctrl} \cup {Psi(l) : l \in Level}
    BY <2>1, <2>2
  <2>4. Ready \subseteq {KillDone, KillFail}
    BY DEF Ready
  <2> QED
    BY <1>1, <2>3, <2>4 DEF Event
<1>4. IsFiniteSet(Ready \cup S)
  <2>1. IsFiniteSet(Level)
    <3> DEFINE highest == 3
    <3>1. highest \in Int /\ Level \subseteq 0..highest
      BY LevelAssumption
    <3> HIDE DEF highest
    <3>2. IsFiniteSet(0..highest)
      BY <3>1, FS_Interval
    <3> QED
      BY <3>1, <3>2, FS_Subset, Zenon
  <2>2. [l \in Level |-> Psi(l)] \in Surjection(Level, {Psi(l) : l \in Level})
    BY DEF Surjection
  <2>3. IsFiniteSet({Psi(l) : l \in Level})
    BY <2>1, <2>2, FS_Surjection
  <2>4. IsFiniteSet(Event)
    <3>1. IsFiniteSet({Psi(l) : l \in Level} \cup {Poll})
      BY <2>3, FS_AddElement
    <3>2. IsFiniteSet({Psi(l) : l \in Level} \cup {Poll} \cup {KillDone})
      BY <3>1, FS_AddElement
    <3>3. IsFiniteSet({Psi(l) : l \in Level} \cup {Poll} \cup {KillDone} \cup {KillFail})
      BY <3>2, FS_AddElement
    <3>4. IsFiniteSet({Psi(l) : l \in Level} \cup {Poll} \cup {KillDone} \cup {KillFail} \cup {Ctrl})
      BY <3>3, FS_AddElement
    <3>5. Event = {Psi(l) : l \in Level} \cup {Poll} \cup {KillDone} \cup {KillFail} \cup {Ctrl}
      BY DEF Event
    <3> QED
      BY <3>4, <3>5
  <2> QED
    BY <1>3, <2>4, FS_Subset
<1> DEFINE T == Ready \cup S
           n == Cardinality(T)
<1>5. n \in Nat
  BY <1>4, FS_CardinalityType
<1>6. s \in [1..n -> T] /\ T \subseteq Event /\ Poll \notin T
  BY <1>2, <1>3, Zenon
<1> HIDE DEF T, n
<1>7. s \in Seq(T) /\ DOMAIN s = 1..n
  BY <1>5, <1>6
<1> QED
  BY <1>6, <1>7

LEMMA MainloopStep ==
  ASSUME IInv, mainloop
  PROVE  IInv'
<1>1. call = NULL /\ batch = <<>> /\ UNCHANGED <<pool_vars, wait_vars, poll_vars, call>>
  BY DEF mainloop
<1>2. Poll \in Event
  BY DEF Event
<1>3. BatchOK'
  <2>1. CASE poll_handler # NULL /\ batch' = <<Poll>>
    BY <1>1, <1>2, <2>1 DEF BatchOK, poll_vars
  <2>2. ASSUME poll_handler # NULL, NEW s \in Batches, batch' = <<Poll>> \o s
        PROVE  BatchOK'
    <3>1. s \in Seq(Event) /\ \A k \in DOMAIN s : s[k] # Poll
      BY BatchesOK
    <3>2. /\ <<Poll>> \o s \in Seq(Event) /\ DOMAIN (<<Poll>> \o s) = 1..(Len(s) + 1)
          /\ \A k \in 2..(Len(s) + 1) : k - 1 \in DOMAIN s /\ (<<Poll>> \o s)[k] = s[k - 1]
      BY <1>2, <3>1
    <3> QED
      BY <1>1, <2>2, <3>1, <3>2 DEF BatchOK, poll_vars
  <2>3. ASSUME NEW s \in Batches, batch' = s
        PROVE  BatchOK'
    BY <2>3, BatchesOK DEF BatchOK
  <2> QED
    BY <2>1, <2>2, <2>3 DEF mainloop
<1>4. TypeOK' /\ CallOK' /\ FilesOK' /\ WaitOK' /\ state' = state
  BY <1>1 DEF IInv, TypeOK, CallOK, FilesOK, WaitOK, Killed, At, pool_vars, wait_vars, poll_vars
<1> QED
  BY <1>3, <1>4 DEF IInv

(* The timeout.                                                            *)
LEMMA TimeoutStep ==
  ASSUME IInv, kill_timeout
  PROVE  IInv' /\ poll_handler' # NULL
<1>1. /\ call = NULL /\ batch = <<>> /\ is_waiting_for_kill
      /\ Install(stop_wait_for_proc_kill(W)) /\ UNCHANGED <<pool_vars, pidfd, call_vars>>
  BY DEF kill_timeout
<1>2. ~At("out") /\ ~At("out")' /\ pidfd' = pidfd
  BY <1>1 DEF At, call_vars
<1>3. last_kill' = -1 /\ files' \in [Fd -> Proc \cup {NULL}] /\ FilesOK'
  BY <1>1, <1>2, StopFiles
<1>4. paused_handler # NULL
  BY <1>1 DEF is_waiting_for_kill, IInv, WaitOK
<1>5. poll_handler' = paused_handler /\ paused_handler' = NULL
  BY <1>4 DEF kill_timeout
<1>6. TypeOK' /\ state' = state
  BY <1>1, <1>3, <1>5 DEF IInv, TypeOK, pool_vars, call_vars
<1>7. BatchOK' /\ CallOK' /\ WaitOK'
  BY <1>1, <1>3 DEF IInv, BatchOK, CallOK, WaitOK, call_vars
<1> QED
  BY <1>3, <1>4, <1>5, <1>6, <1>7 DEF IInv

-----------------------------------------------------------------------------
(* The handlers.                                                           *)
LEMMA NewCall ==
  ASSUME NEW l \in Level, NEW e \in BOOLEAN
  PROVE  Call(l, e) \in Calls /\ Call(l, e).step = "search" /\ Call(l, e).level = l
  BY DEF Call, Calls

LEMMA PsiStep ==
  ASSUME IInv, call = NULL, batch # <<>>,
         NEW c \in Calls, c.step = "search", mp_event_psi(c)
  PROVE  IInv'
<1>1. PollTypes /\ BatchOK /\ TypeOK
  BY DEF IInv, TypeOK, PollTypes
<1>2. c # NULL /\ c.level \in Level
  BY CallOf
<1>3. CASE /\ is_waiting_for_kill /\ no_kill(c, TRUE)
           /\ UNCHANGED <<pool_vars, wait_vars, call>>
  <2>1. PollTypes' /\ BatchOK' /\ poll_handler' = NULL /\ paused_handler' # NULL
    BY <1>1, <1>3, NoKill, Zenon
  <2>2. TypeOK' /\ state' = state
    BY <1>1, <1>3, <2>1 DEF TypeOK, PollTypes, pool_vars, wait_vars
  <2>3. CallOK' /\ FilesOK' /\ WaitOK'
    BY <1>3, <2>1 DEF IInv, CallOK, FilesOK, WaitOK, Killed, At, pool_vars, wait_vars
  <2> QED
    BY <2>1, <2>2, <2>3 DEF IInv
<1>4. CASE /\ Install(stop_wait_for_proc_kill(W)) /\ UNCHANGED <<pool_vars, pidfd>>
           /\ \/ call_handler_end(c.level, "DO_NOT_CHANGE") /\ UNCHANGED call
              \/ no_kill(c, FALSE) /\ UNCHANGED call
              \/ call' = c /\ UNCHANGED <<poll_vars, batch>>
  <2>1. /\ PollTypes' /\ BatchOK'
        /\ call' = NULL \/ (call' = c /\ batch' = batch)
    <3>1. CASE call_handler_end(c.level, "DO_NOT_CHANGE") /\ UNCHANGED call
      BY <1>1, <1>2, <3>1, HandlerEnd
    <3>2. CASE no_kill(c, FALSE) /\ UNCHANGED call
      BY <1>1, <3>2, NoKill, Zenon
    <3>3. CASE call' = c /\ UNCHANGED <<poll_vars, batch>>
      BY <1>1, <3>3 DEF PollTypes, BatchOK, poll_vars
    <3> QED
      BY <1>4, <3>1, <3>2, <3>3, Zenon
  <2>2. ~At("out") /\ ~At("out")'
    BY <1>2, <2>1 DEF At
  <2>3. last_kill' = -1 /\ files' \in [Fd -> Proc \cup {NULL}] /\ FilesOK'
    BY <1>4, <2>2, StopFiles
  <2>4. TypeOK' /\ state' = state
    BY <1>1, <1>4, <2>1, <2>3 DEF TypeOK, PollTypes, pool_vars
  <2>5. CallOK' /\ WaitOK'
    BY <2>1, <2>3 DEF CallOK, WaitOK
  <2> QED
    BY <2>1, <2>3, <2>4, <2>5 DEF IInv
<1> QED
  BY <1>3, <1>4, Zenon DEF mp_event_psi

(* kill_done_handler and kill_fail_handler end the wait.                   *)
LEMMA ResumeStep ==
  ASSUME IInv, call = NULL, batch # <<>>, kill_done_handler \/ kill_fail_handler
  PROVE  IInv' /\ (last_kill # -1 => poll_handler' # NULL)
<1>1. PollTypes /\ BatchOK /\ TypeOK
  BY DEF IInv, TypeOK, PollTypes
<1>2. /\ Install(stop_wait_for_proc_kill(W)) /\ call_handler_end(NULL, "RESUME")
      /\ UNCHANGED <<pidfd, call>>
  BY DEF kill_done_handler, kill_fail_handler
<1>3. PollTypes' /\ BatchOK' /\ poll_handler' = paused_handler
  BY <1>1, <1>2, HandlerEnd
<1>4. ~At("out") /\ ~At("out")'
  BY <1>2 DEF At
<1>5. last_kill' = -1 /\ files' \in [Fd -> Proc \cup {NULL}] /\ FilesOK'
  BY <1>2, <1>4, StopFiles
<1>6. pending' = pending /\ state' = state /\ reports' \in Seq(Proc)
  <2>1. CASE UNCHANGED pool_vars
    BY <1>1, <2>1 DEF TypeOK, pool_vars
  <2>2. CASE Pool!Read
    BY <1>1, <2>2 DEF Pool!Read, TypeOK
  <2> QED
    BY <2>1, <2>2 DEF kill_done_handler, kill_fail_handler
<1>7. TypeOK'
  BY <1>1, <1>2, <1>3, <1>5, <1>6 DEF TypeOK, PollTypes
<1>8. CallOK' /\ WaitOK'
  BY <1>2, <1>5 DEF CallOK, WaitOK
<1>9. last_kill # -1 => paused_handler # NULL
  BY DEF IInv, WaitOK
<1> QED
  BY <1>3, <1>5, <1>6, <1>7, <1>8, <1>9 DEF IInv

(* A registration takes a free descriptor, a removal closes one that is    *)
(* not waited for.                                                         *)
LEMMA CtrlStep ==
  ASSUME IInv, call = NULL, batch # <<>>, ctrl_data_handler
  PROVE  IInv'
<1>1. PollTypes /\ BatchOK /\ TypeOK
  BY DEF IInv, TypeOK, PollTypes
<1>2. call_handler_end(NULL, "DO_NOT_CHANGE") /\ UNCHANGED <<pool_vars, call>>
  BY DEF ctrl_data_handler
<1>3. /\ PollTypes' /\ BatchOK'
      /\ poll_handler = NULL => UNCHANGED <<poll_handler, paused_handler>>
  BY <1>1, <1>2, HandlerEnd
<1>4. /\ ~At("out") /\ ~At("out")'
      /\ \A p \in Proc : ~Killed(p) /\ ~Killed(p)'
  BY <1>2 DEF At, Killed
<1> DEFINE Kept == /\ pidfd' \in [Proc -> Fd \cup {-1}] /\ files' \in [Fd -> Proc \cup {NULL}]
                   /\ last_kill' = last_kill /\ FilesOK'
                   /\ last_kill # -1 => files'[last_kill] = files[last_kill]
<1>5. Kept
  <2>1. ASSUME NEW p \in Proc, NEW f \in Fd, pidfd[p] < 0, files[f] = NULL,
               pidfd' = [pidfd EXCEPT ![p] = f], files' = [files EXCEPT ![f] = p],
               last_kill' = last_kill
        PROVE  Kept
    <3>1. /\ files \in [Fd -> Proc \cup {NULL}] /\ pidfd \in [Proc -> Fd \cup {-1}] /\ -1 \notin Fd
          /\ last_kill \in Fd \cup {-1} /\ NULL \notin Proc /\ pidfd[p] = -1
      BY <1>1, <2>1, FdNat, ProcAssumption DEF TypeOK
    <3>2. last_kill # f
      BY <2>1, <3>1 DEF IInv, FilesOK
    <3> QED
      BY <1>4, <2>1, <3>1, <3>2 DEF IInv, FilesOK
  <2>2. ASSUME NEW p \in Proc, pidfd[p] >= 0, pid_remove(p)
        PROVE  Kept
    BY <1>4, <2>2, RemoveFiles
  <2>3. CASE UNCHANGED wait_vars
    BY <1>1, <1>4, <2>3 DEF IInv, TypeOK, FilesOK, wait_vars
  <2> QED
    BY <2>1, <2>2, <2>3 DEF ctrl_data_handler
<1>6. TypeOK' /\ state' = state
  BY <1>1, <1>2, <1>3, <1>5 DEF TypeOK, PollTypes, pool_vars
<1>7. CallOK' /\ WaitOK'
  BY <1>2, <1>3, <1>5 DEF IInv, CallOK, WaitOK, pool_vars
<1> QED
  BY <1>3, <1>5, <1>6, <1>7 DEF IInv

-----------------------------------------------------------------------------
(* The search for a victim.                                                *)
LEMMA GoTo ==
  ASSUME call \in Calls, NEW step \in {"search", "kill", "out"}, NEW p \in Proc \cup {NULL},
         NEW freed \in BOOLEAN, Goto(step, p, freed)
  PROVE  call' \in Calls /\ call'.step = step /\ call'.victim = p
<1> DEFINE c == call
<1>1. c \in Calls /\ call' = [c EXCEPT !.step = step, !.victim = p, !.freed = freed]
  BY DEF Goto
<1> HIDE DEF c
<1> QED
  BY <1>1, Zenon DEF Calls

LEMMA NoVictimStep ==
  ASSUME IInv, no_victim
  PROVE  IInv'
<1>1. /\ call # NULL /\ call.step = "search" /\ no_kill(call, is_waiting_for_kill)
      /\ call' = NULL /\ UNCHANGED <<pool_vars, wait_vars>>
  BY DEF no_victim, At
<1>2. PollTypes /\ BatchOK /\ TypeOK /\ call \in Calls /\ batch # <<>>
  BY <1>1 DEF IInv, TypeOK, PollTypes, CallOK
<1>3. /\ PollTypes' /\ BatchOK'
      /\ is_waiting_for_kill => poll_handler' = NULL /\ paused_handler' # NULL
  BY <1>1, <1>2, NoKill
<1>4. last_kill # -1 => is_waiting_for_kill
  BY <1>2, FdNat DEF is_waiting_for_kill, TypeOK
<1>5. TypeOK' /\ state' = state
  BY <1>1, <1>2, <1>3, SMTT(20) DEF TypeOK, PollTypes, pool_vars, wait_vars
<1>6. CallOK' /\ FilesOK' /\ WaitOK'
  BY <1>1, <1>3, <1>4, SMTT(20) DEF IInv, CallOK, FilesOK, WaitOK, Killed, At, pool_vars, wait_vars
<1> QED
  BY <1>3, <1>5, <1>6 DEF IInv

(* A record is removed during a call: the process is gone, or its kill has *)
(* been issued.                                                            *)
LEMMA RemoveStep ==
  ASSUME IInv, call # NULL, NEW p \in Proc, pidfd[p] # -1, pid_remove(p),
         At("out") => call.victim = p, call' \in Calls, call'.step = "search",
         UNCHANGED <<pool_vars, poll_vars, batch>>
  PROVE  IInv'
<1>1. ~At("out")' /\ call' # NULL
  BY CallAssumption DEF At
<1>2. /\ last_kill' = last_kill /\ files' \in [Fd -> Proc \cup {NULL}]
      /\ pidfd' \in [Proc -> Fd \cup {-1}] /\ FilesOK'
      /\ last_kill # -1 => files'[last_kill] = files[last_kill]
  BY <1>1, RemoveFiles
<1>3. TypeOK' /\ state' = state /\ BatchOK'
  BY <1>2 DEF IInv, TypeOK, BatchOK, pool_vars, poll_vars
<1>4. CallOK' /\ WaitOK'
  BY <1>1, <1>2 DEF IInv, CallOK, WaitOK, pool_vars, poll_vars
<1> QED
  BY <1>2, <1>3, <1>4 DEF IInv

LEMMA GoneStep ==
  ASSUME IInv, NEW p \in Proc, victim_is_gone(p)
  PROVE  IInv'
<1>1. /\ call # NULL /\ call.step = "search" /\ pidfd[p] >= 0 /\ pid_remove(p)
      /\ UNCHANGED <<pool_vars, poll_vars, batch, call>>
  BY DEF victim_is_gone, At, call_vars
<1>2. call \in Calls
  BY <1>1 DEF IInv, TypeOK
<1> QED
  BY <1>1, <1>2, RemoveStep DEF At

LEMMA OutStep ==
  ASSUME IInv, kill_one_process_out
  PROVE  IInv'
<1>1. /\ call # NULL /\ call.step = "out" /\ pid_remove(call.victim)
      /\ Goto("search", NULL, call.freed) /\ UNCHANGED <<pool_vars, poll_vars, batch>>
  BY DEF kill_one_process_out, At
<1>2. call \in Calls /\ call.victim \in Proc /\ pidfd[call.victim] # -1
  BY <1>1 DEF IInv, TypeOK, CallOK
<1>3. call' \in Calls /\ call'.step = "search"
  <2>1. call.freed \in BOOLEAN
    BY <1>2 DEF Calls
  <2> QED
    BY <1>1, <1>2, <2>1, GoTo
<1> QED
  BY <1>1, <1>2, <1>3, RemoveStep

LEMMA FoundStep ==
  ASSUME IInv, NEW p \in Proc, victim_found(p)
  PROVE  IInv'
<1>1. /\ call # NULL /\ call.step = "search" /\ pidfd[p] >= 0
      /\ Goto("search", NULL, TRUE) \/ Goto("kill", p, FALSE)
      /\ UNCHANGED <<pool_vars, wait_vars, poll_vars, batch>>
  BY Zenon DEF victim_found, At
<1>2. call \in Calls
  BY <1>1 DEF IInv, TypeOK
<1>3. call' \in Calls /\ (call'.step = "search" \/ (call'.step = "kill" /\ call'.victim = p))
  <2>1. CASE Goto("search", NULL, TRUE)
    BY <1>2, <2>1, GoTo, Zenon
  <2>2. CASE Goto("kill", p, FALSE)
    BY <1>2, <2>2, GoTo, Zenon
  <2> QED
    BY <1>1, <2>1, <2>2, Zenon
<1>4. call' # NULL
  BY <1>3, CallAssumption
<1>5. TypeOK' /\ state' = state /\ BatchOK'
  BY <1>1, <1>3, SMTT(20) DEF IInv, TypeOK, BatchOK, pool_vars, wait_vars, poll_vars
<1>6. CallOK' /\ WaitOK'
  BY <1>1, <1>3, <1>4, SMTT(20) DEF IInv, CallOK, WaitOK, pool_vars, wait_vars, poll_vars
<1>7. \A q \in Proc : ~Killed(q) /\ ~Killed(q)'
  BY <1>1, <1>3 DEF Killed, At
<1>8. FilesOK'
  BY <1>1, <1>7 DEF IInv, FilesOK, wait_vars
<1> QED
  BY <1>5, <1>6, <1>8 DEF IInv

(* The kill: the previous wait, if any, is over, and the victim's pidfd is *)
(* waited for or closed.                                                   *)
Freed == IF last_kill = -1 THEN files ELSE [files EXCEPT ![last_kill] = NULL]

LEMMA StartWait ==
  ASSUME TypeOK, NEW f \in Fd, NEW ok \in BOOLEAN
  PROVE  LET w == start_wait_for_proc_kill(W, f, ok)
         IN  /\ ok => w = [files |-> Freed, last |-> f]
             /\ ~ok => w = [files |-> [Freed EXCEPT ![f] = NULL], last |-> -1]
             /\ stop_wait_for_proc_kill(w) = [files |-> [Freed EXCEPT ![f] = NULL], last |-> -1]
<1>1. last_kill \in Fd \cup {-1}
  BY DEF TypeOK
<1>2. stop_wait_for_proc_kill(W) = [files |-> Freed, last |-> -1]
  <2>1. CASE last_kill = -1
    BY <2>1 DEF stop_wait_for_proc_kill, W, Freed
  <2>2. CASE last_kill \in Fd
    BY <2>2, FdNat, Zenon DEF stop_wait_for_proc_kill, W, Close, Freed
  <2> QED
    BY <1>1, <2>1, <2>2
<1> DEFINE F == Freed
           w0 == [files |-> F, last |-> f]
           w1 == [files |-> [F EXCEPT ![f] = NULL], last |-> -1]
<1> HIDE DEF F
<1>3. [stop_wait_for_proc_kill(W) EXCEPT !.last = f] = w0
  BY <1>2 DEF F
<1>4. [Close(w0, f) EXCEPT !.last = -1] = w1
  <2> DEFINE G == [F EXCEPT ![f] = NULL]
  <2>1. [w0.files EXCEPT ![f] = NULL] = G
    OBVIOUS
  <2> HIDE DEF G
  <2>2. Close(w0, f) = [w0 EXCEPT !.files = G]
    BY <2>1 DEF Close
  <2>3. [w0 EXCEPT !.files = G] = [files |-> G, last |-> f]
    OBVIOUS
  <2>4. [[files |-> G, last |-> f] EXCEPT !.last = -1] = [files |-> G, last |-> -1]
    OBVIOUS
  <2> HIDE DEF w0
  <2> QED
    BY <2>2, <2>3, <2>4, Zenon DEF G
<1>5. stop_wait_for_proc_kill(w0) = w1 /\ stop_wait_for_proc_kill(w1) = w1
  BY <1>4, FdNat DEF stop_wait_for_proc_kill
<1>6. /\ ok => start_wait_for_proc_kill(W, f, ok) = w0
      /\ ~ok => start_wait_for_proc_kill(W, f, ok) = w1
  BY <1>3, <1>4 DEF start_wait_for_proc_kill
<1> QED
  BY <1>5, <1>6 DEF F

LEMMA KillFiles ==
  ASSUME IInv, At("kill"), NEW v \in Proc, v = call.victim, pidfd' = pidfd,
         At("out")', call'.victim = v,
         \/ files' = Freed /\ last_kill' = pidfd[v]
         \/ files' = [Freed EXCEPT ![pidfd[v]] = NULL] /\ last_kill' = -1
  PROVE  /\ last_kill' \in Fd \cup {-1} /\ files' \in [Fd -> Proc \cup {NULL}] /\ FilesOK'
         /\ last_kill' # -1 => files'[last_kill'] = v
<1>1. /\ files \in [Fd -> Proc \cup {NULL}] /\ pidfd \in [Proc -> Fd \cup {-1}] /\ -1 \notin Fd
      /\ last_kill \in Fd \cup {-1} /\ NULL \notin Proc
  BY FdNat, ProcAssumption DEF IInv, TypeOK
<1>2. \A p \in Proc : ~Killed(p) /\ (Killed(p)' <=> p = v)
  BY DEF Killed, At
<1>3. pidfd[v] \in Fd /\ files[pidfd[v]] = v /\ pidfd[v] # last_kill
  BY <1>1, <1>2 DEF IInv, CallOK, FilesOK, At
<1>4. /\ Freed \in [Fd -> Proc \cup {NULL}]
      /\ \A f \in Fd : Freed[f] = IF f = last_kill THEN NULL ELSE files[f]
  BY <1>1, SMTT(20) DEF Freed
<1>5. \A p \in Proc : p # v /\ pidfd[p] # -1 =>
        files[pidfd[p]] = p /\ pidfd[p] # last_kill /\ pidfd[p] # pidfd[v]
  BY <1>2, <1>3, SMTT(20) DEF IInv, FilesOK
<1>6. CASE files' = Freed /\ last_kill' = pidfd[v]
  BY <1>1, <1>2, <1>3, <1>4, <1>5, <1>6, SMTT(20) DEF IInv, FilesOK
<1>7. CASE files' = [Freed EXCEPT ![pidfd[v]] = NULL] /\ last_kill' = -1
  <2>1. /\ files' \in [Fd -> Proc \cup {NULL}] /\ files'[pidfd[v]] = NULL
        /\ \A f \in Fd : f # pidfd[v] => files'[f] = Freed[f]
    BY <1>3, <1>4, <1>7
  <2> QED
    BY <1>1, <1>2, <1>3, <1>4, <1>5, <1>7, <2>1, SMTT(20) DEF IInv, FilesOK
<1> QED
  BY <1>6, <1>7

LEMMA KillStep ==
  ASSUME IInv, NEW epoll_ok \in BOOLEAN, NEW pages \in BOOLEAN, kill_victim(epoll_ok, pages)
  PROVE  IInv'
<1> DEFINE v == call.victim
           w == start_wait_for_proc_kill(W, pidfd[v], epoll_ok)
           usable == w.files[pidfd[v]] # NULL
<1>1. /\ At("kill") /\ UNCHANGED <<pidfd, poll_vars, batch>>
      /\ \/ /\ \/ PoolHasRoom /\ Pool!Accept(v)
               \/ usable /\ Pool!SignalNow(v)
            /\ Install(w)
            /\ Goto("out", v, pages)
         \/ /\ Install(stop_wait_for_proc_kill(w))
            /\ Goto("out", v, FALSE)
            /\ UNCHANGED pool_vars
  BY Zenon DEF kill_victim
<1>2. /\ call \in Calls /\ v \in Proc /\ pidfd[v] \in Fd /\ TypeOK
      /\ pending \in [Proc -> 0..ThreadCnt] /\ state \in [Proc -> {"running", "dying", "dead"}]
  BY <1>1 DEF IInv, TypeOK, CallOK, At
<1> HIDE DEF v, w, usable
<1>3. call' \in Calls /\ call'.step = "out" /\ call'.victim = v
  <2>1. CASE Goto("out", v, pages)
    BY <1>2, <2>1, GoTo
  <2>2. CASE Goto("out", v, FALSE)
    BY <1>2, <2>2, GoTo, Zenon
  <2> QED
    BY <1>1, <2>1, <2>2, Zenon
<1>4. call' # NULL /\ At("out")'
  BY <1>3, CallAssumption DEF At
<1>5. \/ files' = Freed /\ last_kill' = pidfd[v] /\ Install(w)
      \/ files' = [Freed EXCEPT ![pidfd[v]] = NULL] /\ last_kill' = -1
  <2>1. /\ epoll_ok => w = [files |-> Freed, last |-> pidfd[v]]
        /\ ~epoll_ok => w = [files |-> [Freed EXCEPT ![pidfd[v]] = NULL], last |-> -1]
        /\ stop_wait_for_proc_kill(w) = [files |-> [Freed EXCEPT ![pidfd[v]] = NULL], last |-> -1]
    BY <1>2, StartWait DEF w
  <2>2. Install(w) \/ Install(stop_wait_for_proc_kill(w))
    BY <1>1, Zenon
  <2> DEFINE G == [Freed EXCEPT ![pidfd[v]] = NULL]
             f == pidfd[v]
             w2 == stop_wait_for_proc_kill(w)
  <2>3. /\ epoll_ok => w = [files |-> Freed, last |-> f]
        /\ ~epoll_ok => w = [files |-> G, last |-> -1]
        /\ w2 = [files |-> G, last |-> -1]
        /\ Install(w) \/ Install(w2)
    BY <2>1, <2>2
  <2> HIDE DEF G, f, w2
  <2>4. (files' = Freed /\ last_kill' = f /\ Install(w)) \/ (files' = G /\ last_kill' = -1)
    BY <2>3 DEF Install
  <2> QED
    BY <2>4 DEF G, f
<1>6. /\ last_kill' \in Fd \cup {-1} /\ files' \in [Fd -> Proc \cup {NULL}] /\ FilesOK'
      /\ last_kill' # -1 => files'[last_kill'] = v
  BY <1>1, <1>2, <1>3, <1>4, <1>5, KillFiles DEF v
<1>7. /\ pending' \in [Proc -> 0..ThreadCnt] /\ state' \in [Proc -> {"running", "dying", "dead"}]
      /\ reports' = reports
      /\ last_kill' # -1 => state'[v] # "running" \/ pending'[v] > 0
  <2>1. CASE PoolHasRoom /\ Pool!Accept(v)
    <3>1. pending[v] + 1 \in 0..ThreadCnt
      BY <1>2, <2>1, RoomForOne
    <3>2. pending' = [pending EXCEPT ![v] = pending[v] + 1] /\ UNCHANGED <<reports, state>>
      BY <2>1 DEF Pool!Accept
    <3>3. pending'[v] > 0
      BY <1>2, <3>2, BoundAssumption
    <3> QED
      BY <1>2, <3>1, <3>2, <3>3
  <2>2. CASE Pool!SignalNow(v)
    BY <1>2, <2>2 DEF Pool!SignalNow
  <2>3. CASE Install(stop_wait_for_proc_kill(w)) /\ UNCHANGED pool_vars
    <3>1. last_kill' = -1
      BY <1>2, <2>3, StartWait, SMTT(20) DEF Install, w
    <3> QED
      BY <1>2, <2>3, <3>1, SMTT(20) DEF pool_vars
  <2> QED
    BY <1>1, <2>1, <2>2, <2>3, Zenon
<1>8. TypeOK' /\ BatchOK'
  BY <1>1, <1>3, <1>6, <1>7, SMTT(20) DEF IInv, TypeOK, BatchOK, poll_vars
<1>9. CallOK'
  BY <1>1, <1>2, <1>3, FdNat DEF IInv, CallOK, At
<1>10. WaitOK'
  BY <1>4, <1>6, <1>7 DEF WaitOK
<1> QED
  BY <1>6, <1>7, <1>8, <1>9, <1>10 DEF IInv

-----------------------------------------------------------------------------
(* The invariant holds of the daemon that enters mainloop ...              *)
LEMMA InitIInv == Init => IInv
<1> SUFFICES ASSUME Init PROVE IInv
  OBVIOUS
<1>1. TypeOK /\ state \in [Proc -> {"running", "dying", "dead"}]
  BY BoundAssumption DEF Init, Pool!Init, TypeOK
<1>2. BatchOK /\ CallOK /\ FilesOK /\ WaitOK
  BY DEF Init, BatchOK, CallOK, FilesOK, WaitOK, Killed, At
<1> QED
  BY <1>1, <1>2 DEF IInv

(* ... the handler that mainloop calls for an event keeps it ...           *)
LEMMA EventStep ==
  ASSUME IInv, handle_event
  PROVE  /\ IInv'
         /\ Head(batch) \in {KillDone, KillFail} /\ last_kill # -1 => poll_handler' # NULL
<1> DEFINE e == Head(batch)
<1>1. /\ call = NULL /\ batch # <<>> /\ e = batch[1] /\ e \in Event
      /\ e = Poll => poll_handler \in Level
  <2>1. call = NULL /\ batch # <<>>
    BY DEF handle_event
  <2>2. e = batch[1] /\ e \in Event /\ 1 \in DOMAIN batch
    BY <2>1 DEF IInv, BatchOK
  <2> QED
    BY <2>1, <2>2 DEF IInv, BatchOK, TypeOK
<1>2. /\ KillDone # Poll /\ KillFail \notin {Poll, KillDone}
      /\ Ctrl \notin {Poll, KillDone, KillFail}
  <2>1. /\ Poll.source = "poll" /\ KillDone.source = "kill_done" /\ KillFail.source = "kill_fail"
        /\ Ctrl.source = "ctrl"
    BY DEF Poll, KillDone, KillFail, Ctrl
  <2> QED
    BY <2>1
<1> HIDE DEF e
<1>3. CASE e = Poll
  <2>1. mp_event_psi(Call(poll_handler, FALSE))
    BY <1>2, <1>3, Zenon DEF handle_event, e
  <2>2. Call(poll_handler, FALSE) \in Calls /\ Call(poll_handler, FALSE).step = "search"
    BY <1>1, <1>3, NewCall, Zenon
  <2>3. IInv'
    BY <1>1, <2>1, <2>2, PsiStep, Zenon
  <2> QED
    BY <1>2, <1>3, <2>3 DEF e
<1>4. CASE e \in {KillDone, KillFail}
  <2>1. kill_done_handler \/ kill_fail_handler
    BY <1>2, <1>4, Zenon DEF handle_event, e
  <2> QED
    BY <1>1, <2>1, ResumeStep
<1>5. CASE e = Ctrl
  <2>1. ctrl_data_handler
    BY <1>2, <1>5 DEF handle_event, e
  <2>2. IInv'
    BY <1>1, <2>1, CtrlStep
  <2> QED
    BY <1>2, <1>5, <2>2 DEF e
<1>6. CASE e \notin {Poll, KillDone, KillFail, Ctrl}
  <2>1. mp_event_psi(Call(e.level, TRUE))
    BY <1>6, Zenon DEF handle_event, e
  <2>2. e.level \in Level
    BY <1>1, <1>6 DEF Event, Psi
  <2>3. Call(e.level, TRUE) \in Calls /\ Call(e.level, TRUE).step = "search"
    BY <2>2, NewCall, Zenon
  <2>4. IInv'
    BY <1>1, <2>1, <2>3, PsiStep, Zenon
  <2> QED
    BY <1>6, <2>4 DEF e
<1> QED
  BY <1>3, <1>4, <1>5, <1>6

(* ... and so does every step.                                             *)
LEMMA NextIInv == IInv /\ [Next]_vars => IInv'
<1> SUFFICES ASSUME IInv, [Next]_vars PROVE IInv'
  OBVIOUS
<1>1. CASE main_thread
  BY <1>1, MainloopStep, EventStep, NoVictimStep, OutStep, GoneStep, FoundStep, KillStep
     DEF main_thread
<1>2. CASE kill_timeout
  BY <1>2, TimeoutStep
<1>3. CASE \E p \in Proc : request_ends(p) \/ process_exits(p)
  BY <1>3, PoolStep, SMTT(20)
<1>4. CASE UNCHANGED vars
  BY <1>4 DEF IInv, TypeOK, BatchOK, CallOK, FilesOK, WaitOK, Killed, At,
              vars, pool_vars, wait_vars, poll_vars, call_vars
<1> QED
  BY <1>1, <1>2, <1>3, <1>4 DEF Next

(* The invariant of the main loop, for every number of processes,          *)
(* descriptors, levels and reaper threads.                                 *)
THEOREM KillLoopInvariant == Spec => []IInv
  BY InitIInv, NextIInv, PTL DEF Spec

(* pid_remove and stop_wait_for_proc_kill neither leak a pidfd nor close   *)
(* one that is somebody else's.                                            *)
THEOREM PidfdsAreOwned == Spec => []PidfdsOwned
<1>1. IInv => PidfdsOwned
  <2> SUFFICES ASSUME IInv, call = NULL
               PROVE  /\ OpenFds = {pidfd[p] : p \in Registered} \cup ({last_kill} \ {-1})
                      /\ \A p \in Registered : files[pidfd[p]] = p /\ pidfd[p] # last_kill
    BY DEF IInv, PidfdsOwned
  <2>1. /\ files \in [Fd -> Proc \cup {NULL}] /\ pidfd \in [Proc -> Fd \cup {-1}] /\ NULL \notin Proc
        /\ last_kill \in Fd \cup {-1} /\ Registered = {p \in Proc : pidfd[p] # -1}
    BY FdNat, ProcAssumption DEF IInv, TypeOK, Registered
  <2>2. \A p \in Registered : files[pidfd[p]] = p /\ pidfd[p] # last_kill
    BY <2>1 DEF IInv, FilesOK, Killed, At
  <2>3. OpenFds \subseteq {pidfd[p] : p \in Registered} \cup ({last_kill} \ {-1})
    BY <2>1, FdNat DEF OpenFds, IInv, FilesOK
  <2>4. {pidfd[p] : p \in Registered} \cup ({last_kill} \ {-1}) \subseteq OpenFds
    BY <2>1, <2>2 DEF OpenFds, IInv, FilesOK
  <2> QED
    BY <2>2, <2>3, <2>4
<1> QED
  BY <1>1, KillLoopInvariant, PTL

(* No wait for a victim is in vain.                                        *)
THEOREM WaitsEnd == Spec => []WaitWillEnd
<1>1. IInv => WaitWillEnd
  BY DEF IInv, WaitOK, WaitWillEnd, is_waiting_for_kill
<1> QED
  BY <1>1, KillLoopInvariant, PTL

(* Every end of a wait is followed by polling.                             *)
THEOREM PollingGoesOn == Spec => PollingResumes
<1> DEFINE Resumes == /\ is_waiting_for_kill /\ last_kill' = -1 /\ call = NULL
                      /\ batch = <<>> \/ Head(batch) \in {KillDone, KillFail}
                      => poll_handler' # NULL
<1>1. IInv /\ [Next]_vars => [Resumes]_vars
  <2> SUFFICES ASSUME IInv, Next, is_waiting_for_kill, last_kill' = -1, call = NULL,
                      batch = <<>> \/ Head(batch) \in {KillDone, KillFail}
               PROVE  poll_handler' # NULL
    OBVIOUS
  <2>1. last_kill # -1
    BY DEF is_waiting_for_kill
  <2>2. CASE kill_timeout
    BY <2>2, TimeoutStep
  <2>3. CASE handle_event
    BY <2>1, <2>3, EventStep, Zenon DEF handle_event
  <2>4. CASE mainloop
    BY <2>1, <2>4 DEF mainloop, wait_vars
  <2>5. CASE \E p \in Proc : request_ends(p) \/ process_exits(p)
    BY <2>1, <2>5 DEF request_ends, process_exits, wait_vars
  <2> QED
    BY <2>2, <2>3, <2>4, <2>5 DEF Next, main_thread, no_victim, kill_one_process_out,
                                  victim_is_gone, victim_found, kill_victim, At
<1> QED
  BY <1>1, KillLoopInvariant, PTL DEF Spec, PollingResumes
=============================================================================
