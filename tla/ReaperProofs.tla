---------------------------- MODULE ReaperProofs ----------------------------
(***************************************************************************)
(* Proofs about Reaper: its type invariant, the accounting of requests and *)
(* of the duplicated pidfds, and the absence of lost wake-ups, for any     *)
(* number of threads and processes.                                        *)
(***************************************************************************)
EXTENDS Reaper, FiniteSetTheorems, TLAPS

(* The inductive invariant.  RequestsAccounted is what makes the bound     *)
(* active_requests < thread_cnt of async_kill leave a thread for the       *)
(* request; QueuedRequestsHaveThreads is what it leaves it to;             *)
(* DupsAccounted keeps fds from going below 0 in reaper_main's close.      *)
IInv == TypeOK /\ RequestsAccounted /\ QueuedRequestsHaveThreads /\ DupsAccounted

(* What back and pop_back, as used by dequeue_request, do to a sequence.*)
LEMMA PopBack ==
  ASSUME NEW S, NEW q \in Seq(S), q # <<>>
  PROVE  /\ Len(q) \in Nat \ {0} /\ DOMAIN q = 1..Len(q)
         /\ back(q) = q[Len(q)] /\ back(q) \in S
         /\ pop_back(q) \in Seq(S) /\ Len(pop_back(q)) = Len(q) - 1
         /\ DOMAIN pop_back(q) = 1..(Len(q) - 1)
         /\ \A i \in 1..(Len(q) - 1) : pop_back(q)[i] = q[i]
<1>1. Len(q) \in Nat \ {0} /\ DOMAIN q = 1..Len(q)
  OBVIOUS
<1>2. \A i \in 1..Len(q) : q[i] \in S
  OBVIOUS
<1>3. back(q) = q[Len(q)] /\ back(q) \in S
  BY <1>1, <1>2 DEF back
<1>4. /\ pop_back(q) \in Seq(S)
      /\ Len(pop_back(q)) = Len(q) - 1
      /\ \A i \in 1..(Len(q) - 1) : pop_back(q)[i] = q[i]
  BY <1>1, <1>2 DEF pop_back
<1> QED
  BY <1>1, <1>3, <1>4

(* A thread of the pool is serving a request, awake or waiting.            *)
LEMMA Partition ==
  ASSUME TypeOK
  PROVE  /\ IsFiniteSet(pool) /\ IsFiniteSet(Busy) /\ IsFiniteSet(Awake)
         /\ Cardinality(pool) \in Nat /\ Cardinality(Busy) \in Nat
         /\ Cardinality(Awake) \in Nat
         /\ Cardinality(Busy) + Cardinality(Awake) <= Cardinality(pool)
         /\ Waiting = {} => Cardinality(Busy) + Cardinality(Awake) = Cardinality(pool)
<1>1. IsFiniteSet(pool)
  BY ThreadAssumption, FS_Subset DEF TypeOK
<1>2. Busy \subseteq pool /\ Awake \subseteq pool /\ Busy \cup Awake \subseteq pool
  BY DEF Busy, Awake
<1>3. IsFiniteSet(Busy) /\ IsFiniteSet(Awake) /\ IsFiniteSet(Busy \cup Awake)
  BY <1>1, <1>2, FS_Subset
<1>4. Busy \cap Awake = {}
  BY DEF Busy, Awake
<1>5. /\ Cardinality(pool) \in Nat /\ Cardinality(Busy) \in Nat
      /\ Cardinality(Awake) \in Nat /\ Cardinality(Busy \cup Awake) \in Nat
  BY <1>1, <1>3, FS_CardinalityType
<1>6. Cardinality(Busy \cap Awake) = 0
  BY <1>4, FS_EmptySet
<1>7. Cardinality(Busy \cup Awake)
        = Cardinality(Busy) + Cardinality(Awake) - Cardinality(Busy \cap Awake)
  BY <1>3, FS_Union
<1>8. Cardinality(Busy \cup Awake) <= Cardinality(pool)
  BY <1>1, <1>2, FS_Subset
<1>9. Waiting = {} => Busy \cup Awake = pool
  BY DEF TypeOK, Waiting, Busy, Awake
<1>10. Cardinality(Busy \cup Awake) = Cardinality(Busy) + Cardinality(Awake)
  BY <1>5, <1>6, <1>7
<1>11. Cardinality(Busy) + Cardinality(Awake) <= Cardinality(pool)
  BY <1>8, <1>10
<1>12. ASSUME Waiting = {}
       PROVE  Cardinality(Busy) + Cardinality(Awake) = Cardinality(pool)
  BY <1>9, <1>10, <1>12
<1> QED
  BY <1>1, <1>3, <1>5, <1>11, <1>12

(* The requests with a duplicated pidfd can be counted.                    *)
LEMMA DupsFinite ==
  ASSUME TypeOK
  PROVE  /\ IsFiniteSet(QueuedDups) /\ IsFiniteSet(ServedDups)
         /\ Cardinality(QueuedDups) \in Nat /\ Cardinality(ServedDups) \in Nat
<1>1. Len(queue) \in Nat /\ DOMAIN queue = 1..Len(queue)
  BY DEF TypeOK
<1>2. IsFiniteSet(1..Len(queue)) /\ IsFiniteSet(Busy)
  BY <1>1, FS_Interval, Partition
<1>3. QueuedDups \subseteq 1..Len(queue) /\ ServedDups \subseteq Busy
  BY <1>1 DEF QueuedDups, ServedDups
<1> QED
  BY <1>2, <1>3, FS_Subset, FS_CardinalityType, Zenon

(* The initial states satisfy the inductive invariant.                     *)
LEMMA InitIInv == Init => IInv
<1> SUFFICES ASSUME Init PROVE IInv
  OBVIOUS
<1>1. Busy = {}
  BY DEF Init, Busy
<1>2. Cardinality(Busy) = 0
  BY <1>1, FS_EmptySet
<1>3. IsFiniteSet(pool) /\ Cardinality(pool) \in Nat
  BY ThreadAssumption, FS_Subset, FS_CardinalityType DEF Init
<1>4. TypeOK
  BY <1>1, <1>3, TargetAssumption DEF Init, TypeOK, thread_cnt, Target
<1>5. Cardinality(Awake) \in Nat
  BY <1>4, Partition
<1>6. Len(queue) = 0 /\ QueuedDups = {} /\ ServedDups = {}
  BY <1>1 DEF Init, QueuedDups, ServedDups
<1>7. DupsAccounted
  BY <1>6, FS_EmptySet DEF Init, DupsAccounted
<1> QED
  BY <1>2, <1>4, <1>5, <1>6, <1>7 DEF IInv, RequestsAccounted, QueuedRequestsHaveThreads, Init

(* NotifyOne moves at most one waiting thread to dequeue_request, and one  *)
(* when there is one.                                                      *)
LEMMA NotifyOneWakes ==
  ASSUME TypeOK, NotifyOne, UNCHANGED <<pool, target>>
  PROVE  /\ pc' \in [Thread -> {"absent", "dequeue", "wait", "kill", "notify", "write", "done"}]
         /\ \A t \in Thread : pc'[t] = pc[t] \/ (pc[t] = "wait" /\ pc'[t] = "dequeue")
         /\ Busy' = Busy
         /\ IF Waiting = {} THEN Awake' = Awake
            ELSE \E t \in pool \ Awake : Awake' = Awake \cup {t}
<1>1. CASE Waiting = {}
  BY <1>1 DEF NotifyOne, TypeOK, Busy, Awake
<1>2. CASE Waiting # {}
  <2>1. PICK t \in Waiting : pc' = [pc EXCEPT ![t] = "dequeue"]
    BY <1>2 DEF NotifyOne
  <2>2. t \in pool /\ t \in Thread /\ pc[t] = "wait"
    BY DEF Waiting, TypeOK
  <2>3. Awake' = Awake \cup {t} /\ t \notin Awake /\ Busy' = Busy
    BY <2>1, <2>2 DEF TypeOK, Awake, Busy
  <2>4. /\ pc' \in [Thread -> {"absent", "dequeue", "wait", "kill", "notify", "write", "done"}]
        /\ \A u \in Thread : pc'[u] = pc[u] \/ (pc[u] = "wait" /\ pc'[u] = "dequeue")
    BY <2>1, <2>2 DEF TypeOK
  <2> QED
    BY <1>2, <2>2, <2>3, <2>4
<1> QED
  BY <1>1, <1>2

(* A request is accepted only when there is a thread for it.               *)
LEMMA AsyncKillIInv ==
  ASSUME IInv, NEW p \in Proc, NEW fd \in {"dup", "none"}, async_kill(p, fd)
  PROVE  IInv'
<1> USE DEF IInv
<1>1. /\ NotifyOne /\ UNCHANGED <<pool, target, comm, state>>
      /\ active_requests' = active_requests + 1
      /\ active_requests < thread_cnt
      /\ queue' = Append(queue, [pid |-> p, pidfd |-> fd])
      /\ fds' = IF fd = "dup" THEN fds + 1 ELSE fds
  BY DEF async_kill, HasIdleThread
<1>2. /\ pc' \in [Thread -> {"absent", "dequeue", "wait", "kill", "notify", "write", "done"}]
      /\ \A t \in Thread : pc'[t] = pc[t] \/ (pc[t] = "wait" /\ pc'[t] = "dequeue")
      /\ Busy' = Busy
      /\ IF Waiting = {} THEN Awake' = Awake
         ELSE \E t \in pool \ Awake : Awake' = Awake \cup {t}
  BY <1>1, NotifyOneWakes
<1>3. /\ IsFiniteSet(Awake)
      /\ Cardinality(pool) \in Nat /\ Cardinality(Busy) \in Nat /\ Cardinality(Awake) \in Nat
      /\ Waiting = {} => Cardinality(Busy) + Cardinality(Awake) = Cardinality(pool)
  BY Partition
<1>4. queue' \in Seq(Target) /\ Len(queue') = Len(queue) + 1 /\ Len(queue) \in Nat
  BY <1>1 DEF TypeOK, Target
<1>5. active_requests' \in 0..thread_cnt'
  BY <1>1, <1>3 DEF TypeOK, thread_cnt
<1>6. fds' \in Nat
  BY <1>1 DEF TypeOK
<1>7. TypeOK'
  BY <1>1, <1>2, <1>4, <1>5, <1>6, SMTT(30) DEF TypeOK
<1>8. RequestsAccounted'
  BY <1>1, <1>2, <1>3, <1>4, SMTT(30) DEF RequestsAccounted, TypeOK
<1>9. Len(queue') <= Cardinality(Awake')
  <2>1. CASE Waiting = {}
    <3>1. Len(queue) + Cardinality(Busy) < Cardinality(Busy) + Cardinality(Awake)
      BY <1>1, <1>3, <2>1 DEF RequestsAccounted, thread_cnt
    <3> QED
      BY <1>2, <1>3, <1>4, <2>1, <3>1
  <2>2. CASE Waiting # {}
    <3>1. PICK t \in pool \ Awake : Awake' = Awake \cup {t}
      BY <1>2, <2>2
    <3>2. Cardinality(Awake') = Cardinality(Awake) + 1
      BY <1>3, <3>1, FS_AddElement, Zenon
    <3> QED
      BY <1>3, <1>4, <3>2 DEF QueuedRequestsHaveThreads
  <2> QED
    BY <2>1, <2>2
<1>10. DupsAccounted'
  <2>1. /\ DOMAIN queue = 1..Len(queue) /\ DOMAIN queue' = 1..(Len(queue) + 1)
        /\ \A i \in 1..Len(queue) : queue'[i] = queue[i]
        /\ queue'[Len(queue) + 1].pidfd = fd
    BY <1>1, <1>4 DEF TypeOK, Target
  <2>2. QueuedDups' = IF fd = "dup" THEN QueuedDups \cup {Len(queue) + 1} ELSE QueuedDups
    BY <1>4, <2>1 DEF QueuedDups
  <2>3. Len(queue) + 1 \notin QueuedDups
    BY <1>4, <2>1 DEF QueuedDups
  <2>4. ServedDups' = ServedDups
    BY <1>1, <1>2 DEF ServedDups
  <2>5. CASE fd = "dup"
    <3>1. Cardinality(QueuedDups \cup {Len(queue) + 1}) = Cardinality(QueuedDups) + 1
      BY <2>3, DupsFinite, FS_AddElement, Zenon
    <3> QED
      BY <1>1, <2>2, <2>4, <2>5, <3>1, DupsFinite, SMTT(30) DEF DupsAccounted
  <2>6. CASE fd # "dup"
    BY <1>1, <2>2, <2>4, <2>6 DEF DupsAccounted
  <2> QED
    BY <2>5, <2>6
<1> QED
  BY <1>7, <1>8, <1>9, <1>10 DEF QueuedRequestsHaveThreads

(* The steps that change neither queue_ nor the number of threads that are *)
(* serving or awake, except that a thread may have woken up.               *)
LEMMA QuietIInv ==
  ASSUME IInv, TypeOK', UNCHANGED <<pool, queue, active_requests, target, fds>>,
         Busy' = Busy, Awake \subseteq Awake'
  PROVE  IInv'
<1> USE DEF IInv
<1>1. IsFiniteSet(Awake') /\ Cardinality(Awake') \in Nat
  <2>1. IsFiniteSet(pool') /\ Awake' \subseteq pool'
    BY ThreadAssumption, FS_Subset DEF TypeOK, Awake
  <2> QED
    BY <2>1, FS_Subset, FS_CardinalityType
<1>2. Cardinality(Awake) <= Cardinality(Awake') /\ Cardinality(Awake) \in Nat
  BY <1>1, FS_Subset, Partition
<1>3. Len(queue) \in Nat
  BY SMTT(30) DEF TypeOK
<1>4. QueuedDups' = QueuedDups /\ ServedDups' = ServedDups
  BY DEF QueuedDups, ServedDups
<1>5. DupsAccounted'
  BY <1>4 DEF DupsAccounted
<1> QED
  BY <1>1, <1>2, <1>3, <1>5 DEF RequestsAccounted, QueuedRequestsHaveThreads

(* reaper_main: every step of a thread keeps the invariant.                *)
LEMMA ReaperMainIInv ==
  ASSUME IInv, NEW t \in pool, reaper_main(t)
  PROVE  IInv'
<1> USE DEF IInv
<1>0. t \in Thread
  BY DEF TypeOK
<1>a. /\ IsFiniteSet(Busy) /\ IsFiniteSet(Awake) /\ Cardinality(pool) \in Nat
      /\ Cardinality(Busy) \in Nat /\ Cardinality(Awake) \in Nat
  BY Partition
<1>1. CASE dequeue_wait(t)
  <2>1. queue = <<>> /\ Len(queue) = 0
    BY <1>1 DEF dequeue_wait
  <2>2. TypeOK' /\ Busy' = Busy
    BY <1>0, <1>1 DEF dequeue_wait, TypeOK, Busy, thread_cnt
  <2>3. Awake' \subseteq Awake
    BY <1>0, <1>1 DEF dequeue_wait, TypeOK, Awake
  <2>4. Cardinality(Awake') \in Nat
    BY <1>a, <2>3, FS_Subset, FS_CardinalityType
  <2>5. QueuedDups' = QueuedDups /\ ServedDups' = ServedDups
    BY <1>1, <2>2 DEF dequeue_wait, QueuedDups, ServedDups
  <2> QED
    BY <1>1, <2>1, <2>2, <2>4, <2>5
    DEF dequeue_wait, RequestsAccounted, QueuedRequestsHaveThreads, DupsAccounted
<1>2. CASE dequeue_request(t)
  <2>1. /\ queue # <<>> /\ queue' = pop_back(queue)
        /\ target' = [target EXCEPT ![t] = back(queue)]
        /\ pc' = [pc EXCEPT ![t] = "kill"] /\ pc[t] = "dequeue"
        /\ UNCHANGED <<pool, active_requests, fds, comm, state>>
    BY <1>2 DEF dequeue_request
  <2>2. /\ Len(queue) \in Nat \ {0} /\ back(queue) \in Target
        /\ queue' \in Seq(Target) /\ Len(queue') = Len(queue) - 1
    BY <2>1, PopBack, Zenon DEF TypeOK
  <2>3. Busy' = Busy \cup {t} /\ t \notin Busy /\ Awake' = Awake \ {t} /\ t \in Awake
    BY <1>0, <2>1 DEF TypeOK, Busy, Awake
  <2>4. TypeOK'
    BY <1>0, <2>1, <2>2, <2>3, SMTT(30) DEF TypeOK, thread_cnt
  <2>5. Cardinality(Busy') = Cardinality(Busy) + 1 /\ Cardinality(Awake') = Cardinality(Awake) - 1
    BY <1>a, <2>3, FS_AddElement, FS_RemoveElement, Zenon
  <2>6. DupsAccounted'
    <3>a. queue \in Seq(Target)
      BY DEF TypeOK
    <3>1. /\ DOMAIN queue = 1..Len(queue) /\ DOMAIN queue' = 1..(Len(queue) - 1)
          /\ \A i \in 1..(Len(queue) - 1) : queue'[i] = queue[i]
          /\ back(queue) = queue[Len(queue)]
      BY <2>1, <3>a, PopBack, Zenon
    <3>2. QueuedDups' = QueuedDups \ {Len(queue)}
      BY <2>2, <3>1, SMTT(30) DEF QueuedDups
    <3>3. target'[t] = back(queue) /\ \A u \in Busy : target'[u] = target[u]
      BY <1>0, <2>1, <2>3 DEF TypeOK
    <3>4. CASE back(queue).pidfd = "dup"
      <4>1. Len(queue) \in QueuedDups
        BY <2>2, <3>1, <3>4 DEF QueuedDups
      <4>2. ServedDups' = ServedDups \cup {t} /\ t \notin ServedDups
        BY <2>3, <3>3, <3>4 DEF ServedDups
      <4>3. Cardinality(QueuedDups') = Cardinality(QueuedDups) - 1
        BY <3>2, <4>1, DupsFinite, FS_RemoveElement, Zenon
      <4>4. Cardinality(ServedDups') = Cardinality(ServedDups) + 1
        BY <4>2, DupsFinite, FS_AddElement, Zenon
      <4> QED
        BY <2>1, <4>3, <4>4, DupsFinite DEF DupsAccounted
    <3>5. CASE back(queue).pidfd # "dup"
      <4>1. Len(queue) \notin QueuedDups /\ QueuedDups' = QueuedDups
        BY <3>1, <3>2, <3>5 DEF QueuedDups
      <4>2. ServedDups' = ServedDups
        BY <2>3, <3>3, <3>5 DEF ServedDups
      <4> QED
        BY <2>1, <4>1, <4>2 DEF DupsAccounted
    <3> QED
      BY <3>4, <3>5
  <2> QED
    BY <1>a, <2>1, <2>2, <2>4, <2>5, <2>6, SMTT(30) DEF RequestsAccounted, QueuedRequestsHaveThreads
<1>3. CASE spurious_wakeup(t)
  <2>1. TypeOK' /\ Busy' = Busy /\ Awake \subseteq Awake'
    BY <1>0, <1>3, SMTT(30) DEF spurious_wakeup, TypeOK, Busy, Awake, thread_cnt
  <2> QED
    BY <1>3, <2>1, QuietIInv DEF spurious_wakeup
<1>4. CASE send_signal(t) \/ send_signal_fails(t)
  <2>1. /\ pc[t] = "kill"
        /\ pc' = [pc EXCEPT ![t] = "done"] \/ pc' = [pc EXCEPT ![t] = "notify"]
        /\ UNCHANGED <<pool, queue, active_requests, target, fds, comm>>
    BY <1>4, SMTT(30) DEF send_signal, send_signal_fails
  <2>2. target[t] \in Target /\ target[t].pid \in Proc
    BY <1>0, <2>1 DEF TypeOK, Busy, Target
  <2>3. state' \in [Proc -> {"running", "dying", "dead"}]
    BY <1>4, <2>2, SMTT(30) DEF send_signal, send_signal_fails, SignalOk, SignalFails, TypeOK
  <2>4. Busy' = Busy /\ Awake' = Awake
    BY <1>0, <2>1 DEF TypeOK, Busy, Awake
  <2>5. TypeOK'
    BY <1>0, <2>1, <2>3, <2>4, SMTT(30) DEF TypeOK, thread_cnt
  <2> QED
    BY <2>1, <2>4, <2>5, QuietIInv
<1>5. CASE notify_kill_failure(t)
  <2>1. Busy' = Busy /\ Awake' = Awake
    BY <1>0, <1>5 DEF notify_kill_failure, TypeOK, Busy, Awake
  <2>2. TypeOK'
    BY <1>0, <1>5, <2>1 DEF notify_kill_failure, MutexFree, TypeOK, thread_cnt
  <2> QED
    BY <1>5, <2>1, <2>2, QuietIInv DEF notify_kill_failure
<1>6. CASE write_comm(t)
  <2>1. Busy' = Busy /\ Awake' = Awake
    BY <1>0, <1>6 DEF write_comm, TypeOK, Busy, Awake
  <2>2. target[t].pid \in Proc
    BY <1>0, <1>6 DEF write_comm, TypeOK, Busy, Target
  <2>3. comm' \in Seq(Proc)
    BY <1>6, <2>2 DEF write_comm, TypeOK
  <2>4. TypeOK'
    BY <1>0, <1>6, <2>1, <2>3, SMTT(30) DEF write_comm, TypeOK, thread_cnt
  <2> QED
    BY <1>6, <2>1, <2>4, QuietIInv DEF write_comm
<1>7. CASE request_complete(t)
  <2>1. /\ pc[t] = "done" /\ pc' = [pc EXCEPT ![t] = "dequeue"]
        /\ target' = [target EXCEPT ![t] = NoTarget]
        /\ active_requests' = active_requests - 1
        /\ fds' = FdsAfterClose(target[t])
        /\ UNCHANGED <<pool, queue, comm, state>>
    BY <1>7 DEF request_complete, RequestsAfter
  <2>2. Busy' = Busy \ {t} /\ t \in Busy /\ Awake' = Awake \cup {t} /\ t \notin Awake
    BY <1>0, <2>1 DEF TypeOK, Busy, Awake
  <2>3. Cardinality(Busy') = Cardinality(Busy) - 1 /\ Cardinality(Awake') = Cardinality(Awake) + 1
    BY <1>a, <2>2, FS_AddElement, FS_RemoveElement, Zenon
  <2>4. Cardinality(Busy') \in Nat /\ Len(queue) \in Nat
    BY <1>a, <2>2, FS_RemoveElement, FS_CardinalityType DEF TypeOK
  <2>5. active_requests' \in 0..thread_cnt'
    BY <1>a, <2>1, <2>3, <2>4, SMTT(30) DEF RequestsAccounted, TypeOK, thread_cnt
  <2>6. DupsAccounted' /\ fds' \in Nat
    <3>1. QueuedDups' = QueuedDups
      BY <2>1 DEF QueuedDups
    <3>2. \A u \in Busy \ {t} : target'[u] = target[u]
      BY <1>0, <2>1 DEF TypeOK, Busy
    <3>3. ServedDups' = ServedDups \ {t}
      BY <2>2, <3>2 DEF ServedDups
    <3>4. CASE target[t].pidfd = "dup"
      <4>1. t \in ServedDups
        BY <2>2, <3>4 DEF ServedDups
      <4>2. Cardinality(ServedDups') = Cardinality(ServedDups) - 1 /\ Cardinality(ServedDups') \in Nat
        BY <3>3, <4>1, DupsFinite, FS_RemoveElement, FS_CardinalityType
      <4> QED
        BY <2>1, <3>1, <3>4, <4>2, DupsFinite DEF DupsAccounted, FdsAfterClose
    <3>5. CASE target[t].pidfd # "dup"
      <4>1. ServedDups' = ServedDups
        BY <3>3, <3>5 DEF ServedDups
      <4> QED
        BY <2>1, <3>1, <3>5, <4>1, SMTT(30) DEF DupsAccounted, FdsAfterClose, TypeOK
    <3> QED
      BY <3>4, <3>5
  <2>7. NoTarget \notin Target
    BY TargetAssumption DEF Target
  <2>8. TypeOK'
    BY <1>0, <2>1, <2>2, <2>5, <2>6, <2>7, SMTT(30) DEF TypeOK
  <2> QED
    BY <1>a, <2>1, <2>3, <2>4, <2>6, <2>8, SMTT(30) DEF RequestsAccounted, QueuedRequestsHaveThreads
<1> QED
  BY <1>1, <1>2, <1>3, <1>4, <1>5, <1>6, <1>7 DEF reaper_main

(* No step breaks the inductive invariant.                                 *)
LEMMA NextIInv == IInv /\ [Next]_vars => IInv'
<1> SUFFICES ASSUME IInv, [Next]_vars PROVE IInv'
  OBVIOUS
<1>1. ASSUME NEW p \in Proc, NEW fd \in {"dup", "none"}, async_kill(p, fd) PROVE IInv'
  BY <1>1, AsyncKillIInv
<1>2. ASSUME NEW p \in Proc, NEW synchronous \in BOOLEAN, NEW ok \in BOOLEAN,
             sync_kill(p, synchronous, ok)
      PROVE  IInv'
  <2>1. UNCHANGED <<pool, queue, active_requests, pc, target, fds, comm>>
    BY <1>2 DEF sync_kill
  <2>2. state' \in [Proc -> {"running", "dying", "dead"}]
    BY <1>2 DEF sync_kill, SignalOk, SignalFails, IInv, TypeOK
  <2>3. Busy' = Busy /\ Awake' = Awake
    BY <2>1 DEF Busy, Awake
  <2>4. TypeOK'
    BY <2>1, <2>2, <2>3 DEF IInv, TypeOK, thread_cnt
  <2> QED
    BY <2>1, <2>3, <2>4, QuietIInv
<1>3. CASE read_comm
  <2>1. Busy' = Busy /\ Awake' = Awake
    BY <1>3 DEF read_comm, Busy, Awake
  <2>2. comm' \in Seq(Proc)
    BY <1>3 DEF read_comm, IInv, TypeOK
  <2>3. TypeOK'
    BY <1>3, <2>1, <2>2 DEF read_comm, IInv, TypeOK, thread_cnt
  <2> QED
    BY <1>3, <2>1, <2>3, QuietIInv DEF read_comm
<1>4. ASSUME NEW t \in pool, reaper_main(t) PROVE IInv'
  BY <1>4, ReaperMainIInv
<1>5. ASSUME NEW p \in Proc, Exit(p) PROVE IInv'
  <2>1. Busy' = Busy /\ Awake' = Awake
    BY <1>5 DEF Exit, Busy, Awake
  <2>2. TypeOK'
    BY <1>5, <2>1, SMTT(30) DEF Exit, IInv, TypeOK, thread_cnt
  <2> QED
    BY <1>5, <2>1, <2>2, QuietIInv DEF Exit
<1>6. CASE UNCHANGED vars
  <2>1. Busy' = Busy /\ Awake' = Awake
    BY <1>6 DEF vars, Busy, Awake
  <2>2. TypeOK'
    BY <1>6, <2>1 DEF vars, IInv, TypeOK, thread_cnt
  <2> QED
    BY <1>6, <2>1, <2>2, QuietIInv DEF vars
<1> QED
  BY <1>1, <1>2, <1>3, <1>4, <1>5, <1>6 DEF Next

(* The inductive invariant holds for every pool size, every number of      *)
(* processes and every pipe capacity.                                      *)
THEOREM ReaperInvariant == Spec => []IInv
<1>1. Init => IInv
  BY InitIInv
<1>2. IInv /\ [Next]_vars => IInv'
  BY NextIInv
<1> QED
  BY <1>1, <1>2, PTL DEF Spec

(* active_requests_ is the number of requests queued or in service.        *)
THEOREM AccountingCorrect == Spec => [](TypeOK /\ RequestsAccounted)
<1>1. IInv => TypeOK /\ RequestsAccounted
  BY DEF IInv
<1> QED
  BY <1>1, ReaperInvariant, PTL

(* async_kill never loses a wake-up: each queued request has an awake      *)
(* thread to take it.                                                      *)
THEOREM NoLostWakeup == Spec => []QueuedRequestsHaveThreads
<1>1. IInv => QueuedRequestsHaveThreads
  BY DEF IInv
<1> QED
  BY <1>1, ReaperInvariant, PTL

(* The pidfds async_kill duplicates are closed once each by reaper_main.   *)
THEOREM DupsClosedOnce == Spec => []DupsAccounted
<1>1. IInv => DupsAccounted
  BY DEF IInv
<1> QED
  BY <1>1, ReaperInvariant, PTL

-----------------------------------------------------------------------------
(* The requests for p that have not ended, queued and in service.          *)
QueuedFor(p) == {i \in DOMAIN queue : queue[i].pid = p}
ServedFor(p) == {t \in pool : pc[t] \in {"kill", "notify", "write"} /\ target[t].pid = p}

(* KillPool's pending.                                                     *)
Pending == [p \in Proc |-> Unended(p)]

(* They can be counted.                                                    *)
LEMMA UnendedCounts ==
  ASSUME TypeOK, NEW p \in Proc
  PROVE  /\ IsFiniteSet(QueuedFor(p)) /\ IsFiniteSet(ServedFor(p))
         /\ Cardinality(QueuedFor(p)) \in Nat /\ Cardinality(ServedFor(p)) \in Nat
         /\ Unended(p) = Cardinality(QueuedFor(p)) + Cardinality(ServedFor(p))
         /\ Pending[p] = Unended(p)
<1>1. Len(queue) \in Nat /\ DOMAIN queue = 1..Len(queue)
  BY DEF TypeOK
<1>2. IsFiniteSet(1..Len(queue)) /\ IsFiniteSet(pool)
  BY <1>1, FS_Interval, Partition
<1>3. QueuedFor(p) \subseteq 1..Len(queue) /\ ServedFor(p) \subseteq pool
  BY <1>1 DEF QueuedFor, ServedFor
<1>4. IsFiniteSet(QueuedFor(p)) /\ IsFiniteSet(ServedFor(p))
  BY <1>2, <1>3, FS_Subset, Zenon
<1>5. Cardinality(QueuedFor(p)) \in Nat /\ Cardinality(ServedFor(p)) \in Nat
  BY <1>4, FS_CardinalityType, Zenon
<1>6. Unended(p) = Cardinality(QueuedFor(p)) + Cardinality(ServedFor(p))
  BY Zenon DEF Unended, QueuedFor, ServedFor
<1>7. Pending[p] = Unended(p)
  BY Zenon DEF Pending
<1> QED
  BY <1>4, <1>5, <1>6, <1>7

(* A step that leaves the requests of every process alone.                 *)
LEMMA PendingSame ==
  ASSUME UNCHANGED queue, \A p \in Proc : ServedFor(p)' = ServedFor(p)
  PROVE  Pending' = Pending
<1>1. ASSUME NEW p \in Proc PROVE Unended(p)' = Unended(p)
  <2>1. QueuedFor(p)' = QueuedFor(p) /\ ServedFor(p)' = ServedFor(p)
    BY DEF QueuedFor
  <2>2. Unended(p) = Cardinality(QueuedFor(p)) + Cardinality(ServedFor(p))
    BY Zenon DEF Unended, QueuedFor, ServedFor
  <2>3. Unended(p)' = Cardinality(QueuedFor(p)') + Cardinality(ServedFor(p)')
    BY Zenon DEF Unended, QueuedFor, ServedFor
  <2> QED
    BY <2>1, <2>2, <2>3, Zenon
<1> QED
  BY <1>1, Zenon DEF Pending

(* A thread that is done with a request for p has ended it.                *)
LEMMA RequestEnds ==
  ASSUME IInv, IInv', NEW t \in pool, pc[t] \in {"kill", "write"},
         pc' = [pc EXCEPT ![t] = "done"], UNCHANGED <<pool, queue, target>>
  PROVE  LET p == target[t].pid
         IN  p \in Proc /\ Pending[p] > 0 /\ Pending' = [Pending EXCEPT ![p] = @ - 1]
<1>1. TypeOK /\ TypeOK' /\ t \in Thread
  BY DEF IInv, TypeOK
<1>a. target[t].pid \in Proc
  BY <1>1 DEF TypeOK, Busy, Target
<1>2. PICK p \in Proc : p = target[t].pid
  BY <1>a
<1>3. t \in ServedFor(p)
  BY <1>2 DEF ServedFor
<1>4. ServedFor(p)' = ServedFor(p) \ {t}
  <2>1. pc'[t] = "done" /\ \A u \in pool \ {t} : pc'[u] = pc[u]
    BY <1>1 DEF TypeOK
  <2> QED
    BY <2>1 DEF ServedFor
<1>5. \A q \in Proc \ {p} : ServedFor(q)' = ServedFor(q)
  BY <1>1, <1>3 DEF ServedFor, TypeOK
<1>6. \A q \in Proc : QueuedFor(q)' = QueuedFor(q)
  BY DEF QueuedFor
<1>7. Cardinality(ServedFor(p)') = Cardinality(ServedFor(p)) - 1
  <2>1. IsFiniteSet(ServedFor(p))
    BY <1>1, UnendedCounts, Zenon
  <2>2. Cardinality(ServedFor(p) \ {t}) = Cardinality(ServedFor(p)) - 1
    BY <1>3, <2>1, FS_RemoveElement, Zenon
  <2> QED
    BY <1>4, <2>2, Zenon
<1>8. /\ Cardinality(QueuedFor(p)) \in Nat /\ Cardinality(ServedFor(p)) \in Nat
      /\ Unended(p) = Cardinality(QueuedFor(p)) + Cardinality(ServedFor(p))
  BY <1>1, <1>2, UnendedCounts
<1>9. Cardinality(ServedFor(p)) # 0
  BY <1>1, <1>2, <1>3, UnendedCounts, FS_EmptySet
<1>10. \A q : Unended(q)' = Cardinality(QueuedFor(q)') + Cardinality(ServedFor(q)')
  BY Zenon DEF Unended, QueuedFor, ServedFor
<1>11. Unended(p) > 0 /\ Unended(p)' = Unended(p) - 1
  <2>1. Unended(p)' = Cardinality(QueuedFor(p)) + Cardinality(ServedFor(p)')
    BY <1>2, <1>6, <1>10, Zenon
  <2> QED
    BY <1>7, <1>8, <1>9, <2>1
<1>12. \A q \in Proc \ {p} : Unended(q)' = Unended(q)
  <2> SUFFICES ASSUME NEW q \in Proc \ {p} PROVE Unended(q)' = Unended(q)
    OBVIOUS
  <2>1. Unended(q) = Cardinality(QueuedFor(q)) + Cardinality(ServedFor(q))
    BY <1>1, UnendedCounts
  <2> QED
    BY <1>5, <1>6, <1>10, <2>1
<1>13. Pending[p] = Unended(p) /\ Pending' = [q \in Proc |-> Unended(q)']
  BY <1>2, Zenon DEF Pending
<1>14. Pending = [q \in Proc |-> Unended(q)]
  BY Zenon DEF Pending
<1>15. Pending' = [Pending EXCEPT ![p] = @ - 1]
  BY <1>2, <1>11, <1>12, <1>13, <1>14
<1> QED
  BY <1>2, <1>11, <1>13, <1>15, Zenon

(* Taking a request from the queue does not end it.                        *)
LEMMA DequeueKeeps ==
  ASSUME IInv, NEW t \in pool, dequeue_request(t)
  PROVE  Pending' = Pending
<1>1. /\ queue # <<>> /\ queue' = pop_back(queue)
      /\ target' = [target EXCEPT ![t] = back(queue)]
      /\ pc' = [pc EXCEPT ![t] = "kill"] /\ pc[t] = "dequeue" /\ UNCHANGED pool
  BY DEF dequeue_request
<1>2. TypeOK /\ t \in Thread /\ queue \in Seq(Target)
  BY DEF IInv, TypeOK
<1>3. /\ Len(queue) \in Nat \ {0} /\ back(queue) \in Target /\ back(queue) = queue[Len(queue)]
      /\ DOMAIN queue = 1..Len(queue) /\ DOMAIN queue' = 1..(Len(queue) - 1)
      /\ \A i \in 1..(Len(queue) - 1) : queue'[i] = queue[i]
  BY <1>1, <1>2, PopBack, Zenon
<1>4. PICK p \in Proc : p = back(queue).pid
  <2>1. back(queue).pid \in Proc
    BY <1>3 DEF Target
  <2> QED
    BY <2>1
<1>b. PICK n \in Nat \ {0} : n = Len(queue)
  BY <1>3, Zenon
<1>5. t \notin ServedFor(p) /\ n \in QueuedFor(p)
  BY <1>1, <1>3, <1>4, <1>b DEF ServedFor, QueuedFor
<1>6. ServedFor(p)' = ServedFor(p) \cup {t} /\ \A q \in Proc \ {p} : ServedFor(q)' = ServedFor(q)
  <2>1. pc'[t] = "kill" /\ target'[t].pid = p /\ t \in pool
    BY <1>1, <1>2, <1>4 DEF TypeOK
  <2>2. \A u \in pool \ {t} : pc'[u] = pc[u] /\ target'[u] = target[u]
    BY <1>1, <1>2 DEF TypeOK
  <2> QED
    BY <1>1, <2>1, <2>2 DEF ServedFor
<1>7. QueuedFor(p)' = QueuedFor(p) \ {n} /\ \A q \in Proc \ {p} : QueuedFor(q)' = QueuedFor(q)
  <2>1. /\ n \in Nat \ {0} /\ DOMAIN queue = 1..n /\ DOMAIN queue' = 1..(n - 1)
        /\ queue[n].pid = p /\ \A i \in 1..(n - 1) : queue'[i] = queue[i]
    BY <1>3, <1>4, <1>b
  <2>2. 1..(n - 1) = (1..n) \ {n}
    BY <2>1
  <2>3. \A q : QueuedFor(q)' = QueuedFor(q) \ {n}
    BY <2>1, <2>2, Zenon DEF QueuedFor
  <2>4. \A q \in Proc \ {p} : n \notin QueuedFor(q)
    BY <2>1 DEF QueuedFor
  <2> QED
    BY <2>3, <2>4, Zenon
<1>8. /\ IsFiniteSet(QueuedFor(p)) /\ IsFiniteSet(ServedFor(p))
      /\ Cardinality(QueuedFor(p)) \in Nat /\ Cardinality(ServedFor(p)) \in Nat
  BY <1>2, <1>4, UnendedCounts, Zenon
<1>9. Cardinality(ServedFor(p)') = Cardinality(ServedFor(p)) + 1
  BY <1>5, <1>6, <1>8, FS_AddElement, ZenonT(30)
<1>10. Cardinality(QueuedFor(p)') = Cardinality(QueuedFor(p)) - 1
  <2>1. Cardinality(QueuedFor(p) \ {n}) = Cardinality(QueuedFor(p)) - 1
    BY <1>5, <1>8, FS_RemoveElement, Zenon
  <2> QED
    BY <1>7, <2>1, Zenon
<1>11. ASSUME NEW q \in Proc PROVE Unended(q)' = Unended(q)
  <2>1. Unended(q) = Cardinality(QueuedFor(q)) + Cardinality(ServedFor(q))
    BY <1>2, UnendedCounts
  <2>2. Unended(q)' = Cardinality(QueuedFor(q)') + Cardinality(ServedFor(q)')
    BY Zenon DEF Unended, QueuedFor, ServedFor
  <2>3. CASE q = p
    <3>1. /\ Unended(q) = Cardinality(QueuedFor(p)) + Cardinality(ServedFor(p))
          /\ Unended(q)' = Cardinality(QueuedFor(p)') + Cardinality(ServedFor(p)')
      BY <2>1, <2>2, <2>3, Zenon
    <3> QED
      BY <1>8, <1>9, <1>10, <3>1
  <2>4. CASE q # p
    BY <1>6, <1>7, <2>1, <2>2, <2>4
  <2> QED
    BY <2>3, <2>4
<1> QED
  BY <1>11, Zenon DEF Pending

(* Accepting a request adds one.                                           *)
LEMMA AcceptAdds ==
  ASSUME IInv, NEW p \in Proc, NEW fd \in {"dup", "none"}, async_kill(p, fd)
  PROVE  Pending' = [Pending EXCEPT ![p] = @ + 1]
<1> DEFINE e == [pid |-> p, pidfd |-> fd]
<1>1. /\ NotifyOne /\ UNCHANGED <<pool, target>> /\ queue' = Append(queue, e)
  BY DEF async_kill
<1>2. TypeOK /\ queue \in Seq(Target) /\ Len(queue) \in Nat /\ pool \subseteq Thread
  BY DEF IInv, TypeOK
<1>3. /\ pc' \in [Thread -> {"absent", "dequeue", "wait", "kill", "notify", "write", "done"}]
      /\ \A t \in Thread : pc'[t] = pc[t] \/ (pc[t] = "wait" /\ pc'[t] = "dequeue")
  BY <1>1, <1>2, NotifyOneWakes
<1>4. \A q \in Proc : ServedFor(q)' = ServedFor(q)
  BY <1>1, <1>2, <1>3 DEF ServedFor
<1>5. e \in Target /\ e.pid = p
  BY DEF Target
<1> HIDE DEF e
<1>6. /\ DOMAIN queue = 1..Len(queue) /\ DOMAIN queue' = 1..(Len(queue) + 1)
      /\ queue'[Len(queue) + 1] = e /\ \A i \in 1..Len(queue) : queue'[i] = queue[i]
  BY <1>1, <1>2, <1>5
<1>7. /\ QueuedFor(p)' = QueuedFor(p) \cup {Len(queue) + 1} /\ Len(queue) + 1 \notin QueuedFor(p)
      /\ \A q \in Proc \ {p} : QueuedFor(q)' = QueuedFor(q)
  BY <1>2, <1>5, <1>6 DEF QueuedFor
<1>8. Cardinality(QueuedFor(p)') = Cardinality(QueuedFor(p)) + 1
  BY <1>2, <1>7, UnendedCounts, FS_AddElement, Zenon
<1>9. ASSUME NEW q \in Proc PROVE Unended(q)' = IF q = p THEN Unended(q) + 1 ELSE Unended(q)
  <2>1. /\ Unended(q) = Cardinality(QueuedFor(q)) + Cardinality(ServedFor(q))
        /\ Cardinality(QueuedFor(q)) \in Nat /\ Cardinality(ServedFor(q)) \in Nat
    BY <1>2, UnendedCounts
  <2>2. Unended(q)' = Cardinality(QueuedFor(q)') + Cardinality(ServedFor(q)')
    BY Zenon DEF Unended, QueuedFor, ServedFor
  <2>3. CASE q = p
    BY <1>4, <1>8, <2>1, <2>2, <2>3
  <2>4. CASE q # p
    BY <1>4, <1>7, <2>1, <2>2, <2>4
  <2> QED
    BY <2>3, <2>4
<1> QED
  BY <1>9, Zenon DEF Pending

(* One step of the reaper is a step of KillPool, or changes nothing of     *)
(* what KillPool promises.                                                 *)
LEMMA PoolStep ==
  ASSUME IInv, IInv', [Next]_vars
  PROVE  [Pool!Next]_(Pool!vars)
<1> DEFINE Stutter == Pending' = Pending /\ UNCHANGED <<comm, state>>
<1>a. ASSUME Stutter PROVE UNCHANGED Pool!vars
  BY <1>a DEF Pool!vars, Pending
<1>b. TypeOK /\ TypeOK'
  BY DEF IInv
<1>1. ASSUME NEW p \in Proc, NEW fd \in {"dup", "none"}, async_kill(p, fd)
      PROVE  Pool!Next
  <2>1. Pending' = [Pending EXCEPT ![p] = @ + 1] /\ UNCHANGED <<comm, state>>
    BY <1>1, AcceptAdds, Zenon DEF async_kill
  <2>2. Pool!Accept(p)
    BY <2>1, Zenon DEF Pool!Accept, Pending
  <2> QED
    BY <2>2 DEF Pool!Next
<1>2. ASSUME NEW p \in Proc, NEW synchronous \in BOOLEAN, NEW ok \in BOOLEAN,
             sync_kill(p, synchronous, ok)
      PROVE  Pool!Next \/ Stutter
  <2>1. UNCHANGED <<queue, pool, pc, target, comm>>
    BY <1>2 DEF sync_kill
  <2>2. \A q \in Proc : ServedFor(q)' = ServedFor(q)
    BY <2>1 DEF ServedFor
  <2>3. Pending' = Pending
    BY <2>1, <2>2, PendingSame
  <2>4. CASE ok
    <3>1. state' = [state EXCEPT ![p] = IF @ = "running" THEN "dying" ELSE @]
      BY <1>2, <2>4, Zenon DEF sync_kill, SignalOk
    <3>2. Pool!SignalNow(p)
      BY <2>1, <2>3, <3>1, Zenon DEF Pool!SignalNow, Pending
    <3> QED
      BY <3>2 DEF Pool!Next
  <2>5. CASE ~ok
    BY <1>2, <2>1, <2>3, <2>5 DEF sync_kill, SignalFails
  <2> QED
    BY <2>4, <2>5
<1>3. ASSUME read_comm PROVE Pool!Next
  <2>1. UNCHANGED <<queue, pool, pc, target, state>> /\ comm # <<>> /\ comm' = Tail(comm)
    BY <1>3 DEF read_comm
  <2>2. \A q \in Proc : ServedFor(q)' = ServedFor(q)
    BY <2>1 DEF ServedFor
  <2>3. Pending' = Pending
    BY <2>1, <2>2, PendingSame
  <2>4. Pool!Read
    BY <2>1, <2>3, Zenon DEF Pool!Read, Pending
  <2> QED
    BY <2>4 DEF Pool!Next
<1>4. ASSUME NEW t \in pool, reaper_main(t) PROVE Pool!Next \/ Stutter
  <2>0. /\ t \in Thread /\ target \in [Thread -> Target \cup {NoTarget}]
        /\ pc \in [Thread -> {"absent", "dequeue", "wait", "kill", "notify", "write", "done"}]
    BY <1>b DEF TypeOK
  <2>1. ASSUME \/ dequeue_wait(t) \/ spurious_wakeup(t) \/ send_signal_fails(t)
               \/ notify_kill_failure(t) \/ request_complete(t)
        PROVE  Stutter
    <3>1. UNCHANGED <<queue, pool, comm, state>>
      BY <2>1 DEF dequeue_wait, spurious_wakeup, send_signal_fails, notify_kill_failure,
                  request_complete, SignalFails
    <3>2. \A u \in pool \ {t} : pc'[u] = pc[u] /\ target'[u] = target[u]
      BY <2>0, <2>1, <1>b DEF TypeOK, dequeue_wait, spurious_wakeup, send_signal_fails,
                         notify_kill_failure, request_complete
    <3>3. \/ /\ pc[t] \in {"kill", "notify"} /\ pc'[t] \in {"notify", "write"}
             /\ target'[t] = target[t]
          \/ pc[t] \in {"dequeue", "wait", "done"} /\ pc'[t] \in {"dequeue", "wait"}
      BY <2>0, <2>1, SMTT(20) DEF dequeue_wait, spurious_wakeup, send_signal_fails,
                        notify_kill_failure, request_complete
    <3>4. \A q \in Proc : ServedFor(q)' = ServedFor(q)
      BY <3>1, <3>2, <3>3 DEF ServedFor
    <3> QED
      BY <3>1, <3>4, PendingSame
  <2>2. ASSUME dequeue_request(t) PROVE Stutter
    BY <2>2, DequeueKeeps, Zenon DEF dequeue_request
  <2>3. ASSUME send_signal(t) PROVE Pool!Next
    <3>1. /\ pc[t] = "kill" /\ pc' = [pc EXCEPT ![t] = "done"]
          /\ UNCHANGED <<pool, queue, target, comm>>
          /\ state' = [state EXCEPT ![target[t].pid] = IF @ = "running" THEN "dying" ELSE @]
      BY <2>3, Zenon DEF send_signal, SignalOk
    <3>2. /\ target[t].pid \in Proc /\ Pending[target[t].pid] > 0
          /\ Pending' = [Pending EXCEPT ![target[t].pid] = @ - 1]
      BY <3>1, RequestEnds, Zenon
    <3>3. PICK p \in Proc : p = target[t].pid
      BY <3>2
    <3>4. Pool!Deliver(p)
      BY <3>1, <3>2, <3>3, Zenon DEF Pool!Deliver, Pending
    <3> QED
      BY <3>4 DEF Pool!Next
  <2>4. ASSUME write_comm(t) PROVE Pool!Next
    <3>1. /\ pc[t] = "write" /\ pc' = [pc EXCEPT ![t] = "done"]
          /\ UNCHANGED <<pool, queue, target, state>>
          /\ comm' = Append(comm, target[t].pid)
      BY <2>4 DEF write_comm
    <3>2. /\ target[t].pid \in Proc /\ Pending[target[t].pid] > 0
          /\ Pending' = [Pending EXCEPT ![target[t].pid] = @ - 1]
      BY <3>1, RequestEnds, Zenon
    <3>3. PICK p \in Proc : p = target[t].pid
      BY <3>2
    <3>4. Pool!Report(p)
      BY <3>1, <3>2, <3>3, Zenon DEF Pool!Report, Pending
    <3> QED
      BY <3>4 DEF Pool!Next
  <2> QED
    BY <1>4, <2>1, <2>2, <2>3, <2>4 DEF reaper_main
<1>5. ASSUME NEW p \in Proc, Exit(p) PROVE Pool!Next
  <2>1. /\ UNCHANGED <<queue, pool, pc, target, comm>>
        /\ state[p] # "dead" /\ state' = [state EXCEPT ![p] = "dead"]
    BY <1>5 DEF Exit
  <2>2. \A q \in Proc : ServedFor(q)' = ServedFor(q)
    BY <2>1 DEF ServedFor
  <2>3. Pending' = Pending
    BY <2>1, <2>2, PendingSame
  <2>4. Pool!Exit(p)
    BY <2>1, <2>3, Zenon DEF Pool!Exit, Pending
  <2> QED
    BY <2>4 DEF Pool!Next
<1>6. ASSUME UNCHANGED vars PROVE Stutter
  <2>1. UNCHANGED <<queue, pool, pc, target, comm, state>>
    BY <1>6 DEF vars
  <2>2. \A q \in Proc : ServedFor(q)' = ServedFor(q)
    BY <2>1 DEF ServedFor
  <2> QED
    BY <2>1, <2>2, PendingSame
<1> HIDE DEF Stutter
<1> QED
  BY <1>a, <1>1, <1>2, <1>3, <1>4, <1>5, <1>6, Zenon DEF Next

(* The reaper implements KillPool, whatever the number of threads that     *)
(* were created and whatever the capacity of the pipe: every request that  *)
(* async_kill accepts ends exactly once, with SIGKILL delivered by         *)
(* reaper_main or with one report in the pipe from notify_kill_failure,    *)
(* and reports come from nowhere else.                                     *)
THEOREM ReaperImplementsKillPool == Spec => ImplementsKillPool
<1>1. ASSUME Init PROVE Pool!Init
  <2>1. queue = <<>> /\ comm = <<>> /\ state = [p \in Proc |-> "running"]
    BY <1>1 DEF Init
  <2>2. \A t \in pool : pc[t] \in {"dequeue", "absent"}
    BY <1>1 DEF Init
  <2>3. ASSUME NEW p \in Proc PROVE Unended(p) = 0
    <3>1. QueuedFor(p) = {} /\ ServedFor(p) = {}
      BY <2>1, <2>2 DEF QueuedFor, ServedFor
    <3>2. Unended(p) = Cardinality(QueuedFor(p)) + Cardinality(ServedFor(p))
      BY Zenon DEF Unended, QueuedFor, ServedFor
    <3> QED
      BY <3>1, <3>2, FS_EmptySet
  <2> QED
    BY <2>1, <2>3, Zenon DEF Pool!Init
<1>2. Spec => []IInv
  BY ReaperInvariant
<1>3. IInv /\ IInv' /\ [Next]_vars => [Pool!Next]_(Pool!vars)
  BY PoolStep
<1> QED
  BY <1>1, <1>2, <1>3, PTL DEF Spec, ImplementsKillPool, Pool!Spec
=============================================================================
