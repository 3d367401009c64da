------------------------------- MODULE Reaper -------------------------------
(***************************************************************************)
(* The reaper: the pool of threads that deliver SIGKILL and reap the       *)
(* memory of the victims (reaper.cpp, reaper.h), and the pipe on which it  *)
(* tells the main thread that a kill failed (init_reaper in lmkd.cpp).     *)
(*                                                                         *)
(* A step is one critical section of mutex_, or one system call outside    *)
(* it.  mutex_ is held across a blocking call in one place only, the write *)
(* to the pipe, so "t holds mutex_" is pc[t] = "write".                    *)
(***************************************************************************)
EXTENDS Integers, Sequences, FiniteSets

CONSTANTS Proc,          \* processes; a pidfd names a process, not a reusable pid
          Thread,        \* the THREAD_POOL_SIZE threads init tries to create
          NoTarget,
          CommCapacity   \* failure reports that fit the pipe

ASSUME ThreadAssumption == IsFiniteSet(Thread)
ASSUME CommAssumption == CommCapacity \in Nat \ {0}
ASSUME TargetAssumption == NoTarget \notin [pid : Proc, pidfd : {"dup", "none"}]

VARIABLES
  pool,             \* threads that were created; thread_cnt_ = Cardinality(pool)
  queue,            \* queue_, the back is the last element
  active_requests,  \* active_requests_
  pc,               \* where each thread is in reaper_main
  target,           \* reaper_main's local target
  fds,              \* number of duplicated pidfds that are open
  comm,             \* pids in the pipe reaper_comm_fd
  state             \* what the kernel knows of the processes

vars == <<pool, queue, active_requests, pc, target, fds, comm, state>>

(* target_proc: pidfd is "none" when dup() failed.                         *)
Target == [pid : Proc, pidfd : {"dup", "none"}]

thread_cnt == Cardinality(pool)
MutexFree == \A t \in Thread : pc[t] # "write"
Waiting == {t \in pool : pc[t] = "wait"}

(* Reaper::init with comm_fd: pthread_create may fail for any thread, and  *)
(* with no thread at all init fails and every kill is synchronous.         *)
Init == /\ pool \in SUBSET Thread
        /\ queue = <<>>
        /\ active_requests = 0
        /\ pc = [t \in Thread |-> IF t \in pool THEN "dequeue" ELSE "absent"]
        /\ target = [t \in Thread |-> NoTarget]
        /\ fds = 0
        /\ comm = <<>>
        /\ state = [p \in Proc |-> "running"]

-----------------------------------------------------------------------------
(* The callers' side: Reaper::kill.                                        *)

(* Mutant: the wake-up is forgotten.                                       *)
NotifyOne_forgotten == UNCHANGED pc

(* cond_.notify_one()                                                      *)
NotifyOne ==
  IF Waiting = {} THEN UNCHANGED pc
                  ELSE \E t \in Waiting : pc' = [pc EXCEPT ![t] = "dequeue"]

(* async_kill's bound on the requests that are queued or in service.       *)
HasIdleThread == active_requests < thread_cnt

(* async_kill accepts the request; dup() of the pidfd may fail, which      *)
(* nobody checks here.                                                     *)
async_kill(p, fd) ==
  /\ pool # {}
  /\ MutexFree
  /\ HasIdleThread
  /\ active_requests' = active_requests + 1
  /\ queue' = Append(queue, [pid |-> p, pidfd |-> fd])
  /\ fds' = IF fd = "dup" THEN fds + 1 ELSE fds
  /\ NotifyOne
  /\ UNCHANGED <<pool, target, comm, state>>

(* async_kill returns false.                                               *)
async_kill_refuses == pool = {} \/ (MutexFree /\ ~HasIdleThread)

(* pidfd_send_signal(SIGKILL).  An exited process can be signalled until   *)
(* its parent has reaped it, so for a dead process either result is        *)
(* possible.                                                               *)
SignalOk(p) == state' = [state EXCEPT ![p] = IF @ = "running" THEN "dying" ELSE @]
SignalFails(p) == state[p] = "dead" /\ UNCHANGED state

(* The synchronous path: asked for by the watchdog, or because async_kill  *)
(* refused.  ok says whether kill returns 0.                               *)
sync_kill(p, synchronous, ok) ==
  /\ synchronous \/ async_kill_refuses
  /\ IF ok THEN SignalOk(p) ELSE SignalFails(p)
  /\ UNCHANGED <<pool, queue, active_requests, pc, target, fds, comm>>

(* read() in kill_fail_handler.                                            *)
read_comm ==
  /\ comm # <<>>
  /\ comm' = Tail(comm)
  /\ UNCHANGED <<pool, queue, active_requests, pc, target, fds, state>>

-----------------------------------------------------------------------------
(* The threads: reaper_main.                                               *)

(* dequeue_request finds the queue empty and waits on cond_.               *)
dequeue_wait(t) ==
  /\ pc[t] = "dequeue" /\ MutexFree
  /\ queue = <<>>
  /\ pc' = [pc EXCEPT ![t] = "wait"]
  /\ UNCHANGED <<pool, queue, active_requests, target, fds, comm, state>>

back(q) == q[Len(q)]
pop_back(q) == SubSeq(q, 1, Len(q) - 1)

(* dequeue_request takes the youngest request.                             *)
dequeue_request(t) ==
  /\ pc[t] = "dequeue" /\ MutexFree
  /\ queue # <<>>
  /\ target' = [target EXCEPT ![t] = back(queue)]
  /\ queue' = pop_back(queue)
  /\ pc' = [pc EXCEPT ![t] = "kill"]
  /\ UNCHANGED <<pool, active_requests, fds, comm, state>>

(* cond_.wait may return although nobody notified.                         *)
spurious_wakeup(t) ==
  /\ pc[t] = "wait"
  /\ pc' = [pc EXCEPT ![t] = "dequeue"]
  /\ UNCHANGED <<pool, queue, active_requests, target, fds, comm, state>>

(* pidfd_send_signal succeeds; set_process_group_and_prio and              *)
(* process_mrelease follow, which change nothing lmkd can see ("done").    *)
send_signal(t) ==
  /\ pc[t] = "kill"
  /\ target[t].pidfd = "dup"
  /\ SignalOk(target[t].pid)
  /\ pc' = [pc EXCEPT ![t] = "done"]
  /\ UNCHANGED <<pool, queue, active_requests, target, fds, comm>>

(* Mutant: the failed kill is not reported to the main thread.             *)
send_signal_fails_silently(t) ==
  /\ pc[t] = "kill"
  /\ target[t].pidfd = "dup" => state[target[t].pid] = "dead"
  /\ pc' = [pc EXCEPT ![t] = "done"]
  /\ UNCHANGED <<pool, queue, active_requests, target, fds, comm, state>>

(* pidfd_send_signal fails: on a dead process or on a descriptor dup() did *)
(* not produce.                                                            *)
send_signal_fails(t) ==
  /\ pc[t] = "kill"
  /\ IF target[t].pidfd = "dup" THEN SignalFails(target[t].pid) ELSE UNCHANGED state
  /\ pc' = [pc EXCEPT ![t] = "notify"]
  /\ UNCHANGED <<pool, queue, active_requests, target, fds, comm>>

(* notify_kill_failure takes mutex_ ...                                    *)
notify_kill_failure(t) ==
  /\ pc[t] = "notify" /\ MutexFree
  /\ pc' = [pc EXCEPT ![t] = "write"]
  /\ UNCHANGED <<pool, queue, active_requests, target, fds, comm, state>>

(* Mutant: the writer takes mutex_ once more, which it holds.              *)
write_comm_locks(t) ==
  /\ pc[t] = "write" /\ MutexFree
  /\ Len(comm) < CommCapacity
  /\ comm' = Append(comm, target[t].pid)
  /\ pc' = [pc EXCEPT ![t] = "done"]
  /\ UNCHANGED <<pool, queue, active_requests, target, fds, state>>

(* ... and writes under it; the write end of the pipe blocks when full.    *)
write_comm(t) ==
  /\ pc[t] = "write"
  /\ Len(comm) < CommCapacity
  /\ comm' = Append(comm, target[t].pid)
  /\ pc' = [pc EXCEPT ![t] = "done"]
  /\ UNCHANGED <<pool, queue, active_requests, target, fds, state>>

(* Mutants: request_complete is skipped; the pidfd is not closed.          *)
RequestsAfter_skipped == active_requests
FdsAfterClose_leak(g) == fds

(* request_complete, and close(target.pidfd).                              *)
RequestsAfter == active_requests - 1
FdsAfterClose(g) == IF g.pidfd = "dup" THEN fds - 1 ELSE fds

(* The label done: close the pidfd, then request_complete.                 *)
request_complete(t) ==
  /\ pc[t] = "done" /\ MutexFree
  /\ fds' = FdsAfterClose(target[t])
  /\ active_requests' = RequestsAfter
  /\ target' = [target EXCEPT ![t] = NoTarget]
  /\ pc' = [pc EXCEPT ![t] = "dequeue"]
  /\ UNCHANGED <<pool, queue, comm, state>>

reaper_main(t) ==
  \/ dequeue_wait(t) \/ dequeue_request(t) \/ spurious_wakeup(t)
  \/ send_signal(t) \/ send_signal_fails(t)
  \/ notify_kill_failure(t) \/ write_comm(t) \/ request_complete(t)

(* A process ends, killed or on its own.                                   *)
Exit(p) ==
  /\ state[p] # "dead"
  /\ state' = [state EXCEPT ![p] = "dead"]
  /\ UNCHANGED <<pool, queue, active_requests, pc, target, fds, comm>>

-----------------------------------------------------------------------------
(* The reaper under any caller: every interleaving of kill requests, reads *)
(* of the pipe, thread steps and process exits.                            *)
Next ==
  \/ \E p \in Proc, fd \in {"dup", "none"} : async_kill(p, fd)
  \/ \E p \in Proc, synchronous, ok \in BOOLEAN : sync_kill(p, synchronous, ok)
  \/ read_comm
  \/ \E t \in pool : reaper_main(t)
  \/ \E p \in Proc : Exit(p)

Spec == Init /\ [][Next]_vars

(* Threads run; a thread blocked on mutex_ or in cond_.wait is not         *)
(* scheduled until it can proceed.  Nothing is assumed of callers, of      *)
(* spurious wake-ups, of the processes, or of the main loop reading the    *)
(* pipe: it may itself be blocked on mutex_ in async_kill.                 *)
Fairness ==
  \A t \in Thread :
    WF_vars(/\ t \in pool
            /\ \/ dequeue_wait(t) \/ dequeue_request(t)
               \/ send_signal(t) \/ send_signal_fails(t)
               \/ notify_kill_failure(t) \/ write_comm(t) \/ request_complete(t))

FairSpec == Spec /\ Fairness

-----------------------------------------------------------------------------
Busy == {t \in pool : pc[t] \in {"kill", "notify", "write", "done"}}
Awake == {t \in pool : pc[t] = "dequeue"}

(* Type invariant of the reaper's state: a thread has a target exactly     *)
(* while it serves a request, at most one thread is in the pipe write      *)
(* under mutex_, and active_requests_ stays between 0 and thread_cnt_.     *)
TypeOK ==
  /\ pool \subseteq Thread
  /\ queue \in Seq(Target)
  /\ active_requests \in 0..thread_cnt
  /\ pc \in [Thread -> {"absent", "dequeue", "wait", "kill", "notify", "write", "done"}]
  /\ \A t \in Thread : pc[t] = "absent" <=> t \notin pool
  /\ target \in [Thread -> Target \cup {NoTarget}]
  /\ \A t \in Thread : target[t] \in Target <=> t \in Busy
  /\ \A t, u \in Thread : pc[t] = "write" /\ pc[u] = "write" => t = u
  /\ fds \in Nat
  /\ comm \in Seq(Proc)
  /\ state \in [Proc -> {"running", "dying", "dead"}]

(* active_requests_, which async_kill uses to decide whether a thread is   *)
(* available, always equals the requests in queue_ plus the requests being *)
(* served, whatever path reaper_main took (killed, failed, dup failed).    *)
RequestsAccounted == active_requests = Len(queue) + Cardinality(Busy)

(* No lost wake-up: for every request in queue_ there is a thread of its   *)
(* own that is awake and on its way to dequeue_request, so no request      *)
(* waits behind another one's process_mrelease.                            *)
QueuedRequestsHaveThreads == Len(queue) <= Cardinality(Awake)

QueuedDups == {i \in DOMAIN queue : queue[i].pidfd = "dup"}
ServedDups == {t \in Busy : target[t].pidfd = "dup"}

(* Every pidfd duplicated by async_kill is owned by exactly one request,   *)
(* queued or in service: none is leaked and none is closed twice, on the   *)
(* success path and on both failure paths of reaper_main.                  *)
DupsAccounted == fds = Cardinality(QueuedDups) + Cardinality(ServedDups)

(* Requests that neither signalled their process nor reported a failure.   *)
Unended(p) ==
  Cardinality({i \in DOMAIN queue : queue[i].pid = p})
  + Cardinality({t \in pool : pc[t] \in {"kill", "notify", "write"} /\ target[t].pid = p})

Pool == INSTANCE KillPool WITH pending <- [p \in Proc |-> Unended(p)], reports <- comm

(* The reaper implements KillPool: every request async_kill accepts ends   *)
(* exactly once, with SIGKILL delivered or with one report in the pipe.    *)
ImplementsKillPool == Pool!Spec

(* A pool that refuses requests because all threads are taken accepts      *)
(* again without help of the main thread: reaper_main never wedges,        *)
(* whatever fails and whichever thread holds mutex_, unless a thread has   *)
(* a report to write to a pipe that is full.                               *)
PoolRecovers ==
  (pool # {} /\ ~HasIdleThread)
    ~> (HasIdleThread \/ (Len(comm) = CommCapacity /\ \E t \in pool : pc[t] = "write"))
=============================================================================
