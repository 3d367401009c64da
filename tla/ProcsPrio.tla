----------------------------- MODULE ProcsPrio -----------------------------
(***************************************************************************)
(* LMK_PROCS_PRIO: a client registers a batch of processes.  With io_uring *)
(* the status of all of them is read, then all scores are written, each    *)
(* time as asynchronous requests whose completions arrive in any order;    *)
(* without it apply_proc_prio is called for one after the other.  The      *)
(* registry is the one of Records.tla, which ProcRegistry.tla implements.  *)
(*                                                                         *)
(* Processes die at any time.  The ring is a set of requests in flight and *)
(* a queue of completions: io_uring_wait_cqe returns the first of them,    *)
(* and returns it again until io_uring_cqe_seen.                           *)
(***************************************************************************)
EXTENDS Integers, FiniteSets, Sequences, Functions

CONSTANTS Task, Leader,    \* processes and threads; the thread group leaders
          Client, Adj, Nobody, NULL,
          Batches,         \* the requests: sequences of [pid, oomadj, valid]
          RingEntries,     \* PROCS_PRIO_MAX_RECORD_COUNT
          InitialAdj       \* oom_score_adj of a process that was never prioritized

ASSUME TaskAssumption == Leader \subseteq Task /\ InitialAdj \in Adj
ASSUME BatchAssumption ==
  /\ Batches \subseteq Seq([pid : Task, oomadj : Adj, valid : BOOLEAN])
  /\ RingEntries \in Nat

VARIABLES
  alive, kernel_adj,     \* the processes, and their scores in the kernel
  reg_pid, slots,        \* of Records
  isIoUringSupported,
  b                      \* the command being handled, or the last one

registry == <<reg_pid, slots>>
vars == <<alive, kernel_adj, registry, isIoUringSupported, b>>

Registry == INSTANCE Records WITH Pid <- Task

(* fds: what each descriptor of the array is open on, if anything.  left:  *)
(* iterations to go; inflight, cq: the ring.  For the properties, failed:  *)
(* a completion with an error was seen; skipped: the command was given up; *)
(* done: the processes it registered; leaked: descriptors it left open.    *)
NoCommand == [step |-> "idle", client |-> Nobody, procs |-> <<>>, fds |-> <<>>, left |-> 0,
              inflight |-> {}, cq |-> <<>>, failed |-> FALSE, skipped |-> FALSE,
              done |-> {}, leaked |-> 0]

Init ==
  /\ alive = Task /\ kernel_adj = [t \in Task |-> InitialAdj]
  /\ Registry!Init
  /\ isIoUringSupported \in BOOLEAN
  /\ b = NoCommand

At(step) == b.step = step
Indices == DOMAIN b.procs
Open == {i \in Indices : b.fds[i] # NULL}

-----------------------------------------------------------------------------
cmd_procs_prio(c, procs) ==
  /\ At("idle")
  /\ b' = [NoCommand EXCEPT !.client = c, !.procs = procs, !.left = Len(procs),
                            !.fds = [i \in DOMAIN procs |-> NULL],
                            !.step = IF isIoUringSupported THEN "open" ELSE "apply"]
  /\ UNCHANGED <<alive, kernel_adj, registry, isIoUringSupported>>

(* Mutant: a record that is known keeps its score.                         *)
register_oom_adj_proc_once(r) ==
  IF reg_pid[r.pid] = NULL /\ r.pid \in alive
  THEN Registry!Prioritize(b.client, r.pid, r.oomadj) ELSE UNCHANGED registry

(* register_oom_adj_proc: a new record needs a pidfd, a known one must be  *)
(* the client's to change.                                                 *)
register_oom_adj_proc(r) ==
  LET ok == IF reg_pid[r.pid] = NULL THEN r.pid \in alive ELSE Registry!MayChange(b.client, r.pid)
  IN  IF ok THEN Registry!Prioritize(b.client, r.pid, r.oomadj) ELSE UNCHANGED registry

(* Mutant: the first buffer is written for all.                            *)
Written_first(r) == kernel_adj' = [kernel_adj EXCEPT ![r.pid] = b.procs[1].oomadj]

(* The score is written to oom_score_adj.                                  *)
Written(r) == kernel_adj' = [kernel_adj EXCEPT ![r.pid] = r.oomadj]

(* Without io_uring: apply_proc_prio for one process after the other.      *)
apply_proc_prio ==
  LET r == b.procs[Len(b.procs) - b.left + 1]
      rest == [b EXCEPT !.left = @ - 1, !.step = IF b.left = 1 THEN "idle" ELSE @]
  IN  /\ At("apply") /\ b.left > 0
      /\ IF r.valid /\ r.pid \in alive \cap Leader
         THEN /\ Written(r) /\ register_oom_adj_proc(r)
              /\ b' = [rest EXCEPT !.done = @ \cup {r.pid}]
         ELSE b' = rest /\ UNCHANGED <<kernel_adj, registry>>
      /\ UNCHANGED <<alive, isIoUringSupported>>

-----------------------------------------------------------------------------
(* The label err closes every descriptor, and the ring drops its requests. *)
GiveUp == [b EXCEPT !.step = "idle", !.fds = [i \in Indices |-> NULL], !.left = 0,
                    !.inflight = {}, !.cq = <<>>, !.skipped = TRUE]

(* The requests that find an entry in the ring; the others are closed.     *)
Requests(S) == {i \in S : Cardinality({j \in S : j < i}) < RingEntries}

(* Mutant: the loop waits for a completion of every record.                *)
Submitted_counts_all(kind, fds) ==
  LET R == Requests({i \in Indices : fds[i] # NULL})
  IN  [b EXCEPT !.step = kind, !.left = Len(b.procs),
                !.fds = [i \in Indices |-> IF i \in R THEN fds[i] ELSE NULL],
                !.inflight = @ \cup {[kind |-> kind, at |-> i] : i \in R}]

(* Requests of a kind for the descriptors fds are submitted, or given up.  *)
Submitted(kind, fds) ==
  LET R == Requests({i \in Indices : fds[i] # NULL})
  IN  [b EXCEPT !.step = kind, !.left = Cardinality(R),
                !.fds = [i \in Indices |-> IF i \in R THEN fds[i] ELSE NULL],
                !.inflight = @ \cup {[kind |-> kind, at |-> i] : i \in R}]

(* The status files of the processes with valid arguments are opened, and  *)
(* their reads submitted.                                                  *)
open_status ==
  LET next == Submitted("read", [i \in Indices |->
                IF b.procs[i].valid /\ b.procs[i].pid \in alive THEN "status" ELSE NULL])
  IN  /\ At("open")
      /\ \/ next.left > 0 /\ b' = next
         \/ b' = GiveUp
      /\ UNCHANGED <<alive, kernel_adj, registry, isIoUringSupported>>

(* The kernel accepts a write to oom_score_adj; a status file is open for  *)
(* reading only.                                                           *)
WriteAllowed(i) == b.fds[i] = "oom_score_adj" /\ b.procs[i].pid \in alive

(* The kernel completes a request, with an error if the process has died.  *)
completes(q) ==
  LET ok == IF q.kind = "read" THEN b.procs[q.at].pid \in alive ELSE WriteAllowed(q.at)
  IN  /\ q \in b.inflight
      /\ b' = [b EXCEPT !.inflight = @ \ {q}, !.cq = Append(@, [at |-> q.at, ok |-> ok])]
      /\ IF ok /\ q.kind = "write" THEN Written(b.procs[q.at]) ELSE UNCHANGED kernel_adj
      /\ UNCHANGED <<alive, registry, isIoUringSupported>>

(* Completion loop: an error is skipped over, and stays the first one.     *)
Skipped == [b EXCEPT !.left = @ - 1, !.failed = TRUE]

(* A completion that succeeded is taken off the queue; its descriptor is   *)
(* closed and replaced by fd.                                              *)
Seen(fd) == [b EXCEPT !.left = @ - 1, !.cq = Tail(@), !.fds[Head(b.cq).at] = fd]

read_completion ==
  /\ At("read") /\ b.left > 0 /\ b.cq # <<>>
  /\ LET pid == b.procs[Head(b.cq).at].pid
     IN  b' = IF ~Head(b.cq).ok THEN Skipped
              ELSE Seen(IF pid \in alive \cap Leader THEN "oom_score_adj" ELSE NULL)
  /\ UNCHANGED <<alive, kernel_adj, registry, isIoUringSupported>>

(* All descriptors that are open now are written to.                       *)
submit_writes ==
  LET next == Submitted("write", b.fds)
  IN  /\ At("read") /\ b.left = 0
      /\ next.left > 0 /\ b' = next
      /\ UNCHANGED <<alive, kernel_adj, registry, isIoUringSupported>>

(* No descriptor is left to write to, or io_uring_submit does not take all *)
(* the requests; those it took may have been carried out, in any order.    *)
submit_writes_fails ==
  /\ At("read") /\ b.left = 0
  /\ \E taken \in SUBSET Open :
       LET Took(t) == {i \in taken : WriteAllowed(i) /\ b.procs[i].pid = t}
       IN  kernel_adj' \in {k \in [Task -> Adj] : \A t \in Task :
                              IF Took(t) = {} THEN k[t] = kernel_adj[t]
                              ELSE \E i \in Took(t) : k[t] = b.procs[i].oomadj}
  /\ b' = GiveUp
  /\ UNCHANGED <<alive, registry, isIoUringSupported>>

write_completion ==
  /\ At("write") /\ b.left > 0 /\ b.cq # <<>>
  /\ LET r == b.procs[Head(b.cq).at]
     IN  IF ~Head(b.cq).ok THEN b' = Skipped /\ UNCHANGED registry
         ELSE /\ register_oom_adj_proc(r)
              /\ b' = [Seen(NULL) EXCEPT !.done = @ \cup {r.pid}]
  /\ UNCHANGED <<alive, kernel_adj, isIoUringSupported>>

(* io_uring_wait_cqe returns an error.                                     *)
wait_cqe_fails ==
  /\ b.step \in {"read", "write"} /\ b.left > 0
  /\ b' = GiveUp
  /\ UNCHANGED <<alive, kernel_adj, registry, isIoUringSupported>>

(* The last lines before the label err: only the ring is cleaned up.       *)
queue_exit ==
  /\ At("write") /\ b.left = 0
  /\ b' = [b EXCEPT !.step = "idle", !.inflight = {}, !.cq = <<>>,
                  !.fds = [i \in Indices |-> NULL], !.leaked = Cardinality(Open)]
  /\ UNCHANGED <<alive, kernel_adj, registry, isIoUringSupported>>

process_dies(t) ==
  /\ t \in alive /\ alive' = alive \ {t}
  /\ UNCHANGED <<kernel_adj, registry, isIoUringSupported, b>>

-----------------------------------------------------------------------------
main_thread ==
  \/ apply_proc_prio \/ open_status \/ read_completion \/ submit_writes \/ submit_writes_fails
  \/ write_completion \/ queue_exit

Completions == \E q \in b.inflight : completes(q)

Next ==
  \/ \E c \in Client, procs \in Batches : cmd_procs_prio(c, procs)
  \/ main_thread \/ wait_cqe_fails
  \/ Completions
  \/ \E t \in Task : process_dies(t)

Spec == Init /\ [][Next]_vars

(* The main thread runs and the kernel completes the requests; that a wait *)
(* fails is not counted on.                                                *)
FairSpec == Spec /\ WF_vars(main_thread) /\ WF_vars(Completions)

-----------------------------------------------------------------------------
AdjOf(t) == CHOOSE a \in Adj : t \in Range(slots[a])
Finished == At("idle") /\ b.procs # <<>>

(* Records of the last command that name a live process, validly and once. *)
Served == {r \in Range(b.procs) :
             /\ r.valid /\ r.pid \in alive \cap Leader
             /\ Cardinality({i \in Indices : b.procs[i].pid = r.pid}) = 1}

(* Type invariant of the command in progress.                              *)
TypeOK ==
  /\ alive \subseteq Task /\ kernel_adj \in [Task -> Adj]
  /\ reg_pid \in [Task -> Client \cup {Nobody, NULL}]
  /\ b.step \in {"idle", "apply", "open", "read", "write"}
  /\ \A i \in Indices : b.fds[i] \in {NULL, "status", "oom_score_adj"}
  /\ b.left \in 0..Len(b.procs) /\ b.leaked \in 0..Len(b.procs)

(* A command in which no completion failed does for every process that is  *)
(* still alive what LMK_PROCPRIO would do: it is registered and, unless    *)
(* another client holds its record, with the requested score, whatever the *)
(* order of the completions; and it leaves no descriptor open.             *)
BatchApplied ==
  Finished /\ ~b.failed =>
    /\ b.leaked = 0
    /\ ~b.skipped =>
         \A r \in Served : /\ reg_pid[r.pid] # NULL
                           /\ reg_pid[r.pid] = b.client => AdjOf(r.pid) = r.oomadj

(* A process that the command went on to register has the requested score  *)
(* in the kernel, even if other requests of the command failed: a          *)
(* completion left over from a read is never taken for a write.  A thread  *)
(* that leads no group is neither registered nor given a score, also when  *)
(* a failed completion makes the second loop write to descriptors that the *)
(* first one left open.  No loop counts past its batch (the types).        *)
RegisteredWritten ==
  /\ TypeOK
  /\ \A r \in Served : r.pid \in b.done => kernel_adj[r.pid] = r.oomadj
  /\ \A t \in Task \ Leader : reg_pid[t] = NULL /\ kernel_adj[t] = InitialAdj

(* A command ends: no loop waits for a completion that does not come.      *)
CommandEnds == ~At("idle") ~> At("idle")

(* A process that dies does not keep the others of its batch from being    *)
(* registered ("might have been killed, skipping").                        *)
OthersRegistered ==
  Finished /\ ~b.skipped => \A r \in Served : reg_pid[r.pid] # NULL

(* A command closes all the descriptors it opened.                         *)
NothingLeaked == b.leaked = 0
=============================================================================
