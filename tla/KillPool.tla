------------------------------ MODULE KillPool ------------------------------
(***************************************************************************)
(* What the asynchronous half of Reaper::kill promises its caller, without *)
(* threads, queue, mutex or file descriptors: each accepted request ends   *)
(* exactly once, either with SIGKILL delivered to its process or with one  *)
(* failure report that the main thread can read, and failure reports come  *)
(* from nowhere else.  Reaper.tla implements this specification.           *)
(***************************************************************************)
EXTENDS Integers, Sequences

CONSTANT Proc        \* processes (one value per incarnation, as for pidfds)

VARIABLES pending,   \* [Proc -> Nat]: requests accepted and not yet ended
          reports,   \* failure reports the main thread has not read yet
          state      \* [Proc -> {"running", "dying", "dead"}]

vars == <<pending, reports, state>>

Init == /\ pending = [p \in Proc |-> 0]
        /\ reports = <<>>
        /\ state = [p \in Proc |-> "running"]

(* The caller is told that p "will be" killed ("we assume the kill will be *)
(* successful and if it fails we will be notified").                       *)
Accept(p) == /\ pending' = [pending EXCEPT ![p] = @ + 1]
             /\ UNCHANGED <<reports, state>>

(* A request ends with the signal delivered ...                            *)
Deliver(p) == /\ pending[p] > 0
              /\ pending' = [pending EXCEPT ![p] = @ - 1]
              /\ state' = [state EXCEPT ![p] = IF @ = "running" THEN "dying" ELSE @]
              /\ UNCHANGED reports

(* ... or with a report of the failure.                                    *)
Report(p) == /\ pending[p] > 0
             /\ pending' = [pending EXCEPT ![p] = @ - 1]
             /\ reports' = Append(reports, p)
             /\ UNCHANGED state

(* A synchronous kill that succeeds involves no request.                   *)
SignalNow(p) == /\ state' = [state EXCEPT ![p] = IF @ = "running" THEN "dying" ELSE @]
                /\ UNCHANGED <<pending, reports>>

Exit(p) == /\ state[p] # "dead"
           /\ state' = [state EXCEPT ![p] = "dead"]
           /\ UNCHANGED <<pending, reports>>

Read == /\ reports # <<>>
        /\ reports' = Tail(reports)
        /\ UNCHANGED <<pending, state>>

Next == \/ \E p \in Proc : Accept(p) \/ Deliver(p) \/ Report(p) \/ SignalNow(p) \/ Exit(p)
        \/ Read

Spec == Init /\ [][Next]_vars
=============================================================================
