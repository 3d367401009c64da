------------------------------- MODULE Records ------------------------------
(***************************************************************************)
(* What the process registry promises: each registered process is in the   *)
(* queue of exactly one oom_score_adj, most recently set first, and its    *)
(* record changes only on behalf of the client that claimed it, or of any  *)
(* client once that one is gone.  ProcRegistry.tla implements this         *)
(* specification with a hash table and intrusive lists.                    *)
(***************************************************************************)
EXTENDS Integers, Sequences

CONSTANTS Pid, Client, Adj,
          Nobody,    \* reg_pid of a record whose registrant is gone
          NULL       \* not registered

VARIABLES reg_pid,   \* [Pid -> Client, Nobody or NULL]
          slots      \* [Adj -> Seq(Pid)], most recently set first

vars == <<reg_pid, slots>>

Init == reg_pid = [p \in Pid |-> NULL] /\ slots = [a \in Adj |-> <<>>]

MayChange(c, p) == reg_pid[p] \in {c, Nobody}

Unslot(p) == [a \in Adj |-> SelectSeq(slots[a], LAMBDA q : q # p)]

(* A client gives p the value a, for the first time or again.              *)
Prioritize(c, p, a) ==
  /\ reg_pid[p] = NULL \/ MayChange(c, p)
  /\ reg_pid' = [reg_pid EXCEPT ![p] = c]
  /\ slots' = [Unslot(p) EXCEPT ![a] = <<p>> \o @]

(* A client removes p, or lmkd does when p was killed or is gone.          *)
Unregister(c, p) ==
  /\ MayChange(c, p)
  /\ reg_pid' = [reg_pid EXCEPT ![p] = NULL]
  /\ slots' = Unslot(p)

Drop(p) ==
  /\ reg_pid[p] # NULL
  /\ reg_pid' = [reg_pid EXCEPT ![p] = NULL]
  /\ slots' = Unslot(p)

(* A client is gone.                                                       *)
Unclaim(c) ==
  /\ reg_pid' = [p \in Pid |-> IF reg_pid[p] = c THEN Nobody ELSE reg_pid[p]]
  /\ UNCHANGED slots

Next == \/ \E c \in Client, p \in Pid : Unregister(c, p) \/ \E a \in Adj : Prioritize(c, p, a)
        \/ \E p \in Pid : Drop(p)
        \/ \E c \in Client : Unclaim(c)

Spec == Init /\ [][Next]_vars
=============================================================================
