----------------------------- MODULE MCListener -----------------------------
(* Model checking instance of Listener: all psi levels, no super critical  *)
(* level, and vmpressure.  lmkd.rc does not tell the first value from the  *)
(* third.                                                                  *)
EXTENDS Listener

MCProps == {[use_psi |-> TRUE, stall |-> {MEDIUM, CRITICAL, SUPER_CRITICAL}, direct_reclaim |-> TRUE],
            [use_psi |-> TRUE, stall |-> {MEDIUM, CRITICAL}, direct_reclaim |-> FALSE],
            [use_psi |-> FALSE, stall |-> {MEDIUM, CRITICAL}, direct_reclaim |-> TRUE]}
=============================================================================
