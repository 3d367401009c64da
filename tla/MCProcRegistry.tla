--------------------------- MODULE MCProcRegistry ---------------------------
(* Model checking instance of ProcRegistry: two of the processes share a   *)
(* hash bucket.                                                            *)
EXTENDS ProcRegistry, TLC

MCHash == LET q == CHOOSE p \in Pid : TRUE IN [p \in Pid |-> IF p = q THEN 0 ELSE 1]

Symmetry == Permutations(Client)
=============================================================================
