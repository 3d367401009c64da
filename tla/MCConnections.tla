---------------------------- MODULE MCConnections ---------------------------
(* Model checking instance of Connections: a client with two connections   *)
(* and one with one.                                                       *)
EXTENDS Connections, TLC

CONSTANTS c1, c2, c3, a, b

Symmetry == Permutations({c1, c2})
MCOwner == [c \in Conn |-> IF c = c3 THEN b ELSE a]
=============================================================================
