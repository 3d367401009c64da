----------------------------- MODULE MCKillLoop -----------------------------
(* Model checking instance of KillLoop.                                    *)
EXTENDS KillLoop, TLC

Symmetry == Permutations(Proc)
=============================================================================
