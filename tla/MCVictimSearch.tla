--------------------------- MODULE MCVictimSearch ---------------------------
(* Model checking instance of VictimSearch: one level where the least      *)
(* recently used process is chosen and one where the heaviest is; a        *)
(* process smaller than a page, and two larger ones of which the heavier   *)
(* is preferred.                                                           *)
EXTENDS VictimSearch, TLC

CONSTANTS small, app, game

MCSize == [p \in Proc |-> IF p = small THEN 0 ELSE IF p = app THEN 1 ELSE 2]
=============================================================================
