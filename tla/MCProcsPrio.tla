----------------------------- MODULE MCProcsPrio ----------------------------
(* Model checking instance of ProcsPrio.                                   *)
EXTENDS ProcsPrio

(* Two records of two processes and a thread, one of them not valid.       *)
MCBatches ==
  LET Rec(p, a, v) == [pid |-> p, oomadj |-> a, valid |-> v]
      p == CHOOSE t \in Leader : TRUE
      q == CHOOSE t \in Leader \ {p} : TRUE
      t == CHOOSE u \in Task \ Leader : TRUE
  IN  {<<Rec(p, 1, TRUE), Rec(q, 0, TRUE)>>,
       <<Rec(t, 1, TRUE), Rec(q, 1, TRUE)>>,
       <<Rec(p, 0, TRUE), Rec(q, 1, FALSE)>>}
=============================================================================
