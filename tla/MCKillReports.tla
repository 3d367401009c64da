---------------------------- MODULE MCKillReports ---------------------------
(* Model checking instance of KillReports.  KillCount: more levels than    *)
(* counters, more kills than a counter holds, a level below 0 to ask for.  *)
(* KernelReports: two pids in one chain of two; one name is cut at its     *)
(* space, one at the end of the buffer.                                    *)
EXTENDS KillReports

MCAdjMin == -1
MCName == {<<"a", " ">>, <<"b", "b", "b">>}
=============================================================================
