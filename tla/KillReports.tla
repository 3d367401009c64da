----------------------------- MODULE KillReports ----------------------------
(***************************************************************************)
(* What lmkd tells of kills, in both of its modes: it kills and counts     *)
(* itself (KillCount), or passes on what the in-kernel killer reports      *)
(* (KernelReports).  init chooses the mode, and here it stays: where it    *)
(* changes with LMK_UPDATE_PROPS, each part goes on from where it is.      *)
(***************************************************************************)
EXTENDS KillCount, Sequences

CONSTANTS Pid, Name, PathMax, HashSize, MaxReports

ASSUME ReportsAssumption ==
  /\ Pid \subseteq Nat /\ HashSize \in Nat \ {0} /\ PathMax \in Nat \ {0}
  /\ MaxReports \in Nat
  /\ Name \subseteq Seq(STRING) /\ NULL \notin Seq(STRING) \cup Pid

VARIABLES use_inkernel_interface,
          kpoll_open, enable_stats_log, pidhash, cmdline, reports, handler,
          registered, untold

Kernel == INSTANCE KernelReports

kvars == <<kpoll_open, enable_stats_log, pidhash, cmdline, reports, handler,
           registered, untold>>

(* The report file and the names play no part when lmkd kills itself.      *)
ReportsInit ==
  /\ Init /\ Kernel!Init /\ use_inkernel_interface \in BOOLEAN
  /\ use_inkernel_interface \/ (~kpoll_open /\ ~enable_stats_log)

ReportsNext ==
  \/ ~use_inkernel_interface /\ Next /\ UNCHANGED <<use_inkernel_interface, kvars>>
  \/ use_inkernel_interface /\ Kernel!Next /\ UNCHANGED <<use_inkernel_interface, vars>>

ReportsSpec == ReportsInit /\ [][ReportsNext]_<<use_inkernel_interface, vars, kvars>>

-----------------------------------------------------------------------------
(* In-kernel mode: the table of names is a map from pids to names, after   *)
(* any sequence of registrations, renames, removals and purges.            *)
TableIsMap == Kernel!TableIsMap

(* In-kernel mode: each reported death of a leader is passed on once, and  *)
(* LMK_PROCREMOVE costs no kill that came before it its name.              *)
ReportsNamed == Kernel!ReportsNamed

(* In-kernel mode: a report carries the name of the process killed.        *)
NamesTruthful == Kernel!NamesTruthful
=============================================================================
