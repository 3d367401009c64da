---------------------------- MODULE KernelReports ---------------------------
(***************************************************************************)
(* Kills by the in-kernel low memory killer (use_inkernel_interface).      *)
(* lmkd kills nothing then: it keeps the names of the registered processes *)
(* in a hash table of statslog.cpp, reads the kernel's kill reports from   *)
(* /proc/lowmemorykiller (poll_kernel) and passes them on.  The kernel     *)
(* kills, and processes come and go, between any two steps of lmkd.        *)
(***************************************************************************)
EXTENDS Integers, Sequences, FiniteSets

CONSTANTS Pid,           \* process ids, naturals
          Name,          \* command lines, sequences of characters
          PathMax,       \* PROCFS_PATH_MAX, the buffer the name is read into
          HashSize,      \* PIDHASH_SZ
          MaxReports,    \* bound on the reports the kernel holds
          NULL

VARIABLES kpoll_open,        \* kpoll_fd # -1
          enable_stats_log,  \* ro.lmk.log_stats
          pidhash,           \* the chains of [pid, taskname], newest first
          cmdline,           \* [Pid -> its command line, <<>> of a zombie, NULL of no process]
          reports,           \* the reports the kernel holds, oldest first
          handler,           \* [op, pid, told]: the handler lmkd is in, the kill it told last
          registered,        \* [Pid -> the name last stored, or NULL]
          untold             \* [Pid -> Int]: reported deaths of leaders less the ones told

rvars == <<kpoll_open, enable_stats_log, pidhash, cmdline, reports, handler,
           registered, untold>>

setup == <<kpoll_open, enable_stats_log>>

In(op, p) == [op |-> op, pid |-> p, told |-> NULL]

Idle == In("idle", NULL)

(* init: the report file may fail to open.                                 *)
Init ==
  /\ kpoll_open \in BOOLEAN /\ enable_stats_log \in BOOLEAN
  /\ pidhash = [h \in 0..(HashSize - 1) |-> <<>>]
  /\ cmdline = [p \in Pid |-> NULL] /\ reports = <<>> /\ handler = Idle
  /\ registered = [p \in Pid |-> NULL] /\ untold = [p \in Pid |-> 0]

-----------------------------------------------------------------------------
(* The table of names.                                                     *)
pid_hashfn(p) == p % HashSize

(* The first entry of the chain that is p's, or 0.                         *)
Position(p) ==
  LET chain == pidhash[pid_hashfn(p)]
      mine == {i \in 1..Len(chain) : chain[i].pid = p}
  IN  IF mine = {} THEN 0 ELSE CHOOSE i \in mine : \A j \in mine : i <= j

stats_get_task_name(p) ==
  IF Position(p) = 0 THEN NULL ELSE pidhash[pid_hashfn(p)][Position(p)].taskname

(* The chain of p without p's first entry.                                 *)
Without(p) ==
  LET chain == pidhash[pid_hashfn(p)]
      i == Position(p)
  IN  IF i = 0 THEN chain ELSE SubSeq(chain, 1, i - 1) \o SubSeq(chain, i + 1, Len(chain))

stats_remove_taskname(p) == pidhash' = [pidhash EXCEPT ![pid_hashfn(p)] = Without(p)]

(* Mutant: a changed name is stored without removing the old one.          *)
Others_all(p) == pidhash[pid_hashfn(p)]

(* stats_store_taskname removes the old entry before it adds the new one.  *)
Others(p) == Without(p)

stats_store_taskname(p, n) ==
  pidhash' = IF stats_get_task_name(p) = n THEN pidhash
             ELSE [pidhash EXCEPT ![pid_hashfn(p)] =
                     <<[pid |-> p, taskname |-> n]>> \o Others(p)]

(* What fits the buffer, up to the first space; empty for a zombie.        *)
proc_get_name(p) ==
  LET fits == {k \in 0..Len(cmdline[p]) :
                 k < PathMax /\ \A i \in 1..k : cmdline[p][i] # " "}
  IN  SubSeq(cmdline[p], 1, CHOOSE k \in fits : \A j \in fits : j <= k)

-----------------------------------------------------------------------------
(* Processes and the kernel.                                               *)
start(p) ==
  /\ cmdline[p] = NULL
  /\ \E n \in Name : cmdline' = [cmdline EXCEPT ![p] = n]
  /\ UNCHANGED <<setup, pidhash, reports, handler, registered, untold>>

reap(p) ==
  /\ cmdline[p] = <<>>
  /\ cmdline' = [cmdline EXCEPT ![p] = NULL]
  /\ UNCHANGED <<setup, pidhash, reports, handler, registered, untold>>

(* The driver kills p and holds a report.  The report may be of a thread   *)
(* other than the leader, or lack a field.  known: does lmkd have p's name *)
(* (it is not being asked to forget it), or another one, or none.          *)
lowmem_kill(p) ==
  /\ cmdline[p] \notin {NULL, <<>>}
  /\ Len(reports) < MaxReports
  /\ \E of \in {"leader", "thread", "incomplete"} :
       /\ reports' = Append(reports,
            [pid |-> p, of |-> of,
             known |-> IF registered[p] = NULL \/ handler.pid = p THEN "not"
                       ELSE IF registered[p] = proc_get_name(p) THEN "own" ELSE "other"])
       /\ untold' = IF of = "leader" THEN [untold EXCEPT ![p] = @ + 1] ELSE untold
  /\ cmdline' = [cmdline EXCEPT ![p] = <<>>]
  /\ UNCHANGED <<setup, pidhash, handler, registered>>

-----------------------------------------------------------------------------
(* lmkd, a single thread.  apply_proc_prio (and LMK_PROCS_PRIO) of a       *)
(* process that exists and whose name can be read.                         *)
apply_proc_prio(p) ==
  /\ handler = Idle /\ cmdline[p] # NULL /\ enable_stats_log
  /\ stats_store_taskname(p, proc_get_name(p))
  /\ registered' = [registered EXCEPT ![p] = proc_get_name(p)]
  /\ reports' = [i \in DOMAIN reports |->
                   IF /\ reports[i].pid = p /\ reports[i].known = "own"
                      /\ registered[p] # proc_get_name(p)
                   THEN [reports[i] EXCEPT !.known = "other"] ELSE reports[i]]
  /\ UNCHANGED <<setup, cmdline, handler, untold>>

(* stats_purge_tasknames: the reports not read yet lose their names.       *)
cmd_procpurge ==
  /\ handler = Idle
  /\ pidhash' = [h \in DOMAIN pidhash |-> <<>>]
  /\ registered' = [p \in Pid |-> NULL]
  /\ reports' = [i \in DOMAIN reports |-> [reports[i] EXCEPT !.known = "not"]]
  /\ UNCHANGED <<setup, cmdline, handler, untold>>

(* Mutant: the name goes without reading the reports first.                *)
RemoveFirst_forget == "remove"

(* cmd_procremove calls poll_kernel before it removes the name.            *)
RemoveFirst == "poll_remove"

cmd_procremove(p) ==
  /\ handler = Idle
  /\ handler' = In(IF kpoll_open THEN RemoveFirst ELSE "remove", p)
  /\ UNCHANGED <<setup, pidhash, cmdline, reports, registered, untold>>

kernel_event_handler ==
  /\ handler = Idle /\ kpoll_open /\ reports # <<>>
  /\ handler' = In("poll", NULL)
  /\ UNCHANGED <<setup, pidhash, cmdline, reports, registered, untold>>

(* fields_read == 10 && group_leader_pid == pid                            *)
Logged(r) == r.of = "leader"

(* One turn of poll_kernel's loop.  A kill event goes out, and a statistic *)
(* if the name is known.                                                   *)
poll_kernel ==
  /\ handler.op \in {"poll", "poll_remove"}
  /\ LET r == Head(reports)
     IN  \/ /\ reports # <<>> /\ Logged(r)
            /\ reports' = Tail(reports)
            /\ untold' = [untold EXCEPT ![r.pid] = @ - 1]
            /\ handler' = [handler EXCEPT !.told =
                 [named |-> stats_get_task_name(r.pid) # NULL, known |-> r.known]]
         \/ /\ reports # <<>> /\ ~Logged(r)
            /\ reports' = Tail(reports)
            /\ UNCHANGED <<untold, handler>>
         \/ /\ reports = <<>>
            /\ handler' = IF handler.op = "poll" THEN Idle ELSE In("remove", handler.pid)
            /\ UNCHANGED <<reports, untold>>
  /\ UNCHANGED <<setup, pidhash, cmdline, registered>>

(* The end of cmd_procremove.                                              *)
remove ==
  /\ handler.op = "remove"
  /\ stats_remove_taskname(handler.pid)
  /\ registered' = [registered EXCEPT ![handler.pid] = NULL]
  /\ handler' = Idle
  /\ UNCHANGED <<setup, cmdline, reports, untold>>

Next ==
  \/ \E p \in Pid : start(p) \/ reap(p) \/ lowmem_kill(p) \/ apply_proc_prio(p) \/ cmd_procremove(p)
  \/ cmd_procpurge \/ kernel_event_handler \/ poll_kernel \/ remove

Spec == Init /\ [][Next]_rvars

-----------------------------------------------------------------------------
(* Type invariant: a stored name fits the buffer and has no space.         *)
TypeOK ==
  /\ \A h \in DOMAIN pidhash : \A i \in DOMAIN pidhash[h] :
       LET n == pidhash[h][i].taskname
       IN  Len(n) < PathMax /\ \A j \in 1..Len(n) : n[j] # " "
  /\ handler.op \in {"idle", "poll", "poll_remove", "remove"}
  /\ untold \in [Pid -> Int] /\ Len(reports) <= MaxReports

(* The chains implement a map from pids to the names last stored: a pid    *)
(* has at most one entry, in its own chain, whatever stores, renames and   *)
(* removals went before; and stored names fit their buffer (the types).    *)
TableIsMap ==
  /\ TypeOK
  /\ \A p \in Pid : stats_get_task_name(p) = registered[p]
  /\ \A h \in DOMAIN pidhash : \A i, j \in DOMAIN pidhash[h] :
       /\ pid_hashfn(pidhash[h][i].pid) = h
       /\ i # j => pidhash[h][i].pid # pidhash[h][j].pid

(* Each death of a leader the kernel reports in full is passed on exactly  *)
(* once, and no other, by LMK_PROCREMOVE's reading or by the event's.  A   *)
(* kill that came before the LMK_PROCREMOVE of its process is handled is   *)
(* told with a name, unless a purge came between: cmd_procremove reads the *)
(* reports before it forgets a name.                                       *)
ReportsNamed ==
  /\ \A p \in Pid :
       untold[p] = Cardinality({i \in DOMAIN reports :
                                  reports[i].pid = p /\ reports[i].of = "leader"})
  /\ handler.told # NULL /\ handler.told.known # "not" => handler.told.named

(* What statslog.h promises of stats_store_taskname ("Registers a process  *)
(* taskname by pid, while it is still alive", statslog.h:113) would make   *)
(* the name told the name of the process that was killed.  A process       *)
(* killed but not reaped can still be registered, with an empty name, and  *)
(* so can the next process of the same pid.                                *)
NamesTruthful ==
  handler.told # NULL /\ handler.told.named => handler.told.known # "other"
=============================================================================
