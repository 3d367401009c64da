------------------------------ MODULE KillLoop ------------------------------
(***************************************************************************)
(* The main thread between two pressure events: mainloop and call_handler, *)
(* the polling state they keep, the kill issued by mp_event_psi, the wait  *)
(* for the victim's death (start_wait_for_proc_kill, kill_done_handler,    *)
(* kill_fail_handler, the kill timeout) and the ownership of the pidfds,   *)
(* composed with KillPool.tla, which Reaper.tla implements, and with       *)
(* processes that may exit at any time.  Kernels with pidfd_open.          *)
(*                                                                         *)
(* One epoll batch is handled event by event; the pool and process exits   *)
(* interleave.  What decides on a kill (mp_event_psi's reading of vmstat,  *)
(* zoneinfo and psi) is a nondeterministic choice here, and so is time: a  *)
(* timeout or a polling window is over when the model says so.             *)
(***************************************************************************)
EXTENDS Integers, FiniteSets, Sequences

CONSTANTS Proc,
          ThreadCnt,     \* reaper.thread_cnt()
          Level,         \* pressure levels with a monitor, \subseteq 0..3
          Critical,      \* VMPRESS_LEVEL_CRITICAL
          Fd,            \* descriptor numbers available for pidfds
          NULL,
          KillTimeout,   \* kill_timeout_ms # 0
          UseHooks,      \* LMKD_USE_HOOKS
          MaxOptional    \* pressure and control events per epoll batch

ASSUME LevelAssumption == Level \subseteq 0..3 /\ Critical \in Level
ASSUME FdAssumption == Fd \subseteq Nat
ASSUME BoundAssumption == ThreadCnt \in Nat /\ MaxOptional \in Nat
ASSUME ProcAssumption == IsFiniteSet(Proc) /\ NULL \notin Proc \cup Level

(* Calls of mp_event_psi that look for a victim.                           *)
Calls == [level : Level, event : BOOLEAN, step : {"search", "kill", "out"},
          victim : Proc \cup {NULL}, freed : BOOLEAN]

ASSUME CallAssumption == NULL \notin Calls

VARIABLES pending, reports, state  \* of KillPool

pool_vars == <<pending, reports, state>>

VARIABLES
  pidfd,           \* [Proc -> Fd or -1]: pidfd of the process record, -1: no record
  files,           \* [Fd -> Proc or NULL]: the open pidfds
  last_kill,       \* last_kill_pid_or_fd, -1: not waiting
  poll_handler,    \* poll_params.poll_handler, a level or NULL
  paused_handler,  \* poll_params.paused_handler
  resuming,        \* poll_params.update = POLLING_RESUME
  batch,           \* events of the current epoll_wait not handled yet
  call             \* the mp_event_psi call that is looking for a victim, or NULL

wait_vars == <<pidfd, files, last_kill>>
poll_vars == <<poll_handler, paused_handler, resuming>>
call_vars == <<batch, call>>
vars == <<pool_vars, wait_vars, poll_vars, call_vars>>

Pool == INSTANCE KillPool

Init ==
  /\ Pool!Init
  /\ pidfd = [p \in Proc |-> -1]
  /\ files = [f \in Fd |-> NULL]
  /\ last_kill = -1
  /\ poll_handler = NULL /\ paused_handler = NULL /\ resuming = FALSE
  /\ batch = <<>> /\ call = NULL

-----------------------------------------------------------------------------
(* Descriptors.  w is the pair of the open files and last_kill while a     *)
(* handler changes them.                                                   *)
W == [files |-> files, last |-> last_kill]
Install(w) == files' = w.files /\ last_kill' = w.last

Close(w, fd) == [w EXCEPT !.files[fd] = NULL]

stop_wait_for_proc_kill(w) ==
  IF w.last < 0 THEN w ELSE [Close(w, w.last) EXCEPT !.last = -1]

(* epoll_ctl(ADD) may fail.                                                *)
start_wait_for_proc_kill(w, fd, epoll_ok) ==
  LET w1 == [stop_wait_for_proc_kill(w) EXCEPT !.last = fd]
  IN  IF epoll_ok THEN w1 ELSE [Close(w1, fd) EXCEPT !.last = -1]

(* Mutant: the pidfd being waited for is closed too.                       *)
pid_remove_closes_all(p) ==
  pidfd' = [pidfd EXCEPT ![p] = -1] /\ Install(Close(W, pidfd[p]))

(* pid_remove unlinks the record and closes its pidfd unless that is the   *)
(* one being waited for.                                                   *)
pid_remove(p) ==
  /\ pidfd' = [pidfd EXCEPT ![p] = -1]
  /\ Install(IF pidfd[p] # last_kill THEN Close(W, pidfd[p]) ELSE W)

-----------------------------------------------------------------------------
(* The end of call_handler: handler h returned with the polling update u.  *)
(* The duration of a psi window may or may not have passed.                *)
call_handler_end(h, u) ==
  /\ resuming' = (u = "RESUME")
  /\ batch' = Tail(batch)
  /\ CASE u = "START"  -> poll_handler' = h /\ UNCHANGED paused_handler
       [] u = "PAUSE"  -> poll_handler' = NULL /\ paused_handler' = h
       [] u = "RESUME" -> poll_handler' = paused_handler /\ paused_handler' = NULL
       [] u = "CRIT_UPGRADE" ->
            /\ poll_handler' = IF h <= Critical THEN Critical ELSE poll_handler
            /\ UNCHANGED paused_handler
       [] u = "DO_NOT_CHANGE" ->
            \/ UNCHANGED <<poll_handler, paused_handler>>
            \/ poll_handler # NULL /\ poll_handler' = NULL /\ paused_handler' = NULL

(* The label no_kill of mp_event_psi.  Polling is extended after an event, *)
(* or after a kill or in direct reclaim (Polling.tla), left open here like *)
(* the upgrade to critical polling.                                        *)
no_kill(c, waiting) ==
  LET extended == {"CRIT_UPGRADE",
                   IF poll_handler = NULL THEN "START"
                   ELSE IF c.level >= poll_handler THEN "START" ELSE "DO_NOT_CHANGE"}
  IN  \E u \in IF waiting THEN {"PAUSE"}
                ELSE IF c.event THEN extended ELSE extended \cup {"DO_NOT_CHANGE"} :
        call_handler_end(c.level, u)

is_waiting_for_kill == last_kill >= 0

(* mp_event_psi up to the kill decision: skip while a kill is pending and  *)
(* has not timed out, otherwise stop waiting; then give up on a file that  *)
(* cannot be parsed, decide that no kill is needed, or go and kill.        *)
mp_event_psi(c) ==
  \/ /\ is_waiting_for_kill
     /\ no_kill(c, TRUE)
     /\ UNCHANGED <<pool_vars, wait_vars, call>>
  \/ /\ is_waiting_for_kill => KillTimeout
     /\ Install(stop_wait_for_proc_kill(W))
     /\ \/ call_handler_end(c.level, "DO_NOT_CHANGE") /\ UNCHANGED call
        \/ no_kill(c, FALSE) /\ UNCHANGED call
        \/ call' = c /\ UNCHANGED <<poll_vars, batch>>
     /\ UNCHANGED <<pool_vars, pidfd>>

-----------------------------------------------------------------------------
(* find_and_kill_process.  Any registered process may be next here, and    *)
(* the search may end at any point without a further victim.               *)

At(step) == call # NULL /\ call.step = step
Goto(step, p, freed) == call' = [call EXCEPT !.step = step, !.victim = p, !.freed = freed]

(* mp_event_psi finishes after the search.                                 *)
no_victim ==
  /\ At("search")
  /\ no_kill(call, is_waiting_for_kill)
  /\ call' = NULL
  /\ UNCHANGED <<pool_vars, wait_vars>>

(* A check of kill_one_process fails and the record is dropped: always     *)
(* when the process is gone, but also when its record is not valid or its  *)
(* status or name cannot be read.                                          *)
victim_is_gone(p) ==
  /\ At("search") /\ ~call.freed
  /\ pidfd[p] >= 0
  /\ pid_remove(p)
  /\ UNCHANGED <<pool_vars, poll_vars, call_vars>>

(* All checks of kill_one_process pass, and                                *)
(* lmkd_free_memory_before_kill_hook either frees memory elsewhere, which  *)
(* ends the search, or lets the kill proceed.                              *)
victim_found(p) ==
  /\ At("search") /\ ~call.freed
  /\ pidfd[p] >= 0 /\ state[p] # "dead"
  /\ \/ UseHooks /\ Goto("search", NULL, TRUE)
     \/ Goto("kill", p, FALSE)
  /\ UNCHANGED <<pool_vars, wait_vars, poll_vars, batch>>

(* Reaper::async_kill refuses when every thread is busy: request r is the  *)
(* r[2]-th one pending for process r[1].                                   *)
PoolHasRoom == Cardinality({r \in Proc \X (1..ThreadCnt) : r[2] <= pending[r[1]]}) < ThreadCnt

(* start_wait_for_proc_kill, then reaper.kill: accepted by the pool (even  *)
(* when the pidfd to duplicate has just been closed), delivered at once    *)
(* when the pool refuses, or failed.  A kill that succeeds ends the search *)
(* only when it frees whole pages (rss_kb / page_k > 0); a failed one      *)
(* returns 0.                                                              *)
kill_victim(epoll_ok, pages) ==
  LET p == call.victim
      w == start_wait_for_proc_kill(W, pidfd[p], epoll_ok)
      usable == w.files[pidfd[p]] # NULL
  IN  /\ At("kill")
      /\ \/ /\ \/ PoolHasRoom /\ Pool!Accept(p)
               \/ usable /\ Pool!SignalNow(p)
            /\ Install(w)
            /\ Goto("out", p, pages)
         \/ /\ usable => state[p] = "dead"
            /\ Install(stop_wait_for_proc_kill(w))
            /\ Goto("out", p, FALSE)
            /\ UNCHANGED pool_vars
      /\ UNCHANGED <<pidfd, poll_vars, batch>>

(* The label out of kill_one_process.                                      *)
kill_one_process_out ==
  /\ At("out")
  /\ pid_remove(call.victim)
  /\ Goto("search", NULL, call.freed)
  /\ UNCHANGED <<pool_vars, poll_vars, batch>>

-----------------------------------------------------------------------------
(* The other handlers.                                                     *)
kill_done_handler ==
  /\ Install(stop_wait_for_proc_kill(W))
  /\ call_handler_end(NULL, "RESUME")
  /\ UNCHANGED <<pool_vars, pidfd, call>>

(* Mutant: a failed kill is read and changes nothing.                      *)
kill_fail_handler_keeps_waiting ==
  /\ IF reports # <<>> THEN Pool!Read ELSE UNCHANGED pool_vars
  /\ call_handler_end(NULL, "DO_NOT_CHANGE")
  /\ UNCHANGED <<wait_vars, call>>

(* The pid read from the pipe is not looked at; an empty pipe is logged.   *)
kill_fail_handler ==
  /\ IF reports # <<>> THEN Pool!Read ELSE UNCHANGED pool_vars
  /\ Install(stop_wait_for_proc_kill(W))
  /\ call_handler_end(NULL, "RESUME")
  /\ UNCHANGED <<pidfd, call>>

(* ctrl_data_handler: a client registers a process (pidfd_open returns the *)
(* lowest free number) or removes one, or sends something else.            *)
ctrl_data_handler ==
  /\ \/ \E p \in Proc, f \in Fd :
          /\ pidfd[p] < 0 /\ state[p] # "dead"
          /\ files[f] = NULL /\ \A g \in Fd : g < f => files[g] # NULL
          /\ pidfd' = [pidfd EXCEPT ![p] = f]
          /\ files' = [files EXCEPT ![f] = p]
          /\ UNCHANGED last_kill
     \/ \E p \in Proc : pidfd[p] >= 0 /\ pid_remove(p)
     \/ UNCHANGED wait_vars
  /\ call_handler_end(NULL, "DO_NOT_CHANGE")
  /\ UNCHANGED <<pool_vars, call>>

(* Sources of events: the data pointer of an epoll_event.                  *)
Poll == [source |-> "poll", level |-> -1]
KillDone == [source |-> "kill_done", level |-> -1]
KillFail == [source |-> "kill_fail", level |-> -1]
Ctrl == [source |-> "ctrl", level |-> -1]
Psi(l) == [source |-> "psi", level |-> l]

Call(l, event) == [level |-> l, event |-> event,
                   step |-> "search", victim |-> NULL, freed |-> FALSE]

(* The body of mainloop's second pass, or the poll before it.              *)
handle_event ==
  /\ call = NULL /\ batch # <<>>
  /\ LET e == Head(batch)
     IN  CASE e = Poll     -> mp_event_psi(Call(poll_handler, FALSE))
           [] e = KillDone -> kill_done_handler
           [] e = KillFail -> kill_fail_handler
           [] e = Ctrl     -> ctrl_data_handler
           [] OTHER        -> mp_event_psi(Call(e.level, TRUE))

-----------------------------------------------------------------------------
(* The top of mainloop.  epoll reports every source that is ready, in any  *)
(* order: level-triggered the victim's pidfd and the failure pipe, and     *)
(* whatever pressure events and commands came in.                          *)
Ready == {e \in {KillDone, KillFail} :
            IF e = KillFail THEN reports # <<>>
            ELSE is_waiting_for_kill /\ state[files[last_kill]] = "dead"}

Orders(S) == {s \in [1..Cardinality(S) -> S] : \A i, j \in DOMAIN s : s[i] = s[j] => i = j}

Batches ==
  LET Optional == {S \in SUBSET ({Psi(l) : l \in Level} \cup {Ctrl}) :
                     Cardinality(S) <= MaxOptional}
  IN  UNION {Orders(Ready \cup S) : S \in Optional}

mainloop ==
  /\ call = NULL /\ batch = <<>>
  /\ \/ /\ poll_handler # NULL /\ resuming
        /\ batch' = <<Poll>>
     \/ /\ poll_handler # NULL /\ ~resuming
        /\ \E s \in Batches : batch' = <<Poll>> \o s \/ (s # <<>> /\ batch' = s)
     \/ /\ poll_handler = NULL
        /\ \E s \in Batches : s # <<>> /\ batch' = s
  /\ UNCHANGED <<pool_vars, wait_vars, poll_vars, call>>

(* Mutant: the timeout ends the wait and leaves polling paused.            *)
kill_timeout_only ==
  /\ call = NULL /\ batch = <<>>
  /\ poll_handler = NULL /\ KillTimeout /\ is_waiting_for_kill
  /\ Install(stop_wait_for_proc_kill(W))
  /\ UNCHANGED <<pool_vars, poll_vars, pidfd, call_vars>>

(* The kill timeout passes before epoll_wait is called or during it.       *)
kill_timeout ==
  /\ call = NULL /\ batch = <<>>
  /\ poll_handler = NULL /\ KillTimeout /\ is_waiting_for_kill
  /\ Install(stop_wait_for_proc_kill(W))
  /\ IF paused_handler # NULL
     THEN poll_handler' = paused_handler /\ paused_handler' = NULL /\ resuming' = TRUE
     ELSE UNCHANGED poll_vars
  /\ UNCHANGED <<pool_vars, pidfd, call_vars>>

-----------------------------------------------------------------------------
main_thread ==
  \/ mainloop \/ handle_event \/ no_victim \/ kill_one_process_out
  \/ \E p \in Proc : victim_is_gone(p) \/ victim_found(p)
  \/ \E epoll_ok, pages \in BOOLEAN : kill_victim(epoll_ok, pages)

(* An accepted request ends, or a process exits.                           *)
request_ends(p) ==
  /\ Pool!Deliver(p) \/ Pool!Report(p)
  /\ UNCHANGED <<wait_vars, poll_vars, call_vars>>

process_exits(p) == Pool!Exit(p) /\ UNCHANGED <<wait_vars, poll_vars, call_vars>>

Next == main_thread \/ kill_timeout \/ \E p \in Proc : request_ends(p) \/ process_exits(p)

Spec == Init /\ [][Next]_vars

(* The main loop runs, the pool ends the requests it accepted (Reaper.tla: *)
(* it does as long as the pipe, which the main loop reads, is not full)    *)
(* and processes that have been sent SIGKILL die.  The timeout is not      *)
(* counted on: it may be long, or not set.                                 *)
FairSpec ==
  /\ Spec
  /\ WF_vars(main_thread)
  /\ WF_vars(\E p \in Proc : request_ends(p) \/ (state[p] = "dying" /\ process_exits(p)))

-----------------------------------------------------------------------------
OpenFds == {f \in Fd : files[f] # NULL}
Registered == {p \in Proc : pidfd[p] >= 0}

(* Type invariant of the main loop's state.                                *)
TypeOK ==
  /\ pending \in [Proc -> 0..ThreadCnt]
  /\ reports \in Seq(Proc)
  /\ pidfd \in [Proc -> Fd \cup {-1}]
  /\ files \in [Fd -> Proc \cup {NULL}]
  /\ last_kill \in Fd \cup {-1}
  /\ {poll_handler, paused_handler} \subseteq Level \cup {NULL}
  /\ call \in Calls \cup {NULL}

(* The state has its types.  Each open pidfd has one owner, a process      *)
(* record or the wait for the last victim, and each owner's pidfd is open  *)
(* and is the right process: between handlers pid_remove and               *)
(* stop_wait_for_proc_kill have neither leaked one nor taken one away.     *)
PidfdsOwned ==
  /\ TypeOK
  /\ call = NULL =>
       /\ OpenFds = {pidfd[p] : p \in Registered} \cup ({last_kill} \ {-1})
       /\ \A p \in Registered : files[pidfd[p]] = p /\ pidfd[p] # last_kill

(* A wait is never in vain: the process waited for is dying or dead, or a  *)
(* request to kill it is under way, or a failure is still to be read, so   *)
(* that kill_done_handler or kill_fail_handler will end the wait without   *)
(* help from the kill timeout; and polling is paused until then, with the  *)
(* handler to resume recorded ("Pause polling if we are waiting for        *)
(* process death notification").                                           *)
WaitWillEnd ==
  call = NULL /\ is_waiting_for_kill =>
    /\ LET p == files[last_kill]
       IN  state[p] # "running" \/ pending[p] > 0 \/ reports # <<>>
    /\ poll_handler = NULL /\ paused_handler # NULL

(* A wait that ends by a death, a failure report or the timeout is         *)
(* followed by polling: what was paused for it goes on.                    *)
PollingResumes ==
  [][/\ is_waiting_for_kill /\ last_kill' = -1 /\ call = NULL
     /\ batch = <<>> \/ Head(batch) \in {KillDone, KillFail}
     => poll_handler' # NULL]_vars

(* A resumed poll happens: when the last handler of a batch asked for      *)
(* POLLING_RESUME there is a handler to "poll immediately".                *)
ResumePolls == call = NULL /\ batch = <<>> /\ resuming => poll_handler # NULL

(* start_wait_for_proc_kill never finds another wait in progress: "Should  *)
(* not happen".                                                            *)
NoOverlappingWaits == At("kill") => ~is_waiting_for_kill

(* pid_remove at the label out never closes a pidfd that                   *)
(* stop_wait_for_proc_kill or start_wait_for_proc_kill has closed already. *)
NoDoubleClose == At("out") => files[pidfd[call.victim]] # NULL

(* In time: the wait for a victim ends, without help from the timeout, by  *)
(* its death or because the reaper could not kill it and said so.          *)
WaitEnds == \A f \in Fd : last_kill = f ~> last_kill # f
=============================================================================
