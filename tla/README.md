# A TLA+ verification of lmkd

`lmkd` is the userspace low memory killer: it learns from the kernel that memory
is short, picks the process the system can best do without, kills it, and waits
for it to die before it looks again. This directory holds TLA+ models of the
daemon, the TLC runs that check them on small instances, and proofs checked by
TLAPS. Definitions keep the names of the code; `PROJECT.json` maps each one to
the lines it models.

## 1. The system

### Processes and threads

* **main thread**: one epoll loop (`mainloop`) that calls one handler per event:
  client commands, pressure events, the death of the last victim, failure
  reports of the reaper, memory events. It also polls for a while after a
  pressure event.
* **reaper threads** (`reaper.cpp`): take kill requests from a queue, send
  SIGKILL, reap the memory, report a failure through a pipe.
* **watchdog thread** (`watchdog.cpp`): sleeps in `sigwait`; if a handler takes
  too long a timer wakes it and it kills a process itself.
* **clients**: ActivityManager and others, over a seqpacket socket. They register
  processes with an importance (`oom_score_adj`) and may subscribe to kills.
* **init**: starts, restarts and reinitializes lmkd (`lmkd.rc`).
* **kernel**: pressure events, `/proc`, pidfds, signals.

### Components, their state and what is hard about them

| component | state | operations | hard behaviour |
|---|---|---|---|
| process registry | `pidhash`, `procadjslot_list`, `reg_pid` of records | procprio, procremove, procpurge, claims, removal of a victim | intrusive lists, walks that remove what they visit, owners that vanish, a score written to the kernel before the check |
| batch command LMK_PROCS_PRIO | descriptors, io_uring queues | read of all statuses, write of all scores, the synchronous variant | completions in any order, failed ones left in the queue, processes that die meanwhile |
| reaper pool | `queue_`, `active_requests_`, mutex, condition variable, pipe, dup'd pidfds | `async_kill`, `kill`, `dequeue_request`, `request_complete`, `notify_kill_failure` | lost wake-ups, a blocking write under the mutex, descriptors with two owners |
| kill path and polling | `last_kill_pid_or_fd`, `poll_handler`, `paused_handler` | `mp_event_psi`, `kill_one_process`, `kill_done_handler`, `kill_fail_handler`, timeout | a report or a timeout racing the death, a pause without a resume, double close |
| poll levels, event upgrade, boost | `poll_params`, the statics of `check_cont_lmkd_events`, `wbf_effective` | psi event, poll, `call_handler` | levels that replace each other, windows that are over when an event comes |
| victim selection | lists, `valid`, search position | `find_and_kill_process`, `proc_get_heaviest`, `proc_get_script` | processes die or move while the search runs |
| kill decision | the statics of `mp_event_psi` | one event | a decision from values of an earlier pass or event |
| watermarks and zoneinfo | `init_pgskip`, the zones parsed | `zoneinfo_parse`, `calc_zone_watermarks`, `get_lowest_watermark` | nested parsers that share a position, an array index moved by missing and empty zones |
| memory events | `direct_reclaim_start_tm`, `kswapd_start_tm` | `memevent_listener_notification` | several threads, one start time, a ring buffer that overflows |
| watchdog | timer, the shared registry | `bite`, `find_victim`, `pid_invalidate` | reads shared structures, uses copies after unlocking |
| connections | `data_sock`, `maxevents`, subscriptions | accept, drop, two passes over a batch | events of a connection that has been replaced |
| kill counters | `killcnt_idx`, `killcnt`, `killcnt_total`, `sys.lmk.count` | `inc_killcnt`, `get_killcnt`, report | limited number of counters, wraparound |
| in-kernel killer | the table of task names, the kernel's reports | `poll_kernel`, procprio, procremove, procpurge of that mode | a kill between any two steps, names of processes that are gone |
| monitors and life cycle | `mpevfd`, `monitors_initialized`, properties, boot | `init_monitors`, reinit, boot completed, crash, restart | partial failure, two commands in either order, restart after boot |
| LMK_TARGET, other `/proc` parsing, statistics, client library | | | not modelled, see section 7 |

The registry is shared by the clients' commands, the kill path and the watchdog;
the pidfds by the registry, the wait, the watchdog and (as duplicates) the
reaper. These interactions are where most of the properties below come from.

## 2. Modules

| module | models | abstract specification |
|---|---|---|
| `Records` | the registry as a set of records with owner and level | |
| `ProcRegistry` | the registry as hash chains and doubly linked lists | implements `Records` |
| `ProcsPrio` | the batch command, over `Records` | |
| `KillPool` | what the main loop may rely on: an accepted request is delivered or reported | |
| `Reaper` | the pool with its threads | implements `KillPool` |
| `KillLoop` | main loop, wait and polling; instantiates `KillPool` | |
| `Polling` | poll levels, windows, the upgrade of events and the boost factor, in time | |
| `VictimSearch` | which process is killed | |
| `KillDecision` | whether and how far to kill | |
| `Zoneinfo` | the parser of `/proc/zoneinfo`, line by line | |
| `WatermarkLevels` | the arithmetic of watermarks and swap, without state | |
| `Watermarks` | pgskip counters, parsing and the sums over zones, from event to event | |
| `MemEvents` | the ring buffer of memory events and what lmkd concludes from it | |
| `Watchdog` | watchdog and main thread over the shared registry | |
| `Connections` | client connections and the two-pass event loop, over `Records` | |
| `KillCount` | counters, `LMK_GETKILLCNT` and the published counts, when lmkd kills | |
| `KernelReports` | task names and kill reports, when the kernel kills | |
| `KillReports` | the two modes together, each for as long as it is in use | |
| `Monitors` | monitors, reinitialization, boot, crash and restart | |
| `Listener` | `Monitors` and `MemEvents` together: what lmkd knows of reclaim over its whole life | |
| `MC*` | constants and symmetry for TLC | |
| `ReaperProofs`, `ConnectionsProofs`, `KillLoopProofs`, `KillReportsProofs` | theorems and proofs about the module of that name | |
| `RegistryProofs` | the same about `ProcRegistry` and `Monitors` | |
| `WatchdogProofs` | the same about `Watchdog` and `VictimSearch` | |
| `KillCountProofs` | the same about `KillCount` and `Polling` | |
| `PressureProofs` | the same about `KillDecision`, `MemEvents` and `WatermarkLevels` | |

**Composition.** `Reaper` is shown to implement `KillPool` by the identity on the
shared variables, with the requests in the queue and in threads mapped to
`pending`; `KillLoop` is then built on `KillPool`, so it does not carry the
threads' state. The same division holds for `ProcRegistry` (pointers) and
`Records` (the owner and level of each process): `ProcsPrio` and `Connections`
change the registry through the operations of `Records`. `Watermarks` runs the
parser of `Zoneinfo` to its end between the pgskip counters and the sums. `Listener`
lets the events of `MemEvents` reach lmkd from the time `Monitors` has set up the
listener until the process is gone, with the threshold that is in force at the time.

**How steps are cut.** A handler that runs alone on the main thread is one action,
with everything it calls. It is cut where another thread or process can act in
between and the code can see it: at lock boundaries in `Reaper` and `Watchdog`, at
each candidate and each dropped record in `VictimSearch` (processes die meanwhile),
at the kill in `KillLoop`, at each event of a batch in `Connections`, at each record
in `cmd_procpurge`, at each completion and each write in `ProcsPrio`, at each report
in `KernelReports`. `Zoneinfo` is cut at each line because its three loops share the
position in the file.

**What is abstracted.** Messages and wording are left out, and names except where
they are cut (`KernelReports`). A line of zoneinfo is a record with its kind and
values. Time is a choice: a timer, a timeout or a window may pass whenever the
code could see it pass; in `Polling`, where lengths of time are compared, a time
stamp is its age in ticks, up to the longest interval it is compared with.
Failing system calls are choices, switched by constants (`AcceptMayFail`,
`AddMayFail`, `KernelMayRefuse`). In `KillDecision` the watermark reached, the
swap tests and the stall are inputs of the decision, drawn again when the code
computes them again; `ProcsPrio` takes per-app memory cgroups and the in-kernel
mode as off.

## 3. Runs that pass

| run | bounds | properties |
|---|---|---|
| `reaper` | 2 processes, 3 threads, pipe of 1 | counter and queue agree; every queued request has a thread awake for it; dup'd pidfds are owned once; implements `KillPool`; the pool regains room |
| `kill_loop` | 2 processes, 1 thread, 2 levels, 3 descriptors, timeout, hooks | pidfds owned once; a wait has something that will end it, and polling is paused until then; polling resumes |
| `registry` | 3 pids in 2 buckets, 2 clients, 2 levels | lists well formed; hash indexes the records; implements `Records`; purge complete |
| `watchdog` | 2 processes, 2 scores, 2 descriptors | no use after free; a hung main thread does not keep memory from being freed |
| `victim_search` | 3 processes of different weight, 2 levels, debuggable build | most expendable first; preferred apps and lighter ones spared; the search ends |
| `connections` | 3 connections of 2 clients, 2 slots, `accept` and `epoll_ctl` may fail | event count; no claim outlives its client; only subscribers notified |
| `kill_reports` | 4 levels and one below 0, 3 counters modulo 3, report every 3, 6 kills, ranges beyond both ends of the table; 2 pids in one chain, 2 names, 2 reports | counters, answers and published counts; the table of names is a map; each report is passed on once, with a name |
| `monitors` (module `Listener`) | 2 changes among 3 sets of properties, 1 crash, all refusals, delayed monitors or not; 1 thread, ring of 1, time up to 2 | monitors and threshold match the configuration; stuck means stuck; kswapd is known to be awake or not; the last values of the properties that lmkd.rc lists take effect |
| `kill_decision` | limits 2 and 4, growth 0 and 3, windows 0, 1, 2, 63, 64 | perceptible apps spared; a retry is kept, and the count decays |
| `procs_prio` | 2 processes, 1 thread, 2 clients, batches of 2 | a batch does what single commands would and leaves no descriptor open; what is registered was written, and only leaders are; a command ends |
| `watermarks` | 1 to 3 nodes, room for 2, zones DMA32, Normal, Movable (and Device) small, big or empty, boost 1 and 2, with and without MGLRU | the file is parsed faithfully; exactly the usable zones are counted, within the array; a boost hides nothing |
| `polling` | window of 2 ticks, threshold 1, count up to 2, with and without pidfds | an upgrade is earned; polling starts and keeps its level; polling ends |

The type invariant of a module is a conjunct of the first property of its run;
those of `Reaper`, `ProcRegistry` and `KillCount` are proved instead (section 5).
One more configuration passes and is kept beside the runs: `MCKillLoopLive` (module
`MCKillLoop`, 1 level, 2 descriptors, no timeout) with `WaitEnds`, the wait for a
victim ends, of which `WaitWillEnd` is the safety part.

**Why the bounds are enough for the cases to happen.** Three threads and two
victims with the same victim requested twice make all of queued, served and
refused requests coexist; the pipe of one fills at once. Three pids in two buckets give
a chain of two and removals at its head and tail, and a list of three gives a
middle element. One pool thread makes the pool refuse, three descriptors let a
number be reused while another is awaited. Two slots and three connections
overflow `data_sock`. Three counters for four levels exhaust them, modulo 3 and
six kills wrap them; a range may start one level below the table and end one above
it. Of the three sets of properties two differ only in what lmkd.rc does not list.
One thread in and out of direct reclaim with a ring of one loses events of either
kind; more threads and larger rings are left to the proofs about `MemEvents`. 63 windows are the longest shift, 64 reach the undefined
one. Two reports let
LMK_PROCREMOVE find one that it did not come for, and one name is cut at a space,
the other at the end of its buffer. A batch of two has completions in both orders
and a failed one before and after a good one; the three batches have a thread and
a record with an invalid score. Two nodes in all combinations of full, partly and
wholly empty, and three for the room of two, give every way for a parser to hand
over. A window of two ticks can be over, just over or not over at an event. Every
bound is a constant or a guard with a name (`MaxOptional`, `MaxFailures`, `MaxKills`,
`MaxReports`, `MaxChanges`, `MaxCrashes`, `MaxTime`, `MaxRefaults`, `MaxSkips`, `MaxCount`,
`CommCapacity`).

**Deadlock** is checked except in `Watchdog`, where a main thread that hangs and a
registry with nothing left to kill really stop.

**Symmetry** is used on processes, clients and the connections of one client,
where no definition or property tells them apart, and never in runs with a
liveness property.

### Fairness

* The main loop runs (`KillLoop`, `VictimSearch`, `Connections`, `ProcsPrio`): it is a
  loop of terminating handlers on a SCHED_FIFO thread. A blocking read or a wait for
  a completion is modelled as the action being disabled, so it is not hidden by
  fairness.
* The kernel completes the io_uring requests that were submitted (`ProcsPrio`).
* Time passes, a poll that is due is made, a victim dies and its death is handled
  (`Polling`). `PollingEnds` asks only what happens once there are no more psi
  events and kills (`calm`), which may be never.
* The reaper threads run (`Reaper`). That the main loop reads the failure pipe is
  not assumed there, because it can be blocked on the pool's mutex by a thread that
  writes to a full pipe; `PoolRecovers` shows that this is the only way to wedge.
* An accepted request ends and a process that was sent SIGKILL dies (`KillLoop`,
  `MCKillLoopLive`); the first is what `Reaper` shows while the pipe has room (it
  holds thousands of reports), the second is the kernel's promise. The kill timeout
  is not counted on.
* The watchdog thread runs and an armed periodic timer expires (`Watchdog`).
* init restarts a service that exits and runs its triggers, the device boots, and
  the kernel does not refuse the monitors at every start for ever (`Monitors`; the
  last is strong fairness of a successful start).
* Nothing is assumed of clients: they need not send, read or hang up.

## 4. Disagreements between the code and what it says

The following statements of the repository, or what a reader would take from them,
do not hold. Each is a property of the module that TLC refutes; they are kept so
that the statement can be checked again when the code changes. Where no
configuration is named, take the one of the module's run (section 3) with this property in place of those listed. A configuration that
lists several refutes each of them.

| module, property | what happens |
|---|---|
| `KillLoop`, `ResumePolls` | "Just transitioned into POLLING_RESUME, poll immediately" (lmkd.cpp:4691): a failure report while nothing is paused replaces the poll handler by null |
| `KillLoop`, `NoOverlappingWaits` | "Should not happen" (lmkd.cpp:3071): a kill that frees less than a page counts as none, and a second wait starts |
| `KillLoop`, `NoDoubleClose` | lmkd.cpp:1128-1131 on who closes a pidfd: it is closed twice when the wait or the kill fails |
| `ProcRegistry`, `KernelAgrees` (`MCProcRegistryKernel`) | lmkd.cpp:1445: a procprio that is refused has already changed the kernel's score |
| `ProcsPrio`, `OthersRegistered` | "might have been killed, skipping" (lmkd.cpp:1808): a process that dies during a batch can keep the others from being registered, because its failed completion is not marked as seen and is returned again for each of the turns left |
| `ProcsPrio`, `NothingLeaked` | the descriptors of a batch are closed one by one as completions come: those whose completion failed stay open |
| `Watchdog`, `NoNullDereference` | "pid was removed, restart at the tail" (lmkd.cpp:2941): a list emptied between two calls of `find_victim` gives a null pointer |
| `Watchdog`, `KillsTheVictimFound` | the copy made at lmkd.cpp:2951 holds a pidfd number that may name another process by the time of the kill |
| `VictimSearch`, `FindsOneProcess` | "Find one process to kill at or above the given oom_score_adj level" (lmkd.cpp:3211): a level whose last candidate fails its check ends the search |
| `Connections`, `MessagesRead` (`MCConnectionsRefuted`) | lmkd.cpp:2092-2093 on inactive connections: after an overflow a stale event makes the main thread read from a silent connection |
| `Connections`, `ClaimsKept` (`MCConnectionsRefuted`) | "Old registrant is gone" (lmkd.cpp:808): a silent connection that closes releases the records of the slot's earlier client |
| `KillReports`, `TotalIsSum` | lmkd.cpp:1594-1595: kills at levels without a counter make total and sum differ without a wraparound |
| `KillReports`, `AnswersAlwaysExact` | lmkd.cpp:1603-1624: a range that starts below `OOM_SCORE_ADJ_MIN` makes `get_killcnt` read `killcnt_idx` in front of its first element, and the answer may be anything; the upper end is tested |
| `KillReports`, `NamesTruthful` | "Registers a process taskname by pid, while it is still alive" (statslog.h:113): a process that was killed and not yet reaped can still be registered, with an empty name, and so can the next process of the same pid |
| `Listener`, `KillerPresent` (`MCListenerForced`) | lmkd.cpp:5021: reinitialization ignores `force_inkernel_lmk`, and no killer is left |
| `Listener`, `ListenerStarted` (`MCListenerRefuted`, and so the next five) | lmkd.cpp:2032-2033: a restarted lmkd has no memory event listener |
| `Listener`, `ThresholdInForce` | lmkd.rc:16: reinitialization before the boot-completed command loses the direct reclaim threshold |
| `Listener`, `AllPropsApplied` | lmkd.rc lists "properties most likely to be used in experiments" (lmkd.rc:20): a change of another one, `use_psi` for instance, does not reach lmkd until something else makes it read them |
| `Listener`, `StuckMeansStuckAlways` | README.md:95-97 on the threshold: before LMK_BOOT_COMPLETED it is in force without a listener, and every direct reclaim looks stuck |
| `Listener`, `DirectReclaimNoticed` | the end of one thread's direct reclaim clears the start time while another thread is still in it |
| `Listener`, `DirectReclaimSoundNow` | with events left to fetch, lmkd takes a direct reclaim that has ended for one under way |
| `Listener`, `MonitorsMatch` (with `HasInkernelModule = TRUE`, `UserspaceLmk = FALSE`) | lmkd.cpp:2003-2020: LMK_START_MONITORING creates monitors although the in-kernel driver is in use, and LMK_UPDATE_PROPS (lmkd.cpp:1975) then rereads the properties and leaves those monitors as they were |
| `KillDecision`, `RetryKeptWhenCut` (`MCKillDecisionRefuted`, and so the next five) | lmkd.cpp:3833-3834: the count kept for a retry is compared with the limit restored in the same step |
| `KillDecision`, `GrowthDecays` | lmkd.cpp:3819-3820: the decay of the thrashing count by 64 windows or more is undefined |
| `KillDecision`, `PerceptibleSparedNow` | "Do not kill perceptible apps unless below min watermark or heavily thrashing" (lmkd.cpp:3935): at the first kill the reason and the score of the first pass stay when the second one, with fresh watermarks, finds no reason |
| `KillDecision`, `KillsJustified` | lmkd.cpp:4011: the first kill keeps a reason computed before the watermarks were refreshed |
| `KillDecision`, `LowMemDisabled` | README.md:104-105: a critical stall overrides the score of 1001 that disables low memory kills |
| `KillDecision`, `AfterKillScore` | README.md:91-94: `pressure_after_kill_min_score` is overwritten |
| `Watermarks`, `MemorylessParsed` | a layout that ends in a node without memory fails to parse although there is room for all its nodes |
| `Watermarks`, `BoostFindsMore` (`MCWatermarksBoost`) | with MGLRU a larger boost factor brings a zone below its boosted watermark, its cache then counts as free, and a breach is hidden |
| `Watermarks`, `ZonesCounted` (`MCWatermarksHighMem`) | the name "HighMem" is not part of "pgskip_high" (lmkd.cpp:3437), so the zone takes the delta the index stands at, which is another zone's |
| `Watermarks`, `DeltasInBounds` (`MCWatermarksDebug`) | with debug logging on, the index of the array of deltas moves for zones that take none, and runs past the end |
| `Polling`, `AnyPollingStarts` | "Start polling after initial PSI event" (lmkd.cpp:4056): a super-critical event that is handled as an upgrade finds no poll handler, and starts none |
| `Polling`, `EventKeepsPolling` | lmkd.cpp:4604-4608 on polling for a window after an event: a medium event during critical polling does not extend it, and ends it when its window is over |
| `Polling`, `UpgradeRaises` | an upgrade caused by a lower event replaces super-critical polling by critical polling |

One comment is read more narrowly than it is written: "all active clients will
receive" (lmkd.cpp:904-906) is taken to mean the clients that subscribed to the event,
which is what the code does and what `OnlySubscribers` is about.

## 5. Proofs

| theorem | says, for all values of the constants |
|---|---|
| `ReaperProofs!AccountingCorrect` | type correctness, and `active_requests_` is the number of requests queued or served |
| `ReaperProofs!NoLostWakeup` | every queued request has a thread awake to take it |
| `ReaperProofs!DupsClosedOnce` | each duplicated pidfd belongs to one request, and is closed once |
| `ReaperProofs!ReaperImplementsKillPool` | the reaper implements `KillPool`: each accepted request ends once, with the signal delivered or one report |
| `RegistryProofs!ListsCorrect` | type correctness, and `next` and `prev` are inverse and stay within the records of one level |
| `RegistryProofs!IndexCorrect` | the hash chains hold each record once, in its bucket; `pid_lookup` finds exactly the registered ones |
| `RegistryProofs!PurgeIsComplete` | when the loops of LMK_PROCPURGE end, no record is left that the requestor registered or could claim |
| `WatchdogProofs!WatchdogNoUseAfterFree` | `pid_invalidate` never follows a pointer into a freed record, and no list, chain or open pidfd refers to one |
| `ConnectionsProofs!EventsAreCounted` | `maxevents` counts the open connections, less those epoll refused |
| `ConnectionsProofs!ClaimantsAreConnected` | a claimed record has a registrant with an open connection |
| `ConnectionsProofs!OnlySubscribersNotified` | a slot's event mask is set only if its present connection subscribed |
| `KillLoopProofs!PidfdsAreOwned` | type correctness, and between handlers each open pidfd has one owner, which holds the right process |
| `KillLoopProofs!WaitsEnd` | between handlers, a wait has a death, a request or a report to come that ends it, and polling is paused with its handler recorded |
| `KillLoopProofs!PollingGoesOn` | a step that ends a wait leaves a handler to poll |
| `KillCountProofs!AnswersCorrect` | an answer to LMK_GETKILLCNT is the number of kills in its range, for any range that does not start below the table, while the levels fit and no counter has wrapped |
| `KillCountProofs!PublishedInTime` | the published counts lag by less than one report period and never show too much |
| `KillReportsProofs!TableCorrect` | the table of task names is a map from pids to the names last stored |
| `KillReportsProofs!ReportsCorrect` | each reported death of a leader is passed on once, and LMK_PROCREMOVE costs no earlier kill its name |
| `KillCountProofs!CountersCorrect` | type correctness, each counter holds its level's kills modulo its width, and no two levels share one |
| `KillCountProofs!UpgradesAreEarned` | a count of n upgraded events takes more than n - 1 psi windows, with a direct reclaim seen in each; the boost factor stays within its bounds |
| `KillCountProofs!PollingAlwaysStarts` | an initial medium or critical psi event starts polling unless lmkd then waits for a victim, and a lower event never takes over critical polling |
| `RegistryProofs!MonitorsMatchProps` | without the in-kernel driver, the monitors are exactly those of the mode and the properties in use, and are counted; without a listener no direct reclaim threshold is used after boot |
| `WatchdogProofs!VictimMostExpendable` | when a process is killed, every level above it is empty, has no process with memory, or gave up at a kill that freed nothing |
| `WatchdogProofs!PreferredAppsSpared` | where the heaviest is chosen, a preferred app is killed only if no other process of its level has memory, and never a lighter process than another of its kind |
| `PressureProofs!PerceptibleAppsSpared` | a kill for low swap, a small file cache, thrashing in direct reclaim or low memory spares perceptible apps unless the system is stalled or, when swap is low, a pass over the event found the min watermark breached or thrashing critical |
| `PressureProofs!ThrashingRetried` | thrashing over the limit that found no victim is still over it at the event that crosses its window, and 2 to 63 windows later at most a quarter is left |
| `PressureProofs!BoostNeverHides` | on the same sums over zones, a larger boost factor finds the same watermark breached or a lower one |
| `PressureProofs!PressureNeverMilderAll` | on the same sums, a higher level, a psi event rather than a poll, or compaction never finds a higher one |
| `PressureProofs!BreachesNested` | with ordered watermarks each verdict of `get_lowest_watermark` is equivalent to one test, although min is not boosted: the order of the tests hides no breach |
| `PressureProofs!SwapUtilizationPercent` | the swap utilization is between 0 and 100 |
| `PressureProofs!DirectReclaimSoundAlways` | with nothing to fetch and the latest event not lost, lmkd holds direct reclaim to be under way only if a thread is in it, and for no longer than that thread has been |
| `PressureProofs!KswapdTrackedAlways` | under the same conditions lmkd knows whether kswapd is awake |

**Assumptions.** They are named and stand in the modules that declare the constants.
`Reaper`: the set of threads is finite, the pipe holds at least one message, and the
value for "no target" is not a target. `ProcRegistry`: levels are integers, 200 is
one of them (the level that the service adjustment writes), pids are not levels, the
hash maps pids to buckets, `Nobody` and `NULL` are not clients, and `NULL` is not a
purge in progress. `Watchdog`: scores are integers up to `OOM_SCORE_ADJ_MAX` and one
is 0 or more, descriptors naturals, and `NULL` and `HEAD` are not processes.
`Connections`: each connection has a client, there is at least one slot, and the
values for "none" are not connections or clients. `KillLoop`: the set of processes
is finite, levels and descriptors are naturals, and `NULL` is not a process, a level
or a call. `KillCount`: sizes are naturals, the table starts at 0 or below, counters have at least two values, and
`INVALID` is not an index. `KillReports`: pids are naturals, names are sequences of
characters, the hash size and the length limit are positive, and `NULL` is neither a
name nor a pid. `KillDecision`: limits and growths are naturals, percentages are in
0..100. `MemEvents` needs none. TLC evaluates them in every run of the module.

A proof module that is about several modules extends one of them and instantiates
the others, whose assumptions are then hypotheses of the theorems: `SearchConstants`
(scores in their range, sizes natural, preferred apps processes), `PollingConstants`
(window, threshold and boost factor positive), `MonitorsConstants` (the shape of a
set of properties), and for `WatermarkLevels` that the share of the cache is a
percentage and the compression ratio natural. The modules assume the same, and
TLC evaluates it there. One theorem has a hypothesis that the code does not give and
that is needed: `MonitorsMatchProps` that the in-kernel driver is not in use. Without
it TLC refutes the property (section 4). `BreachesNested` takes min, low and high
watermarks to be ordered, as the kernel sets them.

**Reaper.** The inductive invariant is the conjunction of the type invariant and
the three safety properties. None of them is inductive alone. The test
`active_requests_ < thread_cnt_` of `async_kill` leaves a thread for the new
request only because the counter is exact. That the thread is awake needs
`QueuedRequestsHaveThreads`: a thread goes to sleep only when the queue is empty,
and `notify_one` wakes one for each push. `DupsAccounted` keeps the number of open
duplicates from going below 0 at a close. The proof has one step per action;
lemmas count the busy and the awake threads when one of them changes its state.
The refinement maps `pending` to the number of requests for each process that are
queued or in a thread that has neither signalled nor reported. `async_kill` adds one
(`AcceptAdds`), `send_signal` and `write_comm` end one that exists (`RequestEnds`),
`dequeue_request` moves one from the queue to a thread (`DequeueKeeps`), and every
other step leaves all of them alone (`PendingSame`).

**Registry.** `ListsWellFormed` says that `next` and `prev` are inverse and that
neighbours are registered and have the same level. The inductive invariant
(`Linked`) also says that a freed record is linked to itself, adds the hash
index, and says of a purge in progress that the records it has yet to visit are
still in the chain. `adjslot_insert`, `adjslot_remove` and the removal from a chain
have a lemma each, and every command is a composition of them. For `PurgeComplete`
the invariant of a purge says that the records of the requestor, or of nobody, that
are left are in the buckets and in the part of the chain not yet visited (`Visited`).

**Watchdog.** The main thread changes the hash chain without the lock that guards
the lists. The inductive invariant therefore describes the registry between the
steps of a command, with the record in hand in the chain and not yet in a list, in a
list and no longer in the chain, or in neither (`SlotsOK`, `ChainOK`), and one
descriptor for each record (`RecordsOK`). `WalkOK` is the core: a walk of
`pid_invalidate` holds the lock, so it began before or after `proc_unslot`. If it
began before, the record has not been freed; if after, the record was no longer in
the chain. So the walk is never at the record about to be freed, nor does any linked
record point to it.

**Connections.** `ClaimantConnected` is not inductive: closing a slot unclaims the
records of the pid stored in the slot, so the invariant says that some slot with a
connection of the registrant also has the registrant's pid (`ClaimsOK`). The batch
that epoll reported may be stale; `BatchOK` says what is still true of it (a slot of
the first pass is open, each occurs once, a listening socket that is reported has a
connection waiting) and describes the loop that drops all connections when the slots
are full. `BacklogOK` keeps connections that are waiting apart from accepted ones, so
that an accepted connection has no subscription yet. Slots are counted with
the cardinality lemmas of the library.

**Kill loop.** Between `kill_victim` and `kill_one_process_out` the record of the
victim and the wait have the same descriptor, and if the wait could not start the
descriptor is closed already; `FilesOK` says so and lets each other record own its
descriptor. `WaitOK` is `WaitWillEnd` without the restriction to the time between
handlers. `BatchOK` says that a poll is first in its batch and has a handler: without
it a kill by a poll could pause nothing. `PollingResumes` follows from these in one
step.

**Counters.** `CountersExact` is inductive together with the types, because the type
of `killcnt_idx` says that the indices in use are below `killcnt_free_idx`, so that
a new index is used by no level yet. Counting modulo the width is proved once, as
lemmas on remainders. Answers and published counts are sums over sets of levels,
which the library defines by recursion. The proofs need four facts of them: a sum is
an integer, any term may be taken out of it, terms that are 0 do not matter, and it
grows by one when one of its terms does. They are shown without an induction scheme,
by taking a smallest set for which one fails. The invariant adds that the counters
in use are those of levels with kills (`IndexUsed`), so that levels which fit all
have one, and that the counts of the groups and the report counter account for the
total (`Totals`).

**Reports of the kernel.** `TableIsMap` is about lookups, which take the first entry of
a chain, so a removal could bring back an older entry. `Chain` says that a chain holds
exactly the pids of its bucket that have a name, each once, with the name last
stored; removing an entry and adding one at the head have a lemma each (`ChainCut`,
`ChainAdd`), and all other chains are kept (`ChainOther`). `ReportsNamed` needs to
look ahead: `NamesKept` says that a report still in the queue of a process that was
registered when it was killed finds a name, and that LMK_PROCREMOVE, once it has read
the reports, has none of its process left. `Counted` and `ToldNamed` are the two parts
of the property.

**Watermarks.** The theorems are about operators, without induction. The only
non-linear fact is that multiplication keeps the order (`TimesMono`); `Shortfall`
turns "free pages plus boosted cache are below the boosted watermark" into a
comparison of the free pages with a product, from which both monotonicities follow.
With MGLRU the sums themselves depend on the boost factor, so `BoostNeverHides`
does not carry over to the whole computation (`BoostFindsMore` in section 4); the
run `watermarks` shows that it does without MGLRU.

**Kill decision.** The first kill goes over the rules twice, with the watermarks
computed again in between, and a reason or a score of the first pass may be the one
used. `DecideInv` says of the event in hand that what it holds is right for the
watermarks found so far (`WellHeld`); more of them excuse no less (`GraveMore`), and
one pass over the rules keeps it (`OnePass`). Taking the samples of an event and
cutting the limit have a lemma each; the decay of the count rests on lemmas about
shifts as divisions by powers of two.

**Monitors.** `MonInv` says that the table and `maxevents` are, at every moment, a
function of the mode and the properties in use: `init_psi_monitors` undoes what it
did when a level is refused, and `destroy_monitors` leaves nothing. And it says that
nothing of lmkd survives a crash, so that a restart finds what the first start found.

**Victim search.** While the search goes down the levels, `SearchOK` says that every
level already passed is spent, and that the process in hand stays the best choice of
its list while records are dropped and processes die: both only lose candidates. A
process is in one list at most, so a record dropped from one level is not a candidate
of another.

**Polling.** `UpgradeEarned` relates the count to the past. The invariant says of a
count that one more reclaim has been seen when one waits to be counted, and that the
time since the last one counted is part of the span (`Earned`). `PollingAlwaysStarts`
is about single steps: it goes through all the ways of an event through
`mp_event_psi` and `call_handler`, with the types from the same invariant.

**Memory events.** What lmkd has recorded tells nothing while events wait in the
ring, so the inductive invariant speaks of the ring: if it holds an event of a kind
and the latest was not lost, the last such event says what the kernel is doing
(`LastDirectTells`, `LastKswapdTells`), and if it holds none, what lmkd has recorded
does (`DirectKnown`, `KswapdKnown`). `Past` says that no start lies in the future,
and `LastExists` that a ring with events of kswapd has a last one. Lemmas say which
positions of the ring an emitted event adds.

**Only model-checked.** Liveness (TLAPS has no fairness or ENABLED here):
`PoolRecovers`, `WatchdogRescues`, `SearchEnds`, `PropsApplied`, `CommandEnds`,
`PollingEnds`. The refinement `ImplementsRecords`, whose mapping walks the lists by
recursion and whose removal selects from a sequence with a predicate: both are
induction over data. What the parser and the folds over zones compute
(`ParsedFaithfully`, `ZonesCounted`, `BoostFindsMorePlain`), for the same reason.
`BatchApplied` and `RegisteredWritten` of `ProcsPrio`, which have no proofs yet.
`StuckMeansStuck` and `KswapdKnown` of the composition `Listener`: their parts are
`MonitorsMatchProps` (no threshold without a listener after boot),
`DirectReclaimSoundAlways` and `KswapdTrackedAlways`, proved of the two modules alone.

## 6. Plan

1. Kernels without pidfds in `KillLoop` (`Polling` has them), where the wait ends
   by polling `/proc`; reuse of pids in `ProcRegistry`.
2. `KillDecision` composed with `Watermarks` and `Listener`, so that the watermark
   and the length of the reclaim are computed and not chosen.
3. Proofs of `RegisteredWritten` and `BatchApplied`, and of `Listener` from those of
   its parts.

## 7. Not modelled

* **LMK_TARGET**: `cmd_target` fills `lowmem_adj` and `lowmem_minfree`, which nothing
  else reads, and writes them to a property and to the parameters of the in-kernel
  killer, at most once a second: output only.
* **Parsing of the other `/proc` and PSI files**: text without state between calls; a
  failure to parse is a choice in the models that use the result.
* **Statistics of a victim, statsd packets, event log, trace**: output only.
* **vmpressure events**: on kernels without PSI they go to the same handler
  `mp_event_psi`; `Monitors` has their registration, the other modules take psi events.
* **Client library**: one write and one read per call; the daemon's side is in
  `Connections`. The wire format is not modelled.
* **Vendor hooks and perf library**: external code; the hook before a kill is a
  choice, the rest is taken as present and successful.
* **Code that is never called** (`record_low_pressure_levels`, `get_memory_usage`).
* **A change of the mode while lmkd runs**: `update_perf_props` sets
  `use_inkernel_interface` again (lmkd.cpp:5022). `Monitors` has it; `KillReports`
  keeps the mode it starts with, because the two modes share no state there and each
  would go on from where it was.
* **Hang-ups of other sources**: the first pass of `mainloop` closes the slot given by
  the handler's data for every source that reports EPOLLHUP (lmkd.cpp:4747-4751). In
  `Connections` only the data sockets report it. PSI files and pipes whose writer is
  open do not; a kernel that reports it for the pidfd of a process already reaped
  is outside the model.
* **A status file without its Tgid line**: LMK_PROCPRIO and the batch register a
  process whose status they cannot read or parse without testing that it is a leader
  (lmkd.cpp:1472-1479, 1796-1802). The models take the kernel to give the line for
  every task that is alive; the write of the score refuses the others.
* **Out of memory inside lmkd**, and the length of strings other than task names.
