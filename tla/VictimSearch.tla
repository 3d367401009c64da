---------------------------- MODULE VictimSearch ----------------------------
(***************************************************************************)
(* The search for a victim: find_and_kill_process with proc_adj_tail,      *)
(* proc_get_heaviest, kill_one_process and proc_get_script.  It runs on    *)
(* the main thread, on the lists that ProcRegistry.tla implements, while   *)
(* processes die at any moment.  What follows a kill (the wait, the        *)
(* reaper) is in KillLoop.tla.                                             *)
(*                                                                         *)
(* A walk over a list that reads each process once is one step, and one    *)
(* for each record that it drops: a process that dies during it could as   *)
(* well have died before or after.                                         *)
(***************************************************************************)
EXTENDS Integers, Sequences, FiniteSets, Functions

CONSTANTS Proc,
          Level,            \* oom_score_adj values in use, \subseteq 0..1000
          MinScore,         \* values of min_score_adj, \subseteq 0..1001
          Size,             \* [Proc -> Nat]: resident pages, in statm and in status
          Preferred,        \* names found in preferred_apps, \subseteq Proc
          KillHeaviest,     \* kill_heaviest_task
          UseHooks,         \* LMKD_USE_HOOKS
          UserdebugBuild,   \* is_userdebug_or_eng_build
          NULL

ASSUME LevelAssumption == Level \subseteq 0..1000 /\ MinScore \subseteq 0..1001
ASSUME SizeAssumption == Size \in [Proc -> Nat] /\ Preferred \subseteq Proc /\ NULL \notin Proc

VARIABLES
  slots,       \* [Level -> Seq(Proc)]: head first, the tail is least recently set
  valid,       \* procp->valid
  state,       \* "alive", "zombie" (not reaped by its parent) or "gone"
  search,      \* the call of find_and_kill_process, or NULL
  script       \* statics of proc_get_script: [d, retry_eligible, check_time]

vars == <<slots, valid, state, search, script>>

PerceptibleAppAdj == 200

Init ==
  /\ slots = [l \in Level |-> <<>>]
  /\ valid = [p \in Proc |-> TRUE]
  /\ state = [p \in Proc |-> "alive"]
  /\ search = NULL
  /\ script = [d |-> NULL, retry_eligible |-> FALSE, check_time |-> FALSE]

-----------------------------------------------------------------------------
(* Between searches: procprio registers a process or moves it to the head  *)
(* of a list; the watchdog kills a process and invalidates its record.     *)
adjslot_remove(list, p) ==
  LET i == CHOOSE i \in DOMAIN list : list[i] = p
  IN  SubSeq(list, 1, i - 1) \o SubSeq(list, i + 1, Len(list))

Without(p) == [l \in Level |-> IF p \in Range(slots[l]) THEN adjslot_remove(slots[l], p)
                              ELSE slots[l]]

Registered == UNION {Range(slots[l]) : l \in Level}

procprio(p, l) ==
  /\ search = NULL /\ state[p] = "alive"
  /\ slots' = [Without(p) EXCEPT ![l] = <<p>> \o @]
  /\ UNCHANGED <<valid, state, search, script>>

watchdog_kills(p) ==
  /\ p \in Registered /\ valid[p] /\ state[p] = "alive"
  /\ valid' = [valid EXCEPT ![p] = FALSE]
  /\ state' = [state EXCEPT ![p] = "zombie"]
  /\ UNCHANGED <<slots, search, script>>

dies(p) ==
  /\ state[p] # "gone"
  /\ state' = [state EXCEPT ![p] = IF @ = "alive" THEN "zombie" ELSE "gone"]
  /\ UNCHANGED <<slots, valid, search, script>>

-----------------------------------------------------------------------------
At(at) == search # NULL /\ search.at = at

(* The loop over i skips levels without records in one go.                 *)
Levels(min) == {l \in Level : l >= min}

(* The call; killed_size is 0 and the loop starts at the top.  victims and *)
(* gave_up record what it has killed, and the levels at which a kill freed *)
(* no page.                                                                *)
find_and_kill_process(min) ==
  /\ search = NULL
  /\ search' = [at |-> "level", min |-> min, left |-> Levels(min), level |-> NULL,
                procp |-> NULL, killed_size |-> 0, victims |-> {}, gave_up |-> {}]
  /\ UNCHANGED <<slots, valid, state, script>>

(* Mutant: the loop runs upwards.                                          *)
NextLevel_lowest == {s \in search.left : \A t \in search.left : s <= t}

(* i--: the highest of the levels left, as a set of one.                   *)
NextLevel == {s \in search.left : \A t \in search.left : t <= s}

(* if (killed_size) break, the end of the loop, or its next level.         *)
next_level ==
  /\ At("level")
  /\ \/ /\ search.killed_size # 0 \/ search.left = {}
        /\ search' = [search EXCEPT !.at = "end"]
     \/ /\ search.killed_size = 0
        /\ \E l \in NextLevel :
             search' = [search EXCEPT !.at = "pick", !.level = l, !.left = @ \ {l}]
  /\ UNCHANGED <<slots, valid, state, script>>

choose_heaviest_task(l) == KillHeaviest \/ l <= PerceptibleAppAdj

(* proc_get_size: rss, or swap when rss is 0; 0 for a zombie.              *)
proc_get_size(p) == IF state[p] = "alive" THEN Size[p] ELSE 0

(* Those of a list with memory, and the first of the largest among them.   *)
Sized(list) == {p \in Range(list) : proc_get_size(p) > 0}

FirstHeaviest(list, ps) ==
  {list[i] : i \in {i \in DOMAIN list :
     /\ list[i] \in ps
     /\ \A q \in ps : proc_get_size(q) <= proc_get_size(list[i])
     /\ \A j \in DOMAIN list :
          j < i /\ list[j] \in ps => proc_get_size(list[j]) < proc_get_size(list[i])}}

(* Mutant: preferred apps are considered like any other.                   *)
proc_get_heaviest_any(list) ==
  IF Sized(list) # {} THEN FirstHeaviest(list, Sized(list)) ELSE {NULL}

(* The process that is returned, as a set of one.                          *)
proc_get_heaviest(list) ==
  IF Sized(list) = {} THEN {NULL}
  ELSE FirstHeaviest(list, IF Sized(list) \subseteq Preferred THEN Sized(list)
                           ELSE Sized(list) \ Preferred)

proc_adj_tail(list) == IF list = <<>> THEN NULL ELSE list[Len(list)]

(* What proc_get_heaviest drops: the records of processes that are gone.   *)
Gone(list) == {p \in Range(list) : state[p] = "gone"}

drop_gone(p) ==
  /\ At("pick") /\ choose_heaviest_task(search.level)
  /\ p \in Gone(slots[search.level])
  /\ slots' = Without(p)
  /\ UNCHANGED <<valid, state, search, script>>

(* The while loop picks a process.                                         *)
pick ==
  LET list == slots[search.level]
  IN  /\ At("pick")
      /\ choose_heaviest_task(search.level) => Gone(list) = {}
      /\ \E procp \in IF choose_heaviest_task(search.level) THEN proc_get_heaviest(list)
                      ELSE {proc_adj_tail(list)} :
           search' = [search EXCEPT !.procp = procp,
                                    !.at = IF procp = NULL THEN "level" ELSE "check"]
      /\ UNCHANGED <<slots, valid, state, script>>

(* kill_one_process returned r; the while loop goes on if r < 0.           *)
Result(r, killed) ==
  search' = [search EXCEPT !.killed_size = r, !.procp = NULL,
                           !.at = IF r < 0 THEN "pick" ELSE "level",
                           !.victims = @ \cup killed,
                           !.gave_up = IF r = 0 THEN @ \cup {search.level} ELSE @]

(* Mutant: the record of a process that cannot be killed is kept.          *)
check_fails_keeps ==
  /\ At("check")
  /\ ~valid[search.procp] \/ state[search.procp] # "alive"
  /\ Result(-1, {})
  /\ UNCHANGED <<slots, valid, state, script>>

(* An invalid record, no /proc/<pid>/status, no rss (a zombie), no name.   *)
check_fails ==
  /\ At("check")
  /\ ~valid[search.procp] \/ state[search.procp] # "alive"
  /\ slots' = Without(search.procp)
  /\ Result(-1, {})
  /\ UNCHANGED <<valid, state, script>>

(* lmkd_free_memory_before_kill_hook freed memory: the record is kept.     *)
hook_frees ==
  /\ At("check") /\ UseHooks
  /\ valid[search.procp] /\ state[search.procp] = "alive"
  /\ Result(1, {})
  /\ UNCHANGED <<slots, valid, state, script>>

check_passes ==
  /\ At("check")
  /\ valid[search.procp] /\ state[search.procp] = "alive"
  /\ search' = [search EXCEPT !.at = "kill"]
  /\ UNCHANGED <<slots, valid, state, script>>

(* reaper.kill succeeds (always when the reaper accepts the request), or   *)
(* fails because the process is gone: then the hook's 0 is returned.       *)
kill ==
  LET p == search.procp
  IN  /\ At("kill")
      /\ \/ /\ Result(Size[p], {p})
            /\ state' = [state EXCEPT ![p] = IF @ = "alive" THEN "zombie" ELSE @]
         \/ state[p] = "gone" /\ Result(0, {}) /\ UNCHANGED state
      /\ slots' = Without(p)
      /\ UNCHANGED <<valid, script>>

-----------------------------------------------------------------------------
(* The end of find_and_kill_process: return, or try proc_get_script.       *)
return ==
  /\ At("end")
  /\ search' = IF search.killed_size = 0 /\ search.min = 0 /\ UserdebugBuild
               THEN [search EXCEPT !.at = "script"] ELSE NULL
  /\ UNCHANGED <<slots, valid, state, script>>

(* proc_get_script returns at once when the last traverse that found       *)
(* nothing is recent, or when /proc cannot be opened.                      *)
proc_get_script ==
  /\ At("script")
  /\ \/ script.check_time /\ search' = NULL
     \/ search' = [search EXCEPT !.at = "repeat"]
  /\ UNCHANGED <<slots, valid, state, script>>

opendir ==
  /\ At("repeat") /\ script.d = NULL
  /\ \/ script' = [script EXCEPT !.d = {p \in Proc : state[p] # "gone"}] /\ UNCHANGED search
     \/ search' = NULL /\ UNCHANGED script
  /\ UNCHANGED <<slots, valid, state>>

(* readdir: an entry that cannot be killed is skipped, the first other one *)
(* is killed (which may fail when it is gone by then).                     *)
readdir(p) ==
  /\ At("repeat") /\ script.d # NULL /\ p \in script.d
  /\ \/ /\ proc_get_size(p) = 0
        /\ script' = [script EXCEPT !.d = @ \ {p}]
        /\ UNCHANGED <<state, search>>
     \/ /\ proc_get_size(p) > 0
        /\ script' = [d |-> script.d \ {p}, retry_eligible |-> TRUE, check_time |-> FALSE]
        /\ state' = [state EXCEPT ![p] = "zombie"]
        /\ search' = NULL
  /\ UNCHANGED <<slots, valid>>

(* The directory is exhausted: once more if something was killed since the *)
(* last time, otherwise not again for PSI_PROC_TRAVERSE_DELAY_MS.          *)
closedir ==
  /\ At("repeat") /\ script.d = {}
  /\ IF script.retry_eligible
     THEN /\ script' = [script EXCEPT !.d = NULL, !.retry_eligible = FALSE]
          /\ UNCHANGED search
     ELSE /\ script' = [script EXCEPT !.d = NULL, !.check_time = TRUE]
          /\ search' = NULL
  /\ UNCHANGED <<slots, valid, state>>

main_thread ==
  \/ next_level \/ pick \/ check_fails \/ hook_frees \/ check_passes \/ kill
  \/ return \/ proc_get_script \/ opendir \/ closedir
  \/ \E p \in Proc : drop_gone(p) \/ readdir(p)

Next == \/ \E min \in MinScore : find_and_kill_process(min)
        \/ \E p \in Proc, l \in Level : procprio(p, l)
        \/ main_thread
        \/ \E p \in Proc : watchdog_kills(p) \/ dies(p)

Spec == Init /\ [][Next]_vars

(* The main thread keeps running.                                          *)
FairSpec == Spec /\ WF_vars(main_thread)

-----------------------------------------------------------------------------
(* Type invariant of the search: a process is in one list at most once,    *)
(* and a picked process has a record in the list of the level.             *)
TypeOK ==
  /\ \A l, m \in Level : \A i \in DOMAIN slots[l], j \in DOMAIN slots[m] :
       slots[l][i] = slots[m][j] => l = m /\ i = j
  /\ search # NULL =>
       /\ search.killed_size \in Int
       /\ search.at \in {"check", "kill"} => search.procp \in Range(slots[search.level])

(* A process is killed only for want of a more expendable one: when        *)
(* kill_one_process is about to kill at some level, every higher level     *)
(* down from OOM_SCORE_ADJ_MAX has no record left, or only processes       *)
(* without memory where the heaviest is looked for, or a kill there freed  *)
(* nothing.  A process is in one list at most (the types).                 *)
MostExpendableFirst ==
  /\ TypeOK
  /\ At("kill") =>
       /\ search.level >= search.min
       /\ \A l \in Level : l > search.level =>
            \/ slots[l] = <<>> \/ l \in search.gave_up
            \/ choose_heaviest_task(l) /\ \A p \in Range(slots[l]) : proc_get_size(p) = 0

(* Preferred apps are spared: where the heaviest task is chosen, a         *)
(* preferred one is picked only if its level has no other process with     *)
(* memory, and nothing lighter than another candidate is picked.           *)
PreferredSpared ==
  At("kill") /\ choose_heaviest_task(search.level) =>
    \A q \in Range(slots[search.level]) :
      proc_get_size(q) > 0 =>
        /\ search.procp \in Preferred => q \in Preferred
        /\ (q \in Preferred <=> search.procp \in Preferred) => Size[q] <= Size[search.procp]

(* The search ends, although records are dropped and processes die under   *)
(* it and the traverse of /proc repeats itself.                            *)
SearchEnds == search # NULL ~> search = NULL

Candidates(min) ==
  {p \in Proc : /\ valid[p] /\ state[p] = "alive" /\ Size[p] > 0
                /\ \E l \in Levels(min) : p \in Range(slots[l])}

(* "Find one process to kill at or above the given oom_score_adj level":   *)
(* a search that killed nothing, and did not come across a kill that       *)
(* failed, leaves no process that could have been killed.                  *)
FindsOneProcess ==
  At("end") /\ search.killed_size <= 0 /\ search.victims = {} /\ search.gave_up = {} =>
    Candidates(search.min) = {}
=============================================================================
