---------------------------- MODULE KillDecision ----------------------------
(***************************************************************************)
(* mp_event_psi: when lmkd kills, for which reason, and which processes it *)
(* spares.  The state is what the handler remembers from one event to the  *)
(* next.  What it reads (vmstat, meminfo, zoneinfo, psi) is chosen         *)
(* arbitrarily at every event, as the facts that the decision tells apart; *)
(* refaults are percentages of the file cache.  An event is handled in     *)
(* steps: sample, decide (twice before the first kill), kill.              *)
(*                                                                         *)
(* Events skipped while a kill is pending are in KillLoop.tla, polling and *)
(* the boost factor in Polling.tla, the watermarks in Watermarks.tla and   *)
(* the search for a victim in VictimSearch.tla; the watermark found is     *)
(* left open here.                                                         *)
(***************************************************************************)
EXTENDS Integers, Sequences

CONSTANTS thrashing_limit_pct, thrashing_critical_pct, thrashing_limit_decay_pct,
          lowmem_min_oom_score, pressure_after_kill_min_score,
          DirectReclaimThreshold,  \* direct_reclaim_threshold_ms > 0
          Growth,                  \* refaults between two events
          Windows,                 \* thrashing windows passed between two events
          MaxRefaults              \* bound on the refaults of a window

ASSUME LimitAssumption ==
  /\ thrashing_limit_pct \in Nat /\ thrashing_critical_pct \in Nat
  /\ thrashing_limit_decay_pct \in 0..100
  /\ lowmem_min_oom_score \in 201..1001 /\ pressure_after_kill_min_score \in 0..1000
  /\ Growth \subseteq Nat /\ Windows \subseteq Nat /\ MaxRefaults \in Nat

FOREGROUND_APP_ADJ == 0
PERCEPTIBLE_RECENT_FOREGROUND_APP_ADJ == 50
VISIBLE_APP_ADJ == 100
PERCEPTIBLE_APP_ADJ == 200

MEDIUM == 1
CRITICAL == 2
SUPER_CRITICAL == 3

WMARK_MIN == 0
WMARK_LOW == 1
WMARK_HIGH == 2
WMARK_NONE == 3

Reclaim == {"NO_RECLAIM", "KSWAPD_RECLAIM", "DIRECT_RECLAIM", "DIRECT_RECLAIM_THROTTLE"}
ThrashingReasons == {"LOW_MEM_AND_THRASHING", "DIRECT_RECL_AND_THRASHING"}
Reasons == ThrashingReasons \cup
  {"NONE", "PRESSURE_AFTER_KILL", "DIRECT_RECL_AND_THROT", "CRITICAL_KILL", "NOT_RESPONDING",
   "LOW_SWAP_AND_THRASHING", "LOW_MEM_AND_SWAP", "LOW_MEM_AND_SWAP_UTIL", "DIRECT_RECL_STUCK",
   "LOW_FILECACHE_AFTER_THRASHING", "COMPACTION", "LOW_MEM"}

VARIABLES
  killing, first_kill, check_filecache,   \* statics of mp_event_psi
  thrashing_limit, prev_thrash_growth,
  refaults,         \* workingset_refault_file - init_ws_refault, in percent
  step,             \* "idle", "decide" or "kill"
  now               \* the locals of the event being handled; for the properties
                    \* also seen, the watermarks the passes over this event have
                    \* found, and crossed: windows passed, growth and limit in
                    \* the last one

statics == <<killing, first_kill, check_filecache, thrashing_limit, prev_thrash_growth,
             refaults>>
vars == <<statics, step, now>>

NoEvent == [level |-> MEDIUM, event |-> FALSE, reclaim |-> "NO_RECLAIM", in_compaction |-> FALSE,
            long |-> FALSE, cycle_after_kill |-> FALSE, thrashing |-> 0, wmark |-> WMARK_NONE,
            critical_stall |-> FALSE, cut_thrashing_limit |-> FALSE,
            kill_reason |-> "NONE", min_score_adj |-> 0, seen |-> {},
            read |-> <<>>, crossed |-> [windows |-> 0, growth |-> 0, limit |-> 0]]

Init ==
  /\ killing = FALSE /\ first_kill = TRUE /\ check_filecache = FALSE
  /\ thrashing_limit = thrashing_limit_pct /\ prev_thrash_growth = 0
  /\ refaults = 0
  /\ step = "idle" /\ now = NoEvent

-----------------------------------------------------------------------------
(* growth >> n for n < 64, in three shifts: 2 ^ n itself may be beyond the *)
(* integers of the model checker.                                          *)
ShiftRight(growth, n) ==
  LET t == n \div 3 IN ((growth \div 2 ^ t) \div 2 ^ t) \div 2 ^ (n - 2 * t)

(* growth >>= windows on an int64_t.  A shift by its width or more is      *)
(* undefined: the machine shifts by the remainder, or nothing is left.     *)
Shifted(growth, windows) ==
  IF windows < 64 THEN {ShiftRight(growth, windows)}
  ELSE {ShiftRight(growth, windows % 64), 0}

(* Mutant: the growth of a window is always halved when it is crossed.     *)
Decayed_always(growth, windows) == Shifted(growth, windows)

(* The previous window's growth, kept if it was over the limit and the     *)
(* window has just been crossed.                                           *)
Decayed(growth, windows) ==
  IF windows > 1 \/ growth < thrashing_limit THEN Shifted(growth, windows) ELSE {growth}

(* The first half of mp_event_psi, up to update_watermarks.  e: the facts  *)
(* of the event; growth: refaults since the last event; same: there was    *)
(* none at all (a growth of 0 may be a rounded one); windows: thrashing    *)
(* windows passed since the reset, none right after a kill.                *)
sample(e, same, growth, windows) ==
  LET all      == IF killing THEN 0 ELSE refaults + growth
      previous == IF killing THEN 0 ELSE prev_thrash_growth
      crossed  == ~killing /\ windows > 0
  IN  /\ step = "idle" /\ all <= MaxRefaults /\ (same => growth = 0)
      /\ killing' = FALSE
      /\ UNCHANGED <<first_kill, check_filecache>>
      /\ IF e.reclaim = "NO_RECLAIM" /\ same /\ ~e.in_compaction
         THEN \* not in reclaim or compaction, and no refaults
              /\ refaults' = all /\ prev_thrash_growth' = previous
              /\ UNCHANGED <<thrashing_limit, step, now>>
         ELSE /\ prev_thrash_growth' \in IF crossed THEN Decayed(all, windows) ELSE {previous}
              /\ refaults' = IF crossed THEN 0 ELSE all
              /\ thrashing_limit' = IF crossed THEN thrashing_limit_pct ELSE thrashing_limit
              /\ step' = "decide"
              /\ now' = [e EXCEPT !.cycle_after_kill = killing,
                                  !.thrashing = refaults' + prev_thrash_growth',
                                  !.crossed = IF ~crossed THEN @
                                              ELSE [windows |-> windows, growth |-> all,
                                                    limit |-> thrashing_limit]]

-----------------------------------------------------------------------------
(* The conditions of the decision, in the order they are tried, on event   *)
(* e: low and util: the two tests on swap.                                 *)
Rules(e, low, util) ==
  <<[reason |-> "PRESSURE_AFTER_KILL",   if |-> e.cycle_after_kill /\ e.wmark <= WMARK_LOW],
    [reason |-> "DIRECT_RECL_AND_THROT", if |-> e.reclaim = "DIRECT_RECLAIM_THROTTLE"],
    [reason |-> "CRITICAL_KILL",
       if |-> e.level = CRITICAL /\ e.event /\ e.wmark <= WMARK_HIGH],
    [reason |-> "NOT_RESPONDING",
       if |-> e.level = SUPER_CRITICAL /\ e.event /\ e.wmark <= WMARK_HIGH],
    [reason |-> "LOW_SWAP_AND_THRASHING", if |-> low /\ e.thrashing > thrashing_limit_pct],
    [reason |-> "LOW_MEM_AND_SWAP",      if |-> low /\ e.wmark <= WMARK_HIGH],
    [reason |-> "LOW_MEM_AND_SWAP_UTIL", if |-> e.wmark < WMARK_HIGH /\ util],
    [reason |-> "LOW_MEM_AND_THRASHING",
       if |-> e.wmark <= WMARK_HIGH /\ e.thrashing > thrashing_limit],
    [reason |-> "DIRECT_RECL_AND_THRASHING",
       if |-> e.reclaim = "DIRECT_RECLAIM" /\ e.thrashing > thrashing_limit],
    [reason |-> "DIRECT_RECL_STUCK",
       if |-> e.reclaim = "DIRECT_RECLAIM" /\ DirectReclaimThreshold /\ e.long],
    [reason |-> "LOW_FILECACHE_AFTER_THRASHING", if |-> check_filecache],
    [reason |-> "COMPACTION",            if |-> e.in_compaction /\ e.wmark <= WMARK_HIGH],
    [reason |-> "NONE",                  if |-> TRUE]>>

FirstRule(rules) ==
  rules[CHOOSE i \in DOMAIN rules : rules[i].if /\ \A j \in 1..(i - 1) : ~rules[j].if].reason

(* Mutant: perceptible apps are killed whenever swap is low.               *)
MinScore_swap(reason, e) ==
  CASE reason = "PRESSURE_AFTER_KILL" ->
         IF e.wmark > WMARK_MIN THEN VISIBLE_APP_ADJ ELSE PERCEPTIBLE_RECENT_FOREGROUND_APP_ADJ
    [] reason = "CRITICAL_KILL" -> PERCEPTIBLE_RECENT_FOREGROUND_APP_ADJ
    [] reason \in {"LOW_MEM_AND_THRASHING", "COMPACTION"} -> VISIBLE_APP_ADJ
    [] reason \in {"DIRECT_RECL_AND_THRASHING", "LOW_FILECACHE_AFTER_THRASHING"} ->
         PERCEPTIBLE_APP_ADJ + 1
    [] reason = "LOW_MEM" -> lowmem_min_oom_score
    [] OTHER -> e.min_score_adj

(* The processes spared: those below min_score_adj.  Some reasons leave it *)
(* as it is.                                                               *)
MinScore(reason, e) ==
  CASE reason = "PRESSURE_AFTER_KILL" ->
         IF e.wmark > WMARK_MIN THEN VISIBLE_APP_ADJ ELSE PERCEPTIBLE_RECENT_FOREGROUND_APP_ADJ
    [] reason = "CRITICAL_KILL" -> PERCEPTIBLE_RECENT_FOREGROUND_APP_ADJ
    [] /\ reason \in {"LOW_SWAP_AND_THRASHING", "LOW_MEM_AND_SWAP"}
       /\ e.wmark > WMARK_MIN /\ e.thrashing < thrashing_critical_pct -> PERCEPTIBLE_APP_ADJ + 1
    [] reason \in {"LOW_MEM_AND_THRASHING", "COMPACTION"} -> VISIBLE_APP_ADJ
    [] reason \in {"DIRECT_RECL_AND_THRASHING", "LOW_FILECACHE_AFTER_THRASHING"} ->
         PERCEPTIBLE_APP_ADJ + 1
    [] reason = "LOW_MEM" -> lowmem_min_oom_score
    [] OTHER -> e.min_score_adj

(* The decision on event e; small: the file cache is below                 *)
(* filecache_min_kb.  A reason found in a first pass stays unless another  *)
(* one is found.                                                           *)
Decision(e, low, util, small) ==
  LET rule  == FirstRule(Rules(e, low, util))
      found == IF rule = "LOW_FILECACHE_AFTER_THRASHING" /\ ~small THEN "NONE" ELSE rule
      held  == IF found = "NONE" THEN e.kill_reason ELSE found
      final == IF held = "NONE" /\ e.wmark < WMARK_HIGH THEN "LOW_MEM" ELSE held
      fresh == found # "NONE" \/ held = "NONE"
  IN  [e EXCEPT !.kill_reason = final,
                !.min_score_adj = IF fresh THEN MinScore(final, e) ELSE @,
                !.cut_thrashing_limit = @ \/ found \in ThrashingReasons]

(* zoneinfo cannot be parsed: the event is dropped.                        *)
zoneinfo_fails ==
  /\ step = "decide"
  /\ step' = "idle" /\ now' = NoEvent
  /\ UNCHANGED statics

(* From update_watermarks to the call of find_and_kill_process.  A second  *)
(* pass reads zoneinfo and psi again, not meminfo and vmstat.              *)
decide(wmark, low, util, stall, small) ==
  LET e    == [now EXCEPT !.wmark = wmark, !.critical_stall = stall, !.seen = @ \cup {wmark}]
      rule == FirstRule(Rules(e, low, util))
      d    == Decision(e, low, util, small)
  IN  /\ step = "decide"
      /\ now.read \in {<<>>, <<low, util, small>>}
      /\ check_filecache' =
           CASE rule \in ThrashingReasons \cup {"LOW_SWAP_AND_THRASHING"} -> TRUE
             [] rule = "LOW_FILECACHE_AFTER_THRASHING" -> small
             [] OTHER -> check_filecache
      /\ \/ /\ d.kill_reason = "NONE"
            /\ step' = "idle" /\ now' = NoEvent /\ UNCHANGED first_kill
         \/ /\ d.kill_reason # "NONE" /\ first_kill   \* goto update_watermarks
            /\ first_kill' = FALSE /\ UNCHANGED step
            /\ now' = [d EXCEPT !.read = <<low, util, small>>]
         \/ /\ d.kill_reason # "NONE" /\ ~first_kill
            /\ now' = [d EXCEPT !.min_score_adj = IF stall THEN FOREGROUND_APP_ADJ ELSE @]
            /\ step' = "kill" /\ UNCHANGED first_kill
      /\ UNCHANGED <<killing, thrashing_limit, prev_thrash_growth, refaults>>

(* Kills for thrashing lower the limit until the system stops thrashing.   *)
CutLimit == (thrashing_limit * (100 - thrashing_limit_decay_pct)) \div 100

(* find_and_kill_process and what follows; freed: pages_freed > 0.         *)
kill(freed) ==
  /\ step = "kill"
  /\ killing' = freed
  /\ thrashing_limit' = IF freed /\ now.cut_thrashing_limit
                        THEN CutLimit ELSE thrashing_limit
  /\ step' = "idle" /\ now' = NoEvent
  /\ UNCHANGED <<first_kill, check_filecache, prev_thrash_growth, refaults>>

(* An event at pressure level l, from psi or a poll, with the kind of      *)
(* reclaim found, compaction in progress or not, and                       *)
(* direct_reclaim_duration_ms above its threshold or not.                  *)
EventOf(l, psi, r, c, long) ==
  [NoEvent EXCEPT !.level = l, !.event = psi, !.reclaim = r, !.in_compaction = c, !.long = long]

Event == {EventOf(l, psi, r, c, long) :
            l \in {MEDIUM, CRITICAL, SUPER_CRITICAL}, psi \in BOOLEAN, r \in Reclaim,
            c \in BOOLEAN, long \in BOOLEAN}

Next ==
  \/ \E e \in {f \in Event : f.long => f.reclaim = "DIRECT_RECLAIM"},
        same \in BOOLEAN, g \in Growth, w \in Windows : sample(e, same, g, w)
  \/ zoneinfo_fails
  \/ \E wmark \in WMARK_MIN..WMARK_NONE, low, util, stall, small \in BOOLEAN :
       decide(wmark, low, util, stall, small)
  \/ \E freed \in BOOLEAN : kill(freed)

Spec == Init /\ [][Next]_vars

-----------------------------------------------------------------------------
(* Type invariant; the thrashing limit is never above its setting.         *)
TypeOK ==
  /\ {killing, first_kill, check_filecache} \subseteq BOOLEAN
  /\ thrashing_limit \in 0..thrashing_limit_pct
  /\ refaults \in 0..MaxRefaults /\ prev_thrash_growth \in 0..MaxRefaults
  /\ step \in {"idle", "decide", "kill"}
  /\ now.kill_reason \in Reasons /\ now.min_score_adj \in 0..1001

(* A reason for which perceptible apps may be killed, given the watermarks *)
(* found.                                                                  *)
Grave(reason, found, thrashing) ==
  /\ reason \notin {"DIRECT_RECL_AND_THRASHING", "LOW_FILECACHE_AFTER_THRASHING", "LOW_MEM"}
  /\ reason \in {"LOW_SWAP_AND_THRASHING", "LOW_MEM_AND_SWAP"} =>
       WMARK_MIN \in found \/ thrashing >= thrashing_critical_pct

Spared(found) ==
  step = "kill" /\ ~now.critical_stall /\ now.min_score_adj <= PERCEPTIBLE_APP_ADJ =>
    Grave(now.kill_reason, found, now.thrashing)

(* Low swap, a small file cache, thrashing in direct reclaim and low       *)
(* memory do not cost a perceptible app its life, unless the system is     *)
(* stalled, or, when swap is low, thrashing is critical or a pass over     *)
(* this event found the min watermark breached.  It holds of the first     *)
(* kill too, whose reason and score may come from either of two passes     *)
(* with different watermarks.  Scores and reasons are in range (the        *)
(* types).                                                                 *)
PerceptibleSpared == TypeOK /\ Spared(now.seen)

(* Refuted: the same with the watermark of the last pass alone, which the  *)
(* kill is logged with.  A reason and a score of the first pass stay if    *)
(* the second, with fresh watermarks, finds no reason.                     *)
PerceptibleSparedNow == Spared({now.wmark})

(* Over-the-limit thrashing that found no victim is not forgotten at the   *)
(* end of its window: the event that crosses the window still finds it     *)
(* over the limit, to kill if there is a victim now.  It is not kept for   *)
(* ever either: after several windows without an event, as many as the     *)
(* shift is defined for, at most a quarter of it remains.                  *)
RetryKept ==
  step = "decide" =>
    /\ now.crossed.windows = 1 /\ now.crossed.growth > thrashing_limit_pct
         => now.thrashing > thrashing_limit
    /\ now.crossed.windows \in 2..63 => 4 * prev_thrash_growth <= now.crossed.growth

(* The same when the limit was cut by earlier kills.                       *)
RetryKeptWhenCut ==
  step = "decide" /\ now.crossed.windows = 1 /\ now.crossed.growth > now.crossed.limit
    => now.thrashing > thrashing_limit

(* Old thrashing wears off after any number of windows.                    *)
GrowthDecays ==
  step = "decide" /\ now.crossed.windows > 1 => 4 * prev_thrash_growth <= now.crossed.growth

(* Watermarks are correct at the first kill: a kill for LOW_MEM happens    *)
(* only if the last watermarks computed show low memory.                   *)
KillsJustified == step = "kill" /\ now.kill_reason = "LOW_MEM" => now.wmark < WMARK_HIGH

(* A lowmem_min_oom_score of 1001 prevents any kill for low memory.        *)
LowMemDisabled ==
  step = "kill" /\ now.kill_reason = "LOW_MEM" /\ lowmem_min_oom_score = 1001
    => now.min_score_adj = 1001

(* The cycle after a kill spares processes below                           *)
(* pressure_after_kill_min_score.                                          *)
AfterKillScore ==
  step = "kill" /\ now.kill_reason = "PRESSURE_AFTER_KILL" /\ ~now.critical_stall
    => now.min_score_adj >= pressure_after_kill_min_score
=============================================================================
