------------------------------ MODULE KillCount -----------------------------
(***************************************************************************)
(* The kill counters.  inc_killcnt counts the kills of each oom_score_adj  *)
(* in a sparse array, get_killcnt adds up a range of them for the          *)
(* LMK_GETKILLCNT command, and prop_log_lmk_kill_occurred publishes counts *)
(* by groups of levels every PROP_REPORT_FREQ kills.                       *)
(***************************************************************************)
EXTENDS Integers, FiniteSets, Functions

CONSTANTS AdjMin,        \* OOM_SCORE_ADJ_MIN
          AdjMax,        \* OOM_SCORE_ADJ_MAX and ADJ_MAX
          AdjDivisor,    \* ADJ_DIVISOR
          ReportFreq,    \* PROP_REPORT_FREQ
          MaxDistinct,   \* MAX_DISTINCT_OOM_ADJ
          CounterSize,   \* values of a uint16_t counter
          MaxKills,      \* bound on the kills explored
          INVALID,       \* KILLCNT_INVALID_IDX
          NULL           \* no answer

ASSUME CountAssumption ==
  /\ AdjMin \in Int /\ AdjMin <= 0
  /\ AdjMax \in Nat /\ AdjDivisor \in Nat \ {0} /\ ReportFreq \in Nat \ {0}
  /\ MaxDistinct \in Nat /\ CounterSize \in Nat \ {0, 1} /\ MaxKills \in Nat
  /\ INVALID \notin Nat

(* Victims have a level of 0 or more: min_score_adj is never negative.     *)
Adj == 0..AdjMax

(* The levels killcnt_idx has a slot for (ADJTOSLOT).                      *)
Slot == AdjMin..AdjMax

Index == 0..(MaxDistinct - 1)
Group == 0..(AdjMax \div AdjDivisor)

VARIABLES killcnt_idx, killcnt, killcnt_free_idx, killcnt_total,
          lmk_count, counter,
          published,     \* sys.lmk.count
          reply,         \* [min, max, count]: the last answer, until the next kill
          kills          \* [Adj -> Nat]: what happened

vars == <<killcnt_idx, killcnt, killcnt_free_idx, killcnt_total,
          lmk_count, counter, published, reply, kills>>

Init ==
  /\ killcnt_idx = [a \in Slot |-> INVALID] /\ killcnt = [i \in Index |-> 0]
  /\ killcnt_free_idx = 0 /\ killcnt_total = 0
  /\ lmk_count = [g \in Group |-> 0] /\ counter = 0 /\ published = [g \in Group |-> 0]
  /\ reply = NULL /\ kills = [a \in Adj |-> 0]

-----------------------------------------------------------------------------
(* Mutant: the kill that takes a counter is not counted.                   *)
FirstCount_zero == 0

(* killcnt[killcnt_free_idx] = 1                                           *)
FirstCount == 1

HasFree == killcnt_free_idx < MaxDistinct

inc_killcnt(a) ==
  /\ \/ /\ killcnt_idx[a] = INVALID /\ HasFree
        /\ killcnt_idx' = [killcnt_idx EXCEPT ![a] = killcnt_free_idx]
        /\ killcnt' = [killcnt EXCEPT ![killcnt_free_idx] = FirstCount]
        /\ killcnt_free_idx' = killcnt_free_idx + 1
     \/ /\ killcnt_idx[a] = INVALID /\ ~HasFree
        /\ UNCHANGED <<killcnt_idx, killcnt, killcnt_free_idx>>
     \/ /\ killcnt_idx[a] # INVALID
        /\ killcnt' = [killcnt EXCEPT ![killcnt_idx[a]] = (@ + 1) % CounterSize]
        /\ UNCHANGED <<killcnt_idx, killcnt_free_idx>>
  /\ killcnt_total' = killcnt_total + 1

GroupOf(a) == a \div AdjDivisor

(* Mutant: the period is not restarted after a report.                     *)
AfterReport_kept == ReportFreq

(* counter = 0                                                             *)
AfterReport == 0

prop_log_lmk_kill_occurred(a) ==
  /\ lmk_count' = [lmk_count EXCEPT ![GroupOf(a)] = @ + 1]
  /\ \/ /\ counter + 1 # ReportFreq
        /\ counter' = counter + 1 /\ UNCHANGED published
     \/ /\ counter + 1 = ReportFreq
        /\ counter' = AfterReport /\ published' = lmk_count'

(* The part of kill_one_process after a successful kill.                   *)
kill_one_process(a) ==
  /\ killcnt_total < MaxKills
  /\ inc_killcnt(a)
  /\ prop_log_lmk_kill_occurred(a)
  /\ reply' = NULL /\ kills' = [kills EXCEPT ![a] = @ + 1]

(* Mutant: the highest level of the range is left out.                     *)
get_killcnt_exclusive(min, max) ==
  IF min > max THEN 0
  ELSE IF min > AdjMax THEN killcnt_total
  ELSE LET counted == {a \in Slot : min <= a /\ a < max /\ killcnt_idx[a] # INVALID}
       IN  SumFunctionOnSet([a \in counted |-> killcnt[killcnt_idx[a]]], counted)

(* Levels above the highest ask for the total.  What the loop adds up      *)
(* inside the table.                                                       *)
get_killcnt(min, max) ==
  IF min > max THEN 0
  ELSE IF min > AdjMax THEN killcnt_total
  ELSE LET counted == {a \in Slot : min <= a /\ a <= max /\ killcnt_idx[a] # INVALID}
       IN  SumFunctionOnSet([a \in counted |-> killcnt[killcnt_idx[a]]], counted)

(* The loop has no lower bound: a range that starts below the table reads  *)
(* a slot in front of it, which is undefined and may add any counter's     *)
(* worth to the answer.                                                    *)
Beside(min, max) == IF min < AdjMin /\ min <= max THEN 0..(CounterSize - 1) ELSE {0}

(* LMK_GETKILLCNT (with the in-kernel driver lmkd kills nothing and        *)
(* answers 0).                                                             *)
cmd_getkillcnt(min, max) ==
  /\ \E stray \in Beside(min, max) :
       reply' = [min |-> min, max |-> max, count |-> get_killcnt(min, max) + stray]
  /\ UNCHANGED <<killcnt_idx, killcnt, killcnt_free_idx, killcnt_total,
                 lmk_count, counter, published, kills>>

(* The client may ask for any range; one level beyond either end stands    *)
(* for all of them.                                                        *)
Request == (AdjMin - 1)..(AdjMax + 1)

Next == \/ \E a \in Adj : kill_one_process(a)
        \/ \E min, max \in Request : cmd_getkillcnt(min, max)

Spec == Init /\ [][Next]_vars

-----------------------------------------------------------------------------
(* Type invariant: the indices handed out are those below                  *)
(* killcnt_free_idx.                                                       *)
TypeOK ==
  /\ killcnt_free_idx \in 0..MaxDistinct
  /\ killcnt_idx \in [Slot -> (0..(killcnt_free_idx - 1)) \cup {INVALID}]
  /\ killcnt \in [Index -> 0..(CounterSize - 1)]
  /\ killcnt_total \in Nat /\ counter \in Nat
  /\ lmk_count \in [Group -> Nat] /\ published \in [Group -> Nat] /\ kills \in [Adj -> Nat]

(* The counters follow the kills: no two levels share a counter, each      *)
(* counter holds its level's kills modulo its size, and a level with kills *)
(* has no counter only when all of them are taken.  Levels below 0 never   *)
(* take one.                                                               *)
CountersExact ==
  /\ \A a, b \in Adj : a # b /\ killcnt_idx[a] = killcnt_idx[b] => killcnt_idx[a] = INVALID
  /\ \A a \in Adj : killcnt_idx[a] # INVALID => killcnt[killcnt_idx[a]] = kills[a] % CounterSize
  /\ \A a \in Adj : kills[a] > 0 /\ killcnt_idx[a] = INVALID => killcnt_free_idx = MaxDistinct
  /\ \A a \in Slot \ Adj : killcnt_idx[a] = INVALID

(* The answer to LMK_GETKILLCNT is the number of kills in the range asked  *)
(* for, as long as the range does not start below OOM_SCORE_ADJ_MIN, the   *)
(* killed levels fit and no counter has wrapped.  The total needs none of  *)
(* these (killcnt_total does not wrap within the bounds).                  *)
Exact(asked) ==
  /\ asked.min > AdjMax /\ asked.min <= asked.max => asked.count = SumFunctionOnSet(kills, Adj)
  /\ /\ asked.min <= AdjMax
     /\ Cardinality({a \in Adj : kills[a] > 0}) <= MaxDistinct
     /\ \A a \in Adj : kills[a] < CounterSize
     => asked.count = SumFunctionOnSet(kills, {a \in Adj : asked.min <= a /\ a <= asked.max})

AnswersExact == reply # NULL /\ reply.min >= AdjMin => Exact(reply)

(* Refuted: the same for every range.  get_killcnt does not check min      *)
(* against OOM_SCORE_ADJ_MIN before it uses it as an index.                *)
AnswersAlwaysExact == reply # NULL => Exact(reply)

(* sys.lmk.count lags behind the kills by less than one report period, and *)
(* never shows more kills of a group than there were.                      *)
PublishedLags ==
  /\ \A g \in Group : lmk_count[g] = SumFunctionOnSet(kills, {a \in Adj : GroupOf(a) = g})
  /\ \A g \in Group : published[g] <= lmk_count[g]
  /\ SumFunctionOnSet(kills, Adj) - SumFunctionOnSet(published, Group) < ReportFreq

(* Per-level counters add up to the total unless one has wrapped: a        *)
(* difference shows a wraparound.                                          *)
TotalIsSum ==
  (\A a \in Adj : kills[a] < CounterSize) => get_killcnt(AdjMin, AdjMax) = killcnt_total
=============================================================================
