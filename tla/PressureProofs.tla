---------------------------- MODULE PressureProofs ---------------------------
(***************************************************************************)
(* Whom lmkd decides to kill, and what it knows of memory pressure besides *)
(* the PSI events.                                                         *)
(*                                                                         *)
(* What KillDecision.tla promises of mp_event_psi, for all limits: a held- *)
(* over reason is as good as one just found.                               *)
(*                                                                         *)
(* What MemEvents.tla promises, for any number of reclaiming threads, any  *)
(* size of the ring buffer and any interleaving of the kernel's events     *)
(* with lmkd's reading of them.                                            *)
(*                                                                         *)
(* What WatermarkLevels.tla promises for every memory, boost factor and    *)
(* cache percentage: the verdict moves the right way with everything that  *)
(* it is computed from.                                                    *)
(***************************************************************************)
EXTENDS KillDecision, TLAPS

Read == {<<>>} \cup (BOOLEAN \X BOOLEAN \X BOOLEAN)

Crossed == [windows : Nat, growth : Nat, limit : Nat]

(* The values of min_score_adj, and those that do not spare perceptible    *)
(* apps.                                                                   *)
Score == 0..1001

Harsh(score) == score <= 200

(* The watermarks found by the passes over an event.                       *)
Found == SUBSET (0..3)

(* The events being handled.                                               *)
Now == [level : 1..3, event : BOOLEAN, reclaim : Reclaim, in_compaction : BOOLEAN,
        long : BOOLEAN, cycle_after_kill : BOOLEAN, thrashing : Nat, wmark : 0..3,
        critical_stall : BOOLEAN, cut_thrashing_limit : BOOLEAN,
        kill_reason : Reasons, min_score_adj : Score, seen : Found,
        read : Read, crossed : Crossed]

(* One of the 13 conditions of the decision is the first that holds.       *)
LEMMA FirstOfAll ==
  ASSUME NEW S, S \subseteq 1..13, 13 \in S
  PROVE  \E n \in S : \A m \in S : n <= m
  BY SMT

(* The fields of an event that the properties are about.                   *)
LEMMA NowThrashing == ASSUME NEW e \in Now PROVE e.thrashing \in Nat
  BY SMT DEF Now

(* Its watermark.                                                          *)
LEMMA NowWmark == ASSUME NEW e \in Now PROVE e.wmark \in 0..3
  BY SMT DEF Now

(* Its kill reason.                                                        *)
LEMMA NowReason == ASSUME NEW e \in Now PROVE e.kill_reason \in Reasons
  BY SMT DEF Now

(* The watermarks found.                                                   *)
LEMMA NowSeen == ASSUME NEW e \in Now PROVE e.seen \in Found
  BY SMT DEF Now

(* Its lowest score.                                                       *)
LEMMA NowScore == ASSUME NEW e \in Now PROVE e.min_score_adj \in Score
  BY SMT DEF Now

(* What it crossed of the windows of time.                                 *)
LEMMA NowCrossed == ASSUME NEW e \in Now PROVE e.crossed \in Crossed
  BY SMT DEF Now

(* The powers of two a shift is made of.                                   *)
LEMMA Powers ==
  ASSUME NEW k \in 0..22
  PROVE  2 ^ k \in Nat \ {0} /\ (k >= 1 => 2 ^ k >= 2) /\ (k >= 2 => 2 ^ k >= 4)
<1> DEFINE P(n) == n \in Nat /\ n >= 4
<1>1. 2 ^ 0 = 1 /\ 2 ^ 1 = 2
  BY SMT
<1>2. P(2 ^ 2) /\ P(2 ^ 3) /\ P(2 ^ 4) /\ P(2 ^ 5) /\ P(2 ^ 6) /\ P(2 ^ 7) /\ P(2 ^ 8)
  BY SMT
<1>3. P(2 ^ 9) /\ P(2 ^ 10) /\ P(2 ^ 11) /\ P(2 ^ 12) /\ P(2 ^ 13) /\ P(2 ^ 14) /\ P(2 ^ 15)
  BY SMT
<1>4. P(2 ^ 16) /\ P(2 ^ 17) /\ P(2 ^ 18) /\ P(2 ^ 19) /\ P(2 ^ 20) /\ P(2 ^ 21) /\ P(2 ^ 22)
  BY SMT
<1> HIDE DEF P
<1>5. k \in 2..8 => P(2 ^ k)
  <2>1. k \in 2..8 => k = 2 \/ k = 3 \/ k = 4 \/ k = 5 \/ k = 6 \/ k = 7 \/ k = 8
    BY SMT
  <2> QED
    BY <2>1, <1>2, Zenon
<1>6. k \in 9..15 => P(2 ^ k)
  <2>1. k \in 9..15 => k = 9 \/ k = 10 \/ k = 11 \/ k = 12 \/ k = 13 \/ k = 14 \/ k = 15
    BY SMT
  <2> QED
    BY <2>1, <1>3, Zenon
<1>7. k \in 16..22 => P(2 ^ k)
  <2>1. k \in 16..22 => k = 16 \/ k = 17 \/ k = 18 \/ k = 19 \/ k = 20 \/ k = 21 \/ k = 22
    BY SMT
  <2> QED
    BY <2>1, <1>4, Zenon
<1>8. k \in {0, 1} \/ P(2 ^ k)
  <2>1. k \in {0, 1} \/ k \in 2..8 \/ k \in 9..15 \/ k \in 16..22
    BY SMT
  <2> QED
    BY <1>5, <1>6, <1>7, <2>1, Zenon
<1>9. (k = 0 => 2 ^ k = 1) /\ (k = 1 => 2 ^ k = 2)
  BY <1>1, Zenon
<1> QED
  BY <1>8, <1>9 DEF P

(* What is left of a number divided by a power of two.                     *)
LEMMA Divided ==
  ASSUME NEW a \in Nat, NEW P \in Nat \ {0}
  PROVE  a \div P \in 0..a /\ (P >= 2 => 2 * (a \div P) <= a) /\ (P >= 4 => 4 * (a \div P) <= a)
<1> DEFINE q == a \div P
<1>1. q \in Int /\ P * q <= a /\ a < P * q + P
  BY SMT
<1>2. q \in Nat
  <2>1. q < 0 => P * q <= P * (-1)
    BY <1>1, SMT
  <2> QED
    BY <1>1, <2>1, SMT
<1> HIDE DEF q
<1>3. \A m \in Nat : m <= P => m * q <= P * q
  BY <1>2, SMT
<1>4. q <= a
  BY <1>1, <1>2, <1>3, SMT
<1>5. (P >= 2 => 2 * q <= a) /\ (P >= 4 => 4 * q <= a)
  BY <1>1, <1>2, <1>3, SMT
<1> QED
  BY <1>2, <1>4, <1>5 DEF q

(* The growth of a window never grows by a shift; two windows or more      *)
(* leave a quarter of it.                                                  *)
LEMMA ShiftedShrinks ==
  ASSUME NEW g \in Nat, NEW w \in Nat, NEW x \in Shifted(g, w)
  PROVE  x \in 0..g /\ (w \in 2..63 => 4 * x <= g)
<1>1. ASSUME NEW n \in 0..63
      PROVE  /\ ShiftRight(g, n) \in 0..g
             /\ n >= 2 => 4 * ShiftRight(g, n) <= g
  <2> DEFINE t == n \div 3
             a == g \div 2 ^ t
             b == a \div 2 ^ t
             c == b \div 2 ^ (n - 2 * t)
  <2>1. t \in 0..22 /\ n - 2 * t \in 0..22 /\ (n >= 2 => t >= 1 \/ n - 2 * t >= 2)
    BY SMT
  <2>2. ShiftRight(g, n) = c
    BY DEF ShiftRight
  <2> HIDE DEF t
  <2>3. /\ 2 ^ t \in Nat \ {0} /\ (t >= 1 => 2 ^ t >= 2)
        /\ 2 ^ (n - 2 * t) \in Nat \ {0} /\ (n - 2 * t >= 2 => 2 ^ (n - 2 * t) >= 4)
    <3>1. \A k \in 0..22 : 2 ^ k \in Nat \ {0} /\ (k >= 1 => 2 ^ k >= 2) /\ (k >= 2 => 2 ^ k >= 4)
      BY Powers, Zenon
    <3> QED
      BY <2>1, <3>1, Zenon
  <2>4. a \in 0..g /\ (t >= 1 => 2 * a <= g)
    BY <2>3, Divided
  <2> HIDE DEF a
  <2>5. b \in 0..a /\ (t >= 1 => 2 * b <= a)
    BY <2>3, <2>4, Divided
  <2> HIDE DEF b
  <2>6. c \in 0..b /\ (n - 2 * t >= 2 => 4 * c <= b)
    BY <2>3, <2>4, <2>5, Divided
  <2> HIDE DEF c
  <2> QED
    BY <2>1, <2>2, <2>4, <2>5, <2>6, SMT
<1>2. CASE w < 64
  <2>1. w \in 0..63 /\ x = ShiftRight(g, w)
    BY <1>2 DEF Shifted
  <2> QED
    BY <1>1, <2>1
<1>3. CASE ~(w < 64)
  <2>1. w % 64 \in 0..63
    BY SMT
  <2> QED
    BY <1>1, <1>3, <2>1 DEF Shifted
<1> QED
  BY <1>2, <1>3

(* Some condition of the decision always holds, and the first that does    *)
(* gives the reason.                                                       *)
LEMMA FirstReason ==
  ASSUME NEW e \in Now, NEW low, NEW util
  PROVE  FirstRule(Rules(e, low, util)) \in Reasons
<1> DEFINE R == Rules(e, low, util)
           S == {i \in 1..13 : R[i].if}
           First(i) == R[i].if /\ \A j \in 1..(i - 1) : ~R[j].if
<1>1. /\ DOMAIN R = 1..13 /\ R[13].if
      /\ \A i \in 1..13 : R[i].reason \in Reasons
  <2>1. DOMAIN R = 1..13 /\ R[13].if
    BY DEF Rules
  <2>2. \A i \in 1..13 : i = 1 \/ i = 2 \/ i = 3 \/ i = 4 \/ i = 5 \/ i = 6 \/ i = 7 \/ i = 8
                         \/ i = 9 \/ i = 10 \/ i = 11 \/ i = 12 \/ i = 13
    BY SMTT(20)
  <2>3. /\ R[1].reason = "PRESSURE_AFTER_KILL" /\ R[2].reason = "DIRECT_RECL_AND_THROT"
        /\ R[3].reason = "CRITICAL_KILL" /\ R[4].reason = "NOT_RESPONDING"
        /\ R[5].reason = "LOW_SWAP_AND_THRASHING" /\ R[6].reason = "LOW_MEM_AND_SWAP"
        /\ R[7].reason = "LOW_MEM_AND_SWAP_UTIL" /\ R[8].reason = "LOW_MEM_AND_THRASHING"
        /\ R[9].reason = "DIRECT_RECL_AND_THRASHING"
        /\ R[10].reason = "DIRECT_RECL_STUCK"
        /\ R[11].reason = "LOW_FILECACHE_AFTER_THRASHING" /\ R[12].reason = "COMPACTION"
        /\ R[13].reason = "NONE"
    BY DEF Rules
  <2> HIDE DEF R
  <2>4. \A i \in 1..13 : R[i].reason \in Reasons
    BY <2>2, <2>3, SMT DEF Reasons, ThrashingReasons
  <2> QED
    BY <2>1, <2>4
<1> HIDE DEF R
<1>2. PICK n \in S : \A m \in S : n <= m
  <2>1. S \subseteq 1..13 /\ 13 \in S
    BY <1>1
  <2> HIDE DEF S
  <2> QED
    BY <2>1, FirstOfAll
<1>3. n \in DOMAIN R /\ First(n)
  BY <1>1, <1>2
<1> DEFINE k == CHOOSE i \in DOMAIN R : First(i)
<1>4. k \in DOMAIN R /\ First(k)
  BY <1>3, Zenon
<1>5. FirstRule(R) = R[k].reason
  BY DEF FirstRule
<1> HIDE DEF k
<1> QED
  BY <1>1, <1>4, <1>5 DEF R

(* Every reason gives a score, and the ones that spare perceptible apps    *)
(* give one above theirs.                                                  *)
LEMMA Scores ==
  ASSUME NEW e \in Now, NEW reason \in Reasons
  PROVE  /\ MinScore(reason, e) \in Score
         /\ Harsh(MinScore(reason, e)) => Grave(reason, {e.wmark}, e.thrashing)
<1>1. thrashing_critical_pct \in Nat /\ lowmem_min_oom_score \in 201..1001
  BY LimitAssumption
<1> DEFINE v == MinScore(reason, e)
<1>2. CASE reason = "LOW_MEM"
  <2>1. v = lowmem_min_oom_score
    BY <1>2 DEF MinScore
  <2> HIDE DEF v
  <2>2. v \in Score /\ ~Harsh(v)
    BY <1>1, <2>1 DEF Score, Harsh
  <2> QED
    BY <2>2, Zenon DEF v
<1>3. CASE reason \in {"DIRECT_RECL_AND_THRASHING", "LOW_FILECACHE_AFTER_THRASHING"}
  <2>1. v = PERCEPTIBLE_APP_ADJ + 1
    BY <1>3 DEF MinScore
  <2> HIDE DEF v
  <2>2. v \in Score /\ ~Harsh(v)
    BY <2>1 DEF Score, Harsh, PERCEPTIBLE_APP_ADJ
  <2> QED
    BY <2>2, Zenon DEF v
<1>4. CASE /\ reason \in {"LOW_SWAP_AND_THRASHING", "LOW_MEM_AND_SWAP"}
           /\ e.wmark > WMARK_MIN /\ e.thrashing < thrashing_critical_pct
  <2>1. v = PERCEPTIBLE_APP_ADJ + 1
    BY <1>4, Zenon DEF MinScore
  <2> HIDE DEF v
  <2>2. v \in Score /\ ~Harsh(v)
    BY <2>1 DEF Score, Harsh, PERCEPTIBLE_APP_ADJ
  <2> QED
    BY <2>2, Zenon DEF v
<1>5. v \in {VISIBLE_APP_ADJ, PERCEPTIBLE_RECENT_FOREGROUND_APP_ADJ,
             PERCEPTIBLE_APP_ADJ + 1, lowmem_min_oom_score, e.min_score_adj}
  BY Zenon DEF MinScore
<1> HIDE DEF v
<1>6. v \in Score
  <2>1. /\ VISIBLE_APP_ADJ \in Score /\ PERCEPTIBLE_APP_ADJ + 1 \in Score
        /\ PERCEPTIBLE_RECENT_FOREGROUND_APP_ADJ \in Score
    BY DEF Score, VISIBLE_APP_ADJ, PERCEPTIBLE_APP_ADJ,
           PERCEPTIBLE_RECENT_FOREGROUND_APP_ADJ
  <2>2. lowmem_min_oom_score \in Score
    BY <1>1 DEF Score
  <2> QED
    BY <1>5, <2>1, <2>2, NowScore, Zenon
<1>7. CASE /\ reason \notin {"DIRECT_RECL_AND_THRASHING", "LOW_FILECACHE_AFTER_THRASHING",
                             "LOW_MEM"}
           /\ ~(/\ reason \in {"LOW_SWAP_AND_THRASHING", "LOW_MEM_AND_SWAP"}
                /\ e.wmark > WMARK_MIN /\ e.thrashing < thrashing_critical_pct)
  <2>1. e.wmark > WMARK_MIN \/ e.wmark = WMARK_MIN
    BY NowWmark DEF WMARK_MIN
  <2>2. e.thrashing < thrashing_critical_pct \/ e.thrashing >= thrashing_critical_pct
    BY <1>1, NowThrashing
  <2>3. Grave(reason, {e.wmark}, e.thrashing)
    BY <1>7, <2>1, <2>2, Zenon DEF Grave
  <2> QED
    BY <1>6, <2>3, Zenon DEF v
<1> QED
  BY <1>2, <1>3, <1>4, <1>7, Zenon

(* A reason stays good when more watermarks are found.                     *)
LEMMA GraveMore ==
  ASSUME NEW reason, NEW found, NEW more, found \subseteq more, NEW thrashing,
         Grave(reason, found, thrashing)
  PROVE  Grave(reason, more, thrashing)
  BY Zenon DEF Grave

(* Event e with a reason, a score and the mark that comes with them.       *)
Decided(e, r, s, c) ==
  [e EXCEPT !.kill_reason = r, !.min_score_adj = s, !.cut_thrashing_limit = c]

(* Event d is event e with reason r and score s.                           *)
DecidedFrom(d, e, r, s) ==
  /\ d \in Now
  /\ d.wmark = e.wmark /\ d.thrashing = e.thrashing /\ d.seen = e.seen
  /\ d.critical_stall = e.critical_stall /\ d.crossed = e.crossed
  /\ d.kill_reason = r /\ d.min_score_adj = s

(* A decision leaves the event of the type it has, and its facts alone.    *)
LEMMA DecidedTyped ==
  ASSUME NEW e \in Now, NEW r \in Reasons, NEW s \in Score, NEW c \in BOOLEAN
  PROVE  DecidedFrom(Decided(e, r, s, c), e, r, s)
<1> DEFINE e1 == [e EXCEPT !.kill_reason = r]
           e2 == [e1 EXCEPT !.min_score_adj = s]
           e3 == [e2 EXCEPT !.cut_thrashing_limit = c]
<1>1. Decided(e, r, s, c) = e3
  BY SMT DEF Decided
<1>5. LET d == Decided(e, r, s, c)
      IN  /\ d.wmark = e.wmark /\ d.thrashing = e.thrashing /\ d.seen = e.seen
          /\ d.critical_stall = e.critical_stall /\ d.crossed = e.crossed
          /\ d.kill_reason = r /\ d.min_score_adj = s
  BY DEF Now, Decided
<1>2. e1 \in Now
  BY SMT DEF Now
<1> HIDE DEF e1
<1>3. e2 \in Now
  BY <1>2, SMT DEF Now
<1> HIDE DEF e2
<1>4. e3 \in Now
  BY <1>3, SMT DEF Now
<1> HIDE DEF e3
<1> QED
  BY <1>1, <1>4, <1>5 DEF DecidedFrom

(* A reason that spares nobody, or that is good enough to.                 *)
WellHeld(e) == Harsh(e.min_score_adj) => Grave(e.kill_reason, e.seen, e.thrashing)

(* What one pass over the conditions changes in the event: it finds a      *)
(* reason and takes its score, or it keeps those it had.                   *)
LEMMA OnePass ==
  ASSUME NEW e \in Now, e.wmark \in e.seen, WellHeld(e), NEW low, NEW util, NEW small
  PROVE  LET d == Decision(e, low, util, small)
         IN  /\ d \in Now /\ d.wmark = e.wmark /\ d.thrashing = e.thrashing
             /\ d.critical_stall = e.critical_stall /\ d.crossed = e.crossed
             /\ WellHeld(d)
<1> DEFINE rule == FirstRule(Rules(e, low, util))
           found == IF rule = "LOW_FILECACHE_AFTER_THRASHING" /\ ~small THEN "NONE" ELSE rule
           held == IF found = "NONE" THEN e.kill_reason ELSE found
           final == IF held = "NONE" /\ e.wmark < 2 THEN "LOW_MEM" ELSE held
           fresh == found # "NONE" \/ held = "NONE"
           score == IF fresh THEN MinScore(final, e) ELSE e.min_score_adj
           d == [e EXCEPT !.kill_reason = final, !.min_score_adj = score,
                          !.cut_thrashing_limit = @ \/ found \in ThrashingReasons]
<1>1. Decision(e, low, util, small) = d
  BY DEF Decision, WMARK_HIGH
<1>2. rule \in Reasons
  BY FirstReason
<1> HIDE DEF rule
<1>3. "NONE" \in Reasons /\ "LOW_MEM" \in Reasons /\ e.kill_reason \in Reasons
  BY NowReason DEF Reasons
<1>4. final \in Reasons /\ (~fresh => final = e.kill_reason)
  <2>1. final \in {"LOW_MEM", "NONE", e.kill_reason, rule}
    BY Zenon
  <2>2. ~fresh => final = e.kill_reason
    BY Zenon
  <2> HIDE DEF final
  <2> QED
    BY <1>2, <1>3, <2>1, <2>2, Zenon
<1>5. PICK cut \in BOOLEAN : cut = (e.cut_thrashing_limit \/ found \in ThrashingReasons)
  BY Zenon
<1> HIDE DEF fresh, found, final
<1>6. score \in Score
  <2>1. MinScore(final, e) \in Score
    BY <1>4, Scores, Zenon
  <2>2. e.min_score_adj \in Score
    BY NowScore, Zenon
  <2> QED
    BY <2>1, <2>2, Zenon
<1>7. Harsh(score) => Grave(final, e.seen, e.thrashing)
  <2>1. CASE fresh
    <3>1. Harsh(score) => Grave(final, {e.wmark}, e.thrashing)
      BY <1>4, <2>1, Scores, Zenon
    <3>2. {e.wmark} \subseteq e.seen
      OBVIOUS
    <3> QED
      BY <3>1, <3>2, GraveMore, Zenon
  <2>2. CASE ~fresh
    BY <1>4, <2>2, Zenon DEF WellHeld
  <2> QED
    BY <2>1, <2>2, Zenon
<1> HIDE DEF score
<1>8. d = Decided(e, final, score, cut)
  BY <1>5, Zenon DEF Decided
<1> HIDE DEF d
<1>9. DecidedFrom(d, e, final, score)
  <2>1. final \in Reasons /\ cut \in BOOLEAN
    BY <1>4, <1>5, Zenon
  <2>2. DecidedFrom(Decided(e, final, score, cut), e, final, score)
    BY <1>6, <2>1, DecidedTyped, Zenon
  <2> QED
    BY <1>8, <2>2, Zenon
<1>10. WellHeld(d)
  BY <1>7, <1>9, Zenon DEF DecidedFrom, WellHeld
<1> QED
  BY <1>1, <1>9, <1>10 DEF DecidedFrom

(* No event and every event that is reported are events; nothing was       *)
(* decided on them yet.                                                    *)
LEMMA EventsTyped ==
  /\ NoEvent \in Now /\ NoEvent.kill_reason = "NONE"
  /\ \A e \in Event : e \in Now /\ e.kill_reason = "NONE" /\ e.crossed.windows = 0
<1>1. NoEvent \in Now
  BY DEF NoEvent, Now, Score, Found, Read, Crossed, MEDIUM, WMARK_NONE,
         Reclaim, Reasons
<1>2. ASSUME NEW l \in 1..3, NEW psi \in BOOLEAN, NEW r \in Reclaim, NEW c \in BOOLEAN,
             NEW long \in BOOLEAN,
             NEW e, e = EventOf(l, psi, r, c, long)
      PROVE  e \in Now /\ e.kill_reason = "NONE" /\ e.crossed.windows = 0
  <2> DEFINE e1 == [NoEvent EXCEPT !.level = l]
             e2 == [e1 EXCEPT !.event = psi]
             e3 == [e2 EXCEPT !.reclaim = r]
             e4 == [e3 EXCEPT !.in_compaction = c]
             e5 == [e4 EXCEPT !.long = long]
  <2>1. e = e5
    BY <1>2, SMT DEF EventOf
  <2>2. e.kill_reason = "NONE" /\ e.crossed.windows = 0
    BY <1>2 DEF NoEvent, EventOf
  <2>3. e1 \in Now
    BY <1>1, SMT DEF Now
  <2> HIDE DEF e1
  <2>4. e2 \in Now
    BY <2>3, SMT DEF Now
  <2> HIDE DEF e2
  <2>5. e3 \in Now
    BY <2>4, SMT DEF Now
  <2> HIDE DEF e3
  <2>6. e4 \in Now
    BY <2>5, SMT DEF Now
  <2> HIDE DEF e4
  <2>7. e5 \in Now
    BY <2>6, SMT DEF Now
  <2> HIDE DEF e5
  <2> QED
    BY <2>1, <2>2, <2>7
<1>3. ASSUME NEW e \in Event
      PROVE  e \in Now /\ e.kill_reason = "NONE" /\ e.crossed.windows = 0
  <2>1. {MEDIUM, CRITICAL, SUPER_CRITICAL} \subseteq 1..3
    BY DEF MEDIUM, CRITICAL, SUPER_CRITICAL
  <2>2. PICK l \in {MEDIUM, CRITICAL, SUPER_CRITICAL}, psi \in BOOLEAN,
             r \in Reclaim, c \in BOOLEAN, long \in BOOLEAN :
          e = EventOf(l, psi, r, c, long)
    <3>1. Event = {EventOf(l, psi, r, c, long) :
            l \in {MEDIUM, CRITICAL, SUPER_CRITICAL}, psi \in BOOLEAN,
            r \in Reclaim, c \in BOOLEAN, long \in BOOLEAN}
      BY DEF Event
    <3> QED
      BY <3>1
  <2>3. l \in 1..3 /\ psi \in BOOLEAN /\ r \in Reclaim /\ c \in BOOLEAN /\ long \in BOOLEAN
    BY <2>1, <2>2, Zenon
  <2> QED
    BY <1>2, <2>2, <2>3, SMT
<1>4. NoEvent.kill_reason = "NONE"
  BY DEF NoEvent
<1> QED
  BY <1>1, <1>3, <1>4

(* What lmkd remembers between two events, and what it knows of the one it *)
(* is handling.  A reason that is held over for the second pass has to be  *)
(* as good as one just found.                                              *)
DecideInv ==
  /\ PerceptibleSpared
  /\ RetryKept
  /\ now \in Now
  /\ step = "decide" => WellHeld(now)

(* The types of what is kept from one event to the next.                   *)
Statics ==
  /\ killing \in BOOLEAN /\ first_kill \in BOOLEAN /\ check_filecache \in BOOLEAN
  /\ thrashing_limit \in 0..thrashing_limit_pct
  /\ refaults \in 0..MaxRefaults /\ prev_thrash_growth \in 0..MaxRefaults

(* They are what the type invariant says besides the event.                *)
LEMMA StaticsTyped == /\ TypeOK => Statics
                      /\ Statics /\ now \in Now /\ step \in {"idle", "decide", "kill"} =>
                           TypeOK
<1>1. TypeOK => Statics
  BY DEF Score, TypeOK, Statics
<1>2. ASSUME Statics, now \in Now, step \in {"idle", "decide", "kill"} PROVE TypeOK
  <2>1. now.kill_reason \in Reasons /\ now.min_score_adj \in Score
    BY <1>2, NowReason, NowScore, Zenon
  <2> QED
    BY <1>2, <2>1 DEF Score, TypeOK, Statics
<1> QED
  BY <1>1, <1>2

(* The same of the state a step leads to.                                  *)
LEMMA TypedAgain ==
  Statics' /\ now' \in Now /\ step' \in {"idle", "decide", "kill"} => TypeOK'
<1> SUFFICES ASSUME Statics', now' \in Now, step' \in {"idle", "decide", "kill"}
             PROVE  TypeOK'
  OBVIOUS
<1>1. now'.kill_reason \in Reasons /\ now'.min_score_adj \in Score
  BY NowReason, NowScore, Zenon
<1> QED
  BY <1>1 DEF Score, TypeOK, Statics

(* The handler is done with an event: whatever it remembers, the invariant *)
(* holds.                                                                  *)
LEMMA Idle == Statics /\ step = "idle" /\ now = NoEvent => DecideInv
<1> SUFFICES ASSUME Statics, step = "idle", now = NoEvent PROVE DecideInv
  OBVIOUS
<1>1. now \in Now /\ now.kill_reason = "NONE"
  BY EventsTyped
<1>2. TypeOK
  BY <1>1, StaticsTyped
<1> QED
  BY <1>1, <1>2 DEF DecideInv, PerceptibleSpared, Spared, RetryKept

(* The same of the state a step leads to.                                  *)
LEMMA IdleAgain == Statics' /\ step' = "idle" /\ now' = NoEvent => DecideInv'
<1> SUFFICES ASSUME Statics', step' = "idle", now' = NoEvent PROVE DecideInv'
  OBVIOUS
<1>1. now' \in Now /\ now'.kill_reason = "NONE"
  BY EventsTyped
<1>2. TypeOK'
  BY <1>1, TypedAgain
<1> QED
  BY <1>1, <1>2 DEF DecideInv, PerceptibleSpared, Spared, RetryKept

(* The sampled event: what a crossed window leaves.                        *)
LEMMA SampleDecides ==
  ASSUME DecideInv, NEW e \in Event, NEW same \in BOOLEAN, NEW g \in Growth,
         NEW w \in Windows, sample(e, same, g, w)
  PROVE  DecideInv'
<1> DEFINE all == IF killing THEN 0 ELSE refaults + g
           previous == IF killing THEN 0 ELSE prev_thrash_growth
           crossed == ~killing /\ w > 0
<1>1. /\ killing \in BOOLEAN /\ first_kill \in BOOLEAN /\ check_filecache \in BOOLEAN
      /\ thrashing_limit \in 0..thrashing_limit_pct /\ thrashing_limit_pct \in Nat
      /\ MaxRefaults \in Nat /\ refaults \in 0..MaxRefaults /\ prev_thrash_growth \in 0..MaxRefaults
      /\ g \in Nat /\ w \in Nat /\ step = "idle" /\ now \in Now
  BY LimitAssumption DEF DecideInv, PerceptibleSpared, TypeOK, sample
<1>2. all \in 0..MaxRefaults /\ previous \in 0..MaxRefaults /\ killing' = FALSE
      /\ first_kill' = first_kill /\ check_filecache' = check_filecache
  BY <1>1 DEF sample
<1>3. CASE e.reclaim = "NO_RECLAIM" /\ same /\ ~e.in_compaction
  <2>1. refaults' = all /\ prev_thrash_growth' = previous /\ thrashing_limit' = thrashing_limit
        /\ step' = step /\ now' = now
    BY <1>3 DEF sample
  <2>2. Statics'
    BY <1>1, <1>2, <2>1, Zenon DEF Statics
  <2>3. TypeOK'
    BY <1>1, <2>1, <2>2, TypedAgain
  <2>4. PerceptibleSpared' /\ RetryKept'
    BY <1>1, <2>1, <2>3 DEF PerceptibleSpared, Spared, RetryKept
  <2> QED
    BY <1>1, <2>1, <2>4 DEF DecideInv
<1>4. CASE ~(e.reclaim = "NO_RECLAIM" /\ same /\ ~e.in_compaction)
  <2> DEFINE thrashing == refaults' + prev_thrash_growth'
             c == IF ~crossed THEN e.crossed
                  ELSE [windows |-> w, growth |-> all, limit |-> thrashing_limit]
             e1 == [e EXCEPT !.cycle_after_kill = killing]
             e2 == [e1 EXCEPT !.thrashing = thrashing]
             e3 == [e2 EXCEPT !.crossed = c]
  <2>1. /\ prev_thrash_growth' \in IF crossed THEN Decayed(all, w) ELSE {previous}
        /\ refaults' = (IF crossed THEN 0 ELSE all)
        /\ thrashing_limit' = (IF crossed THEN thrashing_limit_pct ELSE thrashing_limit)
        /\ step' = "decide"
        /\ now' = [e EXCEPT !.cycle_after_kill = killing, !.thrashing = thrashing, !.crossed = c]
    BY <1>4 DEF sample
  <2>2. now' = e3
    BY <2>1, SMT
  <2>3. e \in Now /\ e.kill_reason = "NONE" /\ e.crossed.windows = 0
    BY EventsTyped
  <2>4. /\ crossed => prev_thrash_growth' \in 0..all
        /\ crossed /\ w \in 2..63 => 4 * prev_thrash_growth' <= all
        /\ crossed /\ w = 1 /\ all > thrashing_limit => prev_thrash_growth' = all
    BY <1>1, <1>2, <2>1, ShiftedShrinks DEF Decayed
  <2>5. /\ refaults' \in 0..MaxRefaults /\ prev_thrash_growth' \in 0..MaxRefaults
        /\ thrashing_limit' \in 0..thrashing_limit_pct /\ thrashing \in Nat
    BY <1>1, <1>2, <2>1, <2>4
  <2>6. c \in Crossed
    BY <1>1, <1>2, <2>3, NowCrossed DEF Crossed
  <2>7. /\ now'.kill_reason = "NONE" /\ now'.min_score_adj = e.min_score_adj
        /\ now'.thrashing = thrashing /\ now'.crossed = c
    BY <2>1, <2>3 DEF Now
  <2>8. now' \in Now
    <3> HIDE DEF thrashing, c
    <3>1. e1 \in Now
      BY <1>1, <2>3, SMT DEF Now
    <3> HIDE DEF e1
    <3>2. e2 \in Now
      BY <3>1, <2>5, SMT DEF Now
    <3> HIDE DEF e2
    <3>3. e3 \in Now
      BY <3>2, <2>6, SMT DEF Now
    <3> QED
      BY <2>2, <3>3
  <2>9. Statics'
    BY <1>1, <1>2, <2>5, Zenon DEF Statics
  <2>10. PerceptibleSpared'
    <3>1. step' = "decide"
      BY <2>1
    <3>2. TypeOK'
      BY <2>8, <2>9, <3>1, TypedAgain
    <3> QED
      BY <3>1, <3>2 DEF PerceptibleSpared, Spared
  <2>11. RetryKept'
    <3>1. CASE crossed
      <4>1. /\ c.windows = w /\ c.growth = all /\ refaults' = 0
            /\ thrashing_limit' = thrashing_limit_pct
        BY <2>1, <3>1
      <4>2. w = 1 /\ all > thrashing_limit_pct => thrashing > thrashing_limit_pct
        BY <1>1, <1>2, <2>4, <3>1, <4>1
      <4> QED
        BY <2>4, <2>7, <3>1, <4>1, <4>2 DEF RetryKept
    <3>2. CASE ~crossed
      BY <2>3, <2>7, <3>2 DEF RetryKept
    <3> QED
      BY <3>1, <3>2
  <2>12. WellHeld(now')
    BY <2>7 DEF WellHeld, Grave
  <2> QED
    BY <2>8, <2>10, <2>11, <2>12 DEF DecideInv
<1> QED
  BY <1>3, <1>4

(* A pass over the conditions: to no kill, to a second pass or to a kill.  *)
LEMMA DecideDecides ==
  ASSUME DecideInv, NEW wmark \in 0..3, NEW low \in BOOLEAN,
         NEW util \in BOOLEAN, NEW stall \in BOOLEAN, NEW small \in BOOLEAN,
         decide(wmark, low, util, stall, small)
  PROVE  DecideInv'
<1>1. PICK e : e = [now EXCEPT !.wmark = wmark, !.critical_stall = stall,
                               !.seen = @ \cup {wmark}]
  OBVIOUS
<1>2. PICK d : d = Decision(e, low, util, small)
  OBVIOUS
<1>3. now \in Now /\ step = "decide" /\ WellHeld(now)
  BY DEF DecideInv, decide
<1>4. /\ e \in Now /\ e.thrashing = now.thrashing /\ e.crossed = now.crossed
      /\ e.wmark = wmark /\ e.critical_stall = stall /\ wmark \in e.seen /\ WellHeld(e)
  <2>1. PICK more \in Found : more = now.seen \cup {wmark}
    BY <1>3, NowSeen, Zenon DEF Found
  <2> DEFINE e1 == [now EXCEPT !.wmark = wmark]
             e2 == [e1 EXCEPT !.critical_stall = stall]
             e3 == [e2 EXCEPT !.seen = more]
  <2>2. e = e3
    <3>1. e = [now EXCEPT !.wmark = wmark, !.critical_stall = stall, !.seen = more]
      BY <1>1, <2>1, Zenon
    <3> QED
      BY <3>1, SMT
  <2>3. /\ e.kill_reason = now.kill_reason /\ e.thrashing = now.thrashing
        /\ e.min_score_adj = now.min_score_adj /\ e.seen = more
        /\ e.crossed = now.crossed /\ e.wmark = wmark /\ e.critical_stall = stall
    BY <1>3, <2>2, SMT DEF Now
  <2>4. e1 \in Now
    BY <1>3, SMT DEF Now
  <2> HIDE DEF e1
  <2>5. e2 \in Now
    BY <2>4, SMT DEF Now
  <2> HIDE DEF e2
  <2>6. e3 \in Now
    BY <2>5, SMT DEF Now
  <2> HIDE DEF e3
  <2>7. wmark \in more /\ now.seen \subseteq more
    BY <2>1
  <2>8. WellHeld(e)
    BY <1>3, <2>3, <2>7, GraveMore, Zenon DEF WellHeld
  <2> QED
    BY <2>2, <2>3, <2>6, <2>7, <2>8, Zenon
<1>5. /\ d \in Now /\ d.wmark = e.wmark /\ d.thrashing = e.thrashing
      /\ d.critical_stall = e.critical_stall /\ d.crossed = e.crossed
      /\ WellHeld(d)
  BY <1>2, <1>4, OnePass
<1>7. /\ step = "decide" /\ thrashing_limit' = thrashing_limit /\ refaults' = refaults
      /\ prev_thrash_growth' = prev_thrash_growth /\ killing' = killing
  BY DEF decide
<1>8. check_filecache' \in BOOLEAN /\ check_filecache \in BOOLEAN
  <2>1. check_filecache \in BOOLEAN
    BY DEF DecideInv, PerceptibleSpared, TypeOK
  <2>2. check_filecache' \in {TRUE, small, check_filecache}
    <3> DEFINE rule == FirstRule(Rules(e, low, util))
    <3>1. check_filecache' =
            CASE rule \in ThrashingReasons \cup {"LOW_SWAP_AND_THRASHING"} -> TRUE
              [] rule = "LOW_FILECACHE_AFTER_THRASHING" -> small
              [] OTHER -> check_filecache
      BY <1>1 DEF decide
    <3> HIDE DEF rule
    <3> QED
      BY <3>1, SMT
  <2> QED
    BY <2>1, <2>2, Zenon
<1>9. /\ \/ /\ d.kill_reason = "NONE"
            /\ step' = "idle" /\ now' = NoEvent /\ first_kill' = first_kill
         \/ /\ first_kill' = FALSE /\ step' = step
            /\ now' = [d EXCEPT !.read = <<low, util, small>>]
         \/ /\ now' = [d EXCEPT !.min_score_adj = IF stall THEN 0 ELSE @]
            /\ step' = "kill" /\ first_kill' = first_kill
  BY <1>1, <1>2 DEF decide, FOREGROUND_APP_ADJ
<1>10. /\ killing \in BOOLEAN /\ first_kill \in BOOLEAN
       /\ thrashing_limit \in 0..thrashing_limit_pct /\ refaults \in 0..MaxRefaults
       /\ prev_thrash_growth \in 0..MaxRefaults
  BY DEF DecideInv, PerceptibleSpared, TypeOK
<1>11. ASSUME now' \in Now, first_kill' \in BOOLEAN, step' \in {"idle", "decide", "kill"}
       PROVE  TypeOK'
  <2>1. Statics'
    BY <1>7, <1>8, <1>10, <1>11 DEF Statics
  <2> QED
    BY <1>11, <2>1, TypedAgain
<1>12. CASE step' = "idle" /\ now' = NoEvent /\ first_kill' = first_kill
  <2>1. Statics'
    BY <1>7, <1>8, <1>10, <1>12 DEF Statics
  <2> QED
    BY <1>12, <2>1, IdleAgain
<1>13. CASE /\ first_kill' = FALSE /\ step' = step
            /\ now' = [d EXCEPT !.read = <<low, util, small>>]
  <2>1. <<low, util, small>> \in Read
    BY DEF Read
  <2>2. PICK r \in Read : r = <<low, util, small>>
    BY <2>1
  <2>3. now' \in Now
    BY <1>5, <1>13, <2>2, SMT DEF Now
  <2>4. /\ now'.kill_reason = d.kill_reason /\ now'.crossed = d.crossed /\ now'.seen = d.seen
        /\ now'.thrashing = d.thrashing /\ now'.min_score_adj = d.min_score_adj
    BY <1>5, <1>13 DEF Now
  <2>5. TypeOK'
    BY <1>7, <1>11, <1>13, <2>3, Zenon
  <2>6. RetryKept'
    BY <1>4, <1>5, <1>7, <1>13, <2>4 DEF DecideInv, RetryKept
  <2>7. WellHeld(now')
    BY <1>5, <2>4, Zenon DEF WellHeld
  <2> QED
    BY <1>7, <1>13, <2>3, <2>5, <2>6, <2>7 DEF DecideInv, PerceptibleSpared, Spared
<1>14. CASE /\ now' = [d EXCEPT !.min_score_adj = IF stall THEN 0 ELSE @]
            /\ step' = "kill" /\ first_kill' = first_kill
  <2>1. PICK s \in Score : s = IF stall THEN 0 ELSE d.min_score_adj
    <3>1. d.min_score_adj \in Score /\ 0 \in Score
      BY <1>5, NowScore DEF Score
    <3> QED
      BY <3>1
  <2>2. now' = [d EXCEPT !.min_score_adj = s]
    BY <1>14, <2>1
  <2>3. now' \in Now
    BY <1>5, <2>1, <2>2, SMT DEF Now
  <2>4. /\ now'.kill_reason = d.kill_reason /\ now'.seen = d.seen
        /\ now'.thrashing = d.thrashing /\ now'.critical_stall = stall
        /\ now'.min_score_adj = s
    BY <1>4, <1>5, <2>2 DEF Now
  <2>5. TypeOK'
    BY <1>10, <1>11, <1>14, <2>3
  <2>6. ASSUME ~now'.critical_stall, Harsh(now'.min_score_adj)
        PROVE  Grave(now'.kill_reason, now'.seen, now'.thrashing)
    BY <1>5, <2>1, <2>4, <2>6, Zenon DEF WellHeld
  <2>7. PerceptibleSpared'
    BY <2>5, <2>6, Zenon DEF Harsh, Spared, PerceptibleSpared, PERCEPTIBLE_APP_ADJ
  <2> QED
    BY <1>14, <2>3, <2>7 DEF DecideInv, RetryKept
<1> QED
  BY <1>9, <1>12, <1>13, <1>14, Zenon

(* A cut never raises the limit.                                           *)
LEMMA CutLowers ==
  ASSUME thrashing_limit \in 0..thrashing_limit_pct
  PROVE  CutLimit \in 0..thrashing_limit_pct
<1>1. PICK l \in Nat, k \in 0..100 : l = thrashing_limit /\ k = 100 - thrashing_limit_decay_pct
  BY LimitAssumption
<1>2. l * k \in 0..(l * 100)
  BY SMT
<1>3. PICK m \in 0..(l * 100) : m = l * k
  BY <1>2
<1>4. m \div 100 \in 0..l
  BY SMT
<1> QED
  BY LimitAssumption, <1>1, <1>3, <1>4 DEF CutLimit

(* Every step of the decision preserves the invariant.                     *)
LEMMA DecideStep == DecideInv /\ [Next]_vars => DecideInv'
<1> SUFFICES ASSUME DecideInv, [Next]_vars PROVE DecideInv'
  OBVIOUS
<1>1. ASSUME NEW e \in {f \in Event : f.long => f.reclaim = "DIRECT_RECLAIM"},
             NEW same \in BOOLEAN, NEW g \in Growth, NEW w \in Windows,
             sample(e, same, g, w)
      PROVE  DecideInv'
  BY <1>1, SampleDecides
<1>2. ASSUME NEW wmark \in WMARK_MIN..WMARK_NONE, NEW low \in BOOLEAN,
             NEW util \in BOOLEAN, NEW stall \in BOOLEAN, NEW small \in BOOLEAN,
             decide(wmark, low, util, stall, small)
      PROVE  DecideInv'
  BY <1>2, DecideDecides DEF WMARK_MIN, WMARK_NONE
<1>3. Statics
  BY StaticsTyped DEF DecideInv, PerceptibleSpared
<1>4. CASE zoneinfo_fails
  <2>1. Statics' /\ step' = "idle" /\ now' = NoEvent
    BY <1>3, <1>4 DEF Statics, zoneinfo_fails, statics
  <2> QED
    BY <2>1, IdleAgain
<1>5. ASSUME NEW freed \in BOOLEAN, kill(freed)
      PROVE  DecideInv'
  <2>1. thrashing_limit' \in 0..thrashing_limit_pct
    BY <1>3, <1>5, CutLowers DEF kill, Statics
  <2>2. Statics' /\ step' = "idle" /\ now' = NoEvent
    BY <1>3, <1>5, <2>1 DEF kill, Statics
  <2> QED
    BY <2>2, IdleAgain
<1>6. CASE UNCHANGED vars
  <2>1. /\ now' = now /\ step' = step /\ killing' = killing /\ first_kill' = first_kill
        /\ check_filecache' = check_filecache /\ thrashing_limit' = thrashing_limit
        /\ refaults' = refaults /\ prev_thrash_growth' = prev_thrash_growth
    BY <1>6 DEF vars, statics
  <2>2. TypeOK'
    BY <2>1, ZenonT(30) DEF DecideInv, PerceptibleSpared, TypeOK
  <2>3. PerceptibleSpared'
    BY <2>1, <2>2, Zenon DEF DecideInv, PerceptibleSpared, Spared
  <2>4. RetryKept'
    BY <2>1, Zenon DEF DecideInv, RetryKept
  <2> QED
    BY <2>1, <2>3, <2>4, Zenon DEF DecideInv
<1> QED
  BY <1>1, <1>2, <1>4, <1>5, <1>6, Zenon DEF Next

(* The initial state satisfies the invariant.                              *)
LEMMA DecideInit == Init => DecideInv
<1> SUFFICES ASSUME Init PROVE DecideInv
  OBVIOUS
<1>1. thrashing_limit = thrashing_limit_pct /\ refaults = 0 /\ prev_thrash_growth = 0
  BY DEF Init
<1>2. killing \in BOOLEAN /\ first_kill \in BOOLEAN /\ check_filecache \in BOOLEAN
  BY Zenon DEF Init
<1>3. Statics
  BY LimitAssumption, <1>1, <1>2 DEF Statics
<1> QED
  BY <1>3, Idle DEF Init

(* mp_event_psi: a kill for low swap, a small file cache, thrashing in     *)
(* direct reclaim or low memory spares the perceptible apps, whatever the  *)
(* limits and however events, windows and kills follow one another, unless *)
(* a pass over the event found them grave enough: a reason held over to    *)
(* the second pass of the first kill is as good as one just found.         *)
THEOREM PerceptibleAppsSpared == Spec => []PerceptibleSpared
<1>1. Init => DecideInv
  BY DecideInit
<1>2. DecideInv /\ [Next]_vars => DecideInv'
  BY DecideStep
<1>3. DecideInv => PerceptibleSpared
  BY DEF DecideInv
<1> QED
  BY <1>1, <1>2, <1>3, PTL DEF Spec

(* mp_event_psi: thrashing over the limit survives the end of its window,  *)
(* and wears off after more of them.                                       *)
THEOREM ThrashingRetried == Spec => []RetryKept
<1>1. Init => DecideInv
  BY DecideInit
<1>2. DecideInv /\ [Next]_vars => DecideInv'
  BY DecideStep
<1>3. DecideInv => RetryKept
  BY DEF DecideInv
<1> QED
  BY <1>1, <1>2, <1>3, PTL DEF Spec

-----------------------------------------------------------------------------
CONSTANTS Thread, RingSize

VARIABLES clock, began, kswapd, ring, lost, direct_reclaim_start_tm, kswapd_start_tm

Mem == INSTANCE MemEvents

TypeInv ==
  /\ clock \in Nat \ {0}
  /\ began \in [Thread -> Nat] /\ kswapd \in {"awake", "asleep"}
  /\ ring \in Seq(Mem!Events)
  /\ direct_reclaim_start_tm \in Nat /\ kswapd_start_tm \in Nat

(* A thread's reclaim began in the past.                                   *)
Past == \A t \in Thread : began[t] <= clock

(* If there are events of a kind to fetch, one is the last of them.        *)
LastExists(types) ==
  Mem!Positions(types) # {} => \E i \in Mem!Positions(types) : Mem!IsLast(i, types)

(* The last event of a kind says what holds now.                           *)
LastDirectTells ==
  "direct" \notin lost =>
    \A i \in Mem!Positions(Mem!DirectTypes) :
      Mem!IsLast(i, Mem!DirectTypes) /\ ring[i].type = "DIRECT_RECLAIM_BEGIN"
        => began[ring[i].thread] # 0

LastKswapdTells ==
  "kswapd" \notin lost =>
    \A i \in Mem!Positions(Mem!KswapdTypes) :
      Mem!IsLast(i, Mem!KswapdTypes) => (ring[i].type = "KSWAPD_WAKE" <=> kswapd = "awake")

(* With no event of a kind to fetch, the recorded time does.               *)
DirectKnown ==
  "direct" \notin lost /\ Mem!Positions(Mem!DirectTypes) = {} /\ direct_reclaim_start_tm # 0 =>
    \E t \in Thread : began[t] # 0 /\ began[t] <= direct_reclaim_start_tm

KswapdKnown ==
  "kswapd" \notin lost /\ Mem!Positions(Mem!KswapdTypes) = {} =>
    (kswapd_start_tm # 0 <=> kswapd = "awake")

DirectInv == Past /\ LastDirectTells /\ DirectKnown
KswapdInv == LastExists(Mem!KswapdTypes) /\ LastKswapdTells /\ KswapdKnown

-----------------------------------------------------------------------------
(* Emitting an event leaves a sequence of events.                          *)
LEMMA EmitType ==
  ASSUME ring \in Seq(Mem!Events), NEW kind, NEW e \in Mem!DirectTypes \cup Mem!KswapdTypes,
         NEW t \in Thread,
         Mem!Emit(kind, e, t)
  PROVE  ring' \in Seq(Mem!Events)
<1>1. [type |-> e, thread |-> t] \in Mem!Events
  BY DEF Mem!Events
<1> QED
  BY <1>1 DEF Mem!Emit

(* The types of the variables are kept by every step.                      *)
LEMMA TypeStep == TypeInv /\ [Mem!Next]_Mem!vars => TypeInv'
<1> SUFFICES ASSUME TypeInv, [Mem!Next]_Mem!vars PROVE TypeInv'
  OBVIOUS
<1> USE DEF TypeInv, Mem!kernel
<1>1. ASSUME NEW t \in Thread, Mem!reclaim_begins(t) PROVE TypeInv'
  <2>1. ring' \in Seq(Mem!Events)
    BY <1>1, EmitType DEF Mem!reclaim_begins, Mem!DirectTypes
  <2> QED
    BY <1>1, <2>1 DEF Mem!reclaim_begins
<1>2. ASSUME NEW t \in Thread, Mem!reclaim_ends(t) PROVE TypeInv'
  <2>1. ring' \in Seq(Mem!Events)
    BY <1>2, EmitType DEF Mem!reclaim_ends, Mem!DirectTypes
  <2> QED
    BY <1>2, <2>1 DEF Mem!reclaim_ends
<1>3. ASSUME NEW t \in Thread, Mem!kswapd_wakes(t) PROVE TypeInv'
  <2>1. ring' \in Seq(Mem!Events)
    BY <1>3, EmitType DEF Mem!kswapd_wakes, Mem!KswapdTypes
  <2> QED
    BY <1>3, <2>1 DEF Mem!kswapd_wakes
<1>4. ASSUME NEW t \in Thread, Mem!kswapd_sleeps(t) PROVE TypeInv'
  <2>1. ring' \in Seq(Mem!Events)
    BY <1>4, EmitType DEF Mem!kswapd_sleeps, Mem!KswapdTypes
  <2> QED
    BY <1>4, <2>1 DEF Mem!kswapd_sleeps
<1>5. CASE Mem!tick
  BY <1>5 DEF Mem!tick
<1>6. CASE Mem!memevent_listener_notification
  BY <1>6 DEF Mem!memevent_listener_notification, Mem!After
<1>7. CASE Mem!notification_fails
  <2>1. ring' \in Seq(Mem!Events)
    <3>1. CASE ring' = ring
      BY <3>1
    <3>2. CASE ring' = <<>>
      BY <3>2
    <3> QED
      BY <1>7, <3>1, <3>2 DEF Mem!notification_fails
  <2> QED
    BY <1>7, <2>1 DEF Mem!notification_fails
<1>8. CASE UNCHANGED Mem!vars
  BY <1>8 DEF Mem!vars
<1> QED
  BY <1>1, <1>2, <1>3, <1>4, <1>5, <1>6, <1>7, <1>8 DEF Mem!Next

(* What an event of type e of thread t does to the ring: the positions of  *)
(* the types it has are those before and its own, which is the last one;   *)
(* those of the other types stay as they are.                              *)
LEMMA Appended ==
  ASSUME TypeInv, NEW e \in Mem!DirectTypes \cup Mem!KswapdTypes, NEW t \in Thread, NEW types,
         ring' = Append(ring, [type |-> e, thread |-> t])
  PROVE  /\ \A i \in Mem!Positions(types) : ring'[i] = ring[i]
         /\ e \notin types => Mem!Positions(types)' = Mem!Positions(types)
         /\ e \notin types => \A i : Mem!IsLast(i, types)' <=> Mem!IsLast(i, types)
         /\ e \in types => /\ \A i : Mem!IsLast(i, types)' <=> i = Len(ring) + 1
                           /\ Len(ring) + 1 \in Mem!Positions(types)'
         /\ ring'[Len(ring) + 1] = [type |-> e, thread |-> t]
<1>1. Len(ring) \in Nat /\ Len(ring') = Len(ring) + 1
  BY DEF TypeInv
<1>2. \A i \in 1..Len(ring) : ring'[i] = ring[i]
  BY DEF TypeInv
<1>3. ring'[Len(ring) + 1] = [type |-> e, thread |-> t]
  BY DEF TypeInv
<1>4. e \notin types => Mem!Positions(types)' = Mem!Positions(types)
  BY <1>1, <1>2, <1>3 DEF Mem!Positions
<1>5. e \in types => Mem!Positions(types)' = Mem!Positions(types) \cup {Len(ring) + 1}
  BY <1>1, <1>2, <1>3 DEF Mem!Positions
<1>6. \A i \in Mem!Positions(types) : i \in 1..Len(ring)
  BY DEF Mem!Positions
<1>7. e \notin types => \A i : Mem!IsLast(i, types)' <=> Mem!IsLast(i, types)
  BY <1>4 DEF Mem!IsLast
<1>8. e \in types => \A i : Mem!IsLast(i, types)' <=> i = Len(ring) + 1
  BY <1>1, <1>5, <1>6 DEF Mem!IsLast
<1> QED
  BY <1>2, <1>3, <1>4, <1>5, <1>6, <1>7, <1>8

(* A ring left alone keeps its positions.                                  *)
LEMMA Kept ==
  ASSUME NEW types, ring' = ring
  PROVE  /\ Mem!Positions(types)' = Mem!Positions(types)
         /\ \A i : Mem!IsLast(i, types)' <=> Mem!IsLast(i, types)
BY DEF Mem!Positions, Mem!IsLast

(* An empty ring has none.                                                 *)
LEMMA Emptied ==
  ASSUME NEW types, ring' = <<>>
  PROVE  Mem!Positions(types)' = {}
BY DEF Mem!Positions

-----------------------------------------------------------------------------
(* An event of direct reclaim and what it says of the thread keep the      *)
(* invariant on direct reclaim, whether it is lost or not.                 *)
LEMMA DirectEmit ==
  ASSUME TypeInv, DirectInv, Past', NEW t \in Thread, NEW e \in Mem!DirectTypes,
         Mem!Emit("direct", e, t), e = "DIRECT_RECLAIM_BEGIN" => began'[t] # 0
  PROVE  DirectInv'
<1>1. CASE Len(ring) < RingSize
  <2>1. ring' = Append(ring, [type |-> e, thread |-> t])
    BY <1>1 DEF Mem!Emit
  <2>2. /\ \A i : Mem!IsLast(i, Mem!DirectTypes)' <=> i = Len(ring) + 1
        /\ Len(ring) + 1 \in Mem!Positions(Mem!DirectTypes)'
        /\ ring'[Len(ring) + 1] = [type |-> e, thread |-> t]
    BY <2>1, Appended
  <2>3. LastDirectTells'
    BY <2>2 DEF LastDirectTells
  <2>4. DirectKnown'
    BY <2>2 DEF DirectKnown
  <2> QED
    BY <2>3, <2>4 DEF DirectInv
<1>2. CASE ~(Len(ring) < RingSize)
  <2>1. "direct" \in lost'
    BY <1>2 DEF Mem!Emit
  <2> QED
    BY <2>1 DEF DirectInv, LastDirectTells, DirectKnown
<1> QED
  BY <1>1, <1>2

(* An event of kswapd leaves it alone.                                     *)
LEMMA DirectOther ==
  ASSUME TypeInv, DirectInv, NEW t \in Thread, NEW e \in Mem!KswapdTypes,
         Mem!Emit("kswapd", e, t), UNCHANGED <<clock, began, direct_reclaim_start_tm>>
  PROVE  DirectInv'
<1>0. Past' /\ ("direct" \in lost' <=> "direct" \in lost)
  BY DEF DirectInv, Past, Mem!Emit
<1>1. CASE Len(ring) < RingSize
  <2>1. ring' = Append(ring, [type |-> e, thread |-> t])
    BY <1>1 DEF Mem!Emit
  <2>2. /\ Mem!Positions(Mem!DirectTypes)' = Mem!Positions(Mem!DirectTypes)
        /\ \A i \in Mem!Positions(Mem!DirectTypes) : ring'[i] = ring[i]
        /\ \A i : Mem!IsLast(i, Mem!DirectTypes)' <=> Mem!IsLast(i, Mem!DirectTypes)
    BY <2>1, Appended, Zenon DEF Mem!DirectTypes, Mem!KswapdTypes
  <2>3. LastDirectTells'
    BY <1>0, <2>2 DEF LastDirectTells, DirectInv
  <2>4. DirectKnown'
    BY <1>0, <2>2 DEF DirectKnown, DirectInv
  <2> QED
    BY <1>0, <2>3, <2>4 DEF DirectInv
<1>2. CASE ~(Len(ring) < RingSize)
  <2>1. ring' = ring
    BY <1>2 DEF Mem!Emit
  <2>2. LastDirectTells'
    BY <1>0, <2>1, Kept DEF LastDirectTells, DirectInv
  <2>3. DirectKnown'
    BY <1>0, <2>1, Kept DEF DirectKnown, DirectInv
  <2> QED
    BY <1>0, <2>2, <2>3 DEF DirectInv
<1> QED
  BY <1>1, <1>2

(* The invariant on direct reclaim is kept by every step.                  *)
LEMMA DirectStep == TypeInv /\ DirectInv /\ [Mem!Next]_Mem!vars => DirectInv'
<1> SUFFICES ASSUME TypeInv, DirectInv, [Mem!Next]_Mem!vars PROVE DirectInv'
  OBVIOUS
<1>1. ASSUME NEW t \in Thread, Mem!reclaim_begins(t) PROVE DirectInv'
  <2>1. Past' /\ began'[t] # 0
    BY <1>1 DEF Mem!reclaim_begins, Past, DirectInv, TypeInv
  <2> QED
    BY <1>1, <2>1, DirectEmit DEF Mem!reclaim_begins, Mem!DirectTypes
<1>2. ASSUME NEW t \in Thread, Mem!reclaim_ends(t) PROVE DirectInv'
  <2>1. Past'
    BY <1>2 DEF Mem!reclaim_ends, Past, DirectInv, TypeInv
  <2> QED
    BY <1>2, <2>1, DirectEmit DEF Mem!reclaim_ends, Mem!DirectTypes
<1>3. ASSUME NEW t \in Thread, Mem!kswapd_wakes(t) PROVE DirectInv'
  BY <1>3, DirectOther DEF Mem!kswapd_wakes, Mem!KswapdTypes
<1>4. ASSUME NEW t \in Thread, Mem!kswapd_sleeps(t) PROVE DirectInv'
  BY <1>4, DirectOther DEF Mem!kswapd_sleeps, Mem!KswapdTypes
<1>5. CASE Mem!tick
  <2>1. Past'
    BY <1>5 DEF Mem!tick, Past, DirectInv, TypeInv
  <2>2. LastDirectTells' /\ DirectKnown'
    BY <1>5, Kept DEF Mem!tick, LastDirectTells, DirectKnown, DirectInv
  <2> QED
    BY <2>1, <2>2 DEF DirectInv
<1>6. CASE Mem!memevent_listener_notification
  <2> USE DEF Mem!memevent_listener_notification, Mem!kernel
  <2>1. Past'
    BY <1>6 DEF Past, DirectInv
  <2>2. Mem!Positions(Mem!DirectTypes)' = {}
    BY <1>6, Emptied
  <2>3. LastDirectTells'
    BY <2>2 DEF LastDirectTells
  <2>4. ASSUME "direct" \notin lost, direct_reclaim_start_tm' # 0
        PROVE  \E t \in Thread : began'[t] # 0 /\ began'[t] <= direct_reclaim_start_tm'
    <3>1. CASE \E i \in Mem!Positions(Mem!DirectTypes) :
                 Mem!IsLast(i, Mem!DirectTypes) /\ ring[i].type = "DIRECT_RECLAIM_BEGIN"
      <4>1. PICK i \in Mem!Positions(Mem!DirectTypes) :
                 Mem!IsLast(i, Mem!DirectTypes) /\ ring[i].type = "DIRECT_RECLAIM_BEGIN"
        BY <3>1
      <4>2. ring[i].thread \in Thread
        <5>1. i \in 1..Len(ring)
          BY <4>1 DEF Mem!Positions
        <5>2. ring[i] \in Mem!Events
          BY <5>1 DEF TypeInv
        <5> QED
          BY <5>2 DEF Mem!Events
      <4>3. began[ring[i].thread] # 0 /\ began[ring[i].thread] <= clock
        BY <2>4, <4>1, <4>2 DEF DirectInv, LastDirectTells, Past
      <4>4. direct_reclaim_start_tm' = clock
        BY <1>6, <3>1 DEF Mem!After
      <4> QED
        BY <1>6, <4>2, <4>3, <4>4
    <3>2. CASE /\ ~\E i \in Mem!Positions(Mem!DirectTypes) :
                    Mem!IsLast(i, Mem!DirectTypes) /\ ring[i].type = "DIRECT_RECLAIM_BEGIN"
               /\ Mem!Positions(Mem!DirectTypes) = {}
      <4>1. direct_reclaim_start_tm' = direct_reclaim_start_tm
        BY <1>6, <3>2 DEF Mem!After
      <4> QED
        BY <1>6, <2>4, <3>2, <4>1 DEF DirectInv, DirectKnown
    <3>3. CASE /\ ~\E i \in Mem!Positions(Mem!DirectTypes) :
                    Mem!IsLast(i, Mem!DirectTypes) /\ ring[i].type = "DIRECT_RECLAIM_BEGIN"
               /\ Mem!Positions(Mem!DirectTypes) # {}
      BY <1>6, <2>4, <3>3 DEF Mem!After
    <3> QED
      BY <3>1, <3>2, <3>3
  <2>5. DirectKnown'
    BY <1>6, <2>4 DEF DirectKnown
  <2> QED
    BY <2>1, <2>3, <2>5 DEF DirectInv
<1>7. CASE Mem!notification_fails
  <2>1. Past'
    BY <1>7 DEF Mem!notification_fails, Mem!kernel, Past, DirectInv
  <2>2. LastDirectTells'
    <3>1. CASE UNCHANGED <<ring, lost>>
      BY <1>7, <3>1, Kept DEF Mem!notification_fails, Mem!kernel, LastDirectTells, DirectInv
    <3>2. CASE ring' = <<>>
      BY <3>2, Emptied DEF LastDirectTells
    <3> QED
      BY <1>7, <3>1, <3>2 DEF Mem!notification_fails
  <2>3. DirectKnown'
    BY <1>7, SMTT(20) DEF Mem!notification_fails, DirectKnown
  <2> QED
    BY <2>1, <2>2, <2>3 DEF DirectInv
<1>8. CASE UNCHANGED Mem!vars
  BY <1>8, Kept DEF Mem!vars, Mem!kernel, DirectInv, Past, LastDirectTells, DirectKnown
<1> QED
  BY <1>1, <1>2, <1>3, <1>4, <1>5, <1>6, <1>7, <1>8 DEF Mem!Next

(* With nothing to fetch and the latest event not lost, lmkd holds the     *)
(* system to be in direct reclaim only if a thread is in it, and for no    *)
(* longer than that thread has been, whatever the threads, the size of the *)
(* ring and the order of events, failures and notifications.               *)
THEOREM DirectReclaimSoundAlways == Mem!Spec => []Mem!DirectReclaimSound
<1>1. Mem!Init => TypeInv /\ DirectInv
  BY DEF Mem!Init, TypeInv, DirectInv, Past, LastDirectTells, DirectKnown, Mem!Positions
<1>2. TypeInv /\ DirectInv /\ [Mem!Next]_Mem!vars => (TypeInv /\ DirectInv)'
  BY TypeStep, DirectStep
<1>3. TypeInv /\ DirectInv => Mem!DirectReclaimSound
  BY DEF DirectInv, DirectKnown, Mem!DirectReclaimSound, Mem!in_direct_reclaim, Mem!Positions
<1> QED
  BY <1>1, <1>2, <1>3, PTL DEF Mem!Spec

-----------------------------------------------------------------------------
(* An event of kswapd that says what holds keeps the invariant on kswapd.  *)
LEMMA KswapdEmit ==
  ASSUME TypeInv, KswapdInv, NEW t \in Thread, NEW e \in Mem!KswapdTypes,
         Mem!Emit("kswapd", e, t), e = "KSWAPD_WAKE" <=> kswapd' = "awake"
  PROVE  KswapdInv'
<1>1. CASE Len(ring) < RingSize
  <2>1. ring' = Append(ring, [type |-> e, thread |-> t])
    BY <1>1, SMTT(20) DEF Mem!Emit
  <2>2. /\ \A i : Mem!IsLast(i, Mem!KswapdTypes)' <=> i = Len(ring) + 1
        /\ Len(ring) + 1 \in Mem!Positions(Mem!KswapdTypes)'
        /\ ring'[Len(ring) + 1] = [type |-> e, thread |-> t]
    BY <2>1, Appended
  <2>3. LastExists(Mem!KswapdTypes)'
    BY <2>2 DEF LastExists
  <2>4. LastKswapdTells'
    BY <2>2 DEF LastKswapdTells
  <2>5. KswapdKnown'
    BY <2>2, SMTT(20) DEF KswapdKnown
  <2> QED
    BY <2>3, <2>4, <2>5 DEF KswapdInv
<1>2. CASE ~(Len(ring) < RingSize)
  <2>1. "kswapd" \in lost' /\ ring' = ring
    BY <1>2 DEF Mem!Emit
  <2>2. LastExists(Mem!KswapdTypes)'
    BY <2>1, Kept, SMTT(20) DEF LastExists, KswapdInv
  <2> QED
    BY <2>1, <2>2 DEF KswapdInv, LastKswapdTells, KswapdKnown
<1> QED
  BY <1>1, <1>2

(* A step that leaves kswapd, its recorded start and its events in the     *)
(* ring alone keeps the invariant on kswapd.                               *)
LEMMA KswapdSame ==
  ASSUME KswapdInv, UNCHANGED <<kswapd, kswapd_start_tm>>,
         "kswapd" \notin lost' => "kswapd" \notin lost,
         Mem!Positions(Mem!KswapdTypes)' = Mem!Positions(Mem!KswapdTypes),
         \A i \in Mem!Positions(Mem!KswapdTypes) : ring'[i] = ring[i],
         \A i : Mem!IsLast(i, Mem!KswapdTypes)' <=> Mem!IsLast(i, Mem!KswapdTypes)
  PROVE  KswapdInv'
<1>1. LastExists(Mem!KswapdTypes)'
  BY DEF LastExists, KswapdInv
<1>2. LastKswapdTells'
  BY DEF LastKswapdTells, KswapdInv
<1>3. KswapdKnown'
  BY DEF KswapdKnown, KswapdInv
<1> QED
  BY <1>1, <1>2, <1>3 DEF KswapdInv

(* An event of direct reclaim leaves it alone.                             *)
LEMMA KswapdOther ==
  ASSUME TypeInv, KswapdInv, NEW t \in Thread, NEW e \in Mem!DirectTypes,
         Mem!Emit("direct", e, t), UNCHANGED <<kswapd, kswapd_start_tm>>
  PROVE  KswapdInv'
<1>0. "kswapd" \notin lost' => "kswapd" \notin lost
  BY SMTT(20) DEF Mem!Emit
<1>1. CASE Len(ring) < RingSize
  <2>1. ring' = Append(ring, [type |-> e, thread |-> t])
    BY <1>1 DEF Mem!Emit
  <2>2. /\ Mem!Positions(Mem!KswapdTypes)' = Mem!Positions(Mem!KswapdTypes)
        /\ \A i \in Mem!Positions(Mem!KswapdTypes) : ring'[i] = ring[i]
        /\ \A i : Mem!IsLast(i, Mem!KswapdTypes)' <=> Mem!IsLast(i, Mem!KswapdTypes)
    BY <2>1, Appended, Zenon DEF Mem!DirectTypes, Mem!KswapdTypes
  <2> QED
    BY <1>0, <2>2, KswapdSame
<1>2. CASE ~(Len(ring) < RingSize)
  <2>1. ring' = ring
    BY <1>2 DEF Mem!Emit
  <2> QED
    BY <1>0, <2>1, Kept, KswapdSame
<1> QED
  BY <1>1, <1>2

(* The invariant on kswapd is kept by every step.                          *)
LEMMA KswapdStep == TypeInv /\ KswapdInv /\ [Mem!Next]_Mem!vars => KswapdInv'
<1> SUFFICES ASSUME TypeInv, KswapdInv, [Mem!Next]_Mem!vars PROVE KswapdInv'
  OBVIOUS
<1>1. ASSUME NEW t \in Thread, Mem!reclaim_begins(t) PROVE KswapdInv'
  BY <1>1, KswapdOther DEF Mem!reclaim_begins, Mem!DirectTypes
<1>2. ASSUME NEW t \in Thread, Mem!reclaim_ends(t) PROVE KswapdInv'
  BY <1>2, KswapdOther DEF Mem!reclaim_ends, Mem!DirectTypes
<1>3. ASSUME NEW t \in Thread, Mem!kswapd_wakes(t) PROVE KswapdInv'
  BY <1>3, KswapdEmit DEF Mem!kswapd_wakes, Mem!KswapdTypes
<1>4. ASSUME NEW t \in Thread, Mem!kswapd_sleeps(t) PROVE KswapdInv'
  BY <1>4, KswapdEmit DEF Mem!kswapd_sleeps, Mem!KswapdTypes
<1>5. CASE Mem!tick
  BY <1>5, Kept, KswapdSame DEF Mem!tick
<1>6. CASE Mem!memevent_listener_notification
  <2> USE DEF Mem!memevent_listener_notification, Mem!kernel
  <2>1. Mem!Positions(Mem!KswapdTypes)' = {}
    BY <1>6, Emptied
  <2>2. LastExists(Mem!KswapdTypes)' /\ LastKswapdTells'
    BY <2>1 DEF LastExists, LastKswapdTells
  <2>3. ASSUME "kswapd" \notin lost PROVE kswapd_start_tm' # 0 <=> kswapd = "awake"
    <3>1. CASE Mem!Positions(Mem!KswapdTypes) = {}
      BY <1>6, <2>3, <3>1 DEF Mem!After, KswapdInv, KswapdKnown
    <3>2. CASE Mem!Positions(Mem!KswapdTypes) # {}
      <4>1. PICK i \in Mem!Positions(Mem!KswapdTypes) : Mem!IsLast(i, Mem!KswapdTypes)
        BY <3>2 DEF KswapdInv, LastExists
      <4>2. ring[i].type = "KSWAPD_WAKE" <=> kswapd = "awake"
        BY <2>3, <4>1 DEF KswapdInv, LastKswapdTells
      <4>3. \A j \in Mem!Positions(Mem!KswapdTypes) : Mem!IsLast(j, Mem!KswapdTypes) => j = i
        BY <4>1 DEF Mem!IsLast, Mem!Positions
      <4>4. CASE ring[i].type = "KSWAPD_WAKE"
        BY <1>6, <4>1, <4>2, <4>4 DEF Mem!After, TypeInv
      <4>5. CASE ring[i].type # "KSWAPD_WAKE"
        BY <1>6, <3>2, <4>2, <4>3, <4>5 DEF Mem!After
      <4> QED
        BY <4>4, <4>5
    <3> QED
      BY <3>1, <3>2
  <2>4. KswapdKnown'
    BY <1>6, <2>3 DEF KswapdKnown
  <2> QED
    BY <2>2, <2>4 DEF KswapdInv
<1>7. CASE Mem!notification_fails
  <2>1. CASE UNCHANGED <<ring, lost>>
    BY <1>7, <2>1, Kept, KswapdSame, Zenon DEF Mem!notification_fails, Mem!kernel
  <2>2. CASE ring' = <<>> /\ lost' = {"direct", "kswapd"}
    BY <2>2, Emptied DEF KswapdInv, LastExists, LastKswapdTells, KswapdKnown
  <2> QED
    BY <1>7, <2>1, <2>2 DEF Mem!notification_fails
<1>8. CASE UNCHANGED Mem!vars
  BY <1>8, Kept, KswapdSame DEF Mem!vars, Mem!kernel
<1> QED
  BY <1>1, <1>2, <1>3, <1>4, <1>5, <1>6, <1>7, <1>8 DEF Mem!Next

(* Under the same conditions lmkd knows whether kswapd is awake.           *)
THEOREM KswapdTrackedAlways == Mem!Spec => []Mem!KswapdTracked
<1>1. Mem!Init => TypeInv /\ KswapdInv
  BY DEF Mem!Init, TypeInv, KswapdInv, LastExists, LastKswapdTells, KswapdKnown, Mem!Positions
<1>2. TypeInv /\ KswapdInv /\ [Mem!Next]_Mem!vars => (TypeInv /\ KswapdInv)'
  BY TypeStep, KswapdStep
<1>3. TypeInv /\ KswapdInv => Mem!KswapdTracked
  BY DEF KswapdInv, KswapdKnown, Mem!KswapdTracked, Mem!in_kswapd_reclaim, Mem!Positions
<1> QED
  BY <1>1, <1>2, <1>3, PTL DEF Mem!Spec

-----------------------------------------------------------------------------
CONSTANTS CachePercent, swap_compression_ratio

Wm == INSTANCE WatermarkLevels

(* Multiplication keeps the order, the only non-linear fact used below.    *)
LEMMA TimesMono ==
  ASSUME NEW a \in Nat, NEW b \in Nat, NEW w \in Nat, a <= b
  PROVE  /\ a * w \in Nat /\ w * a \in Nat
         /\ a * w <= b * w /\ w * a <= w * b
  <1>1. b = a + (b - a) /\ b - a \in Nat
    BY SMT
  <1>2. PICK d \in Nat : b = a + d
    BY <1>1
  <1>3. b * w = a * w + d * w /\ d * w \in Nat /\ a * w \in Nat
    BY <1>2, SMT
  <1>4. w * a = a * w /\ w * b = b * w
    BY SMT
  <1> QED
    BY <1>3, <1>4, SMT

(* A level scaled by a boost factor, and how far the cache falls short of  *)
(* it: memory f is below it exactly if f is below the scaled shortfall.    *)
LEMMA Shortfall ==
  ASSUME NEW f \in Nat, NEW c \in Nat, NEW w \in Nat, NEW l \in Nat
  PROVE  /\ c * w \in Nat /\ w * l \in Nat
         /\ c >= l => ~(f + c * w < w * l)
         /\ c < l => (f + c * w < w * l <=> f < (l - c) * w)
  <1>1. c * w \in Nat /\ w * l \in Nat /\ w * l = l * w
    BY SMT
  <1>2. CASE c >= l
    <2>1. w * l <= c * w
      BY <1>1, <1>2, TimesMono
    <2> QED
      BY <1>1, <1>2, <2>1, SMT
  <1>3. CASE c < l
    <2>1. l - c \in Nat /\ l = c + (l - c)
      BY <1>3, SMT
    <2>2. PICK d \in Nat : l = c + d /\ d = l - c
      BY <2>1
    <2>3. l * w = c * w + d * w /\ d * w \in Nat
      BY <2>2, SMT
    <2>4. f + c * w < l * w <=> f < d * w
      BY <1>1, <2>3, SMT
    <2> QED
      BY <1>1, <1>3, <2>2, <2>4, SMT
  <1> QED
    BY <1>2, <1>3, SMT

(* Below a level boosted by v, below it boosted by more.                   *)
LEMMA BoostedMore ==
  ASSUME NEW f \in Nat, NEW c \in Nat, NEW l \in Nat,
         NEW v \in Nat, NEW w \in Nat, v <= w, f + c * v < v * l
  PROVE  f + c * w < w * l
  <1>1. c < l /\ f < (l - c) * v
    BY Shortfall, SMT
  <1>2. l - c \in Nat
    BY <1>1, SMT
  <1>3. (l - c) * v <= (l - c) * w /\ (l - c) * v \in Nat /\ (l - c) * w \in Nat
    BY <1>2, TimesMono
  <1>4. f < (l - c) * w
    BY <1>1, <1>3, SMT
  <1> QED
    BY <1>1, <1>4, Shortfall

(* Below a level with more cache, below it with less.                      *)
LEMMA LessCache ==
  ASSUME NEW f \in Nat, NEW c \in Nat, NEW d \in Nat, NEW l \in Nat, NEW w \in Nat,
         c <= d, f + d * w < w * l
  PROVE  f + c * w < w * l
  <1>1. c * w <= d * w /\ c * w \in Nat /\ d * w \in Nat /\ w * l \in Nat
    BY TimesMono, Shortfall, SMTT(20)
  <1> QED
    BY <1>1, SMT

(* Breached is one of the four verdicts, and each says what it tests.      *)
LEMMA Verdicts ==
  ASSUME NEW m \in Wm!ZoneMeminfo, NEW f \in Nat, NEW c \in Nat, NEW w \in Nat
  PROVE  /\ Wm!Breached(m, f, c, w) \in Wm!WMARK_MIN..Wm!WMARK_NONE
         /\ Wm!Breached(m, f, c, w) = Wm!WMARK_MIN <=> f + c < m.min_wmark
         /\ Wm!Breached(m, f, c, w) <= Wm!WMARK_LOW <=>
              f + c < m.min_wmark \/ f + c * w < w * m.low_wmark
         /\ Wm!Breached(m, f, c, w) <= Wm!WMARK_HIGH <=>
              \/ f + c < m.min_wmark \/ f + c * w < w * m.low_wmark
              \/ f + c * w < w * m.high_wmark
  <1>1. /\ c * w \in Nat /\ w * m.low_wmark \in Nat /\ w * m.high_wmark \in Nat
        /\ m.min_wmark \in Nat
    BY Shortfall DEF Wm!ZoneMeminfo
  <1>2. CASE f + c < m.min_wmark
    BY <1>1, <1>2 DEF Wm!Breached, Wm!WMARK_MIN, Wm!WMARK_LOW, Wm!WMARK_HIGH, Wm!WMARK_NONE
  <1>3. CASE ~(f + c < m.min_wmark) /\ f + c * w < w * m.low_wmark
    BY <1>1, <1>3 DEF Wm!Breached, Wm!WMARK_MIN, Wm!WMARK_LOW, Wm!WMARK_HIGH, Wm!WMARK_NONE
  <1>4. CASE /\ ~(f + c < m.min_wmark) /\ ~(f + c * w < w * m.low_wmark)
             /\ f + c * w < w * m.high_wmark
    BY <1>1, <1>4 DEF Wm!Breached, Wm!WMARK_MIN, Wm!WMARK_LOW, Wm!WMARK_HIGH, Wm!WMARK_NONE
  <1>5. CASE /\ ~(f + c < m.min_wmark) /\ ~(f + c * w < w * m.low_wmark)
             /\ ~(f + c * w < w * m.high_wmark)
    BY <1>1, <1>5, SMTT(20) DEF Wm!Breached, Wm!WMARK_MIN, Wm!WMARK_LOW, Wm!WMARK_HIGH, Wm!WMARK_NONE
  <1> QED
    BY <1>2, <1>3, <1>4, <1>5, ZenonT(30)

(* Of two verdicts the first is the lower one if everything that the       *)
(* second finds breached is found by the first.                            *)
LEMMA LowerVerdict ==
  ASSUME NEW a \in Wm!WMARK_MIN..Wm!WMARK_NONE, NEW b \in Wm!WMARK_MIN..Wm!WMARK_NONE,
         b = Wm!WMARK_MIN => a = Wm!WMARK_MIN, b <= Wm!WMARK_LOW => a <= Wm!WMARK_LOW,
         b <= Wm!WMARK_HIGH => a <= Wm!WMARK_HIGH
  PROVE  a <= b
  BY DEF Wm!WMARK_MIN, Wm!WMARK_LOW, Wm!WMARK_HIGH, Wm!WMARK_NONE

(* A larger boost factor never hides a breached watermark: with the same   *)
(* memory, get_lowest_watermark finds the same watermark or a lower one.   *)
(* The min watermark is not boosted; low and high are, together with the   *)
(* cache.                                                                  *)
THEOREM BoostNeverHides ==
  ASSUME CachePercent \in 0..100,
         NEW m \in Wm!ZoneMeminfo, m.cma_free <= m.nr_free_pages,
         NEW v \in Nat, NEW w \in Nat, v <= w,
         NEW level \in Wm!Level, NEW events \in BOOLEAN, NEW compaction \in BOOLEAN
  PROVE  Wm!get_lowest_watermark(m, w, level, events, compaction)
           <= Wm!get_lowest_watermark(m, v, level, events, compaction)
  <1> DEFINE f == m.nr_free_pages - m.cma_free
             c == Wm!nr_cached_pages(m, events, level, compaction)
  <1>1. f \in Nat /\ c \in Nat
    <2>1. m.nr_free_pages \in Nat /\ m.cma_free \in Nat /\ m.file \in Nat
      BY DEF Wm!ZoneMeminfo
    <2>2. (CachePercent * m.file) \div 100 \in Nat
      BY <2>1, SMT
    <2> QED
      BY <2>1, <2>2, SMTT(20) DEF Wm!nr_cached_pages
  <1> HIDE DEF f, c
  <1>2. /\ m.low_wmark \in Nat /\ m.high_wmark \in Nat /\ m.min_wmark \in Nat
    BY DEF Wm!ZoneMeminfo
  <1>3. f + c * v < v * m.low_wmark => f + c * w < w * m.low_wmark
    BY <1>1, <1>2, BoostedMore
  <1>4. f + c * v < v * m.high_wmark => f + c * w < w * m.high_wmark
    BY <1>1, <1>2, BoostedMore
  <1>5. Wm!Breached(m, f, c, w) <= Wm!Breached(m, f, c, v)
    BY <1>1, <1>3, <1>4, Verdicts, LowerVerdict, Zenon
  <1> QED
    BY <1>5 DEF Wm!get_lowest_watermark, f, c

(* More pressure is never judged milder on the same memory: a higher       *)
(* level, a psi event rather than a poll, or compaction, never makes       *)
(* get_lowest_watermark find a higher watermark, since each of them can    *)
(* only stop should_consider_cache_free from counting the cache as free.   *)
THEOREM PressureNeverMilderAll ==
  ASSUME CachePercent \in 0..100,
         NEW m \in Wm!ZoneMeminfo, m.cma_free <= m.nr_free_pages, NEW w \in Nat,
         NEW l1 \in Wm!Level, NEW l2 \in Wm!Level, l1 <= l2,
         NEW e1 \in BOOLEAN, NEW e2 \in BOOLEAN, e1 => e2,
         NEW c1 \in BOOLEAN, NEW c2 \in BOOLEAN, c1 => c2
  PROVE  Wm!get_lowest_watermark(m, w, l2, e2, c2) <= Wm!get_lowest_watermark(m, w, l1, e1, c1)
  <1> DEFINE f == m.nr_free_pages - m.cma_free
             less == Wm!nr_cached_pages(m, e2, l2, c2)
             more == Wm!nr_cached_pages(m, e1, l1, c1)
  <1>1. f \in Nat /\ less \in Nat /\ more \in Nat /\ less <= more
    <2>1. m.nr_free_pages \in Nat /\ m.cma_free \in Nat /\ m.file \in Nat
      BY DEF Wm!ZoneMeminfo
    <2>2. (CachePercent * m.file) \div 100 \in Nat
      BY <2>1, SMT
    <2>3. l1 \in Int /\ l2 \in Int
      BY DEF Wm!Level, Wm!MEDIUM, Wm!SUPER_CRITICAL
    <2>4. Wm!should_consider_cache_free(e2, l2, c2) => Wm!should_consider_cache_free(e1, l1, c1)
      BY <2>3 DEF Wm!should_consider_cache_free, Wm!CRITICAL
    <2> QED
      BY <2>1, <2>2, <2>4, SMTT(20) DEF Wm!nr_cached_pages
  <1> HIDE DEF f, less, more
  <1>2. /\ m.low_wmark \in Nat /\ m.high_wmark \in Nat /\ m.min_wmark \in Nat
    BY DEF Wm!ZoneMeminfo
  <1>3. f + more < m.min_wmark => f + less < m.min_wmark
    BY <1>1, <1>2, SMT
  <1>4. f + more * w < w * m.low_wmark => f + less * w < w * m.low_wmark
    BY <1>1, <1>2, LessCache
  <1>5. f + more * w < w * m.high_wmark => f + less * w < w * m.high_wmark
    BY <1>1, <1>2, LessCache
  <1>6. Wm!Breached(m, f, less, w) <= Wm!Breached(m, f, more, w)
    BY <1>1, <1>3, <1>4, <1>5, Verdicts, LowerVerdict, Zenon, ZenonT(30)
  <1> QED
    BY <1>6 DEF Wm!get_lowest_watermark, f, less, more

(* With ordered watermarks each verdict of get_lowest_watermark is exactly *)
(* one test, although min is not boosted and low and high are: the order   *)
(* in which Breached tries them hides nothing, and a lower watermark is    *)
(* never reported without the higher ones being breached too.              *)
THEOREM BreachesNested ==
  ASSUME NEW m \in Wm!ZoneMeminfo, m.min_wmark <= m.low_wmark, m.low_wmark <= m.high_wmark,
         NEW f \in Nat, NEW c \in Nat, NEW w \in Nat \ {0}
  PROVE  /\ Wm!Breached(m, f, c, w) = Wm!WMARK_MIN <=> f + c < m.min_wmark
         /\ Wm!Breached(m, f, c, w) <= Wm!WMARK_LOW <=> f + c * w < w * m.low_wmark
         /\ Wm!Breached(m, f, c, w) <= Wm!WMARK_HIGH <=> f + c * w < w * m.high_wmark
  <1>1. /\ m.low_wmark \in Nat /\ m.high_wmark \in Nat /\ m.min_wmark \in Nat
    BY DEF Wm!ZoneMeminfo
  <1>2. ASSUME f + c < m.min_wmark PROVE f + c * w < w * m.low_wmark
    <2>1. f + c * 1 < 1 * m.low_wmark
      BY <1>1, <1>2, SMT
    <2> QED
      BY <1>1, <2>1, BoostedMore
  <1>3. f + c * w < w * m.low_wmark => f + c * w < w * m.high_wmark
    <2>1. w * m.low_wmark <= w * m.high_wmark
      BY <1>1, TimesMono
    <2>2. w * m.low_wmark \in Nat /\ w * m.high_wmark \in Nat /\ c * w \in Nat
      BY <1>1, Shortfall
    <2> QED
      BY <2>1, <2>2, SMT
  <1>4. w \in Nat
    OBVIOUS
  <1>5. /\ Wm!Breached(m, f, c, w) = Wm!WMARK_MIN <=> f + c < m.min_wmark
        /\ Wm!Breached(m, f, c, w) <= Wm!WMARK_LOW <=>
             f + c < m.min_wmark \/ f + c * w < w * m.low_wmark
        /\ Wm!Breached(m, f, c, w) <= Wm!WMARK_HIGH <=>
             \/ f + c < m.min_wmark \/ f + c * w < w * m.low_wmark
             \/ f + c * w < w * m.high_wmark
    BY <1>4, Verdicts, Zenon
  <1> QED
    BY <1>2, <1>3, <1>5, Zenon

(* The share of swappable memory that is swapped out is a percentage, also *)
(* when get_free_swap takes less than the kernel reports as free and when  *)
(* nothing can be swapped.                                                 *)
THEOREM SwapUtilizationPercent ==
  ASSUME swap_compression_ratio \in Nat,
         NEW s \in [total_swap : Nat, free_swap : Nat, easy_available : Nat,
                    anon : Nat, shmem : Nat],
         s.free_swap <= s.total_swap
  PROVE  Wm!calc_swap_utilization(s) \in 0..100
  <1> DEFINE free == Wm!get_free_swap(s)
             used == s.total_swap - free
             all  == s.anon + s.shmem + used
  <1>1. free \in Nat /\ free <= s.total_swap
    <2>1. s.easy_available * swap_compression_ratio \in Nat
      BY SMT
    <2> QED
      BY <2>1 DEF Wm!get_free_swap
  <1>a. Wm!calc_swap_utilization(s) = IF all > 0 THEN (used * 100) \div all ELSE 0
    BY Zenon DEF Wm!calc_swap_utilization
  <1> HIDE DEF free
  <1>2. used \in Nat /\ all \in Nat /\ used <= all
    BY <1>1, SMT
  <1> HIDE DEF used, all
  <1>3. ASSUME all > 0 PROVE (used * 100) \div all \in 0..100
    BY <1>2, <1>3, SMT
  <1> QED
    BY <1>a, <1>2, <1>3, SMT
=============================================================================
