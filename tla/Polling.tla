------------------------------- MODULE Polling -------------------------------
(***************************************************************************)
(* Pressure events in time: check_cont_lmkd_events, the polling that       *)
(* mp_event_psi asks for and call_handler starts, stops, pauses, resumes   *)
(* and upgrades, and the boost of the watermarks that goes with it, on     *)
(* kernels with and without pidfds.  A time stamp is its age in ticks, Far *)
(* when it is older than every interval that the code compares it with.    *)
(* What mp_event_psi finds (KillDecision.tla, Watermarks.tla) and the      *)
(* descriptors of a kill (KillLoop.tla) are left open.                     *)
(***************************************************************************)
EXTENDS Integers

CONSTANTS Window,               \* psi_window_size_ms in ticks, even
          wmark_boost_factor, wbf_step,
          psi_cont_event_thresh,
          PidfdSupported,       \* possible values of pidfd_supported
          MaxCount              \* bound on count_upgraded_event

ASSUME WindowAssumption == Window \in Nat \ {0} /\ psi_cont_event_thresh \in Nat \ {0}
                           /\ MaxCount \in Nat
ASSUME BoostAssumption == wmark_boost_factor \in Nat \ {0} /\ wbf_step \in Nat

MEDIUM == 1
CRITICAL == 2
SUPER_CRITICAL == 3
Level == MEDIUM..SUPER_CRITICAL
None == 0

Contiguous == (Window * 3) \div 2
Far == IF Contiguous > Window THEN Contiguous ELSE Window + 1
Longest == (MaxCount - 1) * (Window + 1)

VARIABLES
  tmed, tcrit, tupgrad,         \* statics of check_cont_lmkd_events
  count_upgraded_event, last_event_upgraded,
  poll_handler, paused_handler, \* levels, or None
  poll_start,                   \* poll_params.poll_start_tm, of use while polling
  wbf_effective,
  killing,                      \* static in mp_event_psi
  pidfd_supported,              \* by the kernel
  kill_pending,                 \* last_kill_pid_or_fd >= 0
  calm,                         \* pressure and kills have come to an end
  earned                        \* [seen, span]: reclaim seen, and ticks since, the
                                \* count of upgraded events left 0

cont_vars == <<tmed, tcrit, tupgrad, count_upgraded_event, last_event_upgraded, earned>>
poll_vars == <<poll_handler, paused_handler, poll_start, wbf_effective>>
kill_vars == <<killing, kill_pending>>
env_vars == <<pidfd_supported, calm>>
vars == <<cont_vars, poll_vars, kill_vars, env_vars>>

Init ==
  /\ tmed = Far /\ tcrit = Far /\ tupgrad = Far
  /\ count_upgraded_event = 0 /\ last_event_upgraded = FALSE
  /\ poll_handler = None /\ paused_handler = None /\ poll_start = Far
  /\ wbf_effective = wmark_boost_factor
  /\ killing = FALSE /\ kill_pending = FALSE /\ pidfd_supported \in PidfdSupported
  /\ calm = FALSE /\ earned = [seen |-> 0, span |-> 0]

is_waiting_for_kill(pending) == pidfd_supported /\ pending

AtMost(n, bound) == IF n < bound THEN n ELSE bound
AtLeast(n, bound) == IF n > bound THEN n ELSE bound

BoostDown(w) == AtLeast(w - wbf_step, 1)
BoostUp(w) == AtMost(w + wbf_step, wmark_boost_factor)

-----------------------------------------------------------------------------
(* The state of cont_vars while a handler changes it.                      *)
C == [med |-> tmed, crit |-> tcrit, upgrad |-> tupgrad,
      count |-> count_upgraded_event, upgraded |-> last_event_upgraded, earned |-> earned]

SetC(c) ==
  /\ tmed' = c.med /\ tcrit' = c.crit /\ tupgrad' = c.upgrad
  /\ count_upgraded_event' = c.count /\ last_event_upgraded' = c.upgraded
  /\ earned' = IF c.count = 0 THEN [seen |-> 0, span |-> 0] ELSE c.earned

(* Mutant: every event in direct reclaim counts, however short after the   *)
(* last.                                                                   *)
check_cont_lmkd_events_all(c, l) ==
  LET prev == IF l = MEDIUM THEN c.med ELSE c.crit
      d    == IF l = MEDIUM THEN [c EXCEPT !.med = 0] ELSE [c EXCEPT !.crit = 0]
  IN  IF prev < Contiguous
      THEN IF c.upgraded THEN [d EXCEPT !.count = @ + 1, !.upgraded = FALSE, !.upgrad = 0]
           ELSE [d EXCEPT !.count = 0]
      ELSE [d EXCEPT !.count = 0]

(* A medium or critical psi event continues a row of them or starts one.   *)
check_cont_lmkd_events(c, l) ==
  LET prev == IF l = MEDIUM THEN c.med ELSE c.crit
      d    == IF l = MEDIUM THEN [c EXCEPT !.med = 0] ELSE [c EXCEPT !.crit = 0]
  IN  CASE prev < Contiguous /\ c.upgrad > Window /\ c.upgraded ->
             [d EXCEPT !.count = @ + 1, !.upgraded = FALSE, !.upgrad = 0]
        [] prev < Contiguous /\ c.upgrad <= Window -> d
        [] OTHER -> [d EXCEPT !.count = 0]

(* Watermarks were computed at level l, in direct reclaim or not.          *)
Upgraded(c, l, direct) ==
  IF l < CRITICAL /\ direct
  THEN [c EXCEPT !.upgraded = TRUE,
                 !.earned.seen = IF c.upgraded THEN @ ELSE AtMost(@ + 1, MaxCount)]
  ELSE c

-----------------------------------------------------------------------------
(* The end of call_handler, for the handler of level h (None: another      *)
(* handler); w is the boost left by the handler.                           *)
call_handler_end(h, update, w) ==
  CASE update = "START" ->
         /\ poll_start' = 0 /\ poll_handler' = h
         /\ wbf_effective' = w /\ UNCHANGED paused_handler
    [] update = "PAUSE" ->
         /\ paused_handler' = h /\ poll_handler' = None
         /\ wbf_effective' = w /\ poll_start' = Far
    [] update = "RESUME" ->
         /\ poll_handler' = paused_handler /\ paused_handler' = None
         /\ poll_start' = IF paused_handler = None THEN Far ELSE 0
         /\ wbf_effective' = w
    [] update = "CRIT_UPGRADE" ->
         /\ poll_handler' = IF h <= CRITICAL THEN CRITICAL ELSE poll_handler
         /\ poll_start' = IF poll_handler' = None THEN Far ELSE 0
         /\ wbf_effective' = w /\ UNCHANGED paused_handler
    [] OTHER ->  \* DO_NOT_CHANGE: polling may have lasted a psi window
         IF poll_handler # None /\ poll_start > Window
         THEN /\ poll_handler' = None /\ paused_handler' = None
              /\ wbf_effective' = wmark_boost_factor /\ poll_start' = Far
         ELSE wbf_effective' = w /\ UNCHANGED <<poll_handler, paused_handler, poll_start>>

(* Mutant: polling starts only where it goes on already.                   *)
Starts_running(l) == poll_handler # None /\ l >= poll_handler

(* !poll_params->poll_handler || data >= poll_params->poll_handler->data   *)
Starts(l) == poll_handler = None \/ l >= poll_handler

(* The label no_kill of mp_event_psi, with the state the handler leaves.   *)
no_kill(c, l, event, direct, w, is_killing, pending) ==
  /\ killing' = is_killing /\ kill_pending' = pending
  /\ IF is_waiting_for_kill(pending)
     THEN SetC(c) /\ call_handler_end(l, "PAUSE", w)
     ELSE IF ~(event \/ is_killing \/ direct)
     THEN SetC(c) /\ call_handler_end(l, "DO_NOT_CHANGE", w)
     ELSE IF c.count >= psi_cont_event_thresh
     THEN SetC([c EXCEPT !.count = 0]) /\ call_handler_end(l, "CRIT_UPGRADE", w)
     ELSE SetC(c) /\ IF Starts(l)
                     THEN call_handler_end(l, "START",
                            IF is_killing THEN w ELSE BoostDown(w))
                     ELSE call_handler_end(l, "DO_NOT_CHANGE", w)

(* Mutant: what is left of a kill is only cleared where watermarks are     *)
(* computed.                                                               *)
KillingWhenQuiet_kept == killing

(* killing is cleared before the system is found not to be in reclaim.     *)
KillingWhenQuiet == FALSE

(* A file cannot be parsed: the handler returns early.  Without vmstat or  *)
(* meminfo the last kill is not taken note of yet.                         *)
parse_fails(c, l, w) ==
  /\ killing' \in {killing, FALSE} /\ kill_pending' = FALSE
  /\ SetC(c) /\ call_handler_end(l, "DO_NOT_CHANGE", w)

(* What find_and_kill_process leads to when it frees pages: lmkd waits for *)
(* the victim, unless that could not be set up or the hook freed them.     *)
Killed(c, l, event, direct, w) ==
  \E more, pending \in BOOLEAN :
    no_kill(c, l, event, direct, IF more THEN BoostUp(w) ELSE BoostDown(w), TRUE, pending)

(* mp_event_psi for level l, for a psi event or for a poll, where all      *)
(* files can be parsed: skipped because of the last kill, not in reclaim,  *)
(* or decided.  A kill may also free less than a page.                     *)
handled(c, l, event, direct, w) ==
  LET d == Upgraded(c, l, direct)
  IN  \/ kill_pending /\ no_kill(c, l, event, FALSE, w, killing, TRUE)
      \/ ~direct /\ no_kill(c, l, event, FALSE, w, KillingWhenQuiet, FALSE)
      \/ \E pending \in BOOLEAN :
           (pending => ~calm) /\ no_kill(d, l, event, direct, w, FALSE, pending)
      \/ ~calm /\ Killed(d, l, event, direct, w)

mp_event_psi(c, l, event, direct) ==
  LET w == IF event /\ Starts(l) THEN wmark_boost_factor ELSE wbf_effective
  IN  handled(c, l, event, direct, w) \/ parse_fails(c, l, w)

-----------------------------------------------------------------------------
(* mainloop: a psi event.                                                  *)
Contd(l) == IF l <= CRITICAL THEN check_cont_lmkd_events(C, l) ELSE C

psi_event(l, direct) ==
  /\ ~calm /\ Contd(l).count <= MaxCount
  /\ mp_event_psi(Contd(l), l, TRUE, direct)
  /\ UNCHANGED env_vars

(* mainloop: polling_interval_ms has passed.                               *)
poll(direct) ==
  /\ poll_handler # None /\ (direct => ~calm)
  /\ mp_event_psi(C, poll_handler, FALSE, direct)
  /\ UNCHANGED env_vars

ResumePolling ==
  /\ kill_pending' = FALSE
  /\ call_handler_end(None, "RESUME", wbf_effective)
  /\ UNCHANGED <<cont_vars, killing, env_vars>>

kill_done_handler == is_waiting_for_kill(kill_pending) /\ ResumePolling

(* A kill that failed is reported, perhaps after the wait has ended.       *)
kill_fail_handler == ~calm /\ ResumePolling

(* mainloop: the kill timeout is over.                                     *)
kill_timeout ==
  /\ poll_handler = None /\ is_waiting_for_kill(kill_pending)
  /\ kill_pending' = FALSE
  /\ IF paused_handler # None
     THEN call_handler_end(None, "RESUME", wbf_effective) ELSE UNCHANGED poll_vars
  /\ UNCHANGED <<cont_vars, killing, env_vars>>

(* Without pidfds is_kill_pending finds that the victim is gone.           *)
victim_gone ==
  /\ ~pidfd_supported /\ kill_pending /\ kill_pending' = FALSE
  /\ UNCHANGED <<cont_vars, poll_vars, killing, env_vars>>

(* A control command or a memory event is handled.                         *)
other_handler ==
  /\ call_handler_end(None, "DO_NOT_CHANGE", wbf_effective)
  /\ UNCHANGED <<cont_vars, kill_vars, env_vars>>

tick ==
  /\ tmed' = AtMost(tmed + 1, Far) /\ tcrit' = AtMost(tcrit + 1, Far)
  /\ tupgrad' = AtMost(tupgrad + 1, Far) /\ poll_start' = AtMost(poll_start + 1, Far)
  /\ earned' = IF count_upgraded_event = 0 THEN earned
               ELSE [earned EXCEPT !.span = AtMost(@ + 1, Longest)]
  /\ UNCHANGED <<count_upgraded_event, last_event_upgraded, poll_handler, paused_handler,
                 wbf_effective, kill_vars, env_vars>>

pressure_ends ==
  ~calm /\ calm' = TRUE /\ UNCHANGED <<cont_vars, poll_vars, kill_vars, pidfd_supported>>

Next ==
  \/ \E l \in Level, direct \in BOOLEAN : psi_event(l, direct)
  \/ \E direct \in BOOLEAN : poll(direct)
  \/ kill_done_handler \/ kill_fail_handler \/ kill_timeout \/ victim_gone
  \/ other_handler \/ tick \/ pressure_ends

Spec == Init /\ [][Next]_vars

(* Time passes, the main loop polls, and victims die.                      *)
FairSpec ==
  /\ Spec
  /\ WF_vars(tick) /\ WF_vars(\E direct \in BOOLEAN : poll(direct))
  /\ WF_vars(kill_done_handler) /\ WF_vars(victim_gone)

-----------------------------------------------------------------------------
(* Type invariant.  The boost factor stays between 1 and its setting.      *)
TypeOK ==
  /\ {tmed, tcrit, tupgrad, poll_start} \subseteq 0..Far
  /\ count_upgraded_event \in 0..MaxCount
  /\ {poll_handler, paused_handler} \subseteq Level \cup {None}
  /\ wbf_effective \in 1..wmark_boost_factor
  /\ {last_event_upgraded, killing, kill_pending, calm} \subseteq BOOLEAN

(* Polling at critical level is earned: a count of n upgraded events takes *)
(* more than n - 1 psi windows, in each of which direct reclaim was seen   *)
(* at a lower level.  The boost factor stays within bounds (the types).    *)
UpgradeEarned ==
  LET n == count_upgraded_event
  IN  /\ TypeOK
      /\ n > 0 => earned.seen >= n - 1 /\ earned.span >= (n - 1) * (Window + 1)

(* "Start polling after initial PSI event": a medium or critical event     *)
(* that is handled while nothing is polled starts polling, unless lmkd     *)
(* waits for a victim; and an event of a lower level does not take over    *)
(* from critical polling.                                                  *)
PollingStarts ==
  [][/\ /\ poll_handler = None /\ poll_handler' = None /\ ~is_waiting_for_kill(kill_pending')
        /\ ~calm
        => \A l \in MEDIUM..CRITICAL, direct \in BOOLEAN :
             ~handled(Contd(l), l, TRUE, direct, wmark_boost_factor)
     /\ poll_handler >= CRITICAL /\ poll_handler' = MEDIUM
        => \A l \in Level, direct \in BOOLEAN : ~psi_event(l, direct)]_vars

(* The same for the initial event of any level.                            *)
AnyPollingStarts ==
  [][/\ poll_handler = None /\ poll_handler' = None /\ ~is_waiting_for_kill(kill_pending')
     /\ ~calm
     => \A l \in Level, direct \in BOOLEAN :
          ~handled(Contd(l), l, TRUE, direct, wmark_boost_factor)]_vars

(* "Poll for the duration of PSI_WINDOW_SIZE_MS after the initial PSI      *)
(* event because psi events are rate-limited": a psi event never ends      *)
(* polling, unless to wait for a victim.                                   *)
EventKeepsPolling ==
  [][/\ poll_handler # None /\ poll_handler' = None /\ ~is_waiting_for_kill(kill_pending')
     /\ ~calm /\ tmed' = 0 /\ tmed > 0
     => \A direct \in BOOLEAN : ~handled(Contd(MEDIUM), MEDIUM, TRUE, direct, wbf_effective)]_vars

(* POLLING_CRIT_UPGRADE never lowers the level polled.                     *)
UpgradeRaises ==
  [][poll_handler' # None /\ poll_handler' < poll_handler
     => \A l \in Level, direct \in BOOLEAN : ~psi_event(l, direct)]_vars

(* Once pressure and kills end, so does polling, and nothing is waited     *)
(* for: a kill that has been made extends polling only until it has been   *)
(* taken note of.                                                          *)
PollingEnds == calm ~> poll_handler = None /\ ~kill_pending
=============================================================================
