------------------------------ MODULE Listener ------------------------------
(***************************************************************************)
(* What lmkd knows of direct reclaim and kswapd over its whole life:       *)
(* Monitors with the events of MemEvents, which reach it from the time     *)
(* LMK_BOOT_COMPLETED sets up the listener until the process is gone.      *)
(* Without a listener the kernel's reclaim is not followed here: nobody is *)
(* in it, and pgscan_direct may or may not have moved.                     *)
(***************************************************************************)
EXTENDS Monitors, Sequences

CONSTANTS Thread, RingSize,
          Threshold,     \* direct_reclaim_threshold_ms, where it is set
          MaxTime        \* bound on the time explored with one listener

ASSUME ListenerAssumption == RingSize \in Nat /\ Threshold \in Nat /\ MaxTime \in Nat

VARIABLES clock, began, kswapd, ring, lost, direct_reclaim_start_tm, kswapd_start_tm

Mem == INSTANCE MemEvents

mvars == <<clock, began, kswapd, ring, lost, direct_reclaim_start_tm, kswapd_start_tm>>

ListenerInit ==
  /\ Init
  /\ clock = 1 /\ began = [t \in Thread |-> 0] /\ kswapd = "asleep"
  /\ ring = <<>> /\ lost = {"direct", "kswapd"}
  /\ direct_reclaim_start_tm = 0 /\ kswapd_start_tm = 0

(* The end of init_memevent_listener_monitoring, or a new process.  The    *)
(* kernel may already reclaim when the listener registers.                 *)
Registered ==
  /\ clock' = 1 /\ ring' = <<>> /\ lost' = {"direct", "kswapd"}
  /\ direct_reclaim_start_tm' = 0 /\ kswapd_start_tm' = 0
  /\ \/ /\ memevent_listener'
        /\ began' \in [Thread -> {0, 1}] /\ kswapd' \in {"awake", "asleep"}
     \/ /\ ~memevent_listener'
        /\ began' = [t \in Thread |-> 0] /\ kswapd' = "asleep"

ListenerNext ==
  \/ Next /\ IF memevent_listener' # memevent_listener THEN Registered ELSE UNCHANGED mvars
  \/ memevent_listener /\ Mem!Next /\ clock' <= MaxTime /\ UNCHANGED vars

ListenerSpec == ListenerInit /\ [][ListenerNext]_<<vars, mvars>> /\ Fairness

-----------------------------------------------------------------------------
(* mp_event_psi, which psi monitors call, may find direct reclaim stuck:   *)
(* in_direct_reclaim, and direct_reclaim_duration_ms is above its          *)
(* threshold.  Without a listener the start is 0.                          *)
MayFindStuck ==
  /\ monitors_initialized /\ use_psi_monitors /\ direct_reclaim_threshold
  /\ memevent_listener => Mem!in_direct_reclaim
  /\ clock - direct_reclaim_start_tm > Threshold

ReallyStuck == \E t \in Thread : began[t] # 0 /\ clock - began[t] > Threshold

(* Nothing is left to fetch, and the latest event of direct reclaim was    *)
(* not lost.                                                               *)
UpToDate == memevent_listener => ring = <<>> /\ "direct" \notin lost

(* A kill because the device is stuck in direct reclaim happens only when  *)
(* a thread has really been in it for longer than the threshold, once the  *)
(* boot has been handled and as far as the events tell: whether the kernel *)
(* has a listener or not, and however restarts and LMK_UPDATE_PROPS change *)
(* the threshold.                                                          *)
StuckMeansStuck == MayFindStuck /\ boot_completed_handled /\ UpToDate => ReallyStuck

(* Refuted: the same before LMK_BOOT_COMPLETED.  The threshold is in force *)
(* from the start, the listener is not there and the start time is 0, so   *)
(* that any direct reclaim seems to last since the device was switched on. *)
StuckMeansStuckAlways == MayFindStuck /\ UpToDate => ReallyStuck

(* lmkd knows whether kswapd is awake when it has fetched all events and   *)
(* the latest one was not lost.                                            *)
KswapdKnown == memevent_listener => Mem!KswapdTracked

(* Refuted: lmkd notices every direct reclaim.  The end of one thread's    *)
(* reclaim clears the start time of another's.                             *)
DirectReclaimNoticed == memevent_listener => Mem!DirectReclaimNoticed

(* Refuted: a direct reclaim that lmkd takes to be under way is, also when *)
(* there are events left to fetch.                                         *)
DirectReclaimSoundNow == memevent_listener => Mem!DirectReclaimSoundNow
=============================================================================
