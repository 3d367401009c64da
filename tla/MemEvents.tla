------------------------------ MODULE MemEvents ------------------------------
(***************************************************************************)
(* The memory event listener: kernel threads enter and leave direct        *)
(* reclaim and kswapd wakes and sleeps, each of which puts an event in a   *)
(* ring buffer or, when that is full, is lost; the main thread takes the   *)
(* events out (memevent_listener_notification) at any later time and keeps *)
(* when direct reclaim and kswapd started.  mp_event_psi tells from these  *)
(* whether the system is in reclaim, and for how long.  Time 0 stands for  *)
(* "not started".  The kernel may already reclaim when lmkd registers: the *)
(* events of that time count as lost.                                      *)
(***************************************************************************)
EXTENDS Integers, Sequences

CONSTANTS Thread, RingSize

VARIABLES
  clock,                    \* CLOCK_MONOTONIC_COARSE
  began,                    \* [Thread -> Nat]: when it entered direct reclaim, or 0
  kswapd,                   \* "awake" or "asleep"
  ring,                     \* events not fetched yet, each [type, thread]
  lost,                     \* the kinds of event of which the latest was lost
  direct_reclaim_start_tm, kswapd_start_tm

kernel == <<clock, began, kswapd>>
vars == <<kernel, ring, lost, direct_reclaim_start_tm, kswapd_start_tm>>

(* Mutant: the end of direct reclaim is not handled.                       *)
DirectTypes_begin == {"DIRECT_RECLAIM_BEGIN"}

DirectTypes == {"DIRECT_RECLAIM_BEGIN", "DIRECT_RECLAIM_END"}
KswapdTypes == {"KSWAPD_WAKE", "KSWAPD_SLEEP"}
Events == [type : DirectTypes \cup KswapdTypes, thread : Thread]

Init ==
  /\ clock = 1 /\ began \in [Thread -> {0, 1}] /\ kswapd \in {"awake", "asleep"}
  /\ ring = <<>>
  /\ lost = {"direct", "kswapd"}
  /\ direct_reclaim_start_tm = 0 /\ kswapd_start_tm = 0

-----------------------------------------------------------------------------
(* The kernel.  An event that finds the ring full is lost.                 *)
Emit(kind, type, t) ==
  IF Len(ring) < RingSize
  THEN ring' = Append(ring, [type |-> type, thread |-> t]) /\ lost' = lost \ {kind}
  ELSE UNCHANGED ring /\ lost' = lost \cup {kind}

reclaim_begins(t) ==
  /\ began[t] = 0 /\ began' = [began EXCEPT ![t] = clock]
  /\ Emit("direct", "DIRECT_RECLAIM_BEGIN", t)
  /\ UNCHANGED <<clock, kswapd, direct_reclaim_start_tm, kswapd_start_tm>>

reclaim_ends(t) ==
  /\ began[t] # 0 /\ began' = [began EXCEPT ![t] = 0]
  /\ Emit("direct", "DIRECT_RECLAIM_END", t)
  /\ UNCHANGED <<clock, kswapd, direct_reclaim_start_tm, kswapd_start_tm>>

kswapd_wakes(t) ==
  /\ kswapd = "asleep" /\ kswapd' = "awake"
  /\ Emit("kswapd", "KSWAPD_WAKE", t)
  /\ UNCHANGED <<clock, began, direct_reclaim_start_tm, kswapd_start_tm>>

kswapd_sleeps(t) ==
  /\ kswapd = "awake" /\ kswapd' = "asleep"
  /\ Emit("kswapd", "KSWAPD_SLEEP", t)
  /\ UNCHANGED <<clock, began, direct_reclaim_start_tm, kswapd_start_tm>>

tick == clock' = clock + 1 /\ UNCHANGED <<began, kswapd, ring, lost,
                                         direct_reclaim_start_tm, kswapd_start_tm>>

-----------------------------------------------------------------------------
(* The loop of memevent_listener_notification leaves what the last event   *)
(* of each kind says.                                                      *)
Positions(types) == {i \in 1..Len(ring) : ring[i].type \in types}
IsLast(i, types) == i \in Positions(types) /\ \A j \in Positions(types) : j <= i

(* Mutant: an event that ends something is not noticed.                    *)
After_sticky(types, start, begin) ==
  IF \E i \in Positions(types) : ring[i].type = begin THEN clock ELSE start

After(types, start, begin) ==
  IF \E i \in Positions(types) : IsLast(i, types) /\ ring[i].type = begin THEN clock
  ELSE IF Positions(types) = {} THEN start ELSE 0

memevent_listener_notification ==
  /\ ring # <<>>
  /\ direct_reclaim_start_tm' =
       After(DirectTypes, direct_reclaim_start_tm, "DIRECT_RECLAIM_BEGIN")
  /\ kswapd_start_tm' = After(KswapdTypes, kswapd_start_tm, "KSWAPD_WAKE")
  /\ ring' = <<>>
  /\ UNCHANGED <<kernel, lost>>

(* The time cannot be read, or the events cannot be fetched and may be     *)
(* gone.                                                                   *)
notification_fails ==
  /\ ring # <<>>
  /\ direct_reclaim_start_tm' = 0
  /\ \/ UNCHANGED <<ring, lost>>
     \/ /\ ring' = <<>>
        /\ lost' = {"direct", "kswapd"}
  /\ UNCHANGED <<kernel, kswapd_start_tm>>

Next ==
  \/ \E t \in Thread : reclaim_begins(t) \/ reclaim_ends(t) \/ kswapd_wakes(t) \/ kswapd_sleeps(t)
  \/ tick \/ memevent_listener_notification \/ notification_fails

Spec == Init /\ [][Next]_vars

-----------------------------------------------------------------------------
(* What mp_event_psi makes of it.                                          *)
in_direct_reclaim == direct_reclaim_start_tm # 0
in_kswapd_reclaim == kswapd_start_tm # 0

(* lmkd never takes direct reclaim to last longer than it does: if it      *)
(* holds the system to be in direct reclaim, has no event to fetch and the *)
(* latest one was not lost, then some thread is in direct reclaim since    *)
(* the time recorded or longer.                                            *)
DirectReclaimSound ==
  ring = <<>> /\ "direct" \notin lost /\ in_direct_reclaim =>
    \E t \in Thread : began[t] # 0 /\ began[t] <= direct_reclaim_start_tm

(* lmkd knows whether kswapd is awake, under the same conditions.          *)
KswapdTracked == ring = <<>> /\ "kswapd" \notin lost => (in_kswapd_reclaim <=> kswapd = "awake")

(* lmkd notices direct reclaim: if a thread is in it, so is the system.    *)
DirectReclaimNoticed ==
  ring = <<>> /\ "direct" \notin lost /\ (\E t \in Thread : began[t] # 0) => in_direct_reclaim

(* The same when events are still to be fetched.                           *)
DirectReclaimSoundNow == in_direct_reclaim => \E t \in Thread : began[t] # 0
=============================================================================
