------------------------------ MODULE Monitors ------------------------------
(***************************************************************************)
(* The life of lmkd: start (main, init), the memory pressure monitors, the *)
(* commands LMK_UPDATE_PROPS, LMK_START_MONITORING and LMK_BOOT_COMPLETED, *)
(* exit and restart, with the init scripts (lmkd.rc) that send two of the  *)
(* commands.  A command that finds lmkd not running is lost.               *)
(***************************************************************************)
EXTENDS Integers, FiniteSets

CONSTANTS HasInkernelModule,   \* the kernel has the lowmemorykiller driver
          ForceInkernel,       \* ro.vendor.lmk.force_inkernel_lmk
          UserspaceLmk,        \* ro.lmk.enable_userspace_lmk
          Props,               \* the property values explored
          KernelMayRefuse,     \* monitors and the memevent listener may fail
          MaxChanges,          \* bound on the property changes explored
          MaxCrashes           \* bound on the crashes explored

LOW == 0
MEDIUM == 1
CRITICAL == 2
SUPER_CRITICAL == 3
Level == LOW..SUPER_CRITICAL

(* use_psi, the levels with a stall threshold, and whether                 *)
(* direct_reclaim_threshold_ms is set.                                     *)
ASSUME PropsAssumption ==
  /\ Props \subseteq [use_psi : BOOLEAN, stall : SUBSET (MEDIUM..SUPER_CRITICAL),
                      direct_reclaim : BOOLEAN]
  /\ MaxChanges \in Nat /\ MaxCrashes \in Nat

VARIABLES
  up,                       \* lmkd is running
  mon,                      \* [fd, maxevents]: mpevfd and the monitors' share of maxevents
  monitors_initialized, use_psi_monitors, use_inkernel_interface,
  boot_completed_handled, memevent_listener,
  direct_reclaim_threshold, \* direct_reclaim_threshold_ms > 0
  applied,                  \* the property values lmkd read last
  delay_monitors_until_boot,
                            \* ro.lmk.delay_monitors_until_boot: one value for the device
  props, booted,            \* the system's properties; sys.boot_completed
  reinit,                   \* lmkd.reinit: "", "0" or "1"
  notify,                   \* lmkd --boot_completed is to run
  changes, crashes

lmkd == <<mon, monitors_initialized, use_psi_monitors, use_inkernel_interface,
          boot_completed_handled, memevent_listener, direct_reclaim_threshold, applied>>
system == <<delay_monitors_until_boot, props, booted, reinit, notify, changes, crashes>>
vars == <<up, lmkd, system>>

None == [fd |-> [l \in Level |-> "none"], maxevents |-> 0]

Init ==
  /\ up = FALSE /\ mon = None
  /\ monitors_initialized = FALSE /\ use_psi_monitors = FALSE
  /\ use_inkernel_interface = TRUE
  /\ boot_completed_handled = FALSE /\ memevent_listener = FALSE
  /\ direct_reclaim_threshold = FALSE
  /\ props \in Props /\ applied = props /\ delay_monitors_until_boot \in BOOLEAN
  /\ booted = FALSE /\ reinit = "" /\ notify = FALSE /\ changes = 0 /\ crashes = 0

(* The process is gone, and its state with it.                             *)
Gone ==
  /\ up' = FALSE /\ mon' = None
  /\ monitors_initialized' = FALSE /\ use_psi_monitors' = FALSE
  /\ use_inkernel_interface' = TRUE
  /\ boot_completed_handled' = FALSE /\ memevent_listener' = FALSE
  /\ direct_reclaim_threshold' = FALSE /\ applied' = props

-----------------------------------------------------------------------------
(* init_mp_psi or init_mp_common of the levels S.                          *)
Register(m, S, kind) ==
  [fd |-> [l \in Level |-> IF l \in S THEN kind ELSE m.fd[l]],
   maxevents |-> m.maxevents + Cardinality(S)]

(* destroy_mp_psi or destroy_mp_common of the levels S.                    *)
Destroy(m, S) ==
  LET open == {l \in S : m.fd[l] # "none"}
  IN  [fd |-> [l \in Level |-> IF l \in open THEN "none" ELSE m.fd[l]],
       maxevents |-> m.maxevents - Cardinality(open)]

(* The levels initialized before the first that the kernel refuses.        *)
Before(wanted, refused) == {l \in wanted : \A r \in wanted \cap refused : l < r}

(* Mutant: only the level before the refused one is destroyed.             *)
init_psi_monitors_half(m, p, refused) ==
  LET done == Before(p.stall, refused)
  IN  IF done = p.stall THEN Register(m, p.stall, "psi")
      ELSE Destroy(Register(m, done, "psi"), done \ {MEDIUM})

(* Levels without a threshold get no monitor; when one is refused, those   *)
(* before it are destroyed.                                                *)
init_psi_monitors(m, p, refused) ==
  LET done == Before(p.stall, refused)
  IN  IF done = p.stall THEN Register(m, p.stall, "psi")
      ELSE Destroy(Register(m, done, "psi"), done)

(* [ok, psi, mon] after init_monitors: psi first, then vmpressure.  The    *)
(* kernel refuses the levels in psi_refused and vm_refused.                *)
init_monitors(m, p, psi_refused, vm_refused) ==
  LET psi    == p.use_psi /\ p.stall \cap psi_refused = {}
      after  == IF p.use_psi THEN init_psi_monitors(m, p, psi_refused) ELSE m
      vm     == LOW..CRITICAL
      common == Before(vm, vm_refused)
  IN  IF psi THEN [ok |-> TRUE, psi |-> TRUE, mon |-> after]
      ELSE [ok |-> common = vm, psi |-> FALSE, mon |-> Register(after, common, "vmpressure")]

(* Only the first level refused matters.                                   *)
Refusals == {{}} \cup IF KernelMayRefuse THEN {{l} : l \in Level} ELSE {}

(* A vmpressure level refused ends lmkd, whichever it is.                  *)
CommonRefusals == {{}} \cup IF KernelMayRefuse THEN {{CRITICAL}} ELSE {}

destroy_monitors(m) ==
  Destroy(m, IF use_psi_monitors THEN MEDIUM..SUPER_CRITICAL ELSE LOW..CRITICAL)

(* use_inkernel_interface as init sets it.                                 *)
InkernelAtInit == HasInkernelModule /\ (ForceInkernel \/ ~UserspaceLmk)

(* use_inkernel_interface as update_perf_props sets it.                    *)
InkernelAtUpdate == HasInkernelModule /\ ~UserspaceLmk

Initialized(result) ==
  /\ mon' = result.mon /\ use_psi_monitors' = result.psi
  /\ monitors_initialized' = TRUE

-----------------------------------------------------------------------------
(* main: update_props and init, run when the service is (re)started.  A    *)
(* failure to initialize the monitors ends the process.                    *)
main ==
  /\ ~up
  /\ UNCHANGED system
  /\ IF InkernelAtInit \/ (delay_monitors_until_boot /\ ~booted)
     THEN /\ up' = TRUE
          /\ applied' = props /\ direct_reclaim_threshold' = props.direct_reclaim
          /\ use_inkernel_interface' = InkernelAtInit
          /\ UNCHANGED <<mon, monitors_initialized, use_psi_monitors,
                         boot_completed_handled, memevent_listener>>
     ELSE \E r \in Refusals, s \in CommonRefusals :
            LET result == init_monitors(None, props, r, s)
            IN  IF result.ok
                THEN /\ up' = TRUE /\ Initialized(result)
                     /\ applied' = props /\ direct_reclaim_threshold' = props.direct_reclaim
                     /\ use_inkernel_interface' = FALSE
                     /\ UNCHANGED <<boot_completed_handled, memevent_listener>>
                ELSE Gone

(* direct_reclaim_threshold_ms is cleared when there is no listener.       *)
ThresholdAfterUpdate == props.direct_reclaim /\ memevent_listener

(* destroy_monitors, then init_monitors.                                   *)
Reinitialized(r, s) == init_monitors(destroy_monitors(mon), props, r, s)

(* LMK_UPDATE_PROPS                                                        *)
cmd_update_props ==
  /\ use_inkernel_interface' = InkernelAtUpdate
  /\ applied' = props /\ direct_reclaim_threshold' = ThresholdAfterUpdate
  /\ UNCHANGED <<up, boot_completed_handled, memevent_listener>>
  /\ IF ~InkernelAtUpdate /\ monitors_initialized
     THEN \E r \in Refusals, s \in CommonRefusals :
            LET result == Reinitialized(r, s)
            IN  result.ok /\ Initialized(result)
     ELSE UNCHANGED <<mon, monitors_initialized, use_psi_monitors>>

(* LMK_UPDATE_PROPS with settings the kernel refuses: exit(1).             *)
cmd_update_props_fails ==
  /\ ~InkernelAtUpdate /\ monitors_initialized
  /\ \E r \in Refusals, s \in CommonRefusals : ~Reinitialized(r, s).ok
  /\ Gone

(* The property is reset, then the command is sent.                        *)
issue_reinit ==
  /\ reinit = "1"
  /\ reinit' = ""
  /\ IF up THEN cmd_update_props \/ cmd_update_props_fails ELSE UNCHANGED <<up, lmkd>>
  /\ UNCHANGED <<delay_monitors_until_boot, props, booted, notify, changes, crashes>>

(* LMK_START_MONITORING, from a client at any time; use_psi is read again. *)
cmd_start_monitoring ==
  /\ up
  /\ IF monitors_initialized \/ ~booted THEN UNCHANGED <<up, lmkd>>
     ELSE \E r \in Refusals, s \in CommonRefusals :
            LET result == init_monitors(mon, [applied EXCEPT !.use_psi = props.use_psi], r, s)
            IN  IF result.ok
                THEN /\ Initialized(result)
                     /\ UNCHANGED <<up, use_inkernel_interface, boot_completed_handled,
                                    memevent_listener, direct_reclaim_threshold, applied>>
                ELSE Gone
  /\ UNCHANGED system

(* boot_completed_handled = true                                           *)
HandledAfterBoot == TRUE

(* LMK_BOOT_COMPLETED: the memevent listener is set up if the kernel has   *)
(* it.  The command is sent by lmkd --boot_completed.                      *)
on_boot_completed ==
  /\ notify
  /\ notify' = FALSE
  /\ IF up /\ ~boot_completed_handled
     THEN /\ boot_completed_handled' = HandledAfterBoot
          /\ memevent_listener' \in IF KernelMayRefuse THEN BOOLEAN ELSE {TRUE}
          /\ direct_reclaim_threshold' = (direct_reclaim_threshold /\ memevent_listener')
     ELSE UNCHANGED <<boot_completed_handled, memevent_listener, direct_reclaim_threshold>>
  /\ UNCHANGED <<up, mon, monitors_initialized, use_psi_monitors, use_inkernel_interface,
                 applied, delay_monitors_until_boot, props, booted, reinit, changes, crashes>>

-----------------------------------------------------------------------------
(* The system.  A change of a property that lmkd.rc lists triggers a       *)
(* reinitialization at once if the device has booted, or else when it has. *)

(* What lmkd.rc lists: psi_partial_stall_ms, psi_complete_stall_ms and     *)
(* direct_reclaim_threshold_ms; not use_psi, nor the threshold of the      *)
(* super critical level.                                                   *)
Listed(p) == [stall |-> p.stall \ {SUPER_CRITICAL}, direct_reclaim |-> p.direct_reclaim]

(* Mutant: changes before boot are forgotten.                              *)
ReinitTrigger_boot == IF booted THEN "1" ELSE reinit

ReinitTrigger == IF booted THEN "1" ELSE "0"

set_property ==
  /\ changes < MaxChanges
  /\ \E p \in Props \ {props} :
       /\ props' = p
       /\ reinit' = IF Listed(p) # Listed(props) THEN ReinitTrigger ELSE reinit
  /\ changes' = changes + 1
  /\ UNCHANGED <<up, lmkd, delay_monitors_until_boot, booted, notify, crashes>>

boot_completes ==
  /\ ~booted
  /\ booted' = TRUE /\ notify' = TRUE
  /\ reinit' = IF reinit = "0" THEN "1" ELSE reinit
  /\ UNCHANGED <<up, lmkd, delay_monitors_until_boot, props, changes, crashes>>

crash ==
  /\ up /\ crashes < MaxCrashes
  /\ crashes' = crashes + 1
  /\ Gone
  /\ UNCHANGED <<delay_monitors_until_boot, props, booted, reinit, notify, changes>>

Next == main \/ issue_reinit \/ cmd_start_monitoring \/ on_boot_completed
        \/ set_property \/ boot_completes \/ crash

Spec == Init /\ [][Next]_vars

(* init restarts the service and runs its triggers; the device boots; the  *)
(* kernel does not refuse the monitors at every start for ever.            *)
Fairness == /\ SF_vars(main /\ up') /\ WF_vars(issue_reinit) /\ WF_vars(on_boot_completed)
            /\ WF_vars(boot_completes)

-----------------------------------------------------------------------------
(* Type invariant; the memevent listener exists only after the boot has    *)
(* been handled.                                                           *)
TypeOK ==
  /\ mon \in [fd : [Level -> {"none", "psi", "vmpressure"}], maxevents : Int]
  /\ props \in Props /\ applied \in Props
  /\ {up, monitors_initialized, use_psi_monitors, use_inkernel_interface, booted, notify,
      boot_completed_handled, memevent_listener, direct_reclaim_threshold} \subseteq BOOLEAN
  /\ reinit \in {"", "0", "1"} /\ delay_monitors_until_boot \in BOOLEAN
  /\ memevent_listener => boot_completed_handled

(* Reinitialization leaks no monitor: maxevents counts the registered      *)
(* ones, and they are exactly those of the mode and the properties in use, *)
(* whatever was refused, replaced or destroyed before.  The same holds of  *)
(* the listener: it exists only after boot completion (the types), and     *)
(* once lmkd knows that there is none it does not use the direct reclaim   *)
(* threshold, however often properties are reread.                         *)
MonitorsMatch ==
  LET wanted == IF ~monitors_initialized THEN {}
                ELSE IF use_psi_monitors THEN applied.stall ELSE LOW..CRITICAL
  IN  /\ TypeOK
      /\ mon.maxevents = Cardinality(wanted)
      /\ \A l \in Level : mon.fd[l] = IF l \notin wanted THEN "none"
                                      ELSE IF use_psi_monitors THEN "psi" ELSE "vmpressure"
      /\ boot_completed_handled /\ ~memevent_listener => ~direct_reclaim_threshold

(* With a listener, the direct reclaim threshold that was read last is in  *)
(* force: flags set during boot take effect after it.                      *)
ThresholdInForce == memevent_listener => direct_reclaim_threshold = applied.direct_reclaim

(* Refuted: someone frees memory: a running lmkd either leaves it to the   *)
(* kernel or has monitors, except while it waits for the end of the boot   *)
(* or for LMK_START_MONITORING when it was told to delay.                  *)
KillerPresent ==
  up /\ ~delay_monitors_until_boot => use_inkernel_interface \/ monitors_initialized

(* Changes of the properties that lmkd.rc lists are not lost: when they    *)
(* stop, lmkd comes to run with the values set last, also if they were set *)
(* before the boot completed or while lmkd was down.                       *)
PropsApplied == <>[](up /\ Listed(applied) = Listed(props))

(* Refuted: the same of all properties.  Nothing tells lmkd of the others. *)
AllPropsApplied == <>[](up /\ applied = props)

(* Once the device has booted, lmkd gets its memevent listener, also when  *)
(* it is restarted.                                                        *)
ListenerStarted == booted ~> boot_completed_handled
=============================================================================
