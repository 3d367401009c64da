SPECIFICATION ListenerSpec
CONSTANTS
  HasInkernelModule = TRUE
  ForceInkernel = FALSE
  UserspaceLmk = TRUE
  Props <- MCProps
  KernelMayRefuse = TRUE
  MaxChanges = 2
  MaxCrashes = 1
  Thread = {t1}
  RingSize = 1
  Threshold = 0
  MaxTime = 2
INVARIANTS
  MonitorsMatch
  StuckMeansStuck
  KswapdKnown
PROPERTY PropsApplied
