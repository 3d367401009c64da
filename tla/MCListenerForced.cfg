SPECIFICATION ListenerSpec
CONSTANTS
  HasInkernelModule = TRUE
  ForceInkernel = TRUE
  UserspaceLmk = TRUE
  Props <- MCProps
  KernelMayRefuse = FALSE
  MaxChanges = 2
  MaxCrashes = 1
  Thread = {t1}
  RingSize = 1
  Threshold = 0
  MaxTime = 2
INVARIANT KillerPresent
