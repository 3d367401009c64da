SPECIFICATION FairSpec
CONSTANTS
  Proc = {p1, p2}
  Score = {0, 900}
  Fd = {0, 1}
  NULL = NULL
  HEAD = HEAD
INVARIANTS
  NoUseAfterFree
PROPERTY WatchdogRescues
CHECK_DEADLOCK FALSE
