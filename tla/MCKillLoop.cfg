SPECIFICATION Spec
CONSTANTS
  Proc = {p1, p2}
  ThreadCnt = 1
  Level = {1, 2}
  Critical = 2
  Fd = {0, 1, 2}
  NULL = NULL
  KillTimeout = TRUE
  UseHooks = TRUE
  MaxOptional = 1
SYMMETRY Symmetry
INVARIANTS
  PidfdsOwned
  WaitWillEnd
PROPERTY PollingResumes
