SPECIFICATION FairSpec
CONSTANTS
  Proc = {p1, p2}
  ThreadCnt = 1
  Level = {2}
  Critical = 2
  Fd = {0, 1}
  NULL = NULL
  KillTimeout = FALSE
  UseHooks = FALSE
  MaxOptional = 1
PROPERTY WaitEnds
