SPECIFICATION FairSpec
CONSTANTS
  Proc = {p1, p2}
  Thread = {t1, t2, t3}
  NoTarget = NoTarget
  CommCapacity = 1
INVARIANTS
  RequestsAccounted
  QueuedRequestsHaveThreads
  DupsAccounted
PROPERTIES
  ImplementsKillPool
  PoolRecovers
