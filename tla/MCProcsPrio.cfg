SPECIFICATION FairSpec
CONSTANTS
  Task = {p1, p2, t1}
  Leader = {p1, p2}
  Client = {c1, c2}
  Adj = {0, 1}
  Nobody = Nobody
  NULL = NULL
  Batches <- MCBatches
  RingEntries = 2
  InitialAdj = 0
INVARIANTS
  BatchApplied
  RegisteredWritten
PROPERTY CommandEnds
