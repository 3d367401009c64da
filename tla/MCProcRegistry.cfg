SPECIFICATION Spec
CONSTANTS
  Pid = {p1, p2, p3}
  Client = {c1, c2}
  Adj = {200, 600}
  PerAppMemcg = TRUE
  HashSize = 2
  Hash <- MCHash
  Nobody = Nobody
  NULL = NULL
SYMMETRY Symmetry
INVARIANTS
  ListsWellFormed
  HashIndexesRecords
PROPERTIES
  ImplementsRecords
  PurgeComplete
