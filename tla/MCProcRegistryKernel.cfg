SPECIFICATION Spec
CONSTANTS
  Pid = {p1, p2}
  Client = {c1, c2}
  Adj = {200, 600}
  PerAppMemcg = FALSE
  HashSize = 2
  Hash <- MCHash
  Nobody = Nobody
  NULL = NULL
INVARIANT KernelAgrees
