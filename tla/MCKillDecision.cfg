SPECIFICATION Spec
CONSTANTS
  thrashing_limit_pct = 2
  thrashing_critical_pct = 4
  thrashing_limit_decay_pct = 50
  lowmem_min_oom_score = 701
  pressure_after_kill_min_score = 0
  DirectReclaimThreshold = TRUE
  Growth = {0, 3}
  Windows = {0, 1, 2, 63, 64}
  MaxRefaults = 4
INVARIANTS
  PerceptibleSpared
  RetryKept
