SPECIFICATION Spec
CONSTANTS
  Layouts <- MCProtected
  MAX_NR_NODES = 2
  CachePercent = 50
  swap_compression_ratio = 1
  Configured = {"Normal", "Movable"}
  MglruStatus = {FALSE, TRUE}
  Boost = {1, 2}
  Debug = FALSE
  MaxSkips = 1
INVARIANT BoostFindsMore
