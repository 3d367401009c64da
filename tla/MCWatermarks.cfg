SPECIFICATION Spec
CONSTANTS
  Layouts <- MCLayouts
  MAX_NR_NODES = 2
  CachePercent = 50
  swap_compression_ratio = 1
  Configured = {"DMA32", "Normal", "Movable"}
  MglruStatus = {FALSE, TRUE}
  Boost = {1, 2}
  Debug = FALSE
  MaxSkips = 1
INVARIANTS
  ParsedFaithfully
  ZonesCounted
  BoostFindsMorePlain
