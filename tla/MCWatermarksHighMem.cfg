SPECIFICATION Spec
CONSTANTS
  Layouts <- MCHighMem
  MAX_NR_NODES = 2
  CachePercent = 50
  swap_compression_ratio = 1
  Configured = {"Normal", "HighMem", "Movable"}
  MglruStatus = {FALSE}
  Boost = {1, 2}
  Debug = FALSE
  MaxSkips = 1
INVARIANT ZonesCounted
