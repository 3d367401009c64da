SPECIFICATION ReportsSpec
CONSTANTS
  AdjMin <- MCAdjMin
  AdjMax = 3
  AdjDivisor = 2
  ReportFreq = 3
  MaxDistinct = 3
  CounterSize = 3
  MaxKills = 6
  INVALID = INVALID
  NULL = NULL
  Pid = {1, 3}
  Name <- MCName
  PathMax = 3
  HashSize = 2
  MaxReports = 2
INVARIANTS
  CountersExact
  AnswersExact
  PublishedLags
  TableIsMap
  ReportsNamed
