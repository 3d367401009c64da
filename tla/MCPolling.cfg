SPECIFICATION FairSpec
CONSTANTS
  Window = 2
  wmark_boost_factor = 2
  wbf_step = 1
  psi_cont_event_thresh = 1
  MaxCount = 2
  PidfdSupported = {TRUE, FALSE}
INVARIANTS
  UpgradeEarned
PROPERTIES
  PollingStarts
  PollingEnds
