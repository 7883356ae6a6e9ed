SPECIFICATION FairSpec
CONSTANTS
  Requests = 3
  ManyRequests = 2
  WatchedRequests = 1
  Reconfigurable = TRUE
  Threads = 2
  Targets = {1, 2}
  IdLimit = 2
  CommandDepth = 2
  MaxTracks = 2
  OneTracks = 0
  MaxOther = 1
INVARIANTS BridgeConsistent LogLosesOnlyFailures TimFollowsTheLastWord
PROPERTIES SwitchAfterRevocation BrowserCatchesUp
CHECK_DEADLOCK FALSE
