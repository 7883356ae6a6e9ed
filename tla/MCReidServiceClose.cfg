SPECIFICATION FairServiceSpec
CONSTANTS
  Requests <- MCFewRequests
  Capacity = 1
  RecentLimit = 2
  SignalBreaksSink = TRUE
  MaxTime = 2
PROPERTY CloseJoins
CHECK_DEADLOCK FALSE
