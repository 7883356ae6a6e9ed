SPECIFICATION FairServiceSpec
CONSTANTS
  Requests <- MCRequests
  Capacity = 1
  RecentLimit = 2
  SignalBreaksSink = TRUE
  MaxTime = 2
INVARIANT OneAnswer
PROPERTY EveryRequestAnswered
CHECK_DEADLOCK FALSE
