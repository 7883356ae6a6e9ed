SPECIFICATION Spec
CONSTANTS
  Tracks = {1}
  LedgerCapacity = 1
  Deadline = 1
  MaxId = 2
  MaxFrameGen = 2
  MaxTrackGen = 2
  Capacity = 1
  RecentLimit = 4
  SignalBreaksSink = FALSE
  Processes = 2
  RestartTime = 2
  ReconcileGap = 1
  MaxTroubles = 1
  MaxTime = 4
INVARIANTS
  TypeOK
  AcceptedIsCausal
  OverdueForgotten
PROPERTY AcceptedOfSameInstance
CHECK_DEADLOCK FALSE
