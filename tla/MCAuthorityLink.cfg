SPECIFICATION Spec
CONSTANTS
  Bound = 2
  Sessions <- MCSessions
  TrackIds = {1}
  Views <- MCViews
  MaxGeneration = 2
  MaxLeft = 2
  MaxOutputAge = 2
  QueueDepth = 2
  AsyncReid = TRUE
  Mirror = TRUE
  LastFrame = 2
  StaleTimeout = 1
  FutureTolerance = 0
  RecoveryEnabled = FALSE
  RecoveryRate = 1
  RecoveryMaxDuration = 2
  RecoveryBudget = 1
  TrustedMaxAge = 2
  MaxVx = 0
  MaxYaw = 0
  MaxDeltaVx = 1
  MaxDeltaYaw = 1
  InvertYaw = FALSE
  AmbiguityHold = FALSE
  TickMin = 1
  TickMax = 1
  MaxTime = 4
INVARIANTS
  FollowsCurrentSelection
  FollowsOnlyASelection
  RevokedFollowingEnds
  EpochIsLearned
CHECK_DEADLOCK FALSE
