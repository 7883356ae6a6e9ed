SPECIFICATION Spec
CONSTANTS
  s1 = s1
  s2 = s2
  Sessions <- MCSessions
  Statuses <- MCRecoveryStatuses
  Targets <- MCRecoveryTargets
  StaleTimeout = 6
  FutureTolerance = 1
  RecoveryEnabled = TRUE
  RecoveryRate = 3
  RecoveryMaxDuration = 6
  RecoveryBudget = 7
  TrustedMaxAge = 6
  MaxVx = 2
  MaxYaw = 3
  MaxDeltaVx = 1
  MaxDeltaYaw = 1
  InvertYaw = TRUE
  AmbiguityHold = FALSE
  TickMin = 1
  TickMax = 2
  MaxTime = 10
INVARIANT TurnWithinBudget
CHECK_DEADLOCK FALSE
