SPECIFICATION Spec
CONSTANTS
  s1 = s1
  s2 = s2
  Sessions <- MCSessions
  Statuses <- MCStatuses
  Targets <- MCTargets
  StaleTimeout = 2
  FutureTolerance = 1
  RecoveryEnabled = TRUE
  RecoveryRate = 2
  RecoveryMaxDuration = 3
  RecoveryBudget = 1
  TrustedMaxAge = 4
  MaxVx = 2
  MaxYaw = 2
  MaxDeltaVx = 1
  MaxDeltaYaw = 1
  InvertYaw = FALSE
  AmbiguityHold = TRUE
  TickMin = 0
  TickMax = 2
  MaxTime = 6
INVARIANTS
  IInv
  OneAttemptPerObservation
  RecoveryEndsInTime
  FollowEndsWhenInputsStop
PROPERTIES
  EpochsNeverReturn
  CommandIsSlewed
  ContractSpec
CHECK_DEADLOCK FALSE
