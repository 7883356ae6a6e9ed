SPECIFICATION Spec
CONSTANTS
  Looks = {"front", "back", "other"}
  Sim <- MCSim
  Cfg <- MCCfg
  TrackIds = {1, 2}
  Geometries = {"far", "fair", "close"}
  Geo <- MCGeo
  Scenes <- MCScenes
INVARIANT MemoryConsistent
PROPERTIES
  KeepsContract
  RecoveryIsConfirmed
  SwitchIsProven
  AnchorIsOperators
  NegativesFromUnbrokenLock
CHECK_DEADLOCK FALSE
