SPECIFICATION Spec
CONSTANTS
  MinHits = 2
  MaxHits = 3
  MaxDets = 2
  Crowded = {2}
  MaxLost = 1
  Budget = 2
  MaxImages = 2
  MaxImageAge = 1
  DefaultAge <- MCDefaultAge
  MaxContext = 1
  MaxTime = 6
  Timings = {1, 2}
  Imaged = {1, 2, 4}
  MaxSwitches = 1
  MaxRestarts = 1
INVARIANTS TablesConsistent StampNotNewer
PROPERTY KeepsContract
CHECK_DEADLOCK FALSE
