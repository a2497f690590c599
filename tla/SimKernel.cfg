SPECIFICATION Spec
CONSTANTS
  Regions = {"ACTIVE", "INACTIVE", "NBA", "MONITOR", "FUTURE", "POSTPONED"}
  Delays = {0, 1, 2}
  MaxDelta = 2
  MaxLive = 3
  MaxTime = 2
  OwnRegion = FALSE
INVARIANTS NothingLost NotEarly
PROPERTIES ListsSound Returns
