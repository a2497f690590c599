SPECIFICATION Spec
CONSTANTS
  MaxItems = 3
  MaxExpr = 4
  Designs = 3
  MaxInstances = 5
  Signals = {"p", "q", "r"}
  Watched = {"p", "q"}
  Viewed = {"p"}
  Values = {"0", "1"}
  MaxProjected = 1
  MaxClock = 4
  MaxTicks = 9
  MaxPending = 2
  MaxTurns = 8
  MaxSamples = 12
  MaxErrors = 2
INVARIANTS
  FrontSound
  

  
CHECK_DEADLOCK FALSE
