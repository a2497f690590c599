SPECIFICATION Spec
CONSTANTS
  GridW = 2
  GridH = 2
  NumSlices = 2
  SliceLuts = 2
  SliceFfs = 2
  LutK = 4
  MaxAtoms = 6
  MaxBlocks = 4
  MaxMoves = 3
  RrW = 2
  MaxWires = 4
  MaxSwitches = 4
  MaxNets = 2
  MaxIterations = 3
  MaxPins = 3
  MaxArcs = 3
  Delays = {1, 3}
  K = 2
  GateTypes = {"NOR"}
  MaxGates = 4
  Tiles = 3
  ClbLuts = 4
  TopPads = 3
  MaxPads = 9
  MaxBanks = 2
  MaxFrames = 2
  PeriodHops = 7
  Reruns = 2
  MaxNetlist = 3
  NetlistTypes = {"INV", "BUF", "AND", "DFF"}
  FirstTypes = {"INV", "DFF"}
  SynthParams <- Parameters
  Clocks <- Constraints
  CellSizes <- Shapes
  Spots <- Coordinates
  NetEnds <- Wiring
  NoParams = NoParams
  Far = 100000000
  MaxAnalyses = 2
  DieW = 6
  DieH = 4
  SiteW = 2
  SiteH = 1
  MaxPlaceNets = 2
  MaxVias = 2
INVARIANTS
  LayoutExact
  
CHECK_DEADLOCK FALSE
