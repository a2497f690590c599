\* Graphs of up to 3 nodes and 2 edges in any order and direction, with 2-cycle
\* operations, stores and comparisons; 2 registers, so that they run out, and 6
\* controller states; 3 pipelined nodes with 2 ports; 2 loops; a 2-dimensional
\* array; 2 tasks and 2 channels with 2 ports; 3 directive entries.
SPECIFICATION Spec
CONSTANTS
  OpsUsed = {"MUL", "STORE", "CMP"}
  MaxNodes = 3
  MaxEdges = 2
  MaxDelay = 1
  MaxLatency = 3
  MaxRegs = 2
  MaxStates = 6
  Horizon = 256
  Accesses <- AccessSet
  MaxPipeNodes = 3
  MaxPipeEdges = 3
  MaxPorts = 2
  MaxCycles = 7
  MaxLoops = 2
  Trips = {0, 4, 6}
  NumDims = 2
  Sizes = {2, 3}
  Factors = {2, 3}
  MaxBanks = 4
  MaxTasks = 2
  MaxInterfaces = 3
  SynthTypes = {"NOT", "AND", "OR"}
  MaxNetGates = 3
  MaxLibCells = 2
  Literals = 3
  MaxTerms = 8
  MaxRounds = 3
  MaxRules = 2
  MaxViolations = 2
  MaxDevices = 2
  MaxNets = 1
  MaxAntennas = 2
  MaxErcs = 2
  NumStages = 3
  MaxCheckpoints = 1
  MaxEcoOps = 2
  Garbage = {0, 1}
  MaxSpares = 3
  SpareColumns = 2
  EcoSpots = {0, 1}
INVARIANTS
  SchedulesSound
  TransformsExact
  ChipSound
\* The tables are full.
CHECK_DEADLOCK FALSE
