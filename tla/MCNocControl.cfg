SPECIFICATION MCSpec
CONSTANTS
  NumVCs = 4
  Threshold = 2
  MaxWait = 3
  EscapeBase = 2
  NumEscape = 2
  Packets = {p1, p2}
  NoPacket = none
  MaxHops = 12
  Channels = {0, 1, 2, 3}
  VcIds = {0, 1}
  Classes = {0, 1, 2}
  Weightings <- WeightSets
  Generators <- GeneratorSet
  MaxVc = 8
  Rates = {4, 10}
  Bursts = {10, 25}
  MaxTurns = 7
  MaxSimCycles = 4
  LaneCounts = {2, 48}
  MaxLinkLanes = 64
  MaxSkew = 120
  Payload <- FlitBytes
  Seeds <- SeedSets
  MaxFlits = 2
  MaxFlips = 2
  PhyLanes = 3
  Tolerances = {4, 10}
  Emphases = {9}
  Taps = {6, 14}
  PrbsBits = 8
  MaxDies = 2
  MaxMacros = 2
  MaxRoutes = 2
  Areas = {1, 3, 4}
  MaxDesignBlocks = 3
  Partitions = {1, 2, 3}
CHECK_DEADLOCK FALSE
INVARIANTS NoMissedTimeout  QosSound LinkSound ModuleSound
PROPERTIES DetectorActs
