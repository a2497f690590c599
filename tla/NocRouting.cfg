SPECIFICATION Spec
CONSTANTS
  MeshSize = 3
  Algos = {"XY", "YX", "WEST_FIRST", "NORTH_LAST", "NEGATIVE_FIRST", "ODD_EVEN", "ADAPTIVE", "RANDOMIZED"}
  Loads = {0, 1}
  TableSize = 256
CHECK_DEADLOCK FALSE
INVARIANTS Minimal DeadlockFree
PROPERTY ArrivesInTurn
