INIT MCInit
NEXT MCNext
CONSTANTS
  short = short
  long1 = long1
  long2 = long2
  Transfers = {short, long1, long2}
  NoTransfer = none
  Cycles <- Ticks
  NumChannels = 2
  QueueDepth = 2
  Total = 8
  Slack = 2
  MaxSegments = 3
  Sizes = {2, 5}
  Rows = 2
  Cols = 2
  Depth = 2
  Limit = 4
  Flows = {"WS", "OS", "RS", "IS", "NLR"}
  Strides = {0, 1}
  Products <- ProductSet
  MaxCalls = 3
  NumRegs = 2
  ProgramSize = 3
  Budgets = {1, 5}
CHECK_DEADLOCK FALSE
INVARIANT MatmulExact
