SPECIFICATION MCSpec
CONSTANTS
  NumPorts = 3
  NumVCs = 2
  Dsts = {0, 1, 2}
  Route <- Identity
  FlitTypes = {"head", "body", "tail", "single"}
  CreditUsers <- CreditChannels
  FifoDepth = 2
  MaxCredits = 1
  CounterMod = 3
  Channels <- Table
  Configured <- Used
  First <- Origin
  Credits = 2
  MaxPackets = 2
  Lengths = {1, 2}
  MaxOps = 3
  TotalSlots = 8
  VCs = {v0, v1, v2}
  PerVcMin = 2
  Requests = {0, 1, 2, 5, 9}
  Flits = {f1, f2}
  NoFlit = NoFlit
  Depth = 4
INVARIANTS
  FlitsConserved
  SwitchSound
  CreditsConserved
  
  PoolSound
PROPERTIES
  EveryChannelServed
  ImplementsQueue
