SPECIFICATION HartSpec
CONSTANTS
  Exceptions = {"ILLEGAL", "PAGE_FAULT"}
  Interrupts = {"TIMER", "EXTERNAL"}
  MaxNesting = 3
  NumRegs = 3
  WordBits = 2
  ProgramSize = 4
  DataSize = 3
  Alphabet <- Choice
  Pcs = {1, 2}
  BtbSize = 2
  TlbSize = 2
  Half = {0, 1}
  Irqs = {0, 1, 2}
  MaxBreakpoints = 3
  ByteBits = 2
  MemSize = 4
  Samples = {0, 1, 7, 128, 255}
INVARIANTS NoHiddenEnable UnitsSound
PROPERTIES NestsLikeAStack 
