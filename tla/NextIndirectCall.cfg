CONSTANTS
  Addr <- IndirectAddr
  Program <- IndirectProgram
  Entry = 0
  StackLimit = 2
  LineAt <- IndirectLines
  Mains <- NestedOnlyMain
  BreakAddrs <- NestedOnlyMain
  Commands = {"next"}
  StepCounts = {1}
  MaxSignals = 0
  MayBeKilled = FALSE
SPECIFICATION Spec
PROPERTY NextStaysInFrame
