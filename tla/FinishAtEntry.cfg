CONSTANTS
  Addr <- NestedAddr
  Program <- NestedProgram
  Entry = 0
  StackLimit = 2
  LineAt <- NestedLines
  Mains <- NestedOnlyMain
  BreakAddrs <- NestedOnlyMain
  Commands = {"step", "finish"}
  StepCounts = {1}
  MaxSignals = 0
  MayBeKilled = FALSE
SPECIFICATION Spec
PROPERTY FinishLeavesCurrentFrame
