CONSTANTS
  Addr <- NestedAddr
  Program <- NestedProgram
  Entry = 0
  StackLimit = 2
  LineAt <- NestedLines
  Mains <- NestedOnlyMain
  BreakAddrs <- NestedBreaks
  Commands = {"break", "next"}
  StepCounts = {1}
  MaxSignals = 0
  MayBeKilled = FALSE
SPECIFICATION Spec
PROPERTY SingleStepsOwnInstruction
