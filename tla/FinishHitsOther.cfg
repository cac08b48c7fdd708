CONSTANTS
  Addr <- NestedAddr
  Program <- NestedProgram
  Entry = 0
  StackLimit = 2
  LineAt <- NestedLines
  Mains <- NestedOnlyMain
  BreakAddrs <- NestedBreaks
  Commands = {"break", "finish"}
  StepCounts = {1}
  MaxSignals = 0
  MayBeKilled = FALSE
SPECIFICATION Spec
PROPERTY StepsBackOverOwnTrap
