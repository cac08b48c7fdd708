CONSTANTS
  Addr <- NestedAddr
  Program <- NestedProgram
  Entry = 0
  StackLimit = 2
  LineAt <- NestedLines
  Mains <- NestedOnlyMain
  BreakAddrs <- NestedBreaks
  Commands = {"break", "continue"}
  StepCounts = {1}
  MaxSignals = 1
  MayBeKilled = FALSE
SPECIFICATION Spec
PROPERTY HitIsReportedOnce
