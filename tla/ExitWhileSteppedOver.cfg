CONSTANTS
  Addr <- NestedAddr
  Program <- NestedProgram
  Entry = 0
  StackLimit = 2
  LineAt <- NestedLines
  Mains <- NestedOnlyMain
  BreakAddrs <- NestedOnlyMain
  Commands = {"continue"}
  StepCounts = {1}
  MaxSignals = 0
  MayBeKilled = TRUE
SPECIFICATION Spec
INVARIANT RunningMeansNotReaped
