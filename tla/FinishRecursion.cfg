CONSTANTS
  Addr <- RecursiveAddr
  Program <- RecursiveProgram
  Entry = 0
  StackLimit = 4
  LineAt <- RecursiveLines
  Mains <- RecursiveOnlyMain
  BreakAddrs <- RecursiveBreaks
  Commands = {"break", "continue", "delete", "finish"}
  StepCounts = {1}
  MaxSignals = 0
  MayBeKilled = FALSE
SPECIFICATION Spec
PROPERTY FinishReturnsToCaller
