CONSTANTS
  Addr <- RecursiveAddr
  Program <- RecursiveProgram
  Entry = 0
  StackLimit = 3
  LineAt <- RecursiveLines
  Mains <- RecursiveOnlyMain
  BreakAddrs <- RecursiveBreaks
  Commands = {"continue"}
  StepCounts = {1}
  MaxSignals = 0
  MayBeKilled = FALSE
  Functions <- RecursiveFunctions
SPECIFICATION Spec
INVARIANT FrameIsCurrent
