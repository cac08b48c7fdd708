CONSTANTS
  Addr <- PlacedAddr
  Program <- PlacedProgram
  Entry = 0
  StackLimit = 3
  LineAt <- PlacedLines
  Mains <- PlacedOnlyMain
  BreakAddrs <- PlacedBreaks
  Commands = {"break", "continue", "delete", "quit"}
  StepCounts = {1}
  MaxSignals = 2
  MayBeKilled = TRUE
  Functions <- PlacedFunctions
SPECIFICATION FairSpec
INVARIANT BacktraceIsCallChain
INVARIANT FrameIsCurrent
PROPERTY Transparent
PROPERTY HitIsTrap
PROPERTY StepOverExecutes
PROPERTY CommandReturns
