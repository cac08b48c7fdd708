CONSTANTS
  Addr <- NestedAddr
  Program <- NestedProgram
  Entry = 0
  StackLimit = 2
  LineAt <- NestedLines
  Mains <- NestedAnyMain
  BreakAddrs <- NestedBreaks
  Commands = {"break", "continue", "delete", "finish", "next", "step", "quit"}
  StepCounts = {1, 2}
  MaxSignals = 1
  MayBeKilled = TRUE
SPECIFICATION Spec
INVARIANT TypeOK
INVARIANT ImageIntact
INVARIANT ImageInvariant
PROPERTY NoSilentPass
