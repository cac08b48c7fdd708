CONSTANTS
  Addr <- DeepAddr
  Program <- DeepProgram
  Entry = 0
  StackLimit = 3
  LineAt <- DeepLines
  Mains <- DeepOnlyMain
  BreakAddrs <- DeepOnlyMain
  Commands = {"finish"}
  StepCounts = {1}
  MaxSignals = 0
  MayBeKilled = FALSE
  Functions <- DeepFunctions
SPECIFICATION Spec
INVARIANT UnknownFunctionIsPrinted
