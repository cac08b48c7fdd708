CONSTANTS
  Addr <- DeepAddr
  Program <- DeepProgram
  Entry = 0
  StackLimit = 3
  LineAt <- DeepLines
  Mains <- DeepOnlyMain
  BreakAddrs <- DeepOnlyMain
  Commands = {"continue", "finish", "next", "step"}
  StepCounts = {1, 2}
  MaxSignals = 0
  MayBeKilled = TRUE
SPECIFICATION FairSpec
PROPERTY Transparent
PROPERTY StepsBackOverOwnTrap
PROPERTY FinishReturnsToCaller
PROPERTY NextStaysInFrame
PROPERTY CommandReturns
