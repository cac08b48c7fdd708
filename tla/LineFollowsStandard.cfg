CONSTANTS
  OpcodeBase = 13
  LineBase <- MCLineBase
  LineRange = 4
  MinimumInstructionLength = 1
  MaximumOperations = 1
  DefaultIsStmt = TRUE
  FileNames <- TwoFiles
  Code <- StandardCode
  MaxOpcodes = 5
SPECIFICATION Spec
CHECK_DEADLOCK FALSE
PROPERTY FollowsStandard
