CONSTANTS
  OpcodeBase = 13
  LineBase <- MCLineBase
  LineRange = 4
  MinimumInstructionLength = 1
  MaximumOperations = 0
  DefaultIsStmt = TRUE
  FileNames <- TwoFiles
  Code <- TableCode
  MaxOpcodes = 7
SPECIFICATION Spec
CHECK_DEADLOCK FALSE
INVARIANT TypeOK
INVARIANT LookupFindsRow
INVARIANT BreakpointIsWhereItSays
