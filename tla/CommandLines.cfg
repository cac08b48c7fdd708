CONSTANTS
  Lines <- AllLines
  Documented <- Readme
SPECIFICATION Spec
CHECK_DEADLOCK FALSE
INVARIANT OneTargetFirst
INVARIANT AbbreviationsAgree
