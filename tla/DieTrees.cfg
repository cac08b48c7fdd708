CONSTANTS
  Units <- Trees
  Variable = "x"
SPECIFICATION Spec
CHECK_DEADLOCK FALSE
INVARIANT WalkStaysInUnit
INVARIANT FilterFindsAll
INVARIANT NestedAreOwn
INVARIANT AnswerIsTheVariable
