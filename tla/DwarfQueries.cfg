CONSTANTS
  Images <- WithGaps
  Pcs <- Covered
  Lines = {1, 2, 3, 4, 5, 7}
SPECIFICATION Spec
CHECK_DEADLOCK FALSE
INVARIANT AddressGoesToItsUnit
INVARIANT BreakIsInFunction
INVARIANT BreakIsBehindPrologue
INVARIANT LineAndBack
INVARIANT AnswersAreTheFiles
