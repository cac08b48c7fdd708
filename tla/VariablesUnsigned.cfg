CONSTANTS
  Group = 2
  IntBits = 5
  Size = 10
  Far = 100
  Bits = 2
  Low <- MCLow
  High = 1
  Cfa = 1
  Layouts <- FromRbp
  Values <- NonNegative
SPECIFICATION Spec
CHECK_DEADLOCK FALSE
INVARIANT TypeOK
INVARIANT DecodingReturns
PROPERTY SetChangesOneVariable
PROPERTY PrintShowsWhatWasSet
PROPERTY PrintShowsTheVariable
