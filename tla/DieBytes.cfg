CONSTANTS
  Group = 3
  IntBits = 14
  Size = 20
  Sections <- AllSections
  ProgramCounters <- Counters
  Variable = "x"
SPECIFICATION Spec
CHECK_DEADLOCK FALSE
INVARIANT AttributesAreFound
INVARIANT UnitsAreFound
PROPERTY ReadsTheTree
