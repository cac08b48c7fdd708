CONSTANTS
  Images <- OffsetUnit
  Pcs = {21, 22}
  Lines = {1, 2, 3, 4, 5, 7}
SPECIFICATION Spec
CHECK_DEADLOCK FALSE
INVARIANT AddressGoesToItsUnit
