SPECIFICATION Spec
CONSTANTS
  Bits = 3
  BaseSize = 2
  SizeMax = 9
  Numbers <- MCNumbers
  Strings <- MCStrings
  Garbage = {0, 4}
  MaxOps = 3
CHECK_DEADLOCK FALSE
INVARIANTS ReadsBack
PROPERTIES Implements
