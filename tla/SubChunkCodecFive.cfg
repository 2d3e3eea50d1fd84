\* Five ids: three bits per block.
SPECIFICATION Spec
CONSTANTS
  Cells = 12
  WordBits = 16
  RuntimeId = {0, 1, 2, 3, 10}
  Touched = {0, 5}
CHECK_DEADLOCK FALSE
INVARIANTS
  RoundTrip
