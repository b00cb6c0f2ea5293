CONSTANTS
  Offsets = {0, 1, 2, 3, 4}
  Sizes = {2, 3}
SPECIFICATION RangesSpec
INVARIANTS Faithful
CHECK_DEADLOCK FALSE
