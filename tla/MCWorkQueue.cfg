CONSTANTS
  Workers = {w1, w2, w3}
  Items = {i1, i2, i3}
  NoItem = NoItem
  ChecksFlag = TRUE
SPECIFICATION Spec
SYMMETRY Symmetry
INVARIANTS NoLostWakeup NoSleepThroughNews InOnePlace
