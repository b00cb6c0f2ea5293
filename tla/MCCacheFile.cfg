CONSTANTS
  s1 = s1
  s2 = s2
  b1 = b1
  b2 = b2
  Servers = {s1, s2}
  Blocks = {b1, b2}
  Slots = {1}
  Places <- OneSlot
  SpoolEntries = 1
  Wanted <- BothAndOne
  Keep = {s1}
  MaxStops = 1
  Zeros = Zeros
  Ones = Ones
  None = None
SPECIFICATION FairSpec
INVARIANTS LabelsAreRight LockedSlotsAreInUse LockCoversWrites SpoolIsPending
CHECK_DEADLOCK FALSE
PROPERTIES LocksEnd
