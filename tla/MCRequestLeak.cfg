CONSTANTS
  r1 = r1
  r2 = r2
  r3 = r3
  Requests = {r1, r2, r3}
  Want <- SomeReads
  Top = 5
  FileLen = 5
  NSources = 6
  Kind <- ChainKind
  BlockSize <- ChainBlock
  Target <- ChainTarget
  Schemes = {"http", "file"}
  HasFails = {5, 6}
  Faulty = {5, 6}
  None = None
SPECIFICATION Spec
INVARIANTS NoLeak
CHECK_DEADLOCK FALSE
