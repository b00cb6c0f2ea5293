CONSTANTS
  i1 = i1
  i2 = i2
  Order <- TwoInterfaces
  Reads = {r1}
  Main = main
  Nobody = Nobody
  MaxSignals = 1
SPECIFICATION FairSpec
INVARIANTS TakenDownInOrder  LateWalksNeedASignal
PROPERTIES QuitEnds
CHECK_DEADLOCK FALSE
