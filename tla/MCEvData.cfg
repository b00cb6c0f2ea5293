CONSTANTS
  Senders = {s1, s2}
  Consumer = main
  Messages = {m1, m2, m3}
  Nobody = Nobody
  PipeSize = 2
  GULP = 1
SPECIFICATION FairSpec
INVARIANTS NoLostBell InOrder
PROPERTIES EverySendDelivered
CHECK_DEADLOCK FALSE
