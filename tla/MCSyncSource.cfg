CONSTANTS
  Workers = {w1, w2}
  Main = main
  s1 = s1
  s2 = s2
  r1 = r1
  r2 = r2
  Chain <- TwoSources
  Requests = {r1, r2}
  Reach <- OneAndEither
  Writable = {s1}
  None = None
  AQuit = AQuit
  PipeSize = 3
  GULP = 2
SPECIFICATION FairSpec
INVARIANTS SourceRefsBalance NoJobLost FreedLast
PROPERTIES QuitEnds ImplementsJobService
CHECK_DEADLOCK FALSE
