CONSTANTS
  Worker = worker
  None = None
  MaxOlds = {0, 1}
  MaxRotations = 2
  MaxLines = 2
  MaxCrashes = 1
  MaxFaults = 1
SPECIFICATION FairSpec
INVARIANTS NoLineLost ArchivesInOrder FinishRunsAll
PROPERTIES FinishEnds
CHECK_DEADLOCK FALSE
