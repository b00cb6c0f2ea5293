CONSTANTS
  Names = {"a", "b", "c"}
  Configs <- MCConfigs
  Defaults <- MCDefaults
  Room <- MCRoom
  PieceSizes = {2, 3}
  Spans = {1, 2}
  Offsets = {0, 1, 2, 3}
  Nil = Nil
SPECIFICATION DirSpec
INVARIANTS AnswersAreConfigured ListingIsWhole
CHECK_DEADLOCK FALSE
