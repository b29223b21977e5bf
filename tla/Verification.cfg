\* Two depths, up to two candidates, every outcome of every tool.
CONSTANTS
  MaxDepth = 2
  MaxCandidates = 2
  Cycles = {1, 2}
  Cells = {0, 1, 3}
  PruneReadPortC = TRUE
SPECIFICATION Spec
INVARIANTS
  TypeOK
  ResultsBelong
  FlagMatchesRtl
  ReadPortKept
  WinnersEarned
  HexOfPassingAll
  AllPrunedForItsBuild
PROPERTY SavedConfigsIntact
