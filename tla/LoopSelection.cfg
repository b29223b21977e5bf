\* Three loops, of which up to two are searched exhaustively: all three tiers.
CONSTANTS
  Loops = {1, 2, 3}
  CycleCounts = {1, 2, 3}
  ExhaustiveMax = 2
SPECIFICATION FairSpec
INVARIANTS
  TypeOK
  CacheSound
  BestIsMeasured
  ExhaustiveIsOptimal
  GreedyIsLocallyOptimal
PROPERTY Terminates
\* The call returns.
CHECK_DEADLOCK FALSE
