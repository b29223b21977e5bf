\* Two programs, two static passes, one depth beside 0.
CONSTANTS
  Programs = {1, 2}
  Passes = 2
  Depths = {1}
  Cells = {0, 1, 2}
  Cycles = {1, 2}
  Infinite = 5
SPECIFICATION Spec
INVARIANTS
  BaselineIsOriginal
  SimulatedNeedsKept
  WinnerIsBest
\* The pipeline ends or raises.
CHECK_DEADLOCK FALSE
