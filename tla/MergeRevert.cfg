\* Three merged functions, every outcome of every combination of reverts.
CONSTANTS
  Fns = {1, 2, 3}
  CycleCounts = {1, 2, 3}
SPECIFICATION RevertSpec
INVARIANTS
  CurrentIsMeasured
  RevertsPay
\* The call returns.
CHECK_DEADLOCK FALSE
