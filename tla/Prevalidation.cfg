\* Two sources, two loops, two builds; three calls, so that a source is tried
\* again after another one.
CONSTANTS
  Srcs = {s1, s2}
  Keys = {1, 2}
  Builds = {b1, b2}
  MaxCalls = 3
SPECIFICATION Spec
INVARIANTS
  ExactOnOneBuild
  PassedSomewhere
\* The last call returns, or raises.
CHECK_DEADLOCK FALSE
