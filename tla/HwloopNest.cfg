\* Whole-step loops in six shapes, all choices of loops to configure.
CONSTANTS
  Programs <- RegularPrograms
  Width = 5
  HwLoops = {1, 2, 3}
  MarginBits = 1
  LeastWidth = 2
  DefaultWidth = 3
SPECIFICATION Spec
INVARIANTS
  TypeOK
  CounterIsDistance
  OwnBounds
  NoStaleCounter
PROPERTIES
  ImplementsOriginal
  Terminates
CHECK_DEADLOCK FALSE
