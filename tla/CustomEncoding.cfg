\* The real slot space (128 slots) and up to four 3-grams.
CONSTANT MaxTrigrams = 4
SPECIFICATION Spec
INVARIANTS
  TypeOK
  MdPatternsDistinct
  HwloopOwnsFunct3
  HwloopFunct3Unique
  TrigramsR4Apart
\* The tool stops when the registries are built.
CHECK_DEADLOCK FALSE
