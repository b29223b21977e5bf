SPECIFICATION Spec
CONSTANTS
  W = 4
  Operands = {1, 6, 8, 15}
  MdFiles <- MCMdFiles
  MaxWords = 2
  WordAnd <- MCAnd
  WordOr <- MCOr
  WordXor <- MCXor
CHECK_DEADLOCK FALSE
INVARIANT ReversedImplementsPattern
