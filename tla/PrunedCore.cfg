SPECIFICATION Spec
CONSTANTS
  Workspaces <- MCWorkspaces
  Words <- MCWords
  Core <- MCCore
  Enums <- MCEnums
  Package = "pkg"
INVARIANTS DecoderFaithful BinaryRuns  CleanupDeclared EncodingFits
CHECK_DEADLOCK FALSE
