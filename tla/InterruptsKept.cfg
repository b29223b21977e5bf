SPECIFICATION Spec
CONSTANTS
  Workspaces <- MCWorkspaces
  Words <- MCWords
  Core <- MCCore
  Enums <- MCEnums
  Package = "pkg"
INVARIANT InterruptsKept
CHECK_DEADLOCK FALSE
