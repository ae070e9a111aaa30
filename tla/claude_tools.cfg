SPECIFICATION Spec
CONSTANTS
  MaxTokens = 1
  MaxParts = 1
INVARIANTS
  ToolsReachStore
CHECK_DEADLOCK FALSE
