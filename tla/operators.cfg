SPECIFICATION Spec
CONSTANTS
  MaxTokens = 4
  MaxParts = 4
INVARIANTS
  
  Equipped
  PathsJudged
CHECK_DEADLOCK FALSE
