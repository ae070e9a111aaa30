SPECIFICATION Spec
CONSTANTS
  Iterations = 2
  MaxAttempts = 2
  MaxRetries = 1
  Files = {f1}
  MaxCrashes = 1
  None = None
INVARIANTS
  OwnProposal
  ScoredTogether
  NothingFoulKept
  StoreDescribesSource
PROPERTIES
  Ends
  KeepsSources
