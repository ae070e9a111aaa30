SPECIFICATION Spec
CONSTANTS
  Policies = {"bandit", "progressive", "recent", "random", "best", "default"}
  Forced = {"", "low"}
  Iterations = 3
  MaxRate = 1
  SeedRate = 0
  Threshold = 1
  Window = 2
  TopHot = 1
  TopWarm = 1
  LowBest = 1
  MediumBest = 2
  LowCap = 1
  MediumCap = 2
  MaxRefs = 1
  MaxCrashes = 2
INVARIANTS ReferencesFinal HotWasRead LostToCrashes
