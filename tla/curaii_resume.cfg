SPECIFICATION Spec
CONSTANTS
  Iterations = 4
  MaxPassed = 2
  Names = {1}
  Sources = {s1, s2}
  CleanSource = clean
  TopK = 1
  SeedIdsLast = TRUE
  Policy = "curaii"
  InitialLow = 1
  BaseTopK = 2
  SeedNames = {1}
  Baseline = {}
  RelaunchModes = {"resume"}
  MaxCrashes = 1
  NoSource = NoSource
  NoName = NoName
SYMMETRY SourceSymmetry
INVARIANTS
  BaseSound
  StreakIsTrue
  BudgetFollowsStreak
PROPERTIES
  KeepsLedger
  KeepsSources
