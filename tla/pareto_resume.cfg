SPECIFICATION Spec
CONSTANTS
  Iterations = 3
  MaxPassed = 2
  Names = {1, 2}
  Sources = {s1, s2}
  CleanSource = clean
  TopK = 2
  SeedIdsLast = TRUE
  Policy = "pareto"
  InitialLow = 1
  BaseTopK = 3
  SeedNames = {1}
  Baseline = {}
  RelaunchModes = {"resume"}
  MaxCrashes = 2
  NoSource = NoSource
  NoName = NoName
SYMMETRY SourceSymmetry
INVARIANTS
  SourceMatchesResult
  StagnationExact
  PublishedFrontier
  IndexesFollowResults
