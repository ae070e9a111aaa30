SPECIFICATION ESpec
CONSTANTS
  Iterations = 3
  MaxPassed = 2
  Names = {1}
  Sources = {s1}
  CleanSource = clean
  TopK = 2
  SeedIdsLast = TRUE
  Policy = "pareto"
  InitialLow = 1
  BaseTopK = 3
  SeedNames = {1}
  Baseline = {}
  RelaunchModes = {"resume"}
  MaxCrashes = 2
  NoSource = NoSource
  NoName = NoName
INVARIANTS
  EvidenceReachable
  BasesTrue
  FrontierFlagsTrue
  AdvancesTrue
