SPECIFICATION Spec
CONSTANTS
  Iterations = 2
  MaxPassed = 1
  Names = {1, 2}
  Sources = {s1}
  CleanSource = clean
  TopK = 2
  SeedIdsLast = TRUE
  Policy = "progressive"
  InitialLow = 1
  BaseTopK = 3
  SeedNames = {1, 2}
  Baseline <- OneBaseline
  RelaunchModes = {"resume", "fresh"}
  MaxCrashes = 1
  NoSource = NoSource
  NoName = NoName
PROPERTIES
  RelaunchSound
  Ends
