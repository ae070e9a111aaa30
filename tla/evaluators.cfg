SPECIFICATION SmallSpec
CONSTANTS
  a = a
  b = b
  Iterations = 2
  Launches = 2
  Tasks = {a, b}
  Trials = 2
  Issues = {a, b}
  MaxCrashes = 1
  Graphs = {a, b}
  TopGraphs = 1
  Attempts = 2
  Modules = {a, b}
  Nested = {b}
  MaxProposals = 3
  TopK = 2
  Limit = 0
  MaxRate = 1
  Scaffolds = {a, b}
  Models = {a, b}
  Limits = {1, 2}
  Repeats = 2
  None = None
  Host = Host
  Torn = Torn
INVARIANTS
  OwnEvidence
  WorkspaceSound
  BaselineSound
  
  TestedAsTrained
PROPERTIES
  MeasuresProposal
CHECK_DEADLOCK FALSE
