SPECIFICATION Spec
CONSTANTS
  Graphs = {a, b}
  Iterations = 2
  TopK = 1
  Attempts = 2
INVARIANTS
  FrontierIsLex
