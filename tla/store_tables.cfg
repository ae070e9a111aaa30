SPECIFICATION Spec
CONSTANTS
  Iterations = 3
  Tasks = {t1, t2}
  TopK = 1
  Sizes = {1}
  MaxExamples = 1
  Attempts = 4
INVARIANTS
  ExplainAgrees
  HistoryStable
  ChainComplete
