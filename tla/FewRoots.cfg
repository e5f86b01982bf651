\* Two workers and a single root.
CONSTANTS
  a = a
  b = b
  c = c
  RootId = {0}
  Node = {a, b, c}
  Kids <- MCKids
  Solution = {a, b}
  NumWorkers = 2
  ChunksPerNode = 1
SPECIFICATION Spec
CHECK_DEADLOCK FALSE
INVARIANT TerminationEndsMaster
