\* Two workers, four roots, one root at a time.
CONSTANTS
  a = a
  b = b
  c = c
  RootId = {0, 1, 2, 3}
  Node = {a, b, c}
  Kids <- MCKids
  Solution = {a, b}
  NumWorkers = 2
  ChunksPerNode = 1
SPECIFICATION Spec
CHECK_DEADLOCK FALSE
INVARIANT FirstAnswerIsRange
