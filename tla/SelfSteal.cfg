\* Two workers, four roots, two at a time.
CONSTANTS
  a = a
  b = b
  c = c
  RootId = {0, 1, 2, 3}
  Node = {a, b, c}
  Kids <- MCKids
  Solution = {a, b}
  NumWorkers = 2
  ChunksPerNode = 2
SPECIFICATION Spec
CHECK_DEADLOCK FALSE
INVARIANT VictimIsNotStealer
