\* Three workers, seven roots, handed out two at a time and one at the end.
CONSTANTS
  a = a
  b = b
  c = c
  RootId = {0, 1, 2, 3, 4, 5, 6}
  Node = {a, b, c}
  Kids <- MCKids
  Solution = {a, b}
  NumWorkers = 3
  ChunksPerNode = 2
SPECIFICATION FairSpec
CHECK_DEADLOCK FALSE
INVARIANTS
  TypeOK
  RequestsBalanced
  MessagesExpected
  TerminationSafe
  CountConserved
  WorkUnique
PROPERTIES
  Enumerates
  Ends
