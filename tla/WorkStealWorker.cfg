\* Two threads of a worker, recursive; one of three roots is elsewhere at
\* first.
CONSTANTS
  r1 = r1
  r2 = r2
  a = a
  b = b
  c = c
  d = d
  e = e
  Thread = {t1, t2}
  NoNode = NoNode
  RootId = {r1, r2, r3}
  Node = {a, b, d}
  Kids <- MCKids
  Solution = {a, d}
  Recursive = TRUE
  Callbacks = TRUE
  OwnRoots = {r1, r2}
SPECIFICATION FairSpec
INVARIANTS
  TypeOK
  OneInMpi
  ProbeStillTrue
  WaitingExact
  NoBufferReuse
  NothingTwice
  CountConserved
PROPERTIES
  Enumerates
  Termination
  StealAnswered
