\* Three threads of one process, not recursive, two roots.
CONSTANTS
  r1 = r1
  r2 = r2
  a = a
  b = b
  c = c
  d = d
  e = e
  Thread = {t1, t2, t3}
  NoNode = NoNode
  RootId = {r1, r2}
  Node = {a, b, c, d}
  Kids <- MCKids
  Solution = {a, c, d}
  Recursive = FALSE
  Callbacks = FALSE
  OwnRoots = {r1, r2}
SPECIFICATION Spec
SYMMETRY Threads
INVARIANTS
  ReportedOnce
  NothingLeftBehind
PROPERTIES
  Enumerates
