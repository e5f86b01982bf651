\* Two threads, not recursive, one root; blocks of two nodes, one of which
\* is in the pool at first.
CONSTANTS
  r1 = r1
  na = na
  nb = nb
  nc = nc
  nd = nd
  Thread = {t1, t2}
  NoNode = NoNode
  RootId = {r1}
  Node = {na, nb, nc, nd}
  Kids <- MCKids
  Solution = {na, nc, nd}
  Recursive = FALSE
  Callbacks = FALSE
  OwnRoots = {r1}
  BlockSize = 2
  InitialBlocks = 1
  MaxBlocks = 3
SPECIFICATION QFairSpec
INVARIANTS
  QueueTypeOK
  ClaimsCovered
  SlotsClaimedOnce
  BlocksApart
  NodesInQueue
PROPERTIES
  Termination
