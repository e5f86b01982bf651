\* Two threads, not recursive, one root, as in Queued.cfg.
CONSTANTS
  r1 = r1
  na = na
  nb = nb
  nc = nc
  nd = nd
  Thread = {t1, t2}
  NoNode = NoNode
  RootId = {r1}
  Node = {na, nb, nc, nd}
  Kids <- MCKids
  Solution = {na, nc, nd}
  Recursive = FALSE
  Callbacks = FALSE
  OwnRoots = {r1}
  BlockSize = 2
  InitialBlocks = 1
  MaxBlocks = 3
SPECIFICATION QSpec
INVARIANT
  NoMoreData
