------------------------ MODULE WorkStealQueueMC ------------------------
(***************************************************************************)
(* A small forest for WorkStealQueue: the root r1 has the nodes na and nc, *)
(* and nb and nd are below na.                                             *)
(***************************************************************************)
EXTENDS WorkStealQueue, TLC

CONSTANTS r1, na, nb, nc, nd

ParentOf == (na :> r1) @@ (nb :> na) @@ (nc :> r1) @@ (nd :> na)

MCKids == [f \in Frame |-> {x \in Node : ParentOf[x] = f}]
=======================================================================
