-------------------------- MODULE WorkStealMC --------------------------
(***************************************************************************)
(* Small forests for WorkSteal.  Nodes and roots are model values; a       *)
(* forest is given by the parent of each node.                             *)
(***************************************************************************)
EXTENDS WorkSteal, TLC

CONSTANTS r1, r2, a, b, c, d, e

ParentOf == (a :> r1) @@ (b :> a) @@ (c :> a) @@ (d :> r2) @@ (e :> d)

MCKids == [f \in Frame |-> {x \in Node : ParentOf[x] = f}]

MCSolution == {a, c, e} \cap Node

Threads == Permutations(Thread)
=======================================================================
