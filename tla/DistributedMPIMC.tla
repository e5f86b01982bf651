----------------------- MODULE DistributedMPIMC -----------------------
(***************************************************************************)
(* A small forest for DistributedMPI: the children of a frame are listed.  *)
(***************************************************************************)
EXTENDS DistributedMPI, TLC

CONSTANTS a, b, c

KidsOf == (0 :> {a}) @@ (3 :> {b}) @@ (a :> {c})

MCKids == [f \in Frame |-> IF f \in DOMAIN KidsOf THEN KidsOf[f] ELSE {}]
=======================================================================
