---------------------------- MODULE Forest ----------------------------
(***************************************************************************)
(* What an enumerable system is to an enumerator: a directed forest        *)
(* (enumerable/enumerable.hpp).  A root id is handed to GetRoot and a node *)
(* to ListChildren; both call back with nodes.  A FRAME is either: one     *)
(* call of GetRoot or ListChildren, named by its argument.                 *)
(***************************************************************************)
EXTENDS FiniteSets

CONSTANTS
  RootId,    \* the ids 0 .. MaxRoots()-1
  Node,      \* nodes of the forest
  Kids,      \* Kids[f]: the nodes the frame f calls back with
  Solution   \* the nodes for which IsSolution answers true

Frame == RootId \cup Node

\* The contract of the interface: the calls form a forest, so no node is
\* called back by two frames, and no set of frames calls back all of itself.
ASSUME ForestAssumption ==
  /\ IsFiniteSet(RootId)
  /\ IsFiniteSet(Node)
  /\ RootId \cap Node = {}
  /\ Kids \in [Frame -> SUBSET Node]
  /\ Solution \subseteq Node
  /\ \A f, g \in Frame : f # g => Kids[f] \cap Kids[g] = {}
  /\ \A S \in SUBSET Frame :
       S # {} => \E f \in S : \A g \in S : f \notin Kids[g]

\* S holds everything the roots call back with and, with a node, everything
\* that node calls back with.
Closed(S) ==
  /\ \A r \in RootId : Kids[r] \subseteq S
  /\ \A x \in S : Kids[x] \subseteq S

\* The nodes of the forest below the roots: the least closed set.
Reachable == {x \in Node : \A S \in SUBSET Node : Closed(S) => x \in S}
=======================================================================
