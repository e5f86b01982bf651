---------------------------- MODULE Clique ----------------------------
(***************************************************************************)
(* CliqueEnumeration (enumerable/clique.hpp): maximal cliques by reverse   *)
(* search.  A node is a clique and the vertex it was made with; g is the   *)
(* graph, already permuted.  The thread_local scratch (bitsets and         *)
(* vectors) is empty between calls; here it is the value of a LET.         *)
(***************************************************************************)
EXTENDS FastGraph

AllNeighs(g, v, clique) == \A i \in DOMAIN clique : are_neighs(g, v, clique[i])

\* CompleteFwd and CompleteSmallest: greedily, with the neighbours after the
\* first vertex.
CompleteFwd(g, clique) ==
  LET later == fwd_neighs(g, clique[1])
      added[m \in 0..Len(later)] ==
        IF m = 0 THEN clique
        ELSE LET c == added[m - 1]
             IN  IF AllNeighs(g, later[m], c) THEN Append(c, later[m]) ELSE c
  IN  added[Len(later)]

\* GetRoot: only vertices without a smaller neighbour are roots.
CliqueRoot(g, i) ==
  IF degree(g, i) = fwd_degree(g, i)
  THEN << [clique |-> CompleteFwd(g, <<i>>), cand |-> i] >>
  ELSE <<>>

\* The vertices after the first that extend the part of the clique before
\* them.
Bad(g, clique) ==
  {w \in ToSet(fwd_neighs(g, clique[1])) :
     \A i \in DOMAIN clique :
       (\A j \in 1..i : clique[j] <= w) => are_neighs(g, w, clique[i])}

\* Later neighbours of the clique after the vertex it was made with, in the
\* order in which they are met, each once.
Candidates(g, node) ==
  LET met[m \in 0..Len(node.clique)] ==
        IF m = 0 THEN <<>>
        ELSE LET before == met[m - 1]
             IN  before \o Kept(fwd_neighs(g, node.clique[m]),
                              {w \in DOMAIN g : w > node.cand}
                                \ (ToSet(before) \cup ToSet(node.clique)))
  IN  met[Len(node.clique)]

\* The part of the clique up to cand that cand is adjacent to.
ChildCore(g, clique, cand) ==
  Kept(clique, {v \in DOMAIN g : v <= cand /\ are_neighs(g, cand, v)})

\* Mutant of RejectedBy: the check against bad_bitset_ is missing.
RejectedByFewer(g, clique, cand, core, w) ==
  /\ AllNeighs(g, w, core)
  /\ \/ w < clique[1]
     \/ w <= cand /\ are_neighs(g, w, cand)

\* Some other node lists the child: a vertex w that extends the core comes
\* before it.
RejectedBy(g, clique, cand, core, w) ==
  /\ AllNeighs(g, w, core)
  /\ \/ w < clique[1]
     \/ w <= cand /\ are_neighs(g, w, cand)
     \/ w \in Bad(g, clique)

\* The vertex of least degree of the core, the first of them.
LeastDegree(g, core) ==
  core[CHOOSE i \in DOMAIN core :
         /\ \A j \in DOMAIN core : degree(g, core[i]) <= degree(g, core[j])
         /\ \A j \in 1..i-1 : degree(g, core[j]) > degree(g, core[i])]

\* ListChildren.
CliqueChildren(g, node) ==
  LET Core(cand) == ChildCore(g, node.clique, cand)
      Rejected(cand) ==
        \E w \in ToSet(neighs(g, LeastDegree(g, Core(cand)))) :
          RejectedBy(g, node.clique, cand, Core(cand), w)
      cands == Candidates(g, node)
      listed == Kept(cands, {v \in ToSet(cands) : ~ Rejected(v)})
  IN  [m \in DOMAIN listed |->
         [clique |-> CompleteFwd(g, Append(Core(listed[m]), listed[m])),
          cand |-> listed[m]]]
=======================================================================
