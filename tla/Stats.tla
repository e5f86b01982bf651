----------------------------- MODULE Stats -----------------------------
(***************************************************************************)
(* What the program stats (ui/stats.cpp) measures of a graph: how large a  *)
(* subgraph the k-plex search has to look at below a root.  Its code is a  *)
(* copy of the code that builds that subgraph.                             *)
(***************************************************************************)
EXTENDS FastGraph

\* filter_sg, repeated until nothing is removed.
Filtered(g, S, k, q) ==
  LET left[m \in 0..Len(S)] ==
        IF m = 0 THEN ToSet(S)
        ELSE LET before == left[m - 1]
             IN  {a \in before :
                    Cardinality({b \in before : are_neighs(g, a, b)}) + 2 * k >= q}
  IN  left[Len(S)]

\* Vertices after v, not its neighbours, with enough neighbours in sg.
TwoSteps(g, v, sg, k, q) ==
  {w \in DOMAIN g :
     LET common == {n \in sg : are_neighs(g, n, w)}
     IN  /\ w > v
         /\ ~ are_neighs(g, v, w)
         /\ common # {}
         /\ Cardinality(common) + 2 * k >= q + 2}

\* RootSize: v, the neighbours after it and, unless k is 1, those two steps
\* away; nothing if v has too few neighbours.
RootSize(g, v, k, q) ==
  LET sg == Filtered(g, fwd_neighs(g, v), k, q)
  IN  IF fwd_degree(g, v) + k < q
      THEN 0
      ELSE 1 + Cardinality(sg)
             + (IF k = 1 THEN 0 ELSE Cardinality(TwoSteps(g, v, sg, k, q)))
=======================================================================
