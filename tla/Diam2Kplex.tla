--------------------------- MODULE Diam2Kplex ---------------------------
(***************************************************************************)
(* Diam2KplexEnumeration (enumerable/diam2kplex.hpp): maximal k-plexes of  *)
(* diameter 2 with at least q vertices, each found from its least vertex.  *)
(* s holds the parameters: the permuted graph s.g, s.k, s.q, s.pivoting    *)
(* (enable_pivoting) and s.mod, how many values a counter has (2^8).       *)
(* A node works with indices into its subgraph, from 1 here.  status is    *)
(* only read to tell the candidates and the vertices added to the kplex,   *)
(* which the sequences tell as well; it is left out.                       *)
(***************************************************************************)
EXTENDS FastGraph

\* Indices of the subgraph not adjacent to index i, i itself among them.
nadj(s, sub, i) ==
  Kept([j \in DOMAIN sub |-> j],
       {j \in DOMAIN sub : ~ are_neighs(s.g, sub[i], sub[j])})

\* The index of the kplex is counted and noted as a non-neighbour of e.
Count(s, node, c) ==
  LET away == ToSet(nadj(s, node.sub, c))
      Noted(e) == e \in away /\ node.counters[e] < s.k
  IN  [node EXCEPT
         !.kplex = Append(@, c),
         !.non_neighs = [e \in DOMAIN @ |->
            IF Noted(e) THEN [@[e] EXCEPT ![node.counters[e] + 1] = c]
                        ELSE @[e]],
         !.counters = [e \in DOMAIN @ |->
            IF e \in away THEN (@[e] + 1) % s.mod ELSE @[e]]]

\* Init: the first vertex of the subgraph is the kplex, the others are
\* candidates.
KplexInit(s, sub) ==
  Count(s, [sub |-> sub,
            kplex |-> <<>>,
            counters |-> [i \in DOMAIN sub |-> 0],
            non_neighs |-> [i \in DOMAIN sub |-> [n \in 1..s.k |-> 0]],
            cands |-> Tail([i \in DOMAIN sub |-> i]),
            excluded |-> <<>>], 1)

AddToKplex(s, node, c) == Count(s, node, c)

\* A vertex can be added if it, and every vertex of the kplex that it is not
\* adjacent to, keeps at most k non-neighbours with itself.
CanAddVertex(s, node, v) ==
  LET away == {i \in ToSet(node.kplex) : ~ are_neighs(s.g, v, node.sub[i])}
  IN  /\ \A i \in away : node.counters[i] + 1 <= s.k
      /\ Cardinality(away) + 1 <= s.k

CanAdd(s, node, i) ==
  i \notin ToSet(node.kplex) /\ CanAddVertex(s, node, node.sub[i])

Addable(s, node) == {i \in DOMAIN node.sub : CanAdd(s, node, i)}

\* Mutant of UpdateCandAndExcl: vertices just added to the excluded ones stay
\* candidates.
UpdateKeepsCands(s, node, add_to_excl) ==
  [node EXCEPT
     !.excluded = Kept(@, Addable(s, node)) \o Kept(add_to_excl, Addable(s, node)),
     !.cands = Kept(@, Addable(s, node))]

\* What can no longer be added is dropped from both sets.
UpdateCandAndExcl(s, node, add_to_excl) ==
  [node EXCEPT
     !.excluded = Kept(@, Addable(s, node)) \o Kept(add_to_excl, Addable(s, node)),
     !.cands = Kept(@, Addable(s, node) \ ToSet(add_to_excl))]
-----------------------------------------------------------------------
IsMaximal(s, node) ==
  LET rest == node.cands \o node.excluded
  IN  IF Len(node.kplex) + 1 > s.k
      THEN rest = <<>>
      ELSE \A i \in DOMAIN rest :
             node.counters[rest[i]] = Len(node.kplex)

\* Too few candidates are left.
CanPrune(s, node) == Len(node.cands) + Len(node.kplex) < s.q

\* The candidates not adjacent to index i.
CandsAway(s, node, i) ==
  {j \in ToSet(node.cands) : ~ are_neighs(s.g, node.sub[i], node.sub[j])}

HasUniversalInExcl(s, node) ==
  \E i \in DOMAIN node.excluded :
    LET u == node.excluded[i]
    IN  node.counters[u] = 0 /\ CandsAway(s, node, u) = {}

\* Candidates adjacent to the whole kplex and to all other candidates.
Universals(s, node) ==
  Kept(node.cands, {u \in ToSet(node.cands) :
                      /\ node.counters[u] = 0
                      /\ CandsAway(s, node, u) \subseteq {u}})

\* The candidates that the pivot u does not cut off: those not adjacent to u
\* or to a non-neighbour of u in the kplex.
NotCuts(s, node, u) ==
  Kept(node.cands, {v \in ToSet(node.cands) :
    \/ ~ are_neighs(s.g, node.sub[u], node.sub[v])
    \/ /\ s.k # 1
       /\ \E i \in 1..node.counters[u] :
            ~ are_neighs(s.g, node.sub[v], node.sub[node.non_neighs[u][i]])})

\* The candidate or excluded vertex with the fewest NotCuts, the first such;
\* the first candidate if none has fewer than there are candidates.
Pivot(s, node) ==
  LET rest == node.cands \o node.excluded
      best[m \in 0..Len(rest)] ==
        IF m = 0 THEN [u |-> node.cands[1], not_cuts |-> Len(node.cands)]
        ELSE LET n == Len(NotCuts(s, node, rest[m]))
             IN  IF n < best[m - 1].not_cuts THEN [u |-> rest[m], not_cuts |-> n]
                                             ELSE best[m - 1]
  IN  best[Len(rest)].u

RealCands(s, node) ==
  IF s.pivoting /\ Len(node.kplex) + 1 > s.k
  THEN NotCuts(s, node, Pivot(s, node))
  ELSE Kept(node.cands, {u \in ToSet(node.cands) : node.counters[u] # Len(node.kplex)})

\* GetCands: most non-neighbours first.  std::sort is an insertion sort of up
\* to 16 elements.
SortedCands(s, node) ==
  LET key == [u \in ToSet(node.cands) |->
                node.counters[u] + Cardinality(CandsAway(s, node, u) \ {u})]
      real == RealCands(s, node)
      NotAfter(u) == {v \in ToSet(real) : key[v] >= key[u]}
      sorted[m \in 0..Len(real)] ==
        IF m = 0 THEN <<>>
        ELSE LET before == sorted[m - 1]
             IN  Kept(before, NotAfter(real[m])) \o <<real[m]>>
                   \o Kept(before, ToSet(real) \ NotAfter(real[m]))
  IN  sorted[Len(real)]

\* The vertices of the sequence one after the other.
AddAll(s, node, seq) ==
  LET added[m \in 0..Len(seq)] ==
        IF m = 0 THEN node ELSE AddToKplex(s, added[m - 1], seq[m])
  IN  added[Len(seq)]

\* ListChildren.  A universal vertex is in every solution below the node;
\* otherwise each child excludes the candidates of the children before it.
KplexChildren(s, node) ==
  IF IsMaximal(s, node) \/ CanPrune(s, node) \/ HasUniversalInExcl(s, node)
  THEN <<>>
  ELSE LET universals == Universals(s, node)
           sorted == IF node.cands = <<>> THEN <<>> ELSE SortedCands(s, node)
       IN  IF universals # <<>>
           THEN << UpdateCandAndExcl(s, AddAll(s, node, universals), <<>>) >>
           ELSE [i \in DOMAIN sorted |->
                   UpdateCandAndExcl(s, AddToKplex(s, node, sorted[i]),
                                     SubSeq(sorted, 1, i - 1))]
-----------------------------------------------------------------------
HasDiameterTwo(s, node) ==
  LET K == {node.sub[i] : i \in ToSet(node.kplex)}
  IN  \/ Len(node.kplex) + 2 > 2 * s.k
      \/ s.k = 2
      \/ \A u, v \in K :
           \/ are_neighs(s.g, u, v)
           \/ \E x \in K : are_neighs(s.g, u, x) /\ are_neighs(s.g, v, x)

\* Mutant of IsReallyMaximal: vertices before the first are not looked at.
IsReallyMaximalHere(s, node) ==
  /\ IsMaximal(s, node)
  /\ Len(node.kplex) >= s.q
  /\ HasDiameterTwo(s, node)

\* IsSolution: nothing before the first vertex can be added either.  A vertex
\* that can be has a neighbour among any k vertices of the kplex.
IsReallyMaximal(s, node) ==
  /\ IsMaximal(s, node)
  /\ Len(node.kplex) >= s.q
  /\ HasDiameterTwo(s, node)
  /\ \A i \in 1..s.k : i <= Len(node.kplex) =>
       \A n \in ToSet(neighs(s.g, node.sub[node.kplex[i]])) :
         n < node.sub[1] => ~ CanAddVertex(s, node, n)

ToItem(node) == [i \in DOMAIN node.kplex |-> node.sub[node.kplex[i]]]
-----------------------------------------------------------------------
\* filter_sg, repeated until nothing is removed: neighbours of the root that
\* have too few neighbours among themselves for a kplex of q vertices.
FilterNeighs(s, sg) ==
  LET left[m \in 0..Len(sg)] ==
        IF m = 0 THEN sg
        ELSE LET before == left[m - 1]
                 Among(v) == {w \in ToSet(before) : are_neighs(s.g, v, w)}
             IN  Kept(before, {v \in ToSet(before) :
                                 Len(Kept(before, Among(v))) + 2 * s.k >= s.q})
  IN  left[Len(sg)]

\* Vertices after v at distance two, in the order in which they are met, with
\* enough common neighbours.
SecondNeighs(s, v, sg) ==
  LET seen[m \in 0..Len(sg)] ==
        IF m = 0 THEN <<>>
        ELSE LET before == seen[m - 1]
             IN  before \o Kept(neighs(s.g, sg[m]),
                               {w \in DOMAIN s.g : w > v}
                                 \ (ToSet(fwd_neighs(s.g, v)) \cup ToSet(before)))
      Common(w) == {n \in ToSet(sg) : are_neighs(s.g, n, w)}
  IN  Kept(seen[Len(sg)],
           {w \in DOMAIN s.g : Len(Kept(sg, Common(w))) + 2 * s.k >= s.q + 2})

\* GetRoot.
KplexRoot(s, v) ==
  LET sg == FilterNeighs(s, fwd_neighs(s.g, v))
  IN  IF fwd_degree(s.g, v) + s.k < s.q
      THEN <<>>
      ELSE << KplexInit(s, <<v>> \o sg \o
                (IF s.k = 1 THEN <<>> ELSE SecondNeighs(s, v, sg))) >>
=======================================================================
