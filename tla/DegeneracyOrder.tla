------------------------ MODULE DegeneracyOrder ------------------------
(***************************************************************************)
(* DegeneracyOrder (permute/permute.hpp): takes a vertex of least degree   *)
(* out of the graph again and again, one turn of a loop in one step.       *)
(* Vertices not yet taken lie in the bucket d[degs[v]] of their degree, at *)
(* position positions[v] (counted from 1 here), so that a neighbour        *)
(* changes its bucket in constant time.                                    *)
(***************************************************************************)
EXTENDS FastGraph

VARIABLES
  graph,
  d, degs, positions, used, perm, j,
  pushed,   \* the turns of the first loop
  at        \* 0, or the place in neighs(v) of the next neighbour of the
            \* vertex v taken last

ordervars == <<d, degs, positions, used, perm, j, pushed, at>>

OrderInit ==
  /\ d = [k \in DOMAIN graph |-> <<>>]
  /\ degs = [v \in DOMAIN graph |-> 0]
  /\ positions = [v \in DOMAIN graph |-> 1]
  /\ used = {}
  /\ perm = <<>>
  /\ j = 0
  /\ pushed = 0
  /\ at = 0

\* The first loop: each vertex is pushed to the bucket of its degree.
PushVertex ==
  /\ pushed < size(graph)
  /\ LET k == degree(graph, pushed)
     IN  /\ d' = [d EXCEPT ![k] = Append(@, pushed)]
         /\ degs' = [degs EXCEPT ![pushed] = k]
         /\ positions' = [positions EXCEPT ![pushed] = Len(d[k]) + 1]
  /\ pushed' = pushed + 1
  /\ UNCHANGED <<used, perm, j, at>>

\* The main loop looks for a vertex.
Searching == pushed = size(graph) /\ at = 0 /\ Len(perm) < size(graph)

NextBucket ==
  /\ Searching
  /\ d[j] = <<>>
  /\ j' = j + 1
  /\ UNCHANGED <<d, degs, positions, used, perm, pushed, at>>

TakeVertex ==
  /\ Searching
  /\ d[j] # <<>>
  /\ d' = [d EXCEPT ![j] = Front(@)]
  /\ perm' = Append(perm, Last(d[j]))
  /\ used' = used \cup {Last(d[j])}
  /\ at' = 1
  /\ UNCHANGED <<degs, positions, j, pushed>>

\* The neighbour of the vertex taken last that is next.
AtNeighbour(w) == at # 0 /\ at <= degree(graph, Last(perm)) /\ w = neighs(graph, Last(perm))[at]

SkipUsed ==
  /\ \E w \in used : AtNeighbour(w)
  /\ at' = at + 1
  /\ UNCHANGED <<d, degs, positions, used, perm, j, pushed>>

\* Mutant of LowerDegree: the vertex that took the place of w keeps its old
\* position.
LowerDegreeStalePosition ==
  \E w \in DOMAIN graph \ used :
    LET bucket == d[degs[w]]
        last == Len(bucket)
        low == degs[w] - 1
    IN  /\ AtNeighbour(w)
        /\ d' = [d EXCEPT ![degs[w]] = Front([bucket EXCEPT
                                                ![positions[w]] = bucket[last]]),
                          ![low] = Append(@, w)]
        /\ positions' = [positions EXCEPT ![w] = Len(d[low]) + 1]
        /\ degs' = [degs EXCEPT ![w] = low]
        /\ at' = at + 1
        /\ UNCHANGED <<used, perm, j, pushed>>

\* A neighbour w not yet taken moves to the next lower bucket; the last vertex
\* of its bucket takes its place there.
LowerDegree ==
  \E w \in DOMAIN graph \ used :
    LET bucket == d[degs[w]]
        last == Len(bucket)
        low == degs[w] - 1
    IN  /\ AtNeighbour(w)
        /\ d' = [d EXCEPT ![degs[w]] = Front([bucket EXCEPT
                                                ![positions[w]] = bucket[last]]),
                          ![low] = Append(@, w)]
        /\ positions' = [positions EXCEPT ![bucket[last]] = positions[w],
                                          ![w] = Len(d[low]) + 1]
        /\ degs' = [degs EXCEPT ![w] = low]
        /\ at' = at + 1
        /\ UNCHANGED <<used, perm, j, pushed>>

EndTurn ==
  /\ at # 0
  /\ at > degree(graph, Last(perm))
  /\ at' = 0
  /\ j' = IF j > 0 THEN j - 1 ELSE 0
  /\ UNCHANGED <<d, degs, positions, used, perm, pushed>>

OrderStep ==
  /\ PushVertex \/ NextBucket \/ TakeVertex \/ SkipUsed \/ LowerDegree \/ EndTurn
  /\ UNCHANGED graph

OrderSpec == OrderInit /\ [][OrderStep]_<<graph, ordervars>>

\* The order is returned.
Ordered == pushed = size(graph) /\ at = 0 /\ Len(perm) = size(graph)
-----------------------------------------------------------------------
\* The neighbours of v among the vertices of S.
DegreeIn(v, S) == Cardinality({w \in S : are_neighs(graph, v, w)})

\* The vertex v still has the degree it had before the last one was taken.
NotLowered(v) ==
  at # 0 /\ \E m \in DOMAIN neighs(graph, Last(perm)) :
              m >= at /\ neighs(graph, Last(perm))[m] = v

Left == DOMAIN graph \ used

EachPlaced ==
  \A v \in Left :
    v < pushed =>
      /\ degs[v] = DegreeIn(v, Left) + (IF NotLowered(v) THEN 1 ELSE 0)
      /\ positions[v] \in DOMAIN d[degs[v]]
      /\ d[degs[v]][positions[v]] = v
      /\ degs[v] + (IF at # 0 /\ ~ NotLowered(v) THEN 1 ELSE 0) >= j

NothingElse ==
  \A k \in DOMAIN d : \A m \in DOMAIN d[k] :
    /\ d[k][m] \in Left /\ d[k][m] < pushed
    /\ degs[d[k][m]] = k /\ positions[d[k][m]] = m

SearchEnds == Searching => \E k \in DOMAIN d : k >= j /\ d[k] # <<>>

LeastFirst ==
  \A p \in DOMAIN perm :
    LET rest == DOMAIN graph \ {perm[q] : q \in 1..p-1}
    IN  \A v \in rest : DegreeIn(perm[p], rest) <= DegreeIn(v, rest)

\* Between any two steps: a vertex that was pushed and not taken lies in one
\* bucket, that of its degree among the vertices left, at its position;
\* nothing else lies there; no bucket below j is in use, so that the search
\* for the next bucket does not leave d; and each vertex taken had the least
\* degree of all that were left.
BucketsAgree == EachPlaced /\ NothingElse /\ SearchEnds /\ LeastFirst
=======================================================================
