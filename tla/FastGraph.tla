--------------------------- MODULE FastGraph ---------------------------
(***************************************************************************)
(* fast_graph_t (util/graph.hpp): a graph on the vertices 0 .. n-1.  A     *)
(* graph is the function from each vertex to the ascending sequence of its *)
(* neighbours, which the code keeps twice: in that order (binary_search_t) *)
(* and as a hash set, which answers are_neighs (CuckooSet).                *)
(***************************************************************************)
EXTENDS Integers, Sequences, SequencesExt

size(g) == Cardinality(DOMAIN g)

\* The elements of s that are in S, in their order.
Kept(s, S) ==
  LET kept[m \in 0..Len(s)] ==
        IF m = 0 THEN <<>>
        ELSE IF s[m] \in S THEN Append(kept[m - 1], s[m])
        ELSE kept[m - 1]
  IN  kept[Len(s)]

Ascending(S, n) == Kept([m \in 1..n |-> m - 1], S)

\* std::sort, and std::unique where the code calls it, on a sequence of
\* vertices 0 .. n-1.
Sorted(s, n) == Ascending(ToSet(s), n)

neighs(g, v) == g[v]

degree(g, v) == Len(g[v])

are_neighs(g, a, b) == \E i \in DOMAIN g[a] : g[a][i] = b

\* Not directed, without loops, and every neighbour once, in ascending order.
SimpleGraph(g) ==
  /\ size(g) \in Nat
  /\ g \in [0..size(g)-1 -> Seq(0..size(g)-1)]
  /\ \A v \in DOMAIN g : \A a, b \in DOMAIN g[v] : a < b => g[v][a] < g[v][b]
  /\ \A v, w \in DOMAIN g : are_neighs(g, v, w) => v # w /\ are_neighs(g, w, v)

\* The neighbours from upper_bound(v) on.
fwd_neighs(g, v) == Kept(g[v], {w \in DOMAIN g : w > v})

fwd_degree(g, v) == Len(fwd_neighs(g, v))

\* The numbers of a file in twos; one that is left at the end meets the end of
\* the file and is dropped.
InPairs(numbers) ==
  [j \in 1..(Len(numbers) \div 2) |-> <<numbers[2 * j - 1], numbers[2 * j]>>]

\* The graph of a list of edges, not directed (no caller asks for a directed
\* graph): loops are skipped, and an edge may occur again in either direction.
ReadEdgeList(n, one_based, numbers) ==
  LET base == IF one_based THEN 1 ELSE 0
      edges == {{p[1] - base, p[2] - base} : p \in ToSet(InPairs(numbers))}
  IN  [v \in 0..n-1 |-> Ascending({w \in 0..n-1 \ {v} : {v, w} \in edges}, n)]

\* The number of vertices, then each vertex and its degree, then the edges.
ReadNde(file) ==
  ReadEdgeList(file[1], FALSE, SubSeq(file, 2 * file[1] + 2, Len(file)))

\* The number of vertices and of edges, then the edges.
ReadOlympiadsFormat(file, one_based) ==
  ReadEdgeList(file[1], one_based, SubSeq(file, 3, Len(file)))

\* Node new_order[i] goes in position i; positions count from 0.
Permute(g, new_order) ==
  LET new_pos == [v \in DOMAIN g |->
                    CHOOSE i \in DOMAIN g : new_order[i + 1] = v]
  IN  [i \in DOMAIN g |->
         LET adj == neighs(g, new_order[i + 1])
         IN  Sorted([j \in DOMAIN adj |-> new_pos[adj[j]]], size(g))]
=======================================================================
