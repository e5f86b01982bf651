----------------------- MODULE EnumerateSystemsMC -----------------------
(***************************************************************************)
(* Graphs and tasks for EnumerateSystems.                                  *)
(***************************************************************************)
EXTENDS EnumerateSystems, TLC

Edges(n) == {e \in (0..n-1) \X (0..n-1) : e[1] < e[2]}

\* The edges of S, one after the other.
Listed(S, n) ==
  SelectSeq([m \in 1..n*n |-> <<(m - 1) \div n, (m - 1) % n>>], LAMBDA e : e \in S)

\* All graphs on n vertices that have the edges in Must.
Graphs(n, Must) ==
  {[format |-> "nde", n |-> n, base |-> 0, pairs |-> Listed(S \cup Must, n)] : S \in SUBSET (Edges(n) \ Must)}

\* An edge in both directions, one given twice, and a loop.
Untidy ==
  [format |-> "nde", n |-> 3, base |-> 0,
   pairs |-> <<<<0, 1>>, <<1, 1>>, <<2, 0>>, <<1, 0>>, <<2, 0>>>>]

\* The other format, with the vertices counted from 1 (--one_based).
OneBased == [format |-> "oly", n |-> 4, base |-> 1,
             pairs |-> <<<<1, 2>>, <<4, 2>>, <<3, 4>>>>]

Small == Graphs(3, {}) \cup {Untidy, OneBased} \cup Graphs(4, {})

Five == Graphs(5, {})

\* Six vertices, each of 0 .. 2 joined to each of 3 .. 5: the least graphs on
\* which a clique would be found from two parents without bad_bitset_.
Six == Graphs(6, (0..2) \X (3..5))

Cliques(in) == [kind |-> "clique"] @@ in

Kplexes(in, k, q, pivoting) ==
  [kind |-> "d2kplex", k |-> k, q |-> q, pivoting |-> pivoting] @@ in

Commutables(in, property) ==
  [kind |-> "commutable", property |-> property] @@ in

\* With k = 3 all solutions are found only from q = 4 on (SmallQTasks).
MCTasks ==
  {Cliques(in) : in \in Small \cup Five \cup Six}
    \cup {Kplexes(in, k, q, p) :
            in \in Small, k \in {1, 2}, q \in {1, 3}, p \in BOOLEAN}
    \cup {Kplexes(in, 2, 4, FALSE) : in \in Five}
    \cup {Kplexes(in, 2, 1, TRUE) : in \in Five}
    \cup {Kplexes(in, 3, 4, TRUE) : in \in Five}
    \cup {Commutables(in, property) :
            in \in Small, property \in {"bipartite", "2-plex"}}
    \cup {Commutables(in, "bipartite") : in \in Graphs(5, {<<0, 2>>, <<2, 4>>})}

\* Every connected graph of four vertices is a 3-plex; the path is one of
\* diameter 3.
SmallQTasks ==
  {Kplexes([format |-> "nde", n |-> 4, base |-> 0,
             pairs |-> <<<<0, 1>>, <<1, 2>>, <<2, 3>>>>],
           3, 2, TRUE)}
=======================================================================
