------------------------ MODULE EnumerateSystems ------------------------
(***************************************************************************)
(* The sequential program (ui/text_ui.cpp): a graph is read from a file,   *)
(* its vertices are put in degeneracy order, the system is built on the    *)
(* permuted graph, and Sequential lists its solutions.  A system over      *)
(* CommutableSystem, which the repository leaves to its users, works on    *)
(* the graph as it was read.                                               *)
(***************************************************************************)
EXTENDS Clique, Serialization, Commutable, DegeneracyOrder, Stats

CONSTANT
  Tasks   \* the flags, and the graph of the input file: its pairs of vertices,
          \* which count from base, 0 or 1

\* The file is what its format says it is, and the flags are numbers for which
\* there are k-plexes.
ASSUME TasksAssumption ==
  \A t \in Tasks :
    /\ t.kind \in {"clique", "d2kplex", "commutable"}
    /\ t.n \in Nat /\ t.base \in {0, 1}
    /\ t.format = "nde" => t.base = 0
    /\ t.pairs \in Seq((t.base..t.base + t.n - 1) \X (t.base..t.base + t.n - 1))
    /\ t.kind = "d2kplex" =>
         t.k \in Nat \ {0} /\ t.q \in Nat /\ t.pivoting \in BOOLEAN

VARIABLES
  task,
  system, running, i, nodes, calls, visited, found  \* of Sequential

seqvars == <<system, running, i, nodes, calls, visited, found>>
vars == <<task, graph, ordervars, seqvars>>
-----------------------------------------------------------------------
(* The virtual functions of the systems *)

MaxRoots(s) == size(s.g)

CanUseRecursion(s) == s.kind = "d2kplex"

GetRoot(s, v) ==
  CASE s.kind = "clique" -> CliqueRoot(s.g, v)
    [] s.kind = "d2kplex" -> KplexRoot(s, v)
    [] s.kind = "commutable" -> CommutableRoot(s, v)

ListChildren(s, node) ==
  CASE s.kind = "clique" -> CliqueChildren(s.g, node)
    [] s.kind = "d2kplex" -> KplexChildren(s, node)
    [] s.kind = "commutable" -> CommutableChildren(s, node)

IsSolution(s, node) == s.kind = "d2kplex" => IsReallyMaximal(s, node)

NodeToItem(s, node) ==
  CASE s.kind = "clique" -> node.clique
    [] s.kind = "d2kplex" -> ToItem(node)
    [] s.kind = "commutable" -> node.s

Enumerator == INSTANCE Sequential

\* A node as the object that Serialize is given.
Object(s, node) ==
  CASE s.kind = "clique" -> <<node.clique, node.cand>>
    [] s.kind = "d2kplex" -> KplexObject(s, node)
    [] s.kind = "commutable" -> <<node.s, node.level>>

\* The array of numbers in which nodes travel between workers.
SerializeNodes(s, objects) ==
  SerializeVector([m \in DOMAIN objects |->
    LET o == objects[m]
    IN  CASE s.kind = "clique" -> SerializePair(SerializeInts(o[1]), SerializeInt(o[2]))
          [] s.kind = "d2kplex" -> KplexSerialize(o)
          [] s.kind = "commutable" ->
               SerializePair(SerializeInts(o[1]), SerializeInts(o[2]))])

DeserializeNodes(s, array) ==
  LET node ==
        CASE s.kind = "clique" -> DeserializePair(DeserializeInts, DeserializeInt)
          [] s.kind = "d2kplex" -> KplexDeserialize(s)
          [] s.kind = "commutable" -> DeserializePair(DeserializeInts, DeserializeInts)
  IN  DeserializeVector(node)[array]
-----------------------------------------------------------------------
(* The input file, as its format prescribes it *)

File(t) ==
  IF t.format = "nde"
  THEN <<t.n>>
       \o FlattenSeq([v \in 1..t.n |->
                    <<v - 1, Cardinality({m \in DOMAIN t.pairs :
                                            v - 1 \in {t.pairs[m][1], t.pairs[m][2]}})>>])
       \o FlattenSeq(t.pairs)
  ELSE <<t.n, Len(t.pairs)>> \o FlattenSeq(t.pairs)

ReadFastGraph(file) ==
  IF task.format = "nde" THEN ReadNde(file)
  ELSE ReadOlympiadsFormat(file, task.base = 1)
-----------------------------------------------------------------------
(* The sets a system is to list, from the pairs in the file *)

Joined(a, b) ==
  /\ a # b
  /\ \E m \in DOMAIN task.pairs :
       {task.pairs[m][1], task.pairs[m][2]} = {a + task.base, b + task.base}

IsKplex(S, k) == \A a \in S : Cardinality({b \in S : ~ Joined(a, b)}) <= k

Diameter2(S) ==
  \A a, b \in S :
    a = b \/ Joined(a, b) \/ \E c \in S : Joined(a, c) /\ Joined(c, b)

IsConnected(S) ==
  \A T \in SUBSET S :
    T # {} /\ T # S => \E a \in T, b \in S \ T : Joined(a, b)

IsBipartite(S) ==
  \E T \in SUBSET S : \A a, b \in S : Joined(a, b) => (a \in T) # (b \in T)

Sets == (SUBSET (0..task.n-1)) \ {{}}

MaximalOf(F) == {S \in F : \A T \in F : S \subseteq T => S = T}

\* The sets a concrete CommutableSystem calls good; they are connected.
GoodSets ==
  IF task.property = "bipartite"
  THEN {S \in Sets : IsConnected(S) /\ IsBipartite(S)}
  ELSE {S \in Sets : IsConnected(S) /\ IsKplex(S, 2)}

Solutions ==
  CASE task.kind = "clique" -> MaximalOf({S \in Sets : IsKplex(S, 1)})
    [] task.kind = "d2kplex" ->
         {S \in MaximalOf({T \in Sets : IsKplex(T, task.k) /\ Diameter2(T)}) :
            Cardinality(S) >= task.q}
    [] task.kind = "commutable" -> MaximalOf(GoodSets)
-----------------------------------------------------------------------
\* The constructor of the system.
Constructed ==
  CASE task.kind = "clique" ->
         [kind |-> "clique", g |-> Permute(graph, perm)]
    [] task.kind = "d2kplex" ->
         [kind |-> "d2kplex", g |-> Permute(graph, perm), k |-> task.k,
          q |-> task.q, pivoting |-> task.pivoting, mod |-> 256]
    [] task.kind = "commutable" ->
         [kind |-> "commutable", g |-> graph, good |-> GoodSets]

Init ==
  /\ task \in Tasks
  /\ graph = ReadFastGraph(File(task))
  /\ OrderInit
  /\ Enumerator!Init

OrderVertex ==
  /\ task.kind # "commutable"
  /\ OrderStep
  /\ UNCHANGED <<task, seqvars>>

MakeEnumerableSystemAndRun ==
  /\ task.kind = "commutable" \/ Ordered
  /\ Enumerator!Run(Constructed)
  /\ UNCHANGED <<task, graph, ordervars>>

RunInternal == Enumerator!Step /\ UNCHANGED <<task, graph, ordervars>>

\* Run has returned.
Finished == system # <<>> /\ ~ running

Done == Finished /\ UNCHANGED vars

Next == OrderVertex \/ MakeEnumerableSystemAndRun \/ RunInternal \/ Done

Spec == Init /\ [][Next]_vars
-----------------------------------------------------------------------
\* The vertices of an item as the input file numbers them.
Input(item) ==
  IF task.kind = "commutable" THEN ToSet(item)
                              ELSE {perm[v + 1] : v \in ToSet(item)}

\* Whatever the order of the vertices, and whichever parent finds a solution:
\* when the program ends it has listed each solution of the input graph, each
\* once, and nothing else.
EachSolutionOnce ==
  Finished =>
    /\ {Input(found[m]) : m \in DOMAIN found} = Solutions
    /\ Len(found) = Cardinality(Solutions)

\* No node is found from two parents, or by two roots: what every enumerator,
\* and the threads that share nodes, take for granted (ForestAssumption).  As
\* nodes are finitely many it also means that the recursion ends.
NodesFormForest == Cardinality(ToSet(visited)) = Len(visited)

\* In each node of the k-plex search, however many additions led to it: a
\* counter counts the vertices of the kplex not adjacent to its vertex,
\* non_neighs names them, and candidates and excluded vertices are together
\* the vertices of the subgraph that can be added, each in one of the two.
\* The subgraph is as large as stats.cpp says the block of its root is.
KplexNodeSound ==
  task.kind = "d2kplex" /\ visited # <<>> =>
    LET node == Last(visited)
        kplex == ToSet(node.kplex)
        Vertex(e) == perm[node.sub[e] + 1]
        Away(e) == {c \in kplex : ~ Joined(Vertex(e), Vertex(c))}
    IN  /\ \A e \in DOMAIN node.sub :
             /\ node.counters[e] = Cardinality(Away(e))
             /\ node.counters[e] <= task.k =>
                  {node.non_neighs[e][m] : m \in 1..node.counters[e]} = Away(e)
        /\ ToSet(node.cands) \cap ToSet(node.excluded) = {}
        /\ ToSet(node.cands) \cup ToSet(node.excluded) =
             {e \in DOMAIN node.sub \ kplex :
                IsKplex({Vertex(c) : c \in kplex \cup {e}}, task.k)}
        /\ Len(node.sub) = RootSize(system.g, node.sub[1], task.k, task.q)

\* No maximal k-plex of diameter 2 with at least q vertices is left out.
NothingMissing ==
  Finished => Solutions \subseteq {Input(found[m]) : m \in DOMAIN found}

\* The nodes a worker has to give away, those on its stack or the one it is
\* at, arrive as they were sent, and the array is used up.
NodesTravel ==
  system # <<>> =>
    LET given == IF CanUseRecursion(system) /\ visited # <<>>
                 THEN <<Last(visited)>> ELSE nodes
        objects == [m \in DOMAIN given |-> Object(system, given[m])]
    IN  DeserializeNodes(system, SerializeNodes(system, objects))
          = [out |-> objects, in |-> <<>>]
=======================================================================
