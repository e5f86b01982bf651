------------------------ MODULE Sequential_proofs ------------------------
(***************************************************************************)
(* Proofs about Sequential, for every system whose calls of GetRoot and    *)
(* ListChildren form a forest, with or without recursion.                  *)
(***************************************************************************)
EXTENDS Sequential, Forest, SequenceTheorems, TLAPS

\* A sequence of the elements of S, each once.
Lists(seq, S) == seq \in Seq(S) /\ IsInjective(seq) /\ ToSet(seq) = S

\* The virtual functions of the system list the forest, in any order.
Forested(sys) ==
  /\ sys # <<>>
  /\ MaxRoots(sys) \in Nat
  /\ RootId = 0..(MaxRoots(sys) - 1)
  /\ \A r \in RootId : Lists(GetRoot(sys, r), Kids[r])
  /\ \A x \in Node : Lists(ListChildren(sys, x), Kids[x])

\* One call of Run.
SequentialSpec(sys) == Init /\ [][Run(sys) \/ Step]_seqvars

Finished == system # <<>> /\ ~ running

\* The sequential enumerator is an enumerator.
E == INSTANCE Enumeration WITH reported <- ToSet(visited), finished <- Finished

\* No node is reported twice.
NothingTwice == IsInjective(visited)
-----------------------------------------------------------------------
(* The invariant *)

\* What the calls on the stack have still to call back with.
Pending == UNION {ToSet(calls[c]) : c \in DOMAIN calls}

\* The frames that have called back with all their nodes, or are about to.
Expanded == {r \in RootId : r < i} \cup (ToSet(visited) \ ToSet(nodes))

Types(sys) ==
  /\ system \in {<<>>, sys}
  /\ running \in BOOLEAN
  /\ i \in 0..MaxRoots(sys)
  /\ nodes \in Seq(Node)
  /\ calls \in Seq(Seq(Node))
  /\ visited \in Seq(Node)

\* There is work only while RunInternal runs, and no root left when it has
\* returned.
Phases(sys) ==
  /\ running => system = sys
  /\ nodes # <<>> \/ calls # <<>> => running
  /\ Finished => i = MaxRoots(sys)

PendingOnce ==
  \A c, d \in DOMAIN calls : \A m \in DOMAIN calls[c], n \in DOMAIN calls[d] :
    calls[c][m] = calls[d][n] => c = d /\ m = n

\* No node is in two places.  A node on the stack of nodes was reported, one
\* that a call has still to call back with was not.
Once ==
  /\ IsInjective(nodes)
  /\ IsInjective(visited)
  /\ PendingOnce
  /\ ToSet(nodes) \subseteq ToSet(visited)
  /\ Pending \cap ToSet(visited) = {}

\* The nodes that are known are those that the expanded frames call back with.
KnownFromExpanded ==
  /\ ToSet(visited) \cup Pending = UNION {Kids[f] : f \in Expanded}
  /\ ToSet(visited) \cup Pending \subseteq Reachable

Inv(sys) == Types(sys) /\ Phases(sys) /\ Once /\ KnownFromExpanded
-----------------------------------------------------------------------
(* Sequences *)

\* Sequences that have nothing in common, one after the other.
LEMMA ConcatOnce ==
  ASSUME NEW S, NEW s \in Seq(S), NEW t \in Seq(S)
  PROVE  /\ s \o t \in Seq(S)
         /\ ToSet(s \o t) = ToSet(s) \cup ToSet(t)
         /\ IsInjective(s) /\ IsInjective(t) /\ ToSet(s) \cap ToSet(t) = {}
              => IsInjective(s \o t)
<1> DEFINE u == s \o t
<1>1. /\ u \in Seq(S) /\ Len(u) = Len(s) + Len(t)
      /\ \A n \in 1..(Len(s) + Len(t)) :
           u[n] = IF n <= Len(s) THEN s[n] ELSE t[n - Len(s)]
  BY ConcatProperties
<1>2. /\ DOMAIN s = 1..Len(s) /\ DOMAIN t = 1..Len(t)
      /\ Len(s) \in Nat /\ Len(t) \in Nat
  OBVIOUS
<1> HIDE DEF u
<1>3. DOMAIN u = 1..(Len(s) + Len(t))
  BY <1>1
<1>4. ASSUME NEW n \in DOMAIN u
      PROVE  \/ n \in DOMAIN s /\ u[n] = s[n]
             \/ n - Len(s) \in DOMAIN t /\ u[n] = t[n - Len(s)] /\ n \notin DOMAIN s
  BY <1>1, <1>2, <1>3
<1>5. ASSUME NEW n \in DOMAIN s PROVE n \in DOMAIN u /\ u[n] = s[n]
  BY <1>1, <1>2, <1>3
<1>6. ASSUME NEW n \in DOMAIN t PROVE n + Len(s) \in DOMAIN u /\ u[n + Len(s)] = t[n]
  BY <1>1, <1>2, <1>3
<1>7. ToSet(u) = ToSet(s) \cup ToSet(t)
  <2>1. ASSUME NEW x \in ToSet(u) PROVE x \in ToSet(s) \cup ToSet(t)
    BY <1>4 DEF ToSet
  <2>2. ASSUME NEW x \in ToSet(s) \cup ToSet(t) PROVE x \in ToSet(u)
    BY <1>5, <1>6 DEF ToSet
  <2>3. QED  BY <2>1, <2>2
<1>8. ASSUME IsInjective(s), IsInjective(t), ToSet(s) \cap ToSet(t) = {}
      PROVE  IsInjective(u)
  <2>1. SUFFICES ASSUME NEW m \in DOMAIN u, NEW n \in DOMAIN u, u[m] = u[n]
                 PROVE  m = n
    BY DEF IsInjective
  <2>2. CASE m \in DOMAIN s /\ n \in DOMAIN s
    BY <1>5, <1>8, <2>1, <2>2 DEF IsInjective
  <2>3. CASE m \notin DOMAIN s /\ n \notin DOMAIN s
    <3>1. m - Len(s) = n - Len(s)
      BY <1>4, <1>8, <2>1, <2>3 DEF IsInjective
    <3>2. m \in Int /\ n \in Int
      BY <1>3
    <3>3. QED  BY <1>2, <3>1, <3>2
  <2>4. ASSUME NEW c \in DOMAIN u, NEW d \in DOMAIN u, u[c] = u[d],
               c \in DOMAIN s, d \notin DOMAIN s
        PROVE  FALSE
    <3>1. u[c] \in ToSet(s)
      BY <1>5, <2>4 DEF ToSet
    <3>2. u[d] \in ToSet(t)
      BY <1>4, <2>4 DEF ToSet
    <3>3. QED  BY <1>8, <2>4, <3>1, <3>2
  <2>5. QED  BY <2>1, <2>2, <2>3, <2>4
<1>9. QED  BY <1>1, <1>7, <1>8 DEF u

\* A sequence without its last element.
LEMMA FrontOnce ==
  ASSUME NEW S, NEW s \in Seq(S), s # <<>>, IsInjective(s)
  PROVE  /\ Front(s) \in Seq(S) /\ IsInjective(Front(s))
         /\ Last(s) \in ToSet(s) /\ Last(s) \in S
         /\ ToSet(Front(s)) = ToSet(s) \ {Last(s)}
<1>1. Len(s) \in Nat \ {0} /\ DOMAIN s = 1..Len(s)
  BY EmptySeq
<1> DEFINE r == Front(s)
<1>2. /\ r \in Seq(S) /\ Len(r) = Len(s) - 1
      /\ \A n \in 1..(Len(s) - 1) : r[n] = s[n]
  <2>1. \A n \in 1..(Len(s) - 1) : s[n] \in S
    BY <1>1
  <2>2. Len(s) - 1 \in Int /\ 1 \in Int
    BY <1>1
  <2>3. /\ SubSeq(s, 1, Len(s) - 1) \in Seq(S)
        /\ Len(SubSeq(s, 1, Len(s) - 1)) = IF 1 <= Len(s) - 1 THEN Len(s) - 1 - 1 + 1 ELSE 0
        /\ \A n \in 1..(Len(s) - 1 - 1 + 1) : SubSeq(s, 1, Len(s) - 1)[n] = s[1 + n - 1]
    BY <2>1, <2>2, SubSeqProperties
  <2>4. QED  BY <1>1, <2>3 DEF Front
<1> HIDE DEF r
<1>3. DOMAIN r = 1..(Len(s) - 1)
  BY <1>2
<1>4. IsInjective(r)
  BY <1>1, <1>2, <1>3 DEF IsInjective
<1>5. Last(s) \in ToSet(s) /\ Last(s) \in S
  BY <1>1 DEF Last, ToSet
<1>6. ToSet(r) = ToSet(s) \ {Last(s)}
  <2>1. ASSUME NEW x \in ToSet(r) PROVE x \in ToSet(s) \ {Last(s)}
    BY <1>1, <1>2, <1>3 DEF ToSet, Last, IsInjective
  <2>2. ASSUME NEW x \in ToSet(s), x # Last(s) PROVE x \in ToSet(r)
    <3>1. PICK n \in DOMAIN s : x = s[n]
      BY DEF ToSet
    <3>2. n \in 1..(Len(s) - 1)
      BY <1>1, <2>2, <3>1 DEF Last
    <3>3. QED  BY <1>2, <1>3, <3>1, <3>2 DEF ToSet
  <2>3. QED  BY <2>1, <2>2
<1>7. QED  BY <1>2, <1>4, <1>5, <1>6 DEF r
-----------------------------------------------------------------------
(* The forest *)

\* A frame that is not expanded calls back only with nodes not yet known.
LEMMA KidsAreNew ==
  ASSUME NEW sys, Inv(sys), NEW f \in Frame \ Expanded
  PROVE  Kids[f] \cap (ToSet(visited) \cup Pending) = {}
<1>1. ToSet(visited) \subseteq Node
  BY DEF Inv, Types, ToSet
<1>2. Expanded \subseteq Frame
  BY <1>1 DEF Expanded, Frame
<1>3. QED  BY <1>2, ForestAssumption DEF Inv, KnownFromExpanded

\* What a root or a reachable node calls back with is reachable.
LEMMA KidsReachable ==
  ASSUME NEW f \in RootId \cup Reachable
  PROVE  Kids[f] \subseteq Reachable
<1>1. f \in Frame
  BY DEF Reachable, Frame
<1>2. Kids[f] \subseteq Node
  BY <1>1, ForestAssumption
<1>3. QED  BY <1>2 DEF Reachable, Closed

\* When nothing is left, all that can be reached was reported.
LEMMA NothingLeft ==
  ASSUME NEW sys, Forested(sys), Inv(sys), i = MaxRoots(sys), nodes = <<>>, calls = <<>>
  PROVE  ToSet(visited) = Reachable
<1>1. ToSet(nodes) = {} /\ Pending = {}
  BY DEF ToSet, Pending
<1>2. Expanded = RootId \cup ToSet(visited)
  BY <1>1 DEF Expanded, Forested
<1>3. ToSet(visited) = UNION {Kids[f] : f \in RootId \cup ToSet(visited)}
  BY <1>1, <1>2 DEF Inv, KnownFromExpanded
<1>4. Closed(ToSet(visited))
  BY <1>3 DEF Closed
<1>5. ToSet(visited) \subseteq Reachable
  BY <1>1 DEF Inv, KnownFromExpanded
<1>6. QED  BY <1>4, <1>5 DEF Reachable
-----------------------------------------------------------------------
(* Steps *)

\* The indices below the next one.
LEMMA NextIndex ==
  ASSUME NEW S \in SUBSET Nat, NEW n \in S
  PROVE  {r \in S : r < n + 1} = {r \in S : r < n} \cup {n}
<1>1. \A r \in S : r < n + 1 <=> r < n \/ r = n
  OBVIOUS
<1>2. QED  BY <1>1

\* GetRoot or ListChildren of f, whose nodes are reported and pushed.
LEMMA PushKeeps ==
  ASSUME NEW sys, Forested(sys), Inv(sys), running,
         NEW f \in Frame \ Expanded, NEW rest \in Seq(Node), NEW kids,
         f \in RootId \cup Reachable, Lists(kids, Kids[f]),
         IsInjective(rest), ToSet(rest) = ToSet(nodes) \ {f},
         nodes' = rest \o kids, ReportAll(kids),
         i' \in 0..MaxRoots(sys),
         {r \in RootId : r < i'} \cup {f} = {r \in RootId : r < i} \cup {f},
         f \in RootId => f < i',
         f \in Node => f \in ToSet(nodes),
         UNCHANGED <<system, running, calls>>
  PROVE  Inv(sys)'
<1> DEFINE N == Kids[f]
           V == ToSet(visited)
           W == ToSet(nodes)
<1>1. /\ visited \in Seq(Node) /\ kids \in Seq(Node) /\ N \subseteq Node
      /\ V \subseteq Node /\ W \subseteq V /\ RootId \cap Node = {}
  <2>1. N \subseteq Node /\ RootId \cap Node = {}
    BY ForestAssumption
  <2>2. visited \in Seq(Node) /\ W \subseteq V
    BY DEF Inv, Types, Once
  <2>3. kids \in Seq(Node)
    BY <2>1, SeqMonotonic DEF Lists
  <2>4. V \subseteq Node
    BY <2>2 DEF ToSet
  <2>5. QED  BY <2>1, <2>2, <2>3, <2>4
<1>2. N \cap (V \cup Pending) = {}
  BY KidsAreNew
<1>3. /\ visited' \in Seq(Node) /\ ToSet(visited)' = V \cup N
      /\ IsInjective(visited)'
  <2>1. visited' = visited \o kids
    BY DEF ReportAll
  <2>2. ToSet(visited) \cap ToSet(kids) = {} /\ IsInjective(visited) /\ IsInjective(kids)
    BY <1>2 DEF Lists, Inv, Once
  <2>3. QED  BY <1>1, <2>1, <2>2, ConcatOnce DEF Lists
<1>4. /\ nodes' \in Seq(Node) /\ ToSet(nodes)' = (W \ {f}) \cup N
      /\ IsInjective(nodes)'
  <2>1. ToSet(rest) \cap ToSet(kids) = {} /\ IsInjective(kids)
    BY <1>1, <1>2 DEF Lists
  <2>2. QED  BY <1>1, <2>1, ConcatOnce DEF Lists
<1>5. Pending' = Pending /\ PendingOnce' = PendingOnce
  BY DEF Pending, PendingOnce
<1>6. Types(sys)'
  BY <1>3, <1>4 DEF Inv, Types
<1>7. Phases(sys)'
  BY DEF Inv, Phases, Finished
<1>8. Once'
  BY <1>1, <1>2, <1>3, <1>4, <1>5 DEF Inv, Once
<1>9. Expanded' = Expanded \cup {f}
  <2>1. Expanded' = {r \in RootId : r < i'} \cup (ToSet(visited)' \ ToSet(nodes)')
    BY DEF Expanded
  <2>2. CASE f \in RootId
    BY <1>1, <1>2, <1>3, <1>4, <2>1, <2>2 DEF Expanded
  <2>3. CASE f \in Node
    BY <1>1, <1>2, <1>3, <1>4, <2>1, <2>3 DEF Expanded
  <2>4. QED  BY <2>2, <2>3 DEF Frame
<1>10. KnownFromExpanded'
  <2>1. N \subseteq Reachable
    BY KidsReachable
  <2>2. QED  BY <1>3, <1>5, <1>9, <2>1 DEF Inv, KnownFromExpanded
<1>11. QED  BY <1>6, <1>7, <1>8, <1>10 DEF Inv

\* The next root, with nothing left of the one before.
LEMMA PushRootKeeps ==
  ASSUME NEW sys, Forested(sys), Inv(sys), PushRoot
  PROVE  Inv(sys)'
<1>1. system = sys /\ i \in Nat /\ i < MaxRoots(sys) /\ nodes = <<>> /\ running
  BY DEF PushRoot, NextRoot, Inv, Types, Phases, Forested
<1>2. i \in RootId /\ i + 1 \in 0..MaxRoots(sys) /\ RootId \subseteq Nat
  BY <1>1 DEF Forested
<1>3. i \in Frame \ Expanded
  BY <1>1, <1>2, ForestAssumption DEF Frame, Expanded, Inv, Types, ToSet
<1>4. <<>> \in Seq(Node) /\ IsInjective(<<>>) /\ ToSet(<<>>) = ToSet(nodes) \ {i}
  BY <1>1 DEF ToSet, IsInjective
<1> DEFINE kids == GetRoot(system, i)
<1>5. Lists(kids, Kids[i])
  BY <1>1, <1>2 DEF Forested
<1>6. nodes' = <<>> \o kids
  BY <1>5, ConcatEmptySeq DEF PushRoot, Lists
<1>7. ReportAll(kids) /\ i' = i + 1 /\ UNCHANGED <<system, running, calls>>
  BY DEF PushRoot
<1>8. {r \in RootId : r < i'} \cup {i} = {r \in RootId : r < i} \cup {i}
  BY <1>1, <1>2, <1>7, NextIndex
<1>9. i < i' /\ i \notin Node
  BY <1>1, <1>2, <1>7, ForestAssumption
<1> HIDE DEF kids
<1>10. QED
  BY <1>1, <1>2, <1>3, <1>4, <1>5, <1>6, <1>7, <1>8, <1>9, PushKeeps

\* The node on top of the stack gives way to its children.
LEMMA PopNodeKeeps ==
  ASSUME NEW sys, Forested(sys), Inv(sys), PopNode
  PROVE  Inv(sys)'
<1>1. system = sys /\ running /\ nodes \in Seq(Node) /\ nodes # <<>> /\ IsInjective(nodes)
  BY DEF PopNode, Inv, Types, Phases, Once
<1> DEFINE f == Last(nodes)
           rest == Front(nodes)
           kids == ListChildren(system, f)
<1>2. /\ rest \in Seq(Node) /\ IsInjective(rest) /\ ToSet(rest) = ToSet(nodes) \ {f}
      /\ f \in ToSet(nodes) /\ f \in Node
  BY <1>1, FrontOnce
<1>3. f \in Reachable
  BY <1>2 DEF Inv, Once, KnownFromExpanded
<1>4. f \in Frame \ Expanded
  BY <1>2, ForestAssumption DEF Frame, Expanded
<1>5. Lists(kids, Kids[f])
  BY <1>1, <1>2 DEF Forested
<1>6. nodes' = rest \o kids /\ ReportAll(kids) /\ UNCHANGED <<system, running, i, calls>>
  BY DEF PopNode
<1>7. i' \in 0..MaxRoots(sys) /\ f \notin RootId /\ f \in RootId \cup Reachable
  BY <1>2, <1>3, <1>6, ForestAssumption DEF Inv, Types
<1>8. {r \in RootId : r < i'} \cup {f} = {r \in RootId : r < i} \cup {f}
  BY <1>6
<1> HIDE DEF f, rest, kids
<1>9. QED
  BY <1>1, <1>2, <1>4, <1>5, <1>6, <1>7, <1>8, PushKeeps

\* The calls of ListChildren for the nodes that GetRoot calls back with.
LEMMA CallRootKeeps ==
  ASSUME NEW sys, Forested(sys), Inv(sys), CallRoot
  PROVE  Inv(sys)'
<1>1. /\ system = sys /\ running /\ i \in Nat /\ i < MaxRoots(sys)
      /\ nodes = <<>> /\ calls = <<>>
  BY DEF CallRoot, NextRoot, Inv, Types, Phases, Forested
<1>2. i \in RootId /\ i + 1 \in 0..MaxRoots(sys) /\ RootId \subseteq Nat
  BY <1>1 DEF Forested
<1> DEFINE roots == GetRoot(system, i)
           N == Kids[i]
           V == ToSet(visited)
           M == UNION {Kids[x] : x \in N}
<1>3. Lists(roots, N)
  BY <1>1, <1>2 DEF Forested
<1>4. /\ calls' = [r \in DOMAIN roots |-> ListChildren(system, roots[r])]
      /\ visited' = visited \o roots /\ i' = i + 1
      /\ UNCHANGED <<system, running, nodes>>
  BY DEF CallRoot, ReportAll
<1> HIDE DEF roots
<1>5. N \subseteq Node /\ V \subseteq Node /\ RootId \cap Node = {} /\ visited \in Seq(Node)
  BY <1>2, ForestAssumption DEF Frame, Inv, Types, ToSet
<1>6. ToSet(nodes) = {} /\ Pending = {}
  BY <1>1 DEF ToSet, Pending
<1>7. i \in Frame \ Expanded
  BY <1>1, <1>2, <1>5 DEF Frame, Expanded
<1>8. N \cap V = {}
  BY <1>7, KidsAreNew
<1>9. N \subseteq Reachable
  BY <1>2, KidsReachable
<1>10. roots \in Seq(Node)
  BY <1>3, <1>5, SeqMonotonic DEF Lists
<1>11. /\ visited' \in Seq(Node) /\ ToSet(visited)' = V \cup N
       /\ IsInjective(visited)'
  <2>1. ToSet(visited) \cap ToSet(roots) = {} /\ IsInjective(visited) /\ IsInjective(roots)
    BY <1>3, <1>8 DEF Lists, Inv, Once
  <2>2. QED  BY <1>3, <1>4, <1>5, <1>10, <2>1, ConcatOnce DEF Lists
<1>12. ASSUME NEW x \in N
       PROVE  /\ Lists(ListChildren(system, x), Kids[x])
              /\ Kids[x] \subseteq Node /\ Kids[x] \cap (V \cup N) = {}
  <2>1. x \in Node /\ x \in Frame \ Expanded /\ x # i
    BY <1>2, <1>5, <1>8, <1>12 DEF Frame, Expanded
  <2>2. Lists(ListChildren(system, x), Kids[x])
    BY <1>1, <2>1 DEF Forested
  <2>3. Kids[x] \cap V = {}
    BY <2>1, KidsAreNew
  <2>4. Kids[x] \cap N = {} /\ Kids[x] \subseteq Node
    BY <1>7, <2>1, ForestAssumption
  <2>5. QED  BY <2>2, <2>3, <2>4
<1>13. \A r \in DOMAIN roots : roots[r] \in N
  BY <1>3 DEF Lists, ToSet
<1>14. DOMAIN calls' = DOMAIN roots
       /\ \A r \in DOMAIN roots : /\ calls'[r] = ListChildren(system, roots[r])
                                  /\ calls'[r] \in Seq(Node)
                                  /\ IsInjective(calls'[r])
                                  /\ ToSet(calls'[r]) = Kids[roots[r]]
  <2>1. ASSUME NEW r \in DOMAIN roots
        PROVE  /\ calls'[r] = ListChildren(system, roots[r])
               /\ calls'[r] \in Seq(Node)
               /\ IsInjective(calls'[r])
               /\ ToSet(calls'[r]) = Kids[roots[r]]
    <3>1. calls'[r] = ListChildren(system, roots[r])
      BY <1>4
    <3>2. Lists(calls'[r], Kids[roots[r]]) /\ Kids[roots[r]] \subseteq Node
      BY <1>12, <1>13, <3>1
    <3>3. QED  BY <3>1, <3>2, SeqMonotonic DEF Lists
  <2>2. QED  BY <1>4, <2>1
<1>15. calls' \in Seq(Seq(Node))
  <2>1. DOMAIN roots = 1..Len(roots) /\ Len(roots) \in Nat
    BY <1>10
  <2>2. calls' \in [1..Len(roots) -> Seq(Node)]
    BY <1>4, <1>14, <2>1
  <2>3. QED  BY <2>1, <2>2
<1>16. Pending' = M
  <2>1. Pending' = UNION {ToSet(calls'[r]) : r \in DOMAIN roots}
    BY <1>14 DEF Pending
  <2>2. \A x \in N : \E r \in DOMAIN roots : roots[r] = x
    BY <1>3 DEF Lists, ToSet
  <2>3. QED  BY <1>13, <1>14, <2>1, <2>2
<1>17. PendingOnce'
  <2>1. SUFFICES ASSUME NEW c \in DOMAIN roots, NEW d \in DOMAIN roots,
                        NEW m \in DOMAIN calls'[c], NEW n \in DOMAIN calls'[d],
                        calls'[c][m] = calls'[d][n]
                 PROVE  c = d /\ m = n
    BY <1>14 DEF PendingOnce
  <2>2. calls'[c][m] \in Kids[roots[c]] /\ calls'[d][n] \in Kids[roots[d]]
    BY <1>14 DEF ToSet
  <2>3. roots[c] = roots[d]
    BY <1>5, <1>13, <2>1, <2>2, ForestAssumption DEF Frame
  <2>4. c = d
    BY <1>3, <2>3 DEF Lists, IsInjective
  <2>5. QED  BY <1>14, <2>1, <2>4 DEF IsInjective
<1>18. Types(sys)'
  BY <1>2, <1>4, <1>11, <1>15 DEF Inv, Types
<1>19. Phases(sys)'
  BY <1>1, <1>4 DEF Inv, Phases, Finished
<1>20. Once'
  <2>1. Pending' \cap ToSet(visited)' = {}
    BY <1>11, <1>12, <1>16
  <2>2. ToSet(nodes)' = {} /\ IsInjective(nodes)'
    BY <1>1, <1>4 DEF ToSet, IsInjective
  <2>3. QED  BY <1>11, <1>17, <2>1, <2>2 DEF Once
<1>21. Expanded' = Expanded \cup {i} \cup N
  <2>1. {r \in RootId : r < i'} = {r \in RootId : r < i} \cup {i}
    BY <1>1, <1>2, <1>4, NextIndex
  <2>2. ToSet(nodes)' = {}
    BY <1>1, <1>4 DEF ToSet
  <2>3. QED  BY <1>6, <1>11, <2>1, <2>2 DEF Expanded
<1>22. KnownFromExpanded'
  <2>1. M \subseteq Reachable
    BY <1>9, KidsReachable
  <2>2. QED  BY <1>6, <1>9, <1>11, <1>16, <1>21, <2>1 DEF Inv, KnownFromExpanded
<1>23. QED  BY <1>18, <1>19, <1>20, <1>22 DEF Inv

\* The innermost call calls back with its next node and calls ListChildren.
LEMMA CallChildKeeps ==
  ASSUME NEW sys, Forested(sys), Inv(sys), CallChild
  PROVE  Inv(sys)'
<1> DEFINE top == Len(calls)
           x == Head(calls[top])
           rest == Tail(calls[top])
           kids == ListChildren(system, x)
           V == ToSet(visited)
<1>1. /\ system = sys /\ running /\ calls \in Seq(Seq(Node)) /\ visited \in Seq(Node)
      /\ calls # <<>> /\ calls[top] # <<>>
  BY DEF CallChild, Last, Inv, Types, Phases
<1>2. /\ top \in Nat \ {0} /\ DOMAIN calls = 1..top /\ top \in DOMAIN calls
      /\ calls[top] \in Seq(Node)
  BY <1>1, EmptySeq
<1>3. /\ x \in Node /\ rest \in Seq(Node) /\ Len(rest) = Len(calls[top]) - 1
      /\ \A m \in 1..Len(rest) : rest[m] = calls[top][m + 1]
      /\ x = calls[top][1] /\ DOMAIN calls[top] = 1..Len(calls[top])
      /\ DOMAIN rest = 1..Len(rest) /\ Len(calls[top]) \in Nat \ {0}
  BY <1>1, <1>2, HeadTailProperties, EmptySeq
<1>4. /\ calls' = Append([calls EXCEPT ![top] = rest], kids)
      /\ visited' = visited \o <<x>>
      /\ UNCHANGED <<system, running, i, nodes>>
  BY DEF CallChild, ReportAll, Last
<1> HIDE DEF x, rest
<1>5. /\ 1 \in DOMAIN calls[top]
      /\ \A m \in DOMAIN rest : m + 1 \in DOMAIN calls[top] /\ rest[m] = calls[top][m + 1]
      /\ \A m \in DOMAIN calls[top] : m = 1 \/ m - 1 \in DOMAIN rest
  BY <1>3
<1>6. x \in Pending
  <2>1. x \in ToSet(calls[top])
    BY <1>3, <1>5 DEF ToSet
  <2>2. QED  BY <1>2, <2>1 DEF Pending
<1>7. x \notin V /\ x \in Reachable
  BY <1>6 DEF Inv, Once, KnownFromExpanded
<1>8. x \in Frame \ Expanded
  BY <1>3, <1>7, ForestAssumption DEF Frame, Expanded
<1>9. Lists(kids, Kids[x]) /\ Kids[x] \subseteq Node /\ Kids[x] \subseteq Reachable
  <2>1. Lists(kids, Kids[x])
    BY <1>1, <1>3 DEF Forested
  <2>2. Kids[x] \subseteq Node
    BY <1>8, ForestAssumption
  <2>3. Kids[x] \subseteq Reachable
    BY <1>7, KidsReachable
  <2>4. QED  BY <2>1, <2>2, <2>3
<1>10. Kids[x] \cap (V \cup Pending) = {}
  BY <1>8, KidsAreNew
<1>11. kids \in Seq(Node) /\ IsInjective(kids) /\ ToSet(kids) = Kids[x]
  BY <1>9, SeqMonotonic DEF Lists
<1> HIDE DEF kids
<1> DEFINE old == [calls EXCEPT ![top] = rest]
<1>12. old \in Seq(Seq(Node)) /\ Len(old) = top
       /\ \A c \in 1..top : old[c] = IF c = top THEN rest ELSE calls[c]
  BY <1>1, <1>2, <1>3, ExceptSeq
<1> HIDE DEF old
<1>13. /\ calls' \in Seq(Seq(Node)) /\ Len(calls') = top + 1
       /\ \A c \in 1..top : calls'[c] = old[c]
       /\ calls'[top + 1] = kids
  <2>1. calls' = Append(old, kids)
    BY <1>4 DEF old
  <2> HIDE DEF top
  <2>2. QED  BY <1>11, <1>12, <2>1, AppendProperties
<1>14. DOMAIN calls' = 1..(top + 1)
  BY <1>13
<1>15. /\ calls'[top] = rest /\ calls'[top + 1] = kids /\ top # top + 1
       /\ \A c \in 1..(top - 1) : calls'[c] = calls[c] /\ c # top /\ c # top + 1
       /\ \A c \in DOMAIN calls' : c \in 1..(top - 1) \/ c = top \/ c = top + 1
       /\ \A c \in DOMAIN calls : c \in 1..(top - 1) \/ c = top
       /\ 1..(top - 1) \subseteq DOMAIN calls /\ 1..(top - 1) \subseteq DOMAIN calls'
       /\ top \in DOMAIN calls' /\ top + 1 \in DOMAIN calls'
  <2> HIDE DEF top
  <2>1. \A c \in 1..(top - 1) : c \in 1..top /\ c # top /\ c # top + 1
    BY <1>2
  <2>2. top \in 1..top /\ top # top + 1
    BY <1>2
  <2>3. \A c \in 1..(top + 1) : c \in 1..(top - 1) \/ c = top \/ c = top + 1
    BY <1>2
  <2>4. 1..top \subseteq 1..(top + 1) /\ top + 1 \in 1..(top + 1)
    BY <1>2
  <2>5. \A c \in 1..top : c \in 1..(top - 1) \/ c = top
    BY <1>2
  <2>6. QED  BY <1>2, <1>12, <1>13, <1>14, <2>1, <2>2, <2>3, <2>4, <2>5
<1> HIDE DEF top
<1>16. PendingOnce
  BY DEF Inv, Once
<1>17. ASSUME NEW c \in DOMAIN calls', NEW m \in DOMAIN calls'[c], c # top + 1
       PROVE  /\ calls'[c][m] \in Pending \ {x}
              /\ c \in DOMAIN calls
              /\ \E n \in DOMAIN calls[c] : /\ n = (IF c = top THEN m + 1 ELSE m)
                                            /\ calls[c][n] = calls'[c][m]
  <2>1. CASE c = top
    <3>1. m \in DOMAIN rest
      BY <1>15, <1>17, <2>1
    <3>2. m + 1 \in DOMAIN calls[top] /\ calls'[c][m] = calls[top][m + 1]
      BY <1>5, <1>15, <2>1, <3>1
    <3>3. m + 1 # 1
      BY <1>3, <3>1
    <3>4. calls[top][m + 1] # x
      BY <1>2, <1>3, <1>5, <1>16, <3>2, <3>3, SMTT(30) DEF PendingOnce
    <3>5. QED  BY <1>2, <2>1, <3>2, <3>4 DEF Pending, ToSet
  <2>2. CASE c # top
    <3>1. c \in DOMAIN calls /\ calls'[c] = calls[c]
      BY <1>15, <1>17, <2>2
    <3>2. calls[c][m] # x
      BY <1>2, <1>3, <1>5, <1>16, <1>17, <2>2, <3>1 DEF PendingOnce
    <3>3. QED  BY <1>17, <2>2, <3>1, <3>2 DEF Pending, ToSet
  <2>3. QED  BY <2>1, <2>2
<1>18. Pending' = (Pending \ {x}) \cup Kids[x]
  <2>1. Pending' = UNION {ToSet(calls'[c]) : c \in DOMAIN calls'}
    BY DEF Pending
  <2>2. ASSUME NEW y \in Pending' PROVE y \in (Pending \ {x}) \cup Kids[x]
    <3>1. PICK c \in DOMAIN calls' : \E m \in DOMAIN calls'[c] : y = calls'[c][m]
      BY <2>1 DEF ToSet
    <3>2. CASE c = top + 1
      BY <1>11, <1>15, <3>1, <3>2 DEF ToSet
    <3>3. CASE c # top + 1
      BY <1>17, <3>1, <3>3
    <3>4. QED  BY <3>2, <3>3
  <2>3. ASSUME NEW y \in Pending \ {x} PROVE y \in Pending'
    <3>1. PICK c \in DOMAIN calls : \E m \in DOMAIN calls[c] : y = calls[c][m]
      BY DEF Pending, ToSet
    <3>2. PICK m \in DOMAIN calls[c] : y = calls[c][m]
      BY <3>1
    <3>3. CASE c = top
      <4>1. m # 1
        BY <1>3, <3>2, <3>3
      <4>2. m - 1 \in DOMAIN rest /\ rest[m - 1] = calls[top][(m - 1) + 1]
        BY <1>5, <3>2, <3>3, <4>1
      <4>3. (m - 1) + 1 = m
        BY <1>3, <3>2, <3>3
      <4>4. QED  BY <1>15, <2>1, <3>2, <3>3, <4>2, <4>3 DEF ToSet
    <3>4. CASE c # top
      BY <1>15, <2>1, <3>2, <3>4 DEF ToSet
    <3>5. QED  BY <3>3, <3>4
  <2>4. Kids[x] \subseteq Pending'
    BY <1>11, <1>15, <2>1
  <2>5. QED  BY <2>2, <2>3, <2>4
<1>19. PendingOnce'
  <2>1. SUFFICES ASSUME NEW c \in DOMAIN calls', NEW d \in DOMAIN calls',
                        NEW m \in DOMAIN calls'[c], NEW n \in DOMAIN calls'[d],
                        calls'[c][m] = calls'[d][n]
                 PROVE  c = d /\ m = n
    BY DEF PendingOnce
  <2>2. CASE c = top + 1 /\ d = top + 1
    BY <1>11, <1>15, <2>1, <2>2 DEF IsInjective
  <2>3. CASE (c = top + 1) # (d = top + 1)
    <3>1. \A y \in DOMAIN kids : kids[y] \in Kids[x]
      BY <1>11 DEF ToSet
    <3>2. QED  BY <1>10, <1>15, <1>17, <2>1, <2>3, <3>1
  <2>4. CASE c # top + 1 /\ d # top + 1
    <3>1. PICK p \in DOMAIN calls[c] : /\ p = (IF c = top THEN m + 1 ELSE m)
                                       /\ calls[c][p] = calls'[c][m]
      BY <1>17, <2>4
    <3>2. PICK q \in DOMAIN calls[d] : /\ q = (IF d = top THEN n + 1 ELSE n)
                                       /\ calls[d][q] = calls'[d][n]
      BY <1>17, <2>4
    <3>3. c \in DOMAIN calls /\ d \in DOMAIN calls
      BY <1>17, <2>4
    <3>4. c = d /\ p = q
      BY <1>16, <2>1, <3>1, <3>2, <3>3 DEF PendingOnce
    <3>5. CASE c = top
      <4>1. m \in DOMAIN rest /\ n \in DOMAIN rest /\ m + 1 = n + 1
        BY <1>15, <2>1, <3>1, <3>2, <3>4, <3>5
      <4>2. QED  BY <1>3, <3>4, <4>1
    <3>6. CASE c # top
      BY <3>1, <3>2, <3>4, <3>6
    <3>7. QED  BY <3>5, <3>6
  <2>5. QED  BY <2>2, <2>3, <2>4
<1>20. /\ visited' \in Seq(Node) /\ ToSet(visited)' = V \cup {x}
       /\ IsInjective(visited)'
  <2>1. PICK one : one = <<x>>
    OBVIOUS
  <2>2. one \in Seq(Node) /\ IsInjective(one) /\ ToSet(one) = {x}
    BY <1>3, <2>1 DEF IsInjective, ToSet
  <2>3. IsInjective(visited) /\ V \cap {x} = {}
    BY <1>7 DEF Inv, Once
  <2>4. visited' = visited \o one /\ visited \in Seq(Node)
    BY <1>1, <1>4, <2>1
  <2>5. /\ visited \o one \in Seq(Node) /\ ToSet(visited \o one) = V \cup {x}
        /\ IsInjective(visited \o one)
    BY <2>2, <2>3, <2>4, ConcatOnce
  <2>6. QED  BY <2>4, <2>5
<1>21. Types(sys)'
  BY <1>4, <1>13, <1>20 DEF Inv, Types
<1>22. Phases(sys)'
  BY <1>1, <1>4 DEF Inv, Phases, Finished
<1>23. Once'
  <2>1. Pending' \cap ToSet(visited)' = {}
    BY <1>6, <1>10, <1>18, <1>20 DEF Inv, Once
  <2>2. QED  BY <1>4, <1>19, <1>20, <2>1 DEF Inv, Once
<1>24. Expanded' = Expanded \cup {x}
  <2>1. x \notin ToSet(nodes)
    BY <1>7 DEF Inv, Once
  <2>2. QED  BY <1>4, <1>20, <2>1 DEF Expanded
<1>25. KnownFromExpanded'
  BY <1>6, <1>9, <1>18, <1>20, <1>24 DEF Inv, KnownFromExpanded
<1>26. QED  BY <1>21, <1>22, <1>23, <1>25 DEF Inv

\* A call that has called back with all its nodes returns.
LEMMA ReturnKeeps ==
  ASSUME NEW sys, Forested(sys), Inv(sys), Return
  PROVE  Inv(sys)'
<1>1. /\ calls \in Seq(Seq(Node)) /\ calls # <<>> /\ running
      /\ calls[Len(calls)] = <<>> /\ calls' = SubSeq(calls, 1, Len(calls) - 1)
      /\ UNCHANGED <<system, running, i, nodes, visited, found>>
  BY DEF Return, Last, Front, Inv, Types, Phases
<1>2. Len(calls) \in Nat \ {0} /\ DOMAIN calls = 1..Len(calls)
  BY <1>1, EmptySeq
<1>3. /\ calls' \in Seq(Seq(Node)) /\ Len(calls') = Len(calls) - 1
      /\ \A c \in 1..(Len(calls) - 1) : calls'[c] = calls[c]
  <2>1. \A c \in 1..(Len(calls) - 1) : calls[c] \in Seq(Node)
    BY <1>1, <1>2
  <2>2. Len(calls) - 1 \in Int /\ 1 \in Int
    BY <1>2
  <2>3. /\ SubSeq(calls, 1, Len(calls) - 1) \in Seq(Seq(Node))
        /\ Len(SubSeq(calls, 1, Len(calls) - 1))
             = IF 1 <= Len(calls) - 1 THEN Len(calls) - 1 - 1 + 1 ELSE 0
        /\ \A c \in 1..(Len(calls) - 1 - 1 + 1) :
             SubSeq(calls, 1, Len(calls) - 1)[c] = calls[1 + c - 1]
    BY <2>1, <2>2, SubSeqProperties
  <2>4. QED  BY <1>1, <1>2, <2>3
<1>4. /\ DOMAIN calls' = 1..(Len(calls) - 1)
      /\ DOMAIN calls' \subseteq DOMAIN calls
      /\ \A c \in DOMAIN calls : c \in DOMAIN calls' \/ calls[c] = <<>>
  BY <1>1, <1>2, <1>3
<1>5. Pending' = Pending
  <2>1. Pending' = UNION {ToSet(calls'[c]) : c \in DOMAIN calls'}
    BY DEF Pending
  <2>2. ToSet(<<>>) = {}
    BY DEF ToSet
  <2>3. QED  BY <1>3, <1>4, <2>1, <2>2 DEF Pending
<1>6. PendingOnce'
  <2>1. SUFFICES ASSUME NEW c \in DOMAIN calls', NEW d \in DOMAIN calls',
                        NEW m \in DOMAIN calls'[c], NEW n \in DOMAIN calls'[d],
                        calls'[c][m] = calls'[d][n]
                 PROVE  c = d /\ m = n
    BY DEF PendingOnce
  <2>2. /\ c \in DOMAIN calls /\ d \in DOMAIN calls
        /\ calls'[c] = calls[c] /\ calls'[d] = calls[d]
    BY <1>3, <1>4
  <2>3. QED  BY <2>1, <2>2 DEF PendingOnce, Inv, Once
<1>7. Types(sys)' /\ Phases(sys)'
  BY <1>1, <1>3 DEF Inv, Types, Phases, Finished
<1>8. Once' /\ KnownFromExpanded'
  BY <1>1, <1>5, <1>6 DEF Inv, Once, KnownFromExpanded, Expanded
<1>9. QED  BY <1>7, <1>8 DEF Inv

\* Before Run nothing is known.
LEMMA InitHolds == ASSUME NEW sys, Forested(sys), Init PROVE Inv(sys)
<1>1. ToSet(<<>>) = {} /\ IsInjective(<<>>)
  BY DEF ToSet, IsInjective
<1>2. Types(sys) /\ Phases(sys)
  <2>1. <<>> \in Seq(Node) /\ <<>> \in Seq(Seq(Node))
    OBVIOUS
  <2>2. 0 \in 0..MaxRoots(sys)
    BY DEF Forested
  <2>3. QED  BY <2>1, <2>2 DEF Init, Types, Phases, Finished
<1>3. Pending = {} /\ ToSet(visited) = {} /\ ToSet(nodes) = {} /\ PendingOnce
  BY <1>1 DEF Init, Pending, PendingOnce
<1>4. Expanded = {}
  BY <1>3 DEF Init, Expanded, Forested
<1>5. QED  BY <1>1, <1>2, <1>3, <1>4 DEF Inv, Once, KnownFromExpanded, Init

\* Run and every step of RunInternal keep the invariant.
LEMMA StepKeeps ==
  ASSUME NEW sys, Forested(sys), Inv(sys), [Run(sys) \/ Step]_seqvars
  PROVE  Inv(sys)'
<1>1. CASE UNCHANGED <<i, nodes, calls, visited>> /\ Types(sys)' /\ Phases(sys)'
  BY <1>1 DEF Inv, Once, PendingOnce, KnownFromExpanded, Pending, Expanded
<1>2. CASE Run(sys)
  BY <1>1, <1>2 DEF Run, Inv, Types, Phases, Finished
<1>3. CASE Finish
  BY <1>1, <1>3 DEF Finish, Inv, Types, Phases, Finished
<1>4. CASE UNCHANGED seqvars
  BY <1>1, <1>4 DEF seqvars, Inv, Types, Phases, Finished
<1>5. QED
  BY <1>2, <1>3, <1>4, PushRootKeeps, PopNodeKeeps, CallRootKeeps, CallChildKeeps,
     ReturnKeeps DEF Step
-----------------------------------------------------------------------
\* The forest of the enumerator is that of the system.
LEMMA SameForest == E!Reachable = Reachable
  BY DEF E!Reachable, Reachable, E!Closed, Closed

\* A step reports nodes that can be reached and were not reported, or none.
LEMMA ReportsNew ==
  ASSUME NEW sys, Inv(sys)', NEW seq \in Seq(Node), Inv(sys), running, running',
         ReportAll(seq)
  PROVE  [E!Next]_(E!vars)
<1> DEFINE S == ToSet(visited)' \ ToSet(visited)
<1>1. ToSet(visited)' = ToSet(visited) \cup ToSet(seq)
  <2>1. visited' = visited \o seq /\ visited \in Seq(Node)
    BY DEF ReportAll, Inv, Types
  <2>2. QED  BY <2>1, ConcatOnce
<1>2. S \in SUBSET (Reachable \ ToSet(visited))
  BY DEF Inv, KnownFromExpanded
<1>3. ToSet(visited)' = ToSet(visited) \cup S
  BY <1>1
<1>4. Finished = FALSE /\ Finished' = FALSE
  BY DEF Finished
<1>5. CASE S = {}
  BY <1>3, <1>4, <1>5 DEF E!vars
<1>6. CASE S # {}
  BY <1>2, <1>3, <1>4, <1>6, SameForest DEF E!Next, E!Report
<1>7. QED  BY <1>5, <1>6

\* Every step reports new nodes, finishes when all are reported, or stutters.
LEMMA StepRefines ==
  ASSUME NEW sys, Forested(sys), Inv(sys), Inv(sys)', [Run(sys) \/ Step]_seqvars
  PROVE  [E!Next]_(E!vars)
<1>1. CASE PushRoot
  <2>1. running /\ running' /\ system = sys /\ i \in RootId
    BY <1>1 DEF PushRoot, NextRoot, Inv, Types, Phases, Forested
  <2>2. GetRoot(system, i) \in Seq(Node)
    BY <2>1, ForestAssumption, SeqMonotonic DEF Forested, Lists, Frame
  <2>3. QED  BY <1>1, <2>1, <2>2, ReportsNew DEF PushRoot
<1>2. CASE CallRoot
  <2>1. running /\ running' /\ system = sys /\ i \in RootId
    BY <1>2 DEF CallRoot, NextRoot, Inv, Types, Phases, Forested
  <2>2. GetRoot(system, i) \in Seq(Node)
    BY <2>1, ForestAssumption, SeqMonotonic DEF Forested, Lists, Frame
  <2>3. QED  BY <1>2, <2>1, <2>2, ReportsNew DEF CallRoot
<1>3. CASE PopNode
  <2>1. running /\ running' /\ system = sys /\ Last(nodes) \in Node
    BY <1>3, FrontOnce DEF PopNode, Inv, Types, Phases, Once
  <2>2. ListChildren(system, Last(nodes)) \in Seq(Node)
    BY <2>1, ForestAssumption, SeqMonotonic DEF Forested, Lists, Frame
  <2>3. QED  BY <1>3, <2>1, <2>2, ReportsNew DEF PopNode
<1>4. CASE CallChild
  <2>1. running /\ running' /\ calls \in Seq(Seq(Node)) /\ calls # <<>>
    BY <1>4 DEF CallChild, Inv, Types, Phases
  <2>2. Last(calls) \in Seq(Node) /\ Last(calls) # <<>>
    BY <1>4, <2>1, EmptySeq DEF CallChild, Last
  <2>3. Head(Last(calls)) \in Node
    BY <2>2, HeadTailProperties
  <2>4. <<Head(Last(calls))>> \in Seq(Node)
    BY <2>3
  <2>5. QED  BY <1>4, <2>1, <2>4, ReportsNew DEF CallChild
<1>5. CASE Return \/ Run(sys) \/ UNCHANGED seqvars
  <2>1. visited' = visited /\ Finished' = Finished
    BY <1>5 DEF Return, Run, seqvars, Finished, Forested, Inv, Phases
  <2>2. QED  BY <2>1 DEF E!vars
<1>6. CASE Finish
  <2>1. ToSet(visited) = Reachable
    <3>1. system = sys /\ i = MaxRoots(sys) /\ nodes = <<>> /\ calls = <<>>
      BY <1>6 DEF Finish, Inv, Phases
    <3>2. QED  BY <3>1, NothingLeft
  <2>2. Finished = FALSE /\ Finished' = TRUE /\ visited' = visited
    BY <1>6 DEF Finish, Finished, Forested, Inv, Phases
  <2>3. QED  BY <2>1, <2>2, SameForest DEF E!Next, E!Finish
<1>7. QED
  BY <1>1, <1>2, <1>3, <1>4, <1>5, <1>6 DEF Step
-----------------------------------------------------------------------
(* Theorems *)

\* ReportSolution is called once for a node, from its stack or from the call
\* stack, whatever the order in which the system calls back.
THEOREM SequentialReportsOnce ==
  ASSUME NEW sys, Forested(sys)
  PROVE  SequentialSpec(sys) => []NothingTwice
<1>1. Init => Inv(sys)
  BY InitHolds
<1>2. Inv(sys) /\ [Run(sys) \/ Step]_seqvars => Inv(sys)'
  BY StepKeeps
<1>3. Inv(sys) => NothingTwice
  BY DEF Inv, Once, NothingTwice
<1>4. QED  BY <1>1, <1>2, <1>3, PTL DEF SequentialSpec

\* RunInternal with its stack, and with recursion, does what every enumerator
\* promises: it reports the nodes below the roots, and when it returns it
\* has reported all of them.
THEOREM SequentialEnumerates ==
  ASSUME NEW sys, Forested(sys)
  PROVE  SequentialSpec(sys) => E!Init /\ [][E!Next]_(E!vars)
<1>1. Init => Inv(sys) /\ E!Init
  <2>1. ToSet(<<>>) = {}
    BY DEF ToSet
  <2>2. QED  BY <2>1, InitHolds DEF Init, E!Init, Finished
<1>2. Inv(sys) /\ [Run(sys) \/ Step]_seqvars => Inv(sys)'
  BY StepKeeps
<1>3. Inv(sys) /\ Inv(sys)' /\ [Run(sys) \/ Step]_seqvars => [E!Next]_(E!vars)
  BY StepRefines
<1>4. QED  BY <1>1, <1>2, <1>3, PTL DEF SequentialSpec
=======================================================================
