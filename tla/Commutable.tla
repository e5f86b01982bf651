--------------------------- MODULE Commutable ---------------------------
(***************************************************************************)
(* CommutableSystem (enumerable/commutable.hpp) as its one subclass in the *)
(* repository, CHSystem (enumerable/connected_hereditary.hpp), fills it    *)
(* in: maximal connected sets of a hereditary property by reverse search.  *)
(* A node is a solution in the order of its levels.  cs is the system:     *)
(* its graph cs.g and cs.good, the sets for which IsGood answers true.     *)
(* Every callback returns true, as those of the enumerators do.            *)
(***************************************************************************)
EXTENDS FastGraph

(* What a concrete system supplies; none is in the repository. *)

IsNeigh(cs, a, b) == are_neighs(cs.g, a, b)

IsGood(cs, S) == S \in cs.good

\* The maximal good subsets of S with v that contain v.
RestrictedProblem(cs, S, v) ==
  LET within == {T \in cs.good : v \in T /\ T \subseteq S \cup {v}}
  IN  {Ascending(T, size(cs.g)) :
         T \in {X \in within : \A Y \in within : ~ (X \subseteq Y /\ X # Y)}}

\* CompleteCandNum: the idx-th element of the ground set adjacent to elem.
CandNum(cs, ground, elem, idx) ==
  LET cands == SelectSeq(neighs(cs.g, elem), LAMBDA w : w \in ground)
  IN  IF idx \in DOMAIN cands THEN {cands[idx]} ELSE {}
-----------------------------------------------------------------------
\* std::tuple and std::pair are compared from the left.
Before(x, y) ==
  \E i \in DOMAIN x : x[i] < y[i] /\ \A j \in 1..i-1 : x[j] = y[j]

Top(q) == CHOOSE x \in q : \A y \in q : x = y \/ Before(x, y)

\* Resort: the elements of s that the seed reaches, by level and then in
\* their own order.  A queue entry also has the position of its element.
\* A turn of its loop takes the first entry of the queue.
Visit(cs, s, r) ==
  LET p == Top(r.q)
      new == {i \in DOMAIN s \ r.visited : IsNeigh(cs, p[2], s[i])}
  IN  [q |-> (r.q \ {p}) \cup {<<p[1] + 1, s[i], i>> : i \in new},
       visited |-> r.visited \cup new,
       s |-> Append(r.s, p[2]),
       level |-> Append(r.level, p[1])]

Resort(cs, s, seed) ==
  LET i == CHOOSE i \in DOMAIN s : s[i] = seed /\ \A j \in 1..i-1 : s[j] # seed
      turn[t \in Nat] ==
        IF t = 0 THEN [q |-> {<<0, seed, i>>}, visited |-> {i},
                       s |-> <<>>, level |-> <<>>]
        ELSE LET r == turn[t - 1]
             IN  IF r.q = {} THEN r ELSE Visit(cs, s, r)
  IN  turn[Len(s)]

\* GetPrefix: the solution from a seed up to v.
GetPrefix(cs, s, seed, v) ==
  LET r == Resort(cs, s, seed)
      i == CHOOSE i \in DOMAIN r.s : r.s[i] = v
  IN  [s |-> SubSeq(r.s, 1, i), level |-> SubSeq(r.level, 1, i)]
-----------------------------------------------------------------------
(* Complete.  Its state c is the solution c.s with its levels, and the
   candidates: the elements added so far, a queue of candidates (level,
   element, iterator) and, for each element added, an iterator. *)

\* InsertInPQ: the next candidate of an iterator.
InsertInPQ(cs, c, ground, it) ==
  LET inf == c.info[it]
  IN  [c EXCEPT
         !.info = [@ EXCEPT ![it].idx = inf.idx + 1],
         !.pq = @ \cup {<<inf.level + 1, w, it>> :
                          w \in CandNum(cs, ground, inf.owner, inf.idx)}]

\* Candidates::Add
AddElement(cs, c, ground, v, level) ==
  InsertInPQ(cs, [c EXCEPT
                    !.added = @ \cup {v},
                    !.info = Append(@, [idx |-> 1, owner |-> v, level |-> level])],
             ground, Len(c.info) + 1)

\* One turn of the outer loop begins with no candidates but the seed's.
Restart(cs, s, level, ground) ==
  AddElement(cs, [s |-> s, level |-> level, added |-> {}, pq |-> {},
                  info |-> <<>>, next |-> 2, result |-> "running"],
             ground, s[1], 0)

CommutableCanAdd(cs, s, v) == IsGood(cs, ToSet(s) \cup {v})

CanReallyAdd(cs, c, v) ==
  /\ v \notin c.added
  /\ Contains(c.s, v) \/ CommutableCanAdd(cs, c.s, v)

Failed(c) == [c EXCEPT !.result = "failed"]

\* The candidate v is the next element of the solution, or a new one: it must
\* be in the target and not come before the bound; if it is less than the
\* seed it becomes the seed and all levels change.
TakeCandidate(cs, c, arg, v, level) ==
  IF c.next \in DOMAIN c.s /\ c.s[c.next] = v
  THEN AddElement(cs, [c EXCEPT !.next = @ + 1], arg.ground, v, level)
  ELSE IF \/ v \notin arg.target
          \/ Before(<<level, v>>, arg.bound)
          \/ v < c.s[1] /\ (arg.fixed_seed \/ arg.bound # <<-1, 0>>)
  THEN Failed(c)
  ELSE IF v < c.s[1]
  THEN LET r == Resort(cs, Append(c.s, v), v)
       IN  Restart(cs, r.s, r.level, arg.ground)
  ELSE AddElement(cs, [c EXCEPT !.s = Append(@, v),
                                !.level = Append(@, level)],
                  arg.ground, v, level)

\* Candidates::Next and what follows it.
CompleteStep(cs, c, arg) ==
  IF c.pq = {}
  THEN LET r == Resort(cs, c.s, c.s[1])
       IN  [c EXCEPT !.s = r.s, !.level = r.level, !.result = "finished"]
  ELSE LET p == Top(c.pq)
           popped == InsertInPQ(cs, [c EXCEPT !.pq = @ \ {p}], arg.ground, p[3])
       IN  IF CanReallyAdd(cs, popped, p[2])
           THEN TakeCandidate(cs, popped, arg, p[2], p[1])
           ELSE popped

\* The values of c.
Completion ==
  [s : Seq(Nat), level : Seq(Nat), added : SUBSET Nat, pq : SUBSET Seq(Nat),
   info : Seq([idx : Nat, owner : Nat, level : Nat]), next : Nat,
   result : {"running", "finished", "failed"}]

Complete(cs, s, level, arg) ==
  LET completed[c \in Completion] ==
        IF c.result = "running" THEN completed[CompleteStep(cs, c, arg)] ELSE c
  IN  completed[Restart(cs, s, level, arg.ground)]
-----------------------------------------------------------------------
(* Children *)

\* The default arguments of Complete: no ground set, no target, no bound.
Anywhere(cs) == [ground |-> DOMAIN cs.g, target |-> DOMAIN cs.g,
                 fixed_seed |-> FALSE, bound |-> <<-1, 0>>]

\* GetRoot: every vertex is a seed; the root exists if the vertex stays it.
CommutableRoot(cs, i) ==
  LET c == Complete(cs, <<i>>, <<0>>, [Anywhere(cs) EXCEPT !.fixed_seed = TRUE])
  IN  IF c.result = "finished" THEN << [s |-> c.s, level |-> c.level] >>
                               ELSE <<>>

\* ValidSeeds: elements before cand that are not adjacent to the least one.
ValidSeeds(cs, sol, cand) ==
  LET least == CHOOSE v \in ToSet(sol) : \A w \in ToSet(sol) : v <= w
  IN  SelectSeq(sol, LAMBDA v : v < cand /\ ~ IsNeigh(cs, least, v))

\* The completion of the core without cand is the solution s again: this is
\* the one solution that lists the child.
ParentIs(cs, core, s) ==
  Complete(cs, Front(core.s), Front(core.level),
           [Anywhere(cs) EXCEPT !.target = ToSet(s)])

\* Mutant of FoundFrom: the parent is not checked.
FoundFromAnyParent(cs, core, child, s, sol, cand) ==
  /\ child.result = "finished"
  /\ IsPrefix(core.s, child.s)

\* The child is found from this parent, with this solution of the restricted
\* problem, and from no other.
FoundFrom(cs, core, child, s, sol, cand) ==
  /\ child.result = "finished"
  /\ IsPrefix(core.s, child.s)
  /\ LET p == ParentIs(cs, core, s)
     IN  /\ p.result = "finished"
         /\ Complete(cs, core.s, core.level,
                     [Anywhere(cs) EXCEPT !.ground = ToSet(p.s) \cup {cand},
                                          !.target = ToSet(sol)]).result
              = "finished"

\* The children of s from one solution of the restricted problem of cand.
ChildrenFrom(cs, s, sol, cand) ==
  FoldLeft(LAMBDA kids, seed :
    LET core == GetPrefix(cs, sol, seed, cand)
        child == Complete(cs, core.s, core.level,
                   [Anywhere(cs) EXCEPT !.fixed_seed = TRUE,
                      !.bound = <<Last(core.level), Last(core.s)>>])
    IN  IF /\ \A i \in DOMAIN core.s : seed <= core.s[i]
           /\ FoundFrom(cs, core, child, s, sol, cand)
        THEN Append(kids, [s |-> child.s, level |-> child.level])
        ELSE kids,
    <<>>, ValidSeeds(cs, sol, cand))

\* The vertices outside s, in order.
RestrictedCands(cs, s) ==
  SelectSeq([i \in 1..size(cs.g) |-> i - 1], LAMBDA v : ~ Contains(s, v))

CommutableChildren(cs, node) ==
  FoldLeft(LAMBDA kids, cand :
    FoldLeft(LAMBDA more, sol : more \o ChildrenFrom(cs, node.s, sol, cand),
             kids, SetToSeq(RestrictedProblem(cs, ToSet(node.s), cand))),
    <<>>, RestrictedCands(cs, node.s))
=======================================================================
