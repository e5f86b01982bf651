--------------------------- MODULE Sequential ---------------------------
(***************************************************************************)
(* Sequential::RunInternal (enumerator/sequential.hpp) with                *)
(* Enumerator::ReportSolution (enumerator/enumerator.hpp): one thread      *)
(* visits the forest of a system, with a stack of nodes or, if the system  *)
(* allows it, by calling ListChildren recursively.  The operators of the   *)
(* system are its virtual functions; they yield the nodes they call back   *)
(* with, in order.                                                         *)
(***************************************************************************)
EXTENDS Naturals, Sequences, SequencesExt

CONSTANTS
  MaxRoots(_), CanUseRecursion(_), GetRoot(_, _), ListChildren(_, _),
  IsSolution(_, _), NodeToItem(_, _)

VARIABLES
  system,     \* the system being enumerated; <<>> before Run
  running,    \* RunInternal has not returned
  i,          \* the next root
  nodes,      \* stack of nodes, its top last
  calls,      \* call stack: what each ListChildren has still to call back with
  visited,    \* the nodes for which ReportSolution was called
  found       \* the items given to the callback

seqvars == <<system, running, i, nodes, calls, visited, found>>

Init ==
  /\ system = <<>>
  /\ running = FALSE
  /\ i = 0
  /\ nodes = <<>>
  /\ calls = <<>>
  /\ visited = <<>>
  /\ found = <<>>

\* Run(system).
Run(sys) ==
  /\ system = <<>>
  /\ system' = sys
  /\ running' = TRUE
  /\ UNCHANGED <<i, nodes, calls, visited, found>>

\* ReportSolution for each node of a sequence.
ReportAll(seq) ==
  LET items[m \in 0..Len(seq)] ==
        IF m = 0 THEN found
        ELSE IF IsSolution(system, seq[m])
        THEN Append(items[m - 1], NodeToItem(system, seq[m]))
        ELSE items[m - 1]
  IN  visited' = visited \o seq /\ found' = items[Len(seq)]

\* The next root is opened when nothing is left of the one before.
NextRoot == running /\ i < MaxRoots(system) /\ nodes = <<>> /\ calls = <<>>

\* GetRoot with the callback that pushes.
PushRoot ==
  /\ NextRoot
  /\ ~ CanUseRecursion(system)
  /\ nodes' = GetRoot(system, i)
  /\ ReportAll(GetRoot(system, i))
  /\ i' = i + 1
  /\ UNCHANGED <<system, running, calls>>

\* ListChildren of the node on top of the stack.
PopNode ==
  /\ nodes # <<>>
  /\ LET kids == ListChildren(system, Last(nodes))
     IN  nodes' = Front(nodes) \o kids /\ ReportAll(kids)
  /\ UNCHANGED <<system, running, i, calls>>

\* GetRoot with the callback that calls ListChildren.
CallRoot ==
  /\ NextRoot
  /\ CanUseRecursion(system)
  /\ LET roots == GetRoot(system, i)
     IN  /\ calls' = [r \in DOMAIN roots |-> ListChildren(system, roots[r])]
         /\ ReportAll(roots)
  /\ i' = i + 1
  /\ UNCHANGED <<system, running, nodes>>

\* The innermost ListChildren calls back with its next node.
CallChild ==
  /\ calls # <<>>
  /\ Last(calls) # <<>>
  /\ LET x == Head(Last(calls))
     IN  /\ calls' = Append([calls EXCEPT ![Len(calls)] = Tail(@)],
                            ListChildren(system, x))
         /\ ReportAll(<<x>>)
  /\ UNCHANGED <<system, running, i, nodes>>

\* The innermost ListChildren returns.
Return ==
  /\ calls # <<>>
  /\ Last(calls) = <<>>
  /\ calls' = Front(calls)
  /\ UNCHANGED <<system, running, i, nodes, visited, found>>

\* RunInternal returns.
Finish ==
  /\ running
  /\ i = MaxRoots(system)
  /\ nodes = <<>>
  /\ calls = <<>>
  /\ running' = FALSE
  /\ UNCHANGED <<system, i, nodes, calls, visited, found>>

Step == PushRoot \/ PopNode \/ CallRoot \/ CallChild \/ Return \/ Finish
=======================================================================
