-------------------------- MODULE Enumeration --------------------------
(***************************************************************************)
(* What every enumerator of the repository promises: each node below the   *)
(* roots is reported (Enumerator::ReportSolution), in no fixed order, and  *)
(* the enumeration finishes only when all of them have been reported.      *)
(***************************************************************************)
EXTENDS Forest

VARIABLES
  reported,   \* nodes for which ReportSolution was called
  finished    \* Run has returned

vars == <<reported, finished>>

Init ==
  /\ reported = {}
  /\ finished = FALSE

\* A step of one process reports one node; a step that stands for the rest
\* of a cluster may report several.
Report ==
  /\ ~finished
  /\ \E S \in SUBSET (Reachable \ reported) :
       /\ S # {}
       /\ reported' = reported \cup S
  /\ UNCHANGED finished

Finish ==
  /\ ~finished
  /\ reported = Reachable
  /\ finished' = TRUE
  /\ UNCHANGED reported

Next == Report \/ Finish

Spec == Init /\ [][Next]_vars /\ WF_vars(Next)
=======================================================================
