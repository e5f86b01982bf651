-------------------------- MODULE SpinBarrier --------------------------
(***************************************************************************)
(* bar_t (enumerator/parallel_pthreads_steal.hpp), the barrier at which    *)
(* the threads of a worker meet before and after they ask for more work.   *)
(* Each action is one access to its two atomic counters.  They are         *)
(* unsigned: the generation wraps around.                                  *)
(***************************************************************************)
EXTENDS Integers, FiniteSets

CONSTANTS
  Thread,
  Wrap     \* 2^32: one more than the largest unsigned

count == Cardinality(Thread)

ASSUME SpinBarrierAssumption ==
  /\ IsFiniteSet(Thread)
  /\ Thread # {}
  /\ Wrap \in Nat
  /\ 1 < Wrap
  /\ Cardinality(Thread) < Wrap

VARIABLES
  pc,             \* "out" of wait(), or the next access of wait()
  my_generation,  \* local of wait()
  spaces, generation

vars == <<pc, my_generation, spaces, generation>>

Init ==
  /\ pc = [t \in Thread |-> "out"]
  /\ my_generation = [t \in Thread |-> 0]
  /\ spaces = count
  /\ generation = 0

Goto(t, l) == pc' = [pc EXCEPT ![t] = l]

\* wait() begins by reading the generation.
ReadGeneration(t) ==
  /\ pc[t] = "out"
  /\ my_generation' = [my_generation EXCEPT ![t] = generation]
  /\ Goto(t, "arrive")
  /\ UNCHANGED <<spaces, generation>>

\* Mutant of Arrive: one thread short of the count is enough.
ArriveTooFew(t) ==
  /\ pc[t] = "arrive"
  /\ spaces' = (spaces - 1) % Wrap
  /\ Goto(t, IF spaces' <= 1 THEN "reset" ELSE "spin")
  /\ UNCHANGED <<my_generation, generation>>

\* !--spaces
Arrive(t) ==
  /\ pc[t] = "arrive"
  /\ spaces' = (spaces - 1) % Wrap
  /\ Goto(t, IF spaces' = 0 THEN "reset" ELSE "spin")
  /\ UNCHANGED <<my_generation, generation>>

\* Mutant of Reset: spaces is reset for one thread less.
ResetShort(t) ==
  /\ pc[t] = "reset"
  /\ spaces' = count - 1
  /\ Goto(t, "bump")
  /\ UNCHANGED <<my_generation, generation>>

\* The last thread prepares the next round before it lets the others go.
Reset(t) ==
  /\ pc[t] = "reset"
  /\ spaces' = count
  /\ Goto(t, "bump")
  /\ UNCHANGED <<my_generation, generation>>

\* Mutant of Bump: the generation saturates instead of wrapping around.
BumpSaturates(t) ==
  /\ pc[t] = "bump"
  /\ generation' = IF generation + 1 < Wrap THEN generation + 1 ELSE generation
  /\ Goto(t, "out")
  /\ UNCHANGED <<my_generation, spaces>>

Bump(t) ==
  /\ pc[t] = "bump"
  /\ generation' = (generation + 1) % Wrap
  /\ Goto(t, "out")
  /\ UNCHANGED <<my_generation, spaces>>

\* The loop ends when another generation is read.
Leave(t) ==
  /\ pc[t] = "spin"
  /\ generation # my_generation[t]
  /\ Goto(t, "out")
  /\ UNCHANGED <<my_generation, spaces, generation>>

Step(t) ==
  \/ ReadGeneration(t) \/ Arrive(t) \/ Reset(t) \/ Bump(t) \/ Leave(t)

Next == \E t \in Thread : Step(t)

Spec == Init /\ [][Next]_vars

\* Every thread runs, and every thread comes to the barrier again.
FairSpec == Spec /\ \A t \in Thread : WF_vars(Step(t))
-----------------------------------------------------------------------
\* Every variable keeps its type.
TypeOK ==
  /\ pc \in [Thread -> {"out", "arrive", "reset", "bump", "spin"}]
  /\ my_generation \in [Thread -> 0..(Wrap - 1)]
  /\ spaces \in 0..count
  /\ generation \in 0..(Wrap - 1)

\* Threads that arrived and were not let go: a thread that spins on a
\* generation that is over is free to leave.
Inside ==
  {t \in Thread : \/ pc[t] \in {"reset", "bump"}
                  \/ pc[t] = "spin" /\ my_generation[t] = generation}

\* The two counters implement a barrier that can be used again at once, by
\* threads that overtake others still spinning in the last round.
R == INSTANCE Rendezvous WITH inside <- Inside
ImplementsBarrier == R!Promise

\* A thread that arrived is let go, however fast the others come back:
\* neither counter can be reset or wrap under it.
Released == \A t \in Thread : t \in Inside ~> pc[t] = "out"
=======================================================================
