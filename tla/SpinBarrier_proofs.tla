------------------------ MODULE SpinBarrier_proofs ------------------------
(***************************************************************************)
(* bar_t implements the abstract barrier for any number of threads and any *)
(* width of its counters that can count the threads.                       *)
(***************************************************************************)
EXTENDS SpinBarrier, FiniteSetTheorems, TLAPS

\* Some thread is the last one of the round and has not opened the barrier.
Opening == {t \in Thread : pc[t] \in {"reset", "bump"}}

\* The inductive invariant.  While no thread opens the barrier, spaces counts
\* the threads that have not arrived; while one does, it is the only thread
\* that moves, so the generation changes under no thread that has read it
\* and not yet arrived.
BarrierInv ==
  /\ TypeOK
  /\ \A t \in Thread : pc[t] = "arrive" => my_generation[t] = generation
  /\ Opening = {} => /\ spaces = count - Cardinality(Inside)
                     /\ spaces > 0
  /\ \A t \in Opening : /\ Inside = Thread
                        /\ Opening = {t}
                        /\ pc[t] = "reset" => spaces = 0
                        /\ pc[t] = "bump" => spaces = count

\* Arithmetic of an unsigned counter: no wrap below Wrap, and a step always
\* changes the value.
LEMMA SmallMod ==
  ASSUME NEW n \in Nat, n < Wrap
  PROVE  n % Wrap = n
BY SpinBarrierAssumption

LEMMA NextDiffers ==
  ASSUME NEW g \in 0..(Wrap - 1)
  PROVE  /\ (g + 1) % Wrap \in 0..(Wrap - 1)
         /\ (g + 1) % Wrap # g
<1>1. CASE g + 1 < Wrap
  BY <1>1, SmallMod, SpinBarrierAssumption
<1>2. CASE g + 1 = Wrap
  <2>1. Wrap % Wrap = 0
    BY SpinBarrierAssumption
  <2>2. QED
    BY <1>2, <2>1, SpinBarrierAssumption
<1>3. QED
  BY <1>1, <1>2, SpinBarrierAssumption

LEMMA CountNat == count \in Nat /\ 0 < count /\ count < Wrap
<1>1. Cardinality(Thread) \in Nat
  BY SpinBarrierAssumption, FS_CardinalityType
<1>2. Cardinality(Thread) # 0
  BY SpinBarrierAssumption, FS_EmptySet
<1>3. QED
  BY <1>1, <1>2, SpinBarrierAssumption DEF count

\* The threads inside are finitely many, never more than the count.
LEMMA InsideFinite ==
  /\ IsFiniteSet(Inside)
  /\ Cardinality(Inside) \in Nat
  /\ Cardinality(Inside) <= count
  /\ Cardinality(Inside) = count => Inside = Thread
<1>1. Inside \subseteq Thread
  BY DEF Inside
<1>2. IsFiniteSet(Inside) /\ Cardinality(Inside) <= Cardinality(Thread)
      /\ (Cardinality(Inside) = Cardinality(Thread) => Inside = Thread)
  BY <1>1, SpinBarrierAssumption, FS_Subset
<1>3. QED
  BY <1>2, FS_CardinalityType DEF count
-----------------------------------------------------------------------
LEMMA InitInv == Init => BarrierInv
<1> SUFFICES ASSUME Init PROVE BarrierInv
  OBVIOUS
<1> USE DEF Init
<1>1. TypeOK
  BY CountNat, SpinBarrierAssumption DEF TypeOK
<1>2. Inside = {} /\ Opening = {}
  BY DEF Inside, Opening
<1>3. Cardinality(Inside) = 0
  BY <1>2, FS_EmptySet
<1>4. QED
  BY <1>1, <1>2, <1>3, CountNat DEF BarrierInv

\* A thread begins to wait: it is not inside, so no thread opens.
LEMMA ReadGenerationInv ==
  ASSUME BarrierInv, NEW t \in Thread, ReadGeneration(t)
  PROVE  BarrierInv' /\ Inside' = Inside
<1> USE DEF ReadGeneration, Goto
<1>1. TypeOK'
  BY DEF BarrierInv, TypeOK
<1>2. Inside' = Inside /\ Opening' = Opening
  BY DEF BarrierInv, TypeOK, Inside, Opening
<1>3. t \notin Inside
  BY DEF Inside
<1>4. Opening = {}
  BY <1>3 DEF BarrierInv
<1>5. \A u \in Thread : pc'[u] = "arrive" => my_generation'[u] = generation'
  BY DEF BarrierInv, TypeOK
<1>6. QED
  BY <1>1, <1>2, <1>4, <1>5 DEF BarrierInv

\* A thread arrives: it comes inside, and is the opener when it is the last.
LEMMA ArriveInv ==
  ASSUME BarrierInv, NEW t \in Thread, Arrive(t)
  PROVE  BarrierInv' /\ t \notin Inside /\ Inside' = Inside \cup {t}
<1> USE DEF Arrive, Goto
<1>1. t \notin Inside
  BY DEF Inside
<1>2. Opening = {}
  BY <1>1 DEF BarrierInv
<1>3. spaces = count - Cardinality(Inside) /\ spaces > 0
  BY <1>2 DEF BarrierInv
<1>4. spaces' = spaces - 1
  <2>1. spaces - 1 \in Nat /\ spaces - 1 < Wrap
    BY <1>3, CountNat, SpinBarrierAssumption DEF BarrierInv, TypeOK
  <2>2. QED
    BY <2>1, SmallMod
<1>5. Inside' = Inside \cup {t}
  BY DEF Inside, BarrierInv, TypeOK
<1>6. Cardinality(Inside') = Cardinality(Inside) + 1
  BY <1>1, <1>5, InsideFinite, FS_AddElement
<1>7. TypeOK'
  BY <1>3, <1>4, CountNat DEF BarrierInv, TypeOK
<1>8. \A u \in Thread : pc'[u] = "arrive" => my_generation'[u] = generation'
  BY DEF BarrierInv, TypeOK
<1>9. CASE spaces' = 0
  <2>1. Opening' = {t} /\ pc'[t] = "reset"
    BY <1>2, <1>9 DEF Opening, BarrierInv, TypeOK
  <2>2. Cardinality(Inside \cup {t}) = Cardinality(Thread)
    BY <1>3, <1>4, <1>5, <1>6, <1>9, InsideFinite, CountNat DEF count
  <2>3. Inside \cup {t} \subseteq Thread
    BY DEF Inside
  <2>4. Inside' = Thread
    BY <1>5, <2>2, <2>3, SpinBarrierAssumption, FS_Subset
  <2>5. QED
    BY <1>1, <1>5, <1>7, <1>8, <1>9, <2>1, <2>4 DEF BarrierInv
<1>10. CASE spaces' # 0
  <2>1. Opening' = {}
    BY <1>2, <1>10 DEF Opening, BarrierInv, TypeOK
  <2>2. spaces' = count - Cardinality(Inside') /\ spaces' > 0
    BY <1>3, <1>4, <1>6, <1>10, InsideFinite, CountNat DEF BarrierInv, TypeOK
  <2>3. QED
    BY <1>1, <1>5, <1>7, <1>8, <2>1, <2>2 DEF BarrierInv
<1>11. QED
  BY <1>9, <1>10

\* The opener resets spaces; nobody else can move.
LEMMA ResetInv ==
  ASSUME BarrierInv, NEW t \in Thread, Reset(t)
  PROVE  BarrierInv' /\ Inside' = Inside
<1> USE DEF Reset, Goto
<1>1. t \in Opening
  BY DEF Opening
<1>2. Inside = Thread /\ Opening = {t}
  BY <1>1 DEF BarrierInv
<1>3. Inside' = Inside /\ Opening' = Opening
  BY DEF Inside, Opening, BarrierInv, TypeOK
<1>4. TypeOK'
  BY CountNat DEF BarrierInv, TypeOK
<1>5. pc'[t] = "bump" /\ spaces' = count
  BY DEF BarrierInv, TypeOK
<1>6. \A u \in Thread : pc'[u] = "arrive" => my_generation'[u] = generation'
  BY DEF BarrierInv, TypeOK
<1>7. QED
  BY <1>2, <1>3, <1>4, <1>5, <1>6 DEF BarrierInv

\* The opener starts the next generation: everybody is free to leave.
LEMMA BumpInv ==
  ASSUME BarrierInv, NEW t \in Thread, Bump(t)
  PROVE  BarrierInv' /\ Inside = Thread /\ Inside' = {}
<1> USE DEF Bump, Goto
<1>1. t \in Opening
  BY DEF Opening
<1>2. Inside = Thread /\ Opening = {t} /\ spaces = count
  BY <1>1 DEF BarrierInv
<1>3. generation' \in 0..(Wrap - 1) /\ generation' # generation
  BY NextDiffers DEF BarrierInv, TypeOK
<1>4. \A u \in Thread \ {t} : pc[u] = "spin" /\ my_generation[u] = generation
  BY <1>2 DEF Inside, Opening
<1>5. pc'[t] = "out" /\ \A u \in Thread \ {t} : pc'[u] = pc[u]
  BY DEF BarrierInv, TypeOK
<1>6. Inside' = {} /\ Opening' = {}
  BY <1>3, <1>4, <1>5 DEF Inside, Opening
<1>7. \A u \in Thread : pc'[u] # "arrive"
  BY <1>4, <1>5
<1>8. TypeOK'
  BY <1>3 DEF BarrierInv, TypeOK
<1>9. spaces' = count - Cardinality(Inside') /\ spaces' > 0
  BY <1>2, <1>6, CountNat, FS_EmptySet
<1>10. QED
  BY <1>2, <1>6, <1>7, <1>8, <1>9 DEF BarrierInv

\* A thread that reads another generation was let go before.
LEMMA LeaveInv ==
  ASSUME BarrierInv, NEW t \in Thread, Leave(t)
  PROVE  BarrierInv' /\ Inside' = Inside
<1> USE DEF Leave, Goto
<1>1. t \notin Inside
  BY DEF Inside
<1>2. Opening = {}
  BY <1>1 DEF BarrierInv
<1>3. Inside' = Inside /\ Opening' = Opening
  BY DEF Inside, Opening, BarrierInv, TypeOK
<1>4. TypeOK'
  BY DEF BarrierInv, TypeOK
<1>5. \A u \in Thread : pc'[u] = "arrive" => my_generation'[u] = generation'
  BY DEF BarrierInv, TypeOK
<1>6. QED
  BY <1>2, <1>3, <1>4, <1>5 DEF BarrierInv
-----------------------------------------------------------------------
LEMMA Inductive == BarrierInv /\ [Next]_vars => BarrierInv'
<1> SUFFICES ASSUME BarrierInv, [Next]_vars PROVE BarrierInv'
  OBVIOUS
<1>1. ASSUME NEW t \in Thread, Step(t) PROVE BarrierInv'
  BY <1>1, ReadGenerationInv, ArriveInv, ResetInv, BumpInv, LeaveInv DEF Step
<1>2. CASE UNCHANGED vars
  BY <1>2 DEF vars, BarrierInv, TypeOK, Inside, Opening
<1>3. QED
  BY <1>1, <1>2 DEF Next

\* The counters of the barrier keep their ranges: spaces never goes below 0
\* nor above the count, whatever threads run into the next round early.
THEOREM BarrierType == Spec => []TypeOK
<1>1. BarrierInv => TypeOK
  BY DEF BarrierInv
<1>2. QED
  BY <1>1, InitInv, Inductive, PTL DEF Spec

\* bar_t is a barrier: a thread leaves wait() only when all the threads have
\* called it, in every round, for any number of threads and although the
\* generation wraps around.
THEOREM BarrierRefines == Spec => ImplementsBarrier
<1>1. Init => Inside = {}
  BY DEF Init, Inside
<1>2. BarrierInv /\ [Next]_vars => [R!Wait]_Inside
  <2> SUFFICES ASSUME BarrierInv, [Next]_vars PROVE [R!Wait]_Inside
    OBVIOUS
  <2>1. ASSUME NEW t \in Thread, Step(t) PROVE [R!Wait]_Inside
    <3>1. CASE ReadGeneration(t) \/ Reset(t) \/ Leave(t)
      BY <3>1, ReadGenerationInv, ResetInv, LeaveInv
    <3>2. CASE Arrive(t)
      BY <3>2, ArriveInv DEF R!Wait, R!Come
    <3>3. CASE Bump(t)
      BY <3>3, BumpInv DEF R!Wait, R!LetGo
    <3>4. QED
      BY <2>1, <3>1, <3>2, <3>3 DEF Step
  <2>2. CASE UNCHANGED vars
    BY <2>2 DEF vars, Inside
  <2>3. QED
    BY <2>1, <2>2 DEF Next
<1>3. QED
  BY <1>1, <1>2, InitInv, Inductive, PTL DEF Spec, ImplementsBarrier, R!Promise
============================================================================
