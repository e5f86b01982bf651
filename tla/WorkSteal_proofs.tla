------------------------- MODULE WorkSteal_proofs -------------------------
(***************************************************************************)
(* Theorems about the work-stealing enumerator, for any forest, any number *)
(* of threads, with or without callbacks and recursion: types, the flag    *)
(* that keeps MPI to one thread, the counter of idle threads; and what is  *)
(* done once, by whichever threads and processes: no root is opened, no    *)
(* node is listed and none is reported twice, and no solution is lost or   *)
(* counted twice on its way to the master.  GetRoot, which builds the node *)
(* of each root of its thread in the same vectors, does so only when no    *)
(* node that points to them is left, in any thread or queue; when the last *)
(* round is over nothing is left behind but, without callbacks, nodes that *)
(* a failing try_dequeue missed, and what was reported on the way is the   *)
(* whole forest but for what is below those.                               *)
(***************************************************************************)
EXTENDS WorkSteal, FiniteSetTheorems, TLAPS

\* What the forest gives a frame to call back with.
LEMMA KidsType ==
  /\ \A f \in Frame : Kids[f] \subseteq Node
  /\ RootId \subseteq Frame
  /\ Node \subseteq Frame
  /\ NoNode \notin Node
BY ForestAssumption, WorkStealAssumption DEF Frame

LEMMA OwnRootsType == OwnRoots \in SUBSET RootId
BY WorkStealAssumption

\* The sizes that the code reads are natural numbers.
LEMMA SizeType == ASSUME NEW S, S \subseteq Node PROVE Cardinality(S) \in Nat
BY ForestAssumption, FS_Subset, FS_CardinalityType
-----------------------------------------------------------------------
(* Where a thread is agrees with its call stack and the node it holds.     *)

\* A thread outside ServeSteal and outside the frames of the enumeration.
Outside ==
  {"outer", "pick", "idle", "spin", "ended", "allIdle", "leave", "quit",
   "more", "barrier1", "claim", "check", "ask", "answer", "release", "rest",
   "barrier2", "done"}

\* A thread in ServeSteal, where node is its argument, and one in the rest of
\* solution_cb before it reports the node.
Serving == {"tas", "probe", "drain", "take", "send", "clear"}
InCallback == {"clearGiven", "size", "compare", "share"}

\* The frames on a call stack: each but the first was called back by another.
Chain(p) ==
  p # {} => \E base \in p : \A x \in p \ {base} : \E y \in p : x \in Kids[y]

\* The call stack and the node in hand agree with where the thread is.
Control(t) ==
  /\ Chain(path[t])
  /\ pc[t] \in Outside => path[t] = {}
  /\ pc[t] \in (Outside \ {"leave"}) \cup {"open", "list"} => node[t] = NoNode
  /\ pc[t] \in InCallback \cup {"report"} => node[t] \in Node
  /\ pc[t] \in Serving \cup InCallback =>
       IF node[t] = NoNode THEN path[t] = {}
                           ELSE \E f \in path[t] : node[t] \in Kids[f]

\* Inductive: without Control a thread might share, keep or report dummyNode.
TypeInv == TypeOK /\ \A t \in Thread : Control(t)

\* A frame below another one on a call stack is a node: it was called back.
LEMMA ChainTop ==
  ASSUME NEW p \in SUBSET Frame, Chain(p), NEW f \in p, Kids[f] \cap p = {}
  PROVE  /\ Chain(p \ {f})
         /\ p # {f} => f \in Node
<1>1. PICK base \in p : \A x \in p \ {base} : \E y \in p : x \in Kids[y]
  BY DEF Chain
<1>2. \A x \in p \ {base} : \E y \in p \ {f} : x \in Kids[y]
  BY <1>1
<1>3. CASE f = base
  <2>1. ASSUME p \ {f} # {} PROVE FALSE
    <3>1. p \ {f} \in SUBSET Frame
      OBVIOUS
    <3>2. PICK x \in p \ {f} : \A y \in p \ {f} : x \notin Kids[y]
      BY <2>1, <3>1, ForestAssumption
    <3>3. QED
      BY <1>2, <1>3, <3>2
  <2>2. QED
    BY <2>1 DEF Chain
<1>4. CASE f # base
  BY <1>1, <1>2, <1>4, KidsType DEF Chain
<1>5. QED
  BY <1>3, <1>4

LEMMA ChainPush ==
  ASSUME NEW p, Chain(p), NEW x, p = {} \/ \E f \in p : x \in Kids[f]
  PROVE  Chain(p \cup {x})
BY DEF Chain

LEMMA InitType == Init => TypeInv
<1> SUFFICES ASSUME Init PROVE TypeInv
  OBVIOUS
<1>1. RootId \ OwnRoots \in SUBSET Frame
  BY DEF Frame
<1>2. TypeOK
  <2> USE DEF Init
  <2>1. /\ pc \in [Thread -> Label]
        /\ from \in [Thread -> {"own", "stolen", "none"}]
        /\ node \in [Thread -> Node \cup {NoNode}]
        /\ seen \in [Thread -> Nat]
        /\ block \in [Node -> Thread \cup {Fresh}]
    BY DEF Label
  <2>2. /\ path \in [Thread -> SUBSET Frame]
        /\ todo \in [Thread -> SUBSET Node]
        /\ rootsToSend \in [Thread -> SUBSET RootId]
        /\ lnodes \in [Thread -> SUBSET Node]
        /\ missed \in [Thread -> BOOLEAN]
    OBVIOUS
  <2>3. /\ terminate \in BOOLEAN
        /\ checkingSteal \in BOOLEAN
        /\ stealReq \in BOOLEAN
    OBVIOUS
  <2>4. /\ possibleRoots \in SUBSET RootId
        /\ extWork \in SUBSET Frame
    BY <1>1, OwnRootsType
  <2>5. QED
    BY <2>1, <2>2, <2>3, <2>4 DEF TypeOK
<1>3. ASSUME NEW t \in Thread PROVE Control(t)
  BY DEF Init, Control, Chain, Outside, Serving, InCallback
<1>4. QED
  BY <1>2, <1>3 DEF TypeInv

\* Every action keeps the types: one lemma per part of the program.
LEMMA RunLoopType ==
  ASSUME TypeInv, NEW t \in Thread, RunLoop(t)
  PROVE  TypeOK'
<1> USE DEF TypeInv, TypeOK, Label, Goto, At, vars, data, stack, locals,
            queues, flags, results, cluster, Outside, Serving,
            InCallback, Control
<1>1. CASE Outer(t)
  BY <1>1 DEF Outer, Move
<1>2. CASE PickLocal(t)
  BY <1>2, KidsType DEF PickLocal, Push
<1>3. CASE DequeueRoot(t)
  BY <1>3, KidsType DEF DequeueRoot
<1>4. CASE GetRoot(t)
  BY <1>4, KidsType DEF GetRoot
<1>5. CASE NoOwnData(t)
  BY <1>5 DEF NoOwnData, Serve, Kept
<1>6. CASE CallBack(t)
  BY <1>6, KidsType DEF CallBack, Serve, Kept
<1>7. CASE Return(t)
  <2>1. PICK f \in path[t] : ReturnFrom(t, f, path[t] # {f})
    BY <1>7 DEF Return
  <2>2. path[t] # {f} => f \in Node
    BY <2>1, ChainTop DEF ReturnFrom, IsTop
  <2>3. QED
    BY <1>7, <2>1, <2>2 DEF Return, ReturnFrom, Serve, Kept
<1>8. QED
  BY <1>1, <1>2, <1>3, <1>4, <1>5, <1>6, <1>7 DEF RunLoop

LEMMA ServeStealType ==
  ASSUME TypeInv, NEW t \in Thread, ServeSteal(t)
  PROVE  TypeOK'
<1> USE DEF TypeInv, TypeOK, Label, Goto, At, vars, data, stack, locals,
            queues, flags, results, cluster, Outside, Serving,
            InCallback, Control
<1>1. CASE TestAndSet(t)
  BY <1>1 DEF TestAndSet, SetFlag, Kept
<1>2. CASE Probe(t)
  BY <1>2 DEF Probe, Move
<1>3. CASE Drain(t)
  BY <1>3 DEF Drain, Move
<1>4. CASE TakeRoot(t)
  BY <1>4 DEF TakeRoot
<1>5. CASE SendRoots(t)
  BY <1>5, KidsType DEF SendRoots, SendSteal
<1>6. CASE SendNode(t)
  BY <1>6, KidsType DEF SendNode, SendSteal
<1>7. CASE SendNothing(t)
  BY <1>7 DEF SendNothing, Move
<1>8. CASE Clear(t)
  BY <1>8 DEF Clear, SetFlag, Returned, Kept
<1>9. QED
  BY <1>1, <1>2, <1>3, <1>4, <1>5, <1>6, <1>7, <1>8 DEF ServeSteal

LEMMA SolutionCbType ==
  ASSUME TypeInv, NEW t \in Thread, SolutionCb(t)
  PROVE  TypeOK'
<1> USE DEF TypeInv, TypeOK, Label, Goto, At, vars, data, stack, locals,
            queues, flags, results, cluster, Outside, Serving,
            InCallback, Control
<1>1. CASE ReadSize(t)
  BY <1>1, SizeType DEF ReadSize
<1>2. CASE DecideShare(t)
  BY <1>2 DEF DecideShare, Compare
<1>3. CASE KeepLocal(t)
  BY <1>3 DEF KeepLocal, Compare
<1>4. CASE Recurse(t)
  BY <1>4, KidsType DEF Recurse, Compare, Push
<1>5. CASE Share(t)
  BY <1>5 DEF Share, Enqueue
<1>6. CASE ReportSolution(t)
  BY <1>6, KidsType DEF ReportSolution
<1>7. QED
  BY <1>1, <1>2, <1>3, <1>4, <1>5, <1>6 DEF SolutionCb

LEMMA WaitType ==
  ASSUME TypeInv, NEW t \in Thread, Wait(t)
  PROVE  TypeOK'
<1> USE DEF TypeInv, TypeOK, Label, Goto, At, vars, data, stack, locals,
            queues, flags, results, cluster, Outside, Serving,
            InCallback, Control
<1>1. CASE StartWaiting(t)
  BY <1>1 DEF StartWaiting, Count
<1>2. CASE DequeueNode(t)
  BY <1>2 DEF DequeueNode
<1>3. CASE DequeueFails(t)
  BY <1>3 DEF DequeueFails
<1>4. CASE ReadTerminate(t)
  BY <1>4 DEF ReadTerminate, Move
<1>5. CASE ReadWaiting(t)
  BY <1>5 DEF ReadWaiting, Move
<1>6. CASE LeaveWithNode(t)
  BY <1>6, KidsType DEF LeaveWithNode, ListShared, Push
<1>7. CASE LeaveIdle(t)
  BY <1>7 DEF LeaveIdle, Count
<1>8. CASE Quit(t)
  BY <1>8 DEF Quit
<1>9. QED
  BY <1>1, <1>2, <1>3, <1>4, <1>5, <1>6, <1>7, <1>8 DEF Wait

LEMMA GetMoreWorkType ==
  ASSUME TypeInv, NEW t \in Thread, GetMoreWork(t)
  PROVE  TypeOK'
<1> USE DEF TypeInv, TypeOK, Label, Goto, At, vars, data, stack, locals,
            queues, flags, results, cluster, Outside, Serving,
            InCallback, Control
<1>1. CASE EnterMoreWork(t)
  BY <1>1 DEF EnterMoreWork, Count
<1>2. CASE Claim(t)
  BY <1>2 DEF Claim, SetFlag
<1>3. CASE CheckEmpty(t)
  BY <1>3 DEF CheckEmpty, Move
<1>4. CASE Ask(t)
  BY <1>4 DEF Ask
<1>5. CASE DiscardSteal(t)
  BY <1>5 DEF DiscardSteal
<1>6. CASE AnswerRoots(t)
  BY <1>6 DEF AnswerRoots, TakeRoots
<1>7. CASE AnswerSubtree(t)
  BY <1>7 DEF AnswerSubtree, Enqueue
<1>8. CASE AnswerNothing(t)
  BY <1>8 DEF AnswerNothing
<1>9. CASE ReleaseClaim(t)
  BY <1>9 DEF ReleaseClaim, SetFlag
<1>10. CASE LeaveMoreWork(t)
  BY <1>10 DEF LeaveMoreWork, Count
<1>11. QED
  BY <1>1, <1>2, <1>3, <1>4, <1>5, <1>6, <1>7, <1>8, <1>9,
     <1>10 DEF GetMoreWork, Answer

\* Every action leaves its thread with a call stack and a node that fit.
LEMMA RunLoopControl ==
  ASSUME TypeInv, NEW t \in Thread, RunLoop(t)
  PROVE  Control(t)'
<1> USE DEF TypeInv, TypeOK, Label, Goto, At, vars, data, stack, locals,
            queues, flags, results, cluster, Outside, Serving,
            InCallback, Control
<1>1. CASE Outer(t)
  BY <1>1 DEF Outer, Move
<1>2. CASE PickLocal(t)
  <2>1. path[t] = {}
    BY <1>2 DEF PickLocal
  <2>2. PICK x \in lnodes[t] : Push(t, x)
    BY <1>2 DEF PickLocal
  <2>3. Chain(path'[t])
    BY <2>1, <2>2 DEF Push, Chain
  <2>4. QED
    BY <1>2, <2>3 DEF PickLocal
<1>3. CASE DequeueRoot(t)
  BY <1>3 DEF DequeueRoot, Chain
<1>4. CASE GetRoot(t)
  BY <1>4 DEF GetRoot
<1>5. CASE NoOwnData(t)
  BY <1>5 DEF NoOwnData, Serve, Kept
<1>6. CASE CallBack(t)
  BY <1>6, KidsType DEF CallBack, Serve, Kept, IsTop
<1>7. CASE Return(t)
  BY <1>7, ChainTop, KidsType DEF Return, ReturnFrom, Serve, Kept, IsTop
<1>8. QED
  BY <1>1, <1>2, <1>3, <1>4, <1>5, <1>6, <1>7 DEF RunLoop

LEMMA ServeStealControl ==
  ASSUME TypeInv, NEW t \in Thread, ServeSteal(t)
  PROVE  Control(t)'
<1> USE DEF TypeInv, TypeOK, Label, Goto, At, vars, data, stack, locals,
            queues, flags, results, cluster, Outside, Serving,
            InCallback, Control
<1>1. CASE TestAndSet(t)
  BY <1>1 DEF TestAndSet, SetFlag, Kept
<1>2. CASE Probe(t)
  BY <1>2 DEF Probe, Move
<1>3. CASE Drain(t)
  BY <1>3 DEF Drain, Move
<1>4. CASE TakeRoot(t)
  BY <1>4 DEF TakeRoot
<1>5. CASE SendRoots(t)
  BY <1>5 DEF SendRoots, SendSteal
<1>6. CASE SendNode(t)
  BY <1>6 DEF SendNode, SendSteal
<1>7. CASE SendNothing(t)
  BY <1>7 DEF SendNothing, Move
<1>8. CASE Clear(t)
  BY <1>8 DEF Clear, SetFlag, Returned, Kept
<1>9. QED
  BY <1>1, <1>2, <1>3, <1>4, <1>5, <1>6, <1>7, <1>8 DEF ServeSteal

LEMMA SolutionCbControl ==
  ASSUME TypeInv, NEW t \in Thread, SolutionCb(t)
  PROVE  Control(t)'
<1> USE DEF TypeInv, TypeOK, Label, Goto, At, vars, data, stack, locals,
            queues, flags, results, cluster, Outside, Serving,
            InCallback, Control
<1>1. CASE ReadSize(t)
  BY <1>1 DEF ReadSize
<1>2. CASE DecideShare(t)
  BY <1>2 DEF DecideShare, Compare
<1>3. CASE KeepLocal(t)
  BY <1>3 DEF KeepLocal, Compare
<1>4. CASE Recurse(t)
  BY <1>4, ChainPush DEF Recurse, Compare, Push
<1>5. CASE Share(t)
  BY <1>5 DEF Share, Enqueue
<1>6. CASE ReportSolution(t)
  BY <1>6 DEF ReportSolution
<1>7. QED
  BY <1>1, <1>2, <1>3, <1>4, <1>5, <1>6 DEF SolutionCb

LEMMA WaitControl ==
  ASSUME TypeInv, NEW t \in Thread, Wait(t)
  PROVE  Control(t)'
<1> USE DEF TypeInv, TypeOK, Label, Goto, At, vars, data, stack, locals,
            queues, flags, results, cluster, Outside, Serving,
            InCallback, Control
<1>1. CASE StartWaiting(t)
  BY <1>1 DEF StartWaiting, Count
<1>2. CASE DequeueNode(t)
  BY <1>2 DEF DequeueNode
<1>3. CASE DequeueFails(t)
  BY <1>3 DEF DequeueFails
<1>4. CASE ReadTerminate(t)
  BY <1>4 DEF ReadTerminate, Move
<1>5. CASE ReadWaiting(t)
  BY <1>5 DEF ReadWaiting, Move
<1>6. CASE LeaveWithNode(t)
  BY <1>6, ChainPush DEF LeaveWithNode, ListShared, Push
<1>7. CASE LeaveIdle(t)
  BY <1>7 DEF LeaveIdle, Count
<1>8. CASE Quit(t)
  BY <1>8 DEF Quit
<1>9. QED
  BY <1>1, <1>2, <1>3, <1>4, <1>5, <1>6, <1>7, <1>8 DEF Wait

LEMMA GetMoreWorkControl ==
  ASSUME TypeInv, NEW t \in Thread, GetMoreWork(t)
  PROVE  Control(t)'
<1> USE DEF TypeInv, TypeOK, Label, Goto, At, vars, data, stack, locals,
            queues, flags, results, cluster, Outside, Serving,
            InCallback, Control
<1>1. CASE EnterMoreWork(t)
  BY <1>1 DEF EnterMoreWork, Count
<1>2. CASE Claim(t)
  BY <1>2 DEF Claim, SetFlag
<1>3. CASE CheckEmpty(t)
  BY <1>3 DEF CheckEmpty, Move
<1>4. CASE Ask(t)
  BY <1>4 DEF Ask
<1>5. CASE DiscardSteal(t)
  BY <1>5 DEF DiscardSteal
<1>6. CASE AnswerRoots(t)
  BY <1>6 DEF AnswerRoots, TakeRoots
<1>7. CASE AnswerSubtree(t)
  BY <1>7 DEF AnswerSubtree, Enqueue
<1>8. CASE AnswerNothing(t)
  BY <1>8 DEF AnswerNothing
<1>9. CASE ReleaseClaim(t)
  BY <1>9 DEF ReleaseClaim, SetFlag
<1>10. CASE LeaveMoreWork(t)
  BY <1>10 DEF LeaveMoreWork, Count
<1>11. QED
  BY <1>1, <1>2, <1>3, <1>4, <1>5, <1>6, <1>7, <1>8, <1>9,
     <1>10 DEF GetMoreWork, Answer

-----------------------------------------------------------------------
(* What a step of one thread may do to what the others rely on.            *)

\* It moves no other thread.
Alone(t) ==
  \A u \in Thread \ {t} :
    /\ pc'[u] = pc[u] /\ path'[u] = path[u] /\ node'[u] = node[u]
    /\ todo'[u] = todo[u] /\ lnodes'[u] = lnodes[u]
    /\ rootsToSend'[u] = rootsToSend[u] /\ from'[u] = from[u]
    /\ missed'[u] = missed[u]

\* It changes waiting when it enters or leaves Counted, and only then.
Tally(t) ==
  \/ waiting' = waiting /\ (pc'[t] \in Counted <=> pc[t] \in Counted)
  \/ waiting' = waiting + 1 /\ pc[t] \notin Counted /\ pc'[t] \in Counted
  \/ waiting' = waiting - 1 /\ pc[t] \in Counted /\ pc'[t] \notin Counted

\* It takes the flag only when it is clear, and clears only its own.
Lock(t) ==
  \/ /\ checkingSteal' = checkingSteal
     /\ pc'[t] \in Holding <=> pc[t] \in Holding
  \/ /\ ~checkingSteal /\ checkingSteal'
     /\ pc'[t] \in Holding
  \/ /\ ~checkingSteal'
     /\ pc[t] \in Holding
     /\ pc'[t] \notin Holding

\* It receives a steal request only while it holds the flag, and relies on
\* one only after it has seen it.
Grip(t) ==
  /\ pc'[t] \in {"drain", "take", "send"} => stealReq'
  /\ stealReq => stealReq' \/ pc[t] \in Holding

Effects(t) == Alone(t) /\ Tally(t) /\ Lock(t) /\ Grip(t)

\* Every action has only those effects.
LEMMA RunLoopEffects ==
  ASSUME TypeInv, ProbeStillTrue, NEW t \in Thread, RunLoop(t)
  PROVE  Effects(t)
<1> USE DEF TypeInv, TypeOK, Label, Goto, At, vars, data, stack, locals,
            queues, flags, results, cluster, Control, Outside,
            Serving, InCallback, Counted, Holding, ProbeStillTrue, Effects,
            Alone, Tally, Lock, Grip
<1>1. CASE Outer(t)
  BY <1>1 DEF Outer, Move
<1>2. CASE PickLocal(t)
  BY <1>2 DEF PickLocal, Push
<1>3. CASE DequeueRoot(t)
  BY <1>3 DEF DequeueRoot
<1>4. CASE GetRoot(t)
  BY <1>4 DEF GetRoot
<1>5. CASE NoOwnData(t)
  BY <1>5 DEF NoOwnData, Serve, Kept
<1>6. CASE CallBack(t)
  BY <1>6 DEF CallBack, Serve, Kept
<1>7. CASE Return(t)
  BY <1>7 DEF Return, ReturnFrom, Serve, Kept
<1>8. QED
  BY <1>1, <1>2, <1>3, <1>4, <1>5, <1>6, <1>7 DEF RunLoop

LEMMA ServeStealEffects ==
  ASSUME TypeInv, ProbeStillTrue, NEW t \in Thread, ServeSteal(t)
  PROVE  Effects(t)
<1> USE DEF TypeInv, TypeOK, Label, Goto, At, vars, data, stack, locals,
            queues, flags, results, cluster, Control, Outside,
            Serving, InCallback, Counted, Holding, ProbeStillTrue, Effects,
            Alone, Tally, Lock, Grip
<1>1. CASE TestAndSet(t)
  BY <1>1 DEF TestAndSet, SetFlag, Kept
<1>2. CASE Probe(t)
  BY <1>2 DEF Probe, Move
<1>3. CASE Drain(t)
  BY <1>3 DEF Drain, Move
<1>4. CASE TakeRoot(t)
  BY <1>4 DEF TakeRoot
<1>5. CASE SendRoots(t)
  BY <1>5 DEF SendRoots, SendSteal
<1>6. CASE SendNode(t)
  BY <1>6 DEF SendNode, SendSteal
<1>7. CASE SendNothing(t)
  BY <1>7 DEF SendNothing, Move
<1>8. CASE Clear(t)
  BY <1>8 DEF Clear, SetFlag, Returned, Kept
<1>9. QED
  BY <1>1, <1>2, <1>3, <1>4, <1>5, <1>6, <1>7, <1>8 DEF ServeSteal

LEMMA SolutionCbEffects ==
  ASSUME TypeInv, ProbeStillTrue, NEW t \in Thread, SolutionCb(t)
  PROVE  Effects(t)
<1> USE DEF TypeInv, TypeOK, Label, Goto, At, vars, data, stack, locals,
            queues, flags, results, cluster, Control, Outside,
            Serving, InCallback, Counted, Holding, ProbeStillTrue, Effects,
            Alone, Tally, Lock, Grip
<1>1. CASE ReadSize(t)
  BY <1>1 DEF ReadSize
<1>2. CASE DecideShare(t)
  BY <1>2 DEF DecideShare, Compare
<1>3. CASE KeepLocal(t)
  BY <1>3 DEF KeepLocal, Compare
<1>4. CASE Recurse(t)
  BY <1>4 DEF Recurse, Compare, Push
<1>5. CASE Share(t)
  BY <1>5 DEF Share, Enqueue
<1>6. CASE ReportSolution(t)
  BY <1>6 DEF ReportSolution
<1>7. QED
  BY <1>1, <1>2, <1>3, <1>4, <1>5, <1>6 DEF SolutionCb

LEMMA WaitEffects ==
  ASSUME TypeInv, ProbeStillTrue, NEW t \in Thread, Wait(t)
  PROVE  Effects(t)
<1> USE DEF TypeInv, TypeOK, Label, Goto, At, vars, data, stack, locals,
            queues, flags, results, cluster, Control, Outside,
            Serving, InCallback, Counted, Holding, ProbeStillTrue, Effects,
            Alone, Tally, Lock, Grip
<1>1. CASE StartWaiting(t)
  BY <1>1 DEF StartWaiting, Count
<1>2. CASE DequeueNode(t)
  BY <1>2 DEF DequeueNode
<1>3. CASE DequeueFails(t)
  BY <1>3 DEF DequeueFails
<1>4. CASE ReadTerminate(t)
  BY <1>4 DEF ReadTerminate, Move
<1>5. CASE ReadWaiting(t)
  BY <1>5 DEF ReadWaiting, Move
<1>6. CASE LeaveWithNode(t)
  BY <1>6 DEF LeaveWithNode, ListShared, Push
<1>7. CASE LeaveIdle(t)
  BY <1>7 DEF LeaveIdle, Count
<1>8. CASE Quit(t)
  BY <1>8 DEF Quit
<1>9. QED
  BY <1>1, <1>2, <1>3, <1>4, <1>5, <1>6, <1>7, <1>8 DEF Wait

LEMMA GetMoreWorkEffects ==
  ASSUME TypeInv, ProbeStillTrue, NEW t \in Thread, GetMoreWork(t)
  PROVE  Effects(t)
<1> USE DEF TypeInv, TypeOK, Label, Goto, At, vars, data, stack, locals,
            queues, flags, results, cluster, Control, Outside,
            Serving, InCallback, Counted, Holding, ProbeStillTrue, Effects,
            Alone, Tally, Lock, Grip
<1>1. CASE EnterMoreWork(t)
  BY <1>1 DEF EnterMoreWork, Count
<1>2. CASE Claim(t)
  BY <1>2 DEF Claim, SetFlag
<1>3. CASE CheckEmpty(t)
  BY <1>3 DEF CheckEmpty, Move
<1>4. CASE Ask(t)
  BY <1>4 DEF Ask
<1>5. CASE DiscardSteal(t)
  BY <1>5 DEF DiscardSteal
<1>6. CASE AnswerRoots(t)
  BY <1>6 DEF AnswerRoots, TakeRoots
<1>7. CASE AnswerSubtree(t)
  BY <1>7 DEF AnswerSubtree, Enqueue
<1>8. CASE AnswerNothing(t)
  BY <1>8 DEF AnswerNothing
<1>9. CASE ReleaseClaim(t)
  BY <1>9 DEF ReleaseClaim, SetFlag
<1>10. CASE LeaveMoreWork(t)
  BY <1>10 DEF LeaveMoreWork, Count
<1>11. QED
  BY <1>1, <1>2, <1>3, <1>4, <1>5, <1>6, <1>7, <1>8, <1>9,
     <1>10 DEF GetMoreWork, Answer

LEMMA StepType ==
  ASSUME TypeInv, NEW t \in Thread, Step(t)
  PROVE  TypeOK' /\ Control(t)'
BY RunLoopType, ServeStealType, SolutionCbType, WaitType, GetMoreWorkType,
   RunLoopControl, ServeStealControl, SolutionCbControl, WaitControl,
   GetMoreWorkControl DEF Step

LEMMA StepEffects ==
  ASSUME TypeInv, ProbeStillTrue, NEW t \in Thread, Step(t)
  PROVE  Effects(t)
BY RunLoopEffects, ServeStealEffects, SolutionCbEffects, WaitEffects,
   GetMoreWorkEffects DEF Step

\* All threads leave a barrier together: their number in waiting, which they
\* leave alone, stays right because both sides of the first barrier are
\* counted and neither side of the second one is.
LEMMA BarrierStep ==
  ASSUME TypeInv, OneInMpi, ProbeStillTrue, Barrier1 \/ Barrier2
  PROVE  /\ TypeInv' /\ OneInMpi' /\ ProbeStillTrue'
         /\ waiting' = waiting
         /\ \A t \in Thread : pc'[t] \in Counted <=> pc[t] \in Counted
<1> USE DEF Barrier1, Barrier2, Release, vars, data, stack, locals, queues,
            flags, results, cluster, At
<1>1. TypeOK'
  BY DEF TypeInv, TypeOK, Label
<1>2. ASSUME NEW t \in Thread PROVE Control(t)'
  BY DEF TypeInv, Control, Outside, Serving, InCallback
<1>3. \A t \in Thread : pc[t] \notin Holding /\ pc'[t] \notin Holding
  BY DEF Holding
<1>4. OneInMpi' /\ ProbeStillTrue'
  BY <1>3 DEF OneInMpi, ProbeStillTrue, Holding
<1>5. \A t \in Thread : pc'[t] \in Counted <=> pc[t] \in Counted
  BY DEF Counted
<1>6. QED
  BY <1>1, <1>2, <1>4, <1>5 DEF TypeInv

\* The environment moves no thread.
LEMMA EnvStep ==
  ASSUME TypeInv, ProbeStillTrue, EnvSteal \/ EnvWork
  PROVE  TypeInv' /\ ProbeStillTrue'
         /\ UNCHANGED <<pc, waiting, checkingSteal>>
<1> USE DEF stack, locals, queues, flags, results
<1>1. TypeOK'
  <2>1. CASE EnvSteal
    BY <2>1 DEF EnvSteal, TypeInv, TypeOK
  <2>2. CASE EnvWork
    BY <2>2, KidsType DEF EnvWork, TypeInv, TypeOK
  <2>3. QED
    BY <2>1, <2>2
<1>2. UNCHANGED <<pc, path, node, waiting, checkingSteal>>
  BY DEF EnvSteal, EnvWork
<1>3. stealReq => stealReq'
  BY DEF EnvSteal, EnvWork, TypeInv, TypeOK
<1>4. QED
  BY <1>1, <1>2, <1>3 DEF TypeInv, Control, ProbeStillTrue
-----------------------------------------------------------------------
(* The invariant of the two flags and of waiting                           *)

IInv == TypeInv /\ OneInMpi /\ ProbeStillTrue /\ WaitingExact

LEMMA InitInv == Init => IInv
<1> SUFFICES ASSUME Init PROVE IInv
  OBVIOUS
<1>1. {t \in Thread : pc[t] \in Counted} = {}
  BY DEF Init, Counted
<1>2. WaitingExact
  BY <1>1, FS_EmptySet DEF Init, WaitingExact
<1>3. OneInMpi /\ ProbeStillTrue
  BY DEF Init, OneInMpi, ProbeStillTrue, Holding
<1>4. QED
  BY <1>2, <1>3, InitType DEF IInv

\* One thread counts itself in or out: the counter follows the set.
LEMMA TallyExact ==
  ASSUME TypeOK, WaitingExact, NEW t \in Thread, Alone(t), Tally(t)
  PROVE  WaitingExact'
<1> DEFINE S == {u \in Thread : pc[u] \in Counted}
           T == {u \in Thread : pc'[u] \in Counted}
<1>1. IsFiniteSet(S) /\ Cardinality(S) = waiting /\ waiting \in Nat
  <2>1. IsFiniteSet(S)
    BY WorkStealAssumption, FS_Subset
  <2>2. QED
    BY <2>1, FS_CardinalityType DEF WaitingExact
<1>2. Cardinality(T) = waiting'
  <2>1. CASE waiting' = waiting /\ (pc'[t] \in Counted <=> pc[t] \in Counted)
    <3>1. T = S
      BY <2>1 DEF Alone
    <3>2. QED
      BY <1>1, <2>1, <3>1
  <2>2. CASE waiting' = waiting + 1 /\ pc[t] \notin Counted
             /\ pc'[t] \in Counted
    <3>1. T = S \cup {t} /\ t \notin S
      BY <2>2 DEF Alone
    <3>2. QED
      BY <1>1, <2>2, <3>1, FS_AddElement
  <2>3. CASE waiting' = waiting - 1 /\ pc[t] \in Counted
             /\ pc'[t] \notin Counted
    <3>1. T = S \ {t} /\ t \in S
      BY <2>3 DEF Alone
    <3> HIDE DEF S, T
    <3>2. Cardinality(S \ {t}) = Cardinality(S) - 1
      BY <1>1, <3>1, FS_RemoveElement
    <3>3. QED
      BY <1>1, <2>3, <3>1, <3>2
  <2>4. QED
    BY <2>1, <2>2, <2>3 DEF Tally
<1>3. QED
  BY <1>2 DEF WaitingExact

\* At most one thread holds the flag after a step, and the request it has
\* seen is not received by another one.
LEMMA LockExclusive ==
  ASSUME OneInMpi, ProbeStillTrue, NEW t \in Thread,
         Alone(t), Lock(t), Grip(t)
  PROVE  OneInMpi' /\ ProbeStillTrue'
<1>1. OneInMpi'
  <2> DEFINE Frees == ~checkingSteal' /\ pc[t] \in Holding
                      /\ pc'[t] \notin Holding
             Takes == ~checkingSteal /\ checkingSteal' /\ pc'[t] \in Holding
             Keeps == /\ checkingSteal' = checkingSteal
                      /\ pc'[t] \in Holding <=> pc[t] \in Holding
  <2>1. CASE Keeps
    BY <2>1 DEF OneInMpi, Alone
  <2>2. CASE Takes
    BY <2>2 DEF OneInMpi, Alone
  <2>3. CASE Frees
    BY <2>3 DEF OneInMpi, Alone
  <2>4. QED
    BY <2>1, <2>2, <2>3 DEF Lock
<1>2. ASSUME NEW u \in Thread, pc'[u] \in {"drain", "take", "send"}
      PROVE  stealReq'
  <2>1. CASE u = t
    BY <1>2, <2>1 DEF Grip
  <2>2. CASE u # t
    <3>1. pc[u] \in {"drain", "take", "send"} /\ pc[u] \in Holding
      BY <1>2, <2>2 DEF Alone, Holding
    <3>2. stealReq
      BY <3>1 DEF ProbeStillTrue
    <3>3. pc[t] \notin Holding
      BY <2>2, <3>1 DEF OneInMpi
    <3>4. QED
      BY <3>2, <3>3 DEF Grip
  <2>3. QED
    BY <2>1, <2>2
<1>3. QED
  BY <1>1, <1>2 DEF ProbeStillTrue

LEMMA Inductive == IInv /\ [Next]_vars => IInv'
<1> SUFFICES ASSUME IInv, [Next]_vars PROVE IInv'
  OBVIOUS
<1>1. ASSUME NEW t \in Thread, Step(t) PROVE IInv'
  <2>1. TypeOK' /\ Control(t)'
    BY <1>1, StepType DEF IInv
  <2>2. Effects(t)
    BY <1>1, StepEffects DEF IInv
  <2>3. \A u \in Thread : Control(u)'
    <3>1. ASSUME NEW u \in Thread \ {t} PROVE Control(u)'
      <4>1. pc'[u] = pc[u] /\ path'[u] = path[u] /\ node'[u] = node[u]
        BY <2>2 DEF Effects, Alone
      <4>2. Control(u)
        BY DEF IInv, TypeInv
      <4>3. QED
        BY <4>1, <4>2 DEF Control
    <3>2. QED
      BY <2>1, <3>1
  <2>4. WaitingExact'
    BY <2>2, TallyExact DEF IInv, TypeInv, Effects
  <2>5. OneInMpi' /\ ProbeStillTrue'
    BY <2>2, LockExclusive DEF IInv, Effects
  <2>6. QED
    BY <2>1, <2>3, <2>4, <2>5 DEF IInv, TypeInv
<1>2. CASE Barrier1 \/ Barrier2
  <2>1. {t \in Thread : pc'[t] \in Counted}
          = {t \in Thread : pc[t] \in Counted}
    BY <1>2, BarrierStep DEF IInv
  <2>2. QED
    BY <1>2, <2>1, BarrierStep DEF IInv, WaitingExact
<1>3. CASE EnvSteal \/ EnvWork
  BY <1>3, EnvStep DEF IInv, OneInMpi, WaitingExact
<1>4. CASE UNCHANGED vars
  BY <1>4 DEF vars, data, stack, locals, queues, flags, results, cluster,
              IInv, TypeInv, TypeOK, Control, OneInMpi, ProbeStillTrue,
              WaitingExact
<1>5. QED
  BY <1>1, <1>2, <1>3, <1>4 DEF Next, Joined

LEMMA Invariant == Spec => []IInv
BY InitInv, Inductive, PTL DEF Spec
-----------------------------------------------------------------------
\* Every variable keeps its type; in particular no thread ever shares, keeps
\* or reports dummyNode, which is not a node.
THEOREM Types == Spec => []TypeOK
<1>1. IInv => TypeOK
  BY DEF IInv, TypeInv
<1>2. QED
  BY <1>1, Invariant, PTL

\* checkingSteal is a lock: however ServeSteal, called at every node, and the
\* request for more work interleave, one thread of the process uses MPI.
THEOREM OneThreadInMpi == Spec => []OneInMpi
<1>1. IInv => OneInMpi
  BY DEF IInv
<1>2. QED
  BY <1>1, Invariant, PTL

\* The steal request that CheckStealRequest saw is there to be received when
\* SendSteal, after its pass through the queue of roots, receives it.
THEOREM RequestIsThere == Spec => []ProbeStillTrue
<1>1. IInv => ProbeStillTrue
  BY DEF IInv
<1>2. QED
  BY <1>1, Invariant, PTL

\* waiting counts the threads between its two increments and decrements,
\* for any number of threads: it never drifts from round to round.
THEOREM WaitingCounts == Spec => []WaitingExact
<1>1. IInv => WaitingExact
  BY DEF IInv
<1>2. QED
  BY <1>1, Invariant, PTL
-----------------------------------------------------------------------
(* What the threads do once, whichever of them and of the processes: no    *)
(* root is opened, no node is listed and none is reported twice.           *)

\* A thread that has a node which is not listed, nor in any queue.
InHand == Serving \cup {"size", "compare", "share", "leave"}

\* The frames that only thread t can begin or pass on.
Mine(t) ==
  lnodes[t] \cup rootsToSend[t] \cup todo[t]
    \cup (IF At(t, "open") THEN path[t] ELSE {})
    \cup (IF pc[t] \in InHand THEN {node[t]} \ {NoNode} ELSE {})

\* No frame is at two places in one thread.
Tidy(t) ==
  /\ pc[t] \notin {"drain", "take", "send"} => rootsToSend[t] = {}
  /\ pc[t] \in InHand => node[t] \notin lnodes[t] \cup todo[t]
  /\ lnodes[t] \cap todo[t] = {}
  /\ \A x \in todo[t] : \E f \in path[t] : x \in Kids[f]
  /\ At(t, "open") => todo[t] = {} /\ \E r \in RootId : path[t] = {r}

\* No frame is at two places of the process and the cluster.
Apart ==
  /\ possibleRoots \cap extWork = {}
  /\ gnodes \cap extWork = {}
  /\ listed \cap (possibleRoots \cup gnodes \cup extWork) = {}
  /\ \A t \in Thread :
       Mine(t) \cap (possibleRoots \cup gnodes \cup extWork \cup listed) = {}
  /\ \A t, u \in Thread : t # u => Mine(t) \cap Mine(u) = {}

\* What a frame would call back with is nowhere until the frame is begun.
Unborn ==
  \A f \in Frame \ listed :
    /\ Kids[f] \cap (gnodes \cup extWork \cup listed) = {}
    /\ \A t \in Thread : Kids[f] \cap Mine(t) = {}

PlaceInv == (\A t \in Thread : Tidy(t)) /\ Apart /\ Unborn

-----------------------------------------------------------------------
(* What a step does to the places of the frames                            *)

\* What thread t holds, and the queues and the rest of the cluster.
Waiting(t) == Mine(t) \cup possibleRoots \cup gnodes \cup extWork

\* It moves frames from one place to another.
Moves(t) ==
  /\ Waiting(t)' \subseteq Waiting(t)
  /\ listed' = listed
  /\ possibleRoots' \cap extWork' = {}
  /\ gnodes' \cap extWork' = {}
  /\ Mine(t)' \cap (possibleRoots' \cup gnodes' \cup extWork') = {}

\* It begins the frame x, and holds what that calls back with.
Begins(t, x) ==
  /\ x \in Mine(t)
  /\ Mine(t)' \subseteq (Mine(t) \ {x}) \cup Kids[x]
  /\ listed' = listed \cup {x}
  /\ UNCHANGED <<possibleRoots, gnodes, extWork>>

Flow(t) == Moves(t) \/ \E x \in Frame : Begins(t, x)

\* Every action moves frames, or begins one.
LEMMA RunLoopFlow ==
  ASSUME TypeInv, PlaceInv, NEW t \in Thread, RunLoop(t)
  PROVE  Flow(t)
<1> USE DEF TypeInv, TypeOK, Label, Goto, At, vars, data, stack, locals,
            queues, flags, results, cluster, Control, Outside,
            Serving, InCallback, PlaceInv, Tidy, Apart, Mine, InHand, Flow,
            Moves, Waiting
<1>1. CASE Outer(t)
  BY <1>1 DEF Outer, Move
<1>2. CASE PickLocal(t)
  <2>1. PICK x \in lnodes[t] :
          /\ x \in Frame /\ x \in Mine(t) /\ listed' = listed \cup {x}
          /\ Mine(t)' \subseteq (Mine(t) \ {x}) \cup Kids[x]
    BY <1>2, KidsType DEF PickLocal, Push
  <2>2. UNCHANGED <<possibleRoots, gnodes, extWork>>
    BY <1>2 DEF PickLocal, Push
  <2>3. QED
    BY <2>1, <2>2 DEF Begins
<1>3. CASE DequeueRoot(t)
  <2>1. PICK r \in possibleRoots : /\ possibleRoots' = possibleRoots \ {r}
                                 /\ path'[t] = {r}
    BY <1>3 DEF DequeueRoot
  <2>2. Mine(t) = lnodes[t] \cup rootsToSend[t] \cup todo[t]
    BY <1>3 DEF DequeueRoot
  <2>3. Mine(t)' = lnodes[t] \cup rootsToSend[t] \cup todo[t] \cup {r}
    BY <1>3, <2>1 DEF DequeueRoot
  <2>4. UNCHANGED <<listed, gnodes, extWork>>
    BY <1>3 DEF DequeueRoot
  <2>5. /\ Mine(t) \cap (possibleRoots \cup gnodes \cup extWork) = {}
        /\ possibleRoots \cap extWork = {} /\ gnodes \cap extWork = {}
        /\ possibleRoots \cap gnodes = {}
    BY ForestAssumption DEF Apart
  <2>6. QED
    <3> HIDE DEF Mine, TypeOK, Control, Tidy, Apart, TypeInv, PlaceInv
    <3>1. QED
      BY <2>1, <2>2, <2>3, <2>4, <2>5
<1>4. CASE GetRoot(t)
  <2>1. PICK x \in path[t] : /\ todo' = [todo EXCEPT ![t] = Kids[x]]
                           /\ listed' = listed \cup {x}
    BY <1>4 DEF GetRoot
  <2>2. path[t] = {x} /\ x \in RootId /\ x \in Frame /\ x \in Mine(t)
    BY <1>4, <2>1, KidsType DEF GetRoot
  <2>3. x \notin lnodes[t] /\ rootsToSend[t] = {}
    BY <1>4, <2>2, ForestAssumption DEF GetRoot
  <2>4. Mine(t)' = lnodes[t] \cup Kids[x]
    BY <1>4, <2>1, <2>3 DEF GetRoot
  <2>5. Mine(t)' \subseteq (Mine(t) \ {x}) \cup Kids[x]
    BY <2>3, <2>4
  <2>6. UNCHANGED <<possibleRoots, gnodes, extWork>>
    BY <1>4 DEF GetRoot
  <2>7. QED
    BY <2>1, <2>2, <2>5, <2>6 DEF Begins
<1>5. CASE NoOwnData(t)
  BY <1>5 DEF NoOwnData, Serve, Kept
<1>6. CASE CallBack(t)
  BY <1>6, KidsType DEF CallBack, Serve, Kept, IsTop
<1>7. CASE Return(t)
  BY <1>7 DEF Return, ReturnFrom, Serve, Kept, IsTop
<1>8. QED
  BY <1>1, <1>2, <1>3, <1>4, <1>5, <1>6, <1>7 DEF RunLoop

LEMMA ServeStealFlow ==
  ASSUME TypeInv, PlaceInv, NEW t \in Thread, ServeSteal(t)
  PROVE  Flow(t)
<1> USE DEF TypeInv, TypeOK, Label, Goto, At, vars, data, stack, locals,
            queues, flags, results, cluster, Control, Outside,
            Serving, InCallback, PlaceInv, Tidy, Apart, Mine, InHand, Flow,
            Moves, Waiting
<1>1. CASE TestAndSet(t)
  BY <1>1 DEF TestAndSet, SetFlag, Kept
<1>2. CASE Probe(t)
  BY <1>2 DEF Probe, Move
<1>3. CASE Drain(t)
  BY <1>3 DEF Drain, Move
<1>4. CASE TakeRoot(t)
  <2>1. UNCHANGED <<listed, gnodes, extWork>>
    BY <1>4 DEF TakeRoot
  <2>2. CASE UNCHANGED <<possibleRoots, rootsToSend>>
    BY <1>4, <2>1, <2>2 DEF TakeRoot
  <2>3. CASE \E r \in possibleRoots :
               /\ possibleRoots' = possibleRoots \ {r}
               /\ rootsToSend' = [rootsToSend EXCEPT ![t] = @ \cup {r}]
    <3>1. PICK r \in possibleRoots :
            /\ possibleRoots' = possibleRoots \ {r}
            /\ rootsToSend' = [rootsToSend EXCEPT ![t] = @ \cup {r}]
      BY <2>3
    <3>2. Mine(t)' = Mine(t) \cup {r}
      BY <1>4, <3>1, KidsType DEF TakeRoot
    <3>3. /\ Mine(t) \cap (possibleRoots \cup gnodes \cup extWork) = {}
          /\ possibleRoots \cap extWork = {} /\ gnodes \cap extWork = {}
          /\ possibleRoots \cap gnodes = {}
      BY ForestAssumption DEF Apart
    <3>4. QED
      <4> HIDE DEF Mine, TypeOK, Control, Tidy, Apart, TypeInv, PlaceInv
      <4>1. QED
        BY <2>1, <3>1, <3>2, <3>3
  <2>4. \/ UNCHANGED <<possibleRoots, rootsToSend>>
        \/ \E r \in possibleRoots :
               /\ possibleRoots' = possibleRoots \ {r}
               /\ rootsToSend' = [rootsToSend EXCEPT ![t] = @ \cup {r}]
    BY <1>4 DEF TakeRoot
  <2>5. QED
    BY <2>2, <2>3, <2>4
<1>5. CASE SendRoots(t)
  <2>1. /\ Mine(t)' = Mine(t) \ rootsToSend[t]
        /\ rootsToSend[t] \subseteq Mine(t)
    BY <1>5, KidsType, ForestAssumption DEF SendRoots, SendSteal
  <2>2. /\ extWork' = extWork \cup rootsToSend[t]
        /\ UNCHANGED <<listed, possibleRoots, gnodes>>
    BY <1>5 DEF SendRoots, SendSteal
  <2>3. QED
    BY <2>1, <2>2
<1>6. CASE SendNode(t)
  BY <1>6, KidsType DEF SendNode, SendSteal
<1>7. CASE SendNothing(t)
  BY <1>7 DEF SendNothing, Move
<1>8. CASE Clear(t)
  BY <1>8 DEF Clear, SetFlag, Returned, Kept
<1>9. QED
  BY <1>1, <1>2, <1>3, <1>4, <1>5, <1>6, <1>7, <1>8 DEF ServeSteal

LEMMA SolutionCbFlow ==
  ASSUME TypeInv, PlaceInv, NEW t \in Thread, SolutionCb(t)
  PROVE  Flow(t)
<1> USE DEF TypeInv, TypeOK, Label, Goto, At, vars, data, stack, locals,
            queues, flags, results, cluster, Control, Outside,
            Serving, InCallback, PlaceInv, Tidy, Apart, Mine, InHand, Flow,
            Moves, Waiting
<1>1. CASE ReadSize(t)
  BY <1>1 DEF ReadSize
<1>2. CASE DecideShare(t)
  BY <1>2 DEF DecideShare, Compare
<1>3. CASE KeepLocal(t)
  BY <1>3, KidsType DEF KeepLocal, Compare
<1>4. CASE Recurse(t)
  <2>1. PICK x \in {node[t]} :
          /\ x \in Frame /\ x \in Mine(t) /\ listed' = listed \cup {x}
          /\ Mine(t)' \subseteq (Mine(t) \ {x}) \cup Kids[x]
    BY <1>4, KidsType, SMTT(30) DEF Recurse, Compare, Push
  <2>2. UNCHANGED <<possibleRoots, gnodes, extWork>>
    BY <1>4 DEF Recurse, Compare, Push
  <2>3. QED
    BY <2>1, <2>2 DEF Begins
<1>5. CASE Share(t)
  <2>1. node[t] \in Mine(t) /\ node[t] \in Node
    BY <1>5, KidsType DEF Share
  <2>2. Mine(t)' = Mine(t) \ {node[t]}
    <3>1. Mine(t) = lnodes[t] \cup rootsToSend[t] \cup todo[t] \cup {node[t]}
      BY <1>5, <2>1, KidsType DEF Share
    <3>2. Mine(t)' = lnodes[t] \cup rootsToSend[t] \cup todo[t]
      BY <1>5 DEF Share
    <3>3. node[t] \notin lnodes[t] \cup rootsToSend[t] \cup todo[t]
      BY <1>5 DEF Share
    <3>4. QED
      <4> HIDE DEF Mine
      <4>1. QED
        BY <3>1, <3>2, <3>3
  <2>3. /\ gnodes' = gnodes \cup {node[t]}
        /\ UNCHANGED <<listed, possibleRoots, extWork>>
    BY <1>5 DEF Share, Enqueue
  <2>4. /\ Mine(t) \cap (possibleRoots \cup gnodes \cup extWork) = {}
        /\ possibleRoots \cap extWork = {} /\ gnodes \cap extWork = {}
        /\ possibleRoots \cap gnodes = {}
    BY ForestAssumption DEF Apart
  <2>5. QED
    <3> HIDE DEF Mine, TypeOK, Control, Tidy, Apart, TypeInv, PlaceInv
    <3>1. QED
      BY <2>1, <2>2, <2>3, <2>4
<1>6. CASE ReportSolution(t)
  BY <1>6 DEF ReportSolution
<1>7. QED
  BY <1>1, <1>2, <1>3, <1>4, <1>5, <1>6 DEF SolutionCb

LEMMA WaitFlow ==
  ASSUME TypeInv, PlaceInv, NEW t \in Thread, Wait(t)
  PROVE  Flow(t)
<1> USE DEF TypeInv, TypeOK, Label, Goto, At, vars, data, stack, locals,
            queues, flags, results, cluster, Control, Outside,
            Serving, InCallback, PlaceInv, Tidy, Apart, Mine, InHand, Flow,
            Moves, Waiting
<1>1. CASE StartWaiting(t)
  BY <1>1 DEF StartWaiting, Count
<1>2. CASE DequeueNode(t)
  <2>1. PICK x \in gnodes : gnodes' = gnodes \ {x} /\ node'[t] = x
    BY <1>2 DEF DequeueNode
  <2>2. x \in Frame /\ x # NoNode /\ Mine(t)' = Mine(t) \cup {x}
    BY <1>2, <2>1, KidsType DEF DequeueNode
  <2>3. UNCHANGED <<listed, possibleRoots, extWork>>
    BY <1>2 DEF DequeueNode
  <2>4. /\ Mine(t) \cap (possibleRoots \cup gnodes \cup extWork) = {}
        /\ possibleRoots \cap extWork = {} /\ gnodes \cap extWork = {}
        /\ possibleRoots \cap gnodes = {}
    BY ForestAssumption DEF Apart
  <2>5. QED
    <3> HIDE DEF Mine, TypeOK, Control, Tidy, Apart, TypeInv, PlaceInv
    <3>1. QED
      BY <2>1, <2>2, <2>3, <2>4
<1>3. CASE DequeueFails(t)
  BY <1>3 DEF DequeueFails
<1>4. CASE ReadTerminate(t)
  BY <1>4 DEF ReadTerminate, Move
<1>5. CASE ReadWaiting(t)
  BY <1>5 DEF ReadWaiting, Move
<1>6. CASE LeaveWithNode(t)
  <2>1. PICK x \in {node[t]} :
          /\ x \in Frame /\ x \in Mine(t) /\ listed' = listed \cup {x}
          /\ Mine(t)' \subseteq (Mine(t) \ {x}) \cup Kids[x]
    BY <1>6, KidsType DEF LeaveWithNode, ListShared, Push
  <2>2. UNCHANGED <<possibleRoots, gnodes, extWork>>
    BY <1>6 DEF LeaveWithNode, ListShared, Push
  <2>3. QED
    BY <2>1, <2>2 DEF Begins
<1>7. CASE LeaveIdle(t)
  BY <1>7 DEF LeaveIdle, Count
<1>8. CASE Quit(t)
  BY <1>8 DEF Quit
<1>9. QED
  BY <1>1, <1>2, <1>3, <1>4, <1>5, <1>6, <1>7, <1>8 DEF Wait

LEMMA GetMoreWorkFlow ==
  ASSUME TypeInv, PlaceInv, NEW t \in Thread, GetMoreWork(t)
  PROVE  Flow(t)
<1> USE DEF TypeInv, TypeOK, Label, Goto, At, vars, data, stack, locals,
            queues, flags, results, cluster, Control, Outside,
            Serving, InCallback, PlaceInv, Tidy, Apart, Mine, InHand, Flow,
            Moves, Waiting
<1>1. CASE EnterMoreWork(t)
  BY <1>1 DEF EnterMoreWork, Count
<1>2. CASE Claim(t)
  BY <1>2 DEF Claim, SetFlag
<1>3. CASE CheckEmpty(t)
  BY <1>3 DEF CheckEmpty, Move
<1>4. CASE Ask(t)
  BY <1>4 DEF Ask
<1>5. CASE DiscardSteal(t)
  BY <1>5 DEF DiscardSteal
<1>6. CASE AnswerRoots(t)
  BY <1>6, KidsType DEF AnswerRoots, TakeRoots
<1>7. CASE AnswerSubtree(t)
  BY <1>7, KidsType DEF AnswerSubtree, Enqueue
<1>8. CASE AnswerNothing(t)
  BY <1>8 DEF AnswerNothing
<1>9. CASE ReleaseClaim(t)
  BY <1>9 DEF ReleaseClaim, SetFlag
<1>10. CASE LeaveMoreWork(t)
  BY <1>10 DEF LeaveMoreWork, Count
<1>11. QED
  BY <1>1, <1>2, <1>3, <1>4, <1>5, <1>6, <1>7, <1>8, <1>9,
     <1>10 DEF GetMoreWork, Answer

\* Every action leaves its thread tidy.
LEMMA RunLoopTidy ==
  ASSUME TypeInv, PlaceInv, NEW t \in Thread, RunLoop(t)
  PROVE  Tidy(t)'
<1> USE DEF TypeInv, TypeOK, Label, Goto, At, vars, data, stack, locals,
            queues, flags, results, cluster, Control, Outside,
            Serving, InCallback, PlaceInv, Tidy, Apart, Mine, InHand, Flow,
            Moves, Waiting, Unborn
<1>1. CASE Outer(t)
  BY <1>1 DEF Outer, Move
<1>2. CASE PickLocal(t)
  BY <1>2, KidsType DEF PickLocal, Push
<1>3. CASE DequeueRoot(t)
  BY <1>3, KidsType DEF DequeueRoot
<1>4. CASE GetRoot(t)
  BY <1>4, KidsType DEF GetRoot
<1>5. CASE NoOwnData(t)
  BY <1>5 DEF NoOwnData, Serve, Kept
<1>6. CASE CallBack(t)
  BY <1>6, KidsType DEF CallBack, Serve, Kept, IsTop
<1>7. CASE Return(t)
  <2>1. PICK f \in path[t] : ReturnFrom(t, f, path[t] # {f})
    BY <1>7 DEF Return
  <2>2. \A x \in todo[t] : \E g \in path[t] \ {f} : x \in Kids[g]
    BY <2>1 DEF ReturnFrom
  <2>3. node'[t] \notin lnodes[t] \cup todo[t] \/ pc'[t] \notin InHand
    BY <1>7, <2>1, KidsType DEF Return, ReturnFrom, Serve, Kept
  <2>4. QED
    BY <1>7, <2>1, <2>2, <2>3 DEF Return, ReturnFrom, Serve, Kept
<1>8. QED
  BY <1>1, <1>2, <1>3, <1>4, <1>5, <1>6, <1>7 DEF RunLoop

LEMMA ServeStealTidy ==
  ASSUME TypeInv, PlaceInv, NEW t \in Thread, ServeSteal(t)
  PROVE  Tidy(t)'
<1> USE DEF TypeInv, TypeOK, Label, Goto, At, vars, data, stack, locals,
            queues, flags, results, cluster, Control, Outside,
            Serving, InCallback, PlaceInv, Tidy, Apart, Mine, InHand, Flow,
            Moves, Waiting, Unborn
<1>1. CASE TestAndSet(t)
  BY <1>1 DEF TestAndSet, SetFlag, Kept
<1>2. CASE Probe(t)
  BY <1>2 DEF Probe, Move
<1>3. CASE Drain(t)
  BY <1>3 DEF Drain, Move
<1>4. CASE TakeRoot(t)
  BY <1>4, KidsType DEF TakeRoot
<1>5. CASE SendRoots(t)
  BY <1>5 DEF SendRoots, SendSteal
<1>6. CASE SendNode(t)
  BY <1>6, KidsType DEF SendNode, SendSteal
<1>7. CASE SendNothing(t)
  BY <1>7 DEF SendNothing, Move
<1>8. CASE Clear(t)
  BY <1>8 DEF Clear, SetFlag, Returned, Kept
<1>9. QED
  BY <1>1, <1>2, <1>3, <1>4, <1>5, <1>6, <1>7, <1>8 DEF ServeSteal

LEMMA SolutionCbTidy ==
  ASSUME TypeInv, PlaceInv, NEW t \in Thread, SolutionCb(t)
  PROVE  Tidy(t)'
<1> USE DEF TypeInv, TypeOK, Label, Goto, At, vars, data, stack, locals,
            queues, flags, results, cluster, Control, Outside,
            Serving, InCallback, PlaceInv, Tidy, Apart, Mine, InHand, Flow,
            Moves, Waiting, Unborn
<1>1. CASE ReadSize(t)
  BY <1>1 DEF ReadSize
<1>2. CASE DecideShare(t)
  BY <1>2 DEF DecideShare, Compare
<1>3. CASE KeepLocal(t)
  BY <1>3, KidsType DEF KeepLocal, Compare
<1>4. CASE Recurse(t)
  BY <1>4, KidsType, SMTT(30) DEF Recurse, Compare, Push
<1>5. CASE Share(t)
  BY <1>5 DEF Share, Enqueue
<1>6. CASE ReportSolution(t)
  BY <1>6 DEF ReportSolution
<1>7. QED
  BY <1>1, <1>2, <1>3, <1>4, <1>5, <1>6 DEF SolutionCb

LEMMA WaitTidy ==
  ASSUME TypeInv, PlaceInv, NEW t \in Thread, Wait(t)
  PROVE  Tidy(t)'
<1> USE DEF TypeInv, TypeOK, Label, Goto, At, vars, data, stack, locals,
            queues, flags, results, cluster, Control, Outside,
            Serving, InCallback, PlaceInv, Tidy, Apart, Mine, InHand, Flow,
            Moves, Waiting, Unborn
<1>1. CASE StartWaiting(t)
  BY <1>1 DEF StartWaiting, Count
<1>2. CASE DequeueNode(t)
  BY <1>2, KidsType DEF DequeueNode
<1>3. CASE DequeueFails(t)
  BY <1>3 DEF DequeueFails
<1>4. CASE ReadTerminate(t)
  BY <1>4, KidsType DEF ReadTerminate, Move
<1>5. CASE ReadWaiting(t)
  BY <1>5, KidsType DEF ReadWaiting, Move
<1>6. CASE LeaveWithNode(t)
  BY <1>6, KidsType DEF LeaveWithNode, ListShared, Push
<1>7. CASE LeaveIdle(t)
  BY <1>7 DEF LeaveIdle, Count
<1>8. CASE Quit(t)
  BY <1>8 DEF Quit
<1>9. QED
  BY <1>1, <1>2, <1>3, <1>4, <1>5, <1>6, <1>7, <1>8 DEF Wait

LEMMA GetMoreWorkTidy ==
  ASSUME TypeInv, PlaceInv, NEW t \in Thread, GetMoreWork(t)
  PROVE  Tidy(t)'
<1> USE DEF TypeInv, TypeOK, Label, Goto, At, vars, data, stack, locals,
            queues, flags, results, cluster, Control, Outside,
            Serving, InCallback, PlaceInv, Tidy, Apart, Mine, InHand, Flow,
            Moves, Waiting, Unborn
<1>1. CASE EnterMoreWork(t)
  BY <1>1 DEF EnterMoreWork, Count
<1>2. CASE Claim(t)
  BY <1>2 DEF Claim, SetFlag
<1>3. CASE CheckEmpty(t)
  BY <1>3 DEF CheckEmpty, Move
<1>4. CASE Ask(t)
  BY <1>4 DEF Ask
<1>5. CASE DiscardSteal(t)
  BY <1>5 DEF DiscardSteal
<1>6. CASE AnswerRoots(t)
  BY <1>6, KidsType DEF AnswerRoots, TakeRoots
<1>7. CASE AnswerSubtree(t)
  BY <1>7, KidsType DEF AnswerSubtree, Enqueue
<1>8. CASE AnswerNothing(t)
  BY <1>8 DEF AnswerNothing
<1>9. CASE ReleaseClaim(t)
  BY <1>9 DEF ReleaseClaim, SetFlag
<1>10. CASE LeaveMoreWork(t)
  BY <1>10 DEF LeaveMoreWork, Count
<1>11. QED
  BY <1>1, <1>2, <1>3, <1>4, <1>5, <1>6, <1>7, <1>8, <1>9,
     <1>10 DEF GetMoreWork, Answer

-----------------------------------------------------------------------
LEMMA StepFlow ==
  ASSUME TypeInv, PlaceInv, NEW t \in Thread, Step(t)
  PROVE  Flow(t) /\ Tidy(t)'
BY RunLoopFlow, ServeStealFlow, SolutionCbFlow, WaitFlow, GetMoreWorkFlow,
   RunLoopTidy, ServeStealTidy, SolutionCbTidy, WaitTidy, GetMoreWorkTidy
   DEF Step

\* The places of the other threads are left alone.
LEMMA OthersMine ==
  ASSUME NEW t \in Thread, Alone(t), NEW u \in Thread \ {t}
  PROVE  /\ Mine(u)' = Mine(u)
         /\ Tidy(u) => Tidy(u)'
BY DEF Alone, Mine, Tidy, At

\* Roots are in no place for nodes.
LEMMA RootsApart ==
  ASSUME TypeOK
  PROVE  /\ possibleRoots \cap gnodes = {}
         /\ \A f \in Frame : Kids[f] \cap possibleRoots = {}
BY ForestAssumption, KidsType DEF TypeOK

LEMMA MovesApart ==
  ASSUME TypeInv, PlaceInv, NEW t \in Thread, Alone(t), Moves(t)
  PROVE  Apart' /\ Unborn'
<1>1. \A u \in Thread \ {t} : Mine(u)' = Mine(u)
  BY OthersMine
<1>2. \A u \in Thread \ {t} : Mine(u) \cap (Waiting(t) \cup listed) = {}
  BY DEF PlaceInv, Apart, Waiting
<1>3. Waiting(t) \cap listed = {}
  BY DEF PlaceInv, Apart, Waiting
<1>4. Apart'
  <2>1. Mine(t)' \cup possibleRoots' \cup gnodes' \cup extWork'
          \subseteq Waiting(t)
    BY DEF Moves, Waiting
  <2>2. \A u \in Thread :
          Mine(u)' \cap (possibleRoots' \cup gnodes' \cup extWork'
                           \cup listed') = {}
    BY <1>1, <1>2, <1>3, <2>1 DEF Moves
  <2>3. \A u, v \in Thread : u # v => Mine(u)' \cap Mine(v)' = {}
    <3>1. \A u, v \in Thread \ {t} : u # v => Mine(u)' \cap Mine(v)' = {}
      BY <1>1 DEF PlaceInv, Apart
    <3>2. \A u \in Thread \ {t} : Mine(u)' \cap Mine(t)' = {}
      BY <1>1, <1>2, <2>1
    <3>3. QED
      BY <3>1, <3>2
  <2>4. listed' \cap (possibleRoots' \cup gnodes' \cup extWork') = {}
    BY <1>3, <2>1 DEF Moves
  <2>5. QED
    BY <2>2, <2>3, <2>4 DEF Apart, Moves
<1>5. Unborn'
  <2>1. ASSUME NEW f \in Frame \ listed PROVE Kids[f] \cap Waiting(t) = {}
    BY RootsApart DEF PlaceInv, Unborn, Waiting, TypeInv
  <2>2. ASSUME NEW f \in Frame \ listed'
        PROVE  /\ Kids[f] \cap (gnodes' \cup extWork' \cup listed') = {}
               /\ \A u \in Thread : Kids[f] \cap Mine(u)' = {}
    <3>1. f \in Frame \ listed
      BY DEF Moves
    <3>2. Kids[f] \cap Waiting(t)' = {} /\ Kids[f] \cap listed = {}
      BY <2>1, <3>1 DEF Moves, PlaceInv, Unborn
    <3>3. \A u \in Thread : Kids[f] \cap Mine(u)' = {}
      BY <1>1, <3>1, <3>2 DEF PlaceInv, Unborn, Waiting
    <3>4. QED
      BY <3>2, <3>3 DEF Waiting, Moves
  <2>3. QED
    BY <2>2 DEF Unborn
<1>6. QED
  BY <1>4, <1>5

LEMMA BeginsApart ==
  ASSUME TypeInv, PlaceInv, NEW t \in Thread, Alone(t),
         NEW x \in Frame, Begins(t, x)
  PROVE  Apart' /\ Unborn'
<1>1. \A u \in Thread \ {t} : Mine(u)' = Mine(u)
  BY OthersMine
<1>2. x \in Mine(t) /\ x \notin listed /\ listed' = listed \cup {x}
  BY DEF Begins, PlaceInv, Apart
<1>3. /\ Kids[x] \cap (gnodes \cup extWork \cup listed \cup possibleRoots) = {}
      /\ \A u \in Thread : Kids[x] \cap Mine(u) = {}
  BY <1>2, RootsApart DEF PlaceInv, Unborn, TypeInv
<1>4. /\ x \notin Kids[x]
      /\ x \notin possibleRoots \cup gnodes \cup extWork
      /\ \A u \in Thread \ {t} : x \notin Mine(u)
  BY <1>2, <1>3 DEF PlaceInv, Apart
<1>5. Mine(t)' \subseteq (Mine(t) \ {x}) \cup Kids[x]
      /\ UNCHANGED <<possibleRoots, gnodes, extWork>>
  BY DEF Begins
<1>6. Apart'
  <2>1. Mine(t)' \cap (possibleRoots \cup gnodes \cup extWork \cup listed')
          = {}
    BY <1>2, <1>3, <1>4, <1>5 DEF PlaceInv, Apart
  <2>2. \A u \in Thread \ {t} :
          /\ Mine(u)' \cap (possibleRoots \cup gnodes \cup extWork
                              \cup listed') = {}
          /\ Mine(u)' \cap Mine(t)' = {}
    BY <1>1, <1>2, <1>3, <1>4, <1>5 DEF PlaceInv, Apart
  <2>3. \A u, v \in Thread \ {t} : u # v => Mine(u)' \cap Mine(v)' = {}
    BY <1>1 DEF PlaceInv, Apart
  <2>4. listed' \cap (possibleRoots \cup gnodes \cup extWork) = {}
    BY <1>2, <1>4 DEF PlaceInv, Apart
  <2>5. possibleRoots' \cap extWork' = {} /\ gnodes' \cap extWork' = {}
    BY <1>5 DEF PlaceInv, Apart
  <2>6. \A u, v \in Thread : u # v => Mine(u)' \cap Mine(v)' = {}
    BY <2>2, <2>3
  <2>7. QED
    BY <1>5, <2>1, <2>2, <2>4, <2>5, <2>6 DEF Apart
<1>7. Unborn'
  <2>1. ASSUME NEW f \in Frame \ listed'
        PROVE  /\ Kids[f] \cap (gnodes' \cup extWork' \cup listed') = {}
               /\ \A u \in Thread : Kids[f] \cap Mine(u)' = {}
    <3>1. f \in Frame /\ f \notin listed /\ f # x
      BY <1>2
    <3>2. Kids[f] \cap Kids[x] = {}
      BY <3>1, ForestAssumption
    <3>3. Kids[f] \cap (gnodes \cup extWork \cup listed) = {}
          /\ \A u \in Thread : Kids[f] \cap Mine(u) = {}
      BY <3>1 DEF PlaceInv, Unborn
    <3>4. x \notin Kids[f]
      BY <1>2, <3>3
    <3>5. QED
      BY <1>1, <1>2, <1>5, <3>2, <3>3, <3>4
  <2>2. QED
    BY <2>1 DEF Unborn
<1>8. QED
  BY <1>6, <1>7

\* At a barrier no thread is in ServeSteal or holds a node.
LEMMA BarrierPlaces ==
  ASSUME TypeInv, PlaceInv, Barrier1 \/ Barrier2
  PROVE  PlaceInv'
<1> USE DEF Barrier1, Barrier2, Release, vars, data, stack, locals, queues,
            flags, results, cluster, At
<1>1. \A t \in Thread : Mine(t)' = Mine(t)
  BY DEF Mine, InHand, Serving
<1>2. \A t \in Thread : Tidy(t)'
  BY DEF Tidy, InHand, Serving, PlaceInv
<1>3. QED
  BY <1>1, <1>2 DEF PlaceInv, Apart, Unborn

\* The rest of the cluster begins frames of its own.
LEMMA EnvPlaces ==
  ASSUME TypeInv, PlaceInv, EnvSteal \/ EnvWork
  PROVE  PlaceInv'
<1> USE DEF vars, data, stack, locals, queues, flags, results, cluster, At
<1>1. \A t \in Thread : Mine(t)' = Mine(t) /\ Tidy(t)'
  BY DEF EnvSteal, EnvWork, Mine, InHand, Tidy, PlaceInv
<1>2. CASE EnvSteal
  BY <1>1, <1>2 DEF EnvSteal, PlaceInv, Apart, Unborn
<1>3. CASE EnvWork
  <2>1. PICK f \in extWork : /\ extWork' = (extWork \ {f}) \cup Kids[f]
                             /\ listed' = listed \cup {f}
    BY <1>3 DEF EnvWork
  <2>2. f \in Frame /\ f \notin listed
        /\ UNCHANGED <<possibleRoots, gnodes>>
    BY <1>3 DEF EnvWork, PlaceInv, Apart, TypeInv, TypeOK
  <2>3. /\ Kids[f] \cap (gnodes \cup extWork \cup listed \cup possibleRoots)
             = {}
        /\ \A t \in Thread : Kids[f] \cap Mine(t) = {}
    BY <2>2, RootsApart DEF PlaceInv, Unborn, TypeInv
  <2>4. /\ f \notin Kids[f] /\ f \notin possibleRoots \cup gnodes
        /\ \A t \in Thread : f \notin Mine(t)
    BY <2>1, <2>3 DEF PlaceInv, Apart
  <2>5. Apart'
    <3>1. \A t \in Thread :
            Mine(t) \cap (possibleRoots \cup gnodes \cup extWork'
                            \cup listed') = {}
      BY <2>1, <2>3, <2>4 DEF PlaceInv, Apart
    <3>2. possibleRoots \cap extWork' = {} /\ gnodes \cap extWork' = {}
          /\ listed' \cap (possibleRoots \cup gnodes \cup extWork') = {}
      BY <2>1, <2>2, <2>3, <2>4 DEF PlaceInv, Apart
    <3>3. \A t, u \in Thread : t # u => Mine(t) \cap Mine(u) = {}
      BY DEF PlaceInv, Apart
    <3>4. QED
      BY <1>1, <2>2, <3>1, <3>2, <3>3 DEF Apart
  <2>6. Unborn'
    <3>1. ASSUME NEW g \in Frame \ listed'
          PROVE  /\ Kids[g] \cap (gnodes' \cup extWork' \cup listed') = {}
                 /\ \A t \in Thread : Kids[g] \cap Mine(t)' = {}
      <4>1. g \in Frame /\ g \notin listed /\ g # f
        BY <2>1
      <4>2. Kids[g] \cap Kids[f] = {}
        BY <2>2, <4>1, ForestAssumption
      <4>3. Kids[g] \cap (gnodes \cup extWork \cup listed) = {}
            /\ \A t \in Thread : Kids[g] \cap Mine(t) = {}
        BY <4>1 DEF PlaceInv, Unborn
      <4>4. QED
        BY <1>1, <2>1, <2>2, <4>2, <4>3
    <3>2. QED
      BY <3>1 DEF Unborn
  <2>7. QED
    BY <1>1, <2>5, <2>6 DEF PlaceInv
<1>4. QED
  BY <1>2, <1>3
-----------------------------------------------------------------------
LEMMA InitPlaces == Init => PlaceInv
<1> SUFFICES ASSUME Init PROVE PlaceInv
  OBVIOUS
<1>1. \A t \in Thread : Mine(t) = {} /\ Tidy(t)
  BY DEF Init, Mine, Tidy, InHand, Serving, At
<1>2. Apart
  BY <1>1 DEF Init, Apart
<1>3. Unborn
  BY <1>1, KidsType, ForestAssumption DEF Init, Unborn, Frame
<1>4. QED
  BY <1>1, <1>2, <1>3 DEF PlaceInv

LEMMA InductivePlaces == IInv /\ PlaceInv /\ [Next]_vars => PlaceInv'
<1> SUFFICES ASSUME IInv, PlaceInv, [Next]_vars PROVE PlaceInv'
  OBVIOUS
<1>1. ASSUME NEW t \in Thread, Step(t) PROVE PlaceInv'
  <2>1. Alone(t)
    BY <1>1, StepEffects DEF IInv, Effects
  <2>2. Flow(t) /\ Tidy(t)'
    BY <1>1, StepFlow DEF IInv
  <2>3. \A u \in Thread : Tidy(u)'
    BY <2>1, <2>2, OthersMine DEF PlaceInv
  <2>4. Apart' /\ Unborn'
    BY <2>1, <2>2, MovesApart, BeginsApart DEF Flow, IInv
  <2>5. QED
    BY <2>3, <2>4 DEF PlaceInv
<1>2. CASE Barrier1 \/ Barrier2
  BY <1>2, BarrierPlaces DEF IInv
<1>3. CASE EnvSteal \/ EnvWork
  BY <1>3, EnvPlaces DEF IInv
<1>4. CASE UNCHANGED vars
  BY <1>4 DEF vars, data, stack, locals, queues, flags, results, cluster,
              PlaceInv, Tidy, Apart, Unborn, Mine, At
<1>5. QED
  BY <1>1, <1>2, <1>3, <1>4 DEF Next, Joined

LEMMA PlacesInvariant == Spec => [](IInv /\ PlaceInv)
BY InitInv, Inductive, InitPlaces, InductivePlaces, PTL DEF Spec

LEMMA PlacesOnce == IInv /\ PlaceInv => NothingTwice
<1> SUFFICES ASSUME IInv, PlaceInv PROVE NothingTwice
  OBVIOUS
<1>1. \A t \in Thread : Held(t) \subseteq Mine(t)
  BY DEF Held, Mine, InHand, At
<1>2. ASSUME NEW i \in 1..4, NEW j \in 1..4, i # j
      PROVE  Places[i] \cap Places[j] = {}
  BY <1>2, RootsApart DEF Places, PlaceInv, Apart, IInv, TypeInv
<1>3. ASSUME NEW t \in Thread, NEW i \in 1..4
      PROVE  Held(t) \cap Places[i] = {}
  BY <1>1 DEF Places, PlaceInv, Apart
<1>4. QED
  BY <1>1, <1>2, <1>3 DEF NothingTwice, PlaceInv, Apart

\* No root is opened twice and no node is listed twice: a frame waits in one
\* place at most, in a queue, a thread or another process, and in none once
\* it was begun, whatever interleaving hands it from thread to thread.
THEOREM NothingIsDoneTwice == Spec => []NothingTwice
BY PlacesOnce, PlacesInvariant, PTL
-----------------------------------------------------------------------
(* What is reported *)

\* A thread whose node, if it has one, it will report.
Answerable == Serving \cup InCallback \cup {"report"}

\* The frames of a call stack that another frame of it called back with.
Called(p) == {x \in p : \E y \in p : x \in Kids[y]}

\* What thread t will report: whoever begins a node, it is reported by the
\* thread in which its parent called back with it.
ToReport(t) ==
  todo[t] \cup Called(path[t])
    \cup (IF pc[t] \in Answerable THEN {node[t]} \ {NoNode} ELSE {})

\* No node is in a thread twice, and the frames on a stack have begun.
Neat(t) ==
  /\ todo[t] \cap path[t] = {}
  /\ pc[t] \in Answerable => node[t] \notin todo[t] \cup path[t]
  /\ ~ At(t, "open") => path[t] \subseteq listed

\* What was reported, in this process or another.
Out == reported \cup extReported

\* What will be reported was not, and one thread only will; and what a frame
\* would call back with is not reported before that frame begins.
Once ==
  /\ \A t \in Thread : ToReport(t) \cap Out = {}
  /\ \A t, u \in Thread : t # u => ToReport(t) \cap ToReport(u) = {}
  /\ \A f \in Frame \ listed :
       /\ Kids[f] \cap Out = {}
       /\ \A t \in Thread : Kids[f] \cap ToReport(t) = {}

ReportInv == (\A t \in Thread : Neat(t)) /\ Once
-----------------------------------------------------------------------
(* What a step does to what is to be reported                              *)

\* Nothing is reported and nothing new is to be.
Carries(t) ==
  /\ ToReport(t)' \subseteq ToReport(t)
  /\ UNCHANGED <<reported, extReported, listed>>

\* The frame x begins, and with it what that calls back with.
Starts(t, x) ==
  /\ x \in Frame \ listed
  /\ ToReport(t)' \subseteq ToReport(t) \cup Kids[x]
  /\ listed' = listed \cup {x}
  /\ UNCHANGED <<reported, extReported>>

\* One node is reported and is not to be reported any more.
Delivers(t) ==
  /\ node[t] \in ToReport(t)
  /\ ToReport(t)' \subseteq ToReport(t) \ {node[t]}
  /\ reported' = reported \cup {node[t]}
  /\ UNCHANGED <<extReported, listed>>

Progress(t) == Carries(t) \/ Delivers(t) \/ \E x \in Frame : Starts(t, x)

\* A step that leaves the call stack alone, and the node unless it drops it.
LEMMA QuietStep ==
  ASSUME NEW t \in Thread, Neat(t),
         path'[t] = path[t], todo'[t] = todo[t],
         pc[t] # "open", pc'[t] # "open",
         pc'[t] \in Answerable => pc[t] \in Answerable /\ node'[t] = node[t],
         UNCHANGED <<reported, extReported, listed>>
  PROVE  Progress(t) /\ Neat(t)'
BY DEF Progress, Carries, ToReport, Neat, At, Called

\* A frame on top of a stack, of which it is not the only one, was called
\* back by another.
LEMMA TopWasCalled ==
  ASSUME NEW p \in SUBSET Frame, Chain(p), NEW f \in p,
         Kids[f] \cap p = {}, p # {f}
  PROVE  f \in Called(p)
<1>1. PICK base \in p : \A x \in p \ {base} : \E y \in p : x \in Kids[y]
  BY DEF Chain
<1>2. f # base
  <2> SUFFICES ASSUME f = base PROVE FALSE
    OBVIOUS
  <2>1. p \ {f} \in SUBSET Frame /\ p \ {f} # {}
    OBVIOUS
  <2>2. PICK x \in p \ {f} : \A y \in p \ {f} : x \notin Kids[y]
    BY <2>1, ForestAssumption
  <2>3. QED
    BY <1>1, <2>2
<1>3. QED
  BY <1>1, <1>2 DEF Called

\* A frame that is not listed does not call back with itself, nor with a
\* listed frame.
LEMMA FreshKids ==
  ASSUME TypeInv, PlaceInv, NEW x \in Frame \ listed
  PROVE  x \notin Kids[x] /\ Kids[x] \cap listed = {}
<1>1. \E f \in {x} : \A g \in {x} : f \notin Kids[g]
  <2>1. {x} \in SUBSET Frame /\ {x} # {}
    OBVIOUS
  <2>2. QED
    BY <2>1, ForestAssumption
<1>2. QED
  BY <1>1 DEF PlaceInv, Unborn

\* A thread begins the node x with an empty stack.
LEMMA StartsBase ==
  ASSUME TypeInv, PlaceInv, NEW t \in Thread, Neat(t),
         path[t] = {}, NEW x \in Frame \ listed,
         path'[t] = {x}, todo'[t] = todo[t] \cup Kids[x],
         listed' = listed \cup {x}, pc'[t] = "list",
         UNCHANGED <<reported, extReported>>
  PROVE  Progress(t) /\ Neat(t)'
<1>1. todo[t] = {}
  BY DEF PlaceInv, Tidy
<1>2. x \notin Kids[x]
  BY FreshKids
<1>3. Called(path'[t]) = {}
  BY <1>2 DEF Called
<1>4. Starts(t, x)
  BY <1>1, <1>3 DEF Starts, ToReport, Answerable, Serving, InCallback
<1>5. Neat(t)'
  BY <1>1, <1>2 DEF Neat, Answerable, Serving, InCallback, At
<1>6. QED
  BY <1>4, <1>5 DEF Progress

LEMMA RunLoopReports ==
  ASSUME TypeInv, PlaceInv, NEW t \in Thread, Neat(t), RunLoop(t)
  PROVE  Progress(t) /\ Neat(t)'
<1> USE DEF At, Goto, data, stack, locals, queues, flags, results, cluster
<1>0. /\ pc \in [Thread -> Label] /\ path \in [Thread -> SUBSET Frame]
      /\ todo \in [Thread -> SUBSET Node]
      /\ node \in [Thread -> Node \cup {NoNode}]
      /\ lnodes \in [Thread -> SUBSET Node]
      /\ from \in [Thread -> {"own", "stolen", "none"}]
      /\ Control(t) /\ Tidy(t)
  BY DEF TypeInv, TypeOK, PlaceInv
<1>1. CASE Outer(t)
  BY <1>0, <1>1, QuietStep DEF Outer, Move, Answerable, Serving, InCallback
<1>2. CASE PickLocal(t)
  <2>1. PICK x \in lnodes[t] : Push(t, x)
    BY <1>2 DEF PickLocal
  <2>2. x \in Frame \ listed
    BY <1>0, <2>1, KidsType DEF PlaceInv, Apart, Mine
  <2>3. path[t] = {}
    BY <1>0, <1>2 DEF PickLocal, Control, Outside
  <2>4. /\ path'[t] = {x} /\ todo'[t] = todo[t] \cup Kids[x]
        /\ listed' = listed \cup {x} /\ pc'[t] = "list"
        /\ UNCHANGED <<reported, extReported>>
    BY <1>0, <1>2, <2>1, <2>3 DEF PickLocal, Push
  <2>5. QED
    BY <2>2, <2>3, <2>4, StartsBase
<1>3. CASE DequeueRoot(t)
  <2>1. PICK r \in possibleRoots : path' = [path EXCEPT ![t] = {r}]
    BY <1>3 DEF DequeueRoot
  <2>2. r \in RootId /\ r \in Frame
    BY <2>1, KidsType DEF TypeInv, TypeOK
  <2>3. Called(path'[t]) = {} /\ todo[t] \cap {r} = {}
    BY <1>0, <2>1, <2>2, KidsType, ForestAssumption DEF Called
  <2>4. pc'[t] = "open" /\ todo' = todo
        /\ UNCHANGED <<reported, extReported, listed>>
    BY <1>0, <1>3 DEF DequeueRoot
  <2>5. Carries(t)
    BY <2>3, <2>4 DEF Carries, ToReport, Answerable, Serving, InCallback
  <2>6. Neat(t)'
    BY <1>0, <2>1, <2>3, <2>4 DEF Neat, Answerable, Serving, InCallback
  <2>7. QED
    BY <2>5, <2>6 DEF Progress
<1>4. CASE GetRoot(t)
  <2>1. PICK r \in path[t] : /\ todo' = [todo EXCEPT ![t] = Kids[r]]
                             /\ listed' = listed \cup {r}
    BY <1>4 DEF GetRoot
  <2>2. path[t] = {r} /\ r \in RootId /\ r \in Frame
    BY <1>0, <1>4, <2>1, KidsType DEF GetRoot, Tidy
  <2>3. r \notin listed
    BY <1>4, <2>1 DEF GetRoot, PlaceInv, Apart, Mine
  <2>4. /\ path' = path /\ pc'[t] = "list" /\ todo'[t] = Kids[r]
        /\ UNCHANGED <<reported, extReported>>
    BY <1>0, <1>4, <2>1 DEF GetRoot
  <2>5. r \notin Kids[r]
    BY <2>2, <2>3, FreshKids
  <2>6. Called(path'[t]) = {}
    BY <2>2, <2>4, <2>5 DEF Called
  <2>7. Starts(t, r)
    BY <2>1, <2>2, <2>3, <2>4, <2>6
       DEF Starts, ToReport, Answerable, Serving, InCallback
  <2>8. Neat(t)'
    BY <2>1, <2>2, <2>4, <2>5 DEF Neat, Answerable, Serving, InCallback
  <2>9. QED
    BY <2>2, <2>7, <2>8 DEF Progress
<1>5. CASE NoOwnData(t)
  <2>1. node[t] = NoNode /\ pc[t] = "pick"
    BY <1>0, <1>5 DEF NoOwnData, Control, Outside
  <2>2. /\ path'[t] = path[t] /\ todo'[t] = todo[t] /\ node'[t] = NoNode
        /\ pc'[t] \in {"tas", "idle"}
        /\ UNCHANGED <<reported, extReported, listed>>
    BY <1>0, <1>5, <2>1 DEF NoOwnData, Serve, Kept
  <2>3. NoNode \notin todo[t] \cup path[t]
    BY <1>0, KidsType, WorkStealAssumption
  <2>4. QED
    BY <2>1, <2>2, <2>3 DEF Progress, Carries, ToReport, Neat
<1>6. CASE CallBack(t)
  <2>1. PICK x \in todo[t] : /\ todo' = [todo EXCEPT ![t] = @ \ {x}]
                             /\ node' = [node EXCEPT ![t] = x]
                             /\ pc' = [pc EXCEPT ![t] = Serve(x, from[t])]
    BY <1>6 DEF CallBack
  <2>2. x \in Node /\ x # NoNode
    BY <1>0, <2>1, KidsType
  <2>3. pc'[t] \in {"tas", "size"}
    BY <1>0, <2>1, <2>2 DEF Serve, Kept
  <2>4. path' = path /\ UNCHANGED <<reported, extReported, listed>>
        /\ pc[t] = "list"
    BY <1>6 DEF CallBack
  <2>5. ToReport(t)' \subseteq ToReport(t)
    BY <1>0, <2>1, <2>4 DEF ToReport
  <2>6. Neat(t)'
    BY <1>0, <2>1, <2>3, <2>4 DEF Neat
  <2>7. QED
    BY <2>4, <2>5, <2>6 DEF Progress, Carries
<1>7. CASE Return(t)
  <2>1. PICK f \in path[t] : ReturnFrom(t, f, path[t] # {f})
    BY <1>7 DEF Return
  <2>2. /\ path' = [path EXCEPT ![t] = @ \ {f}] /\ todo' = todo
        /\ UNCHANGED <<reported, extReported, listed>> /\ pc[t] = "list"
    BY <1>7, <2>1 DEF Return, ReturnFrom
  <2>3. Called(path'[t]) \subseteq Called(path[t])
    BY <1>0, <2>2 DEF Called
  <2>4. node[t] = NoNode /\ NoNode \notin todo[t] \cup path[t]
    BY <1>0, <2>2, KidsType, WorkStealAssumption DEF Control
  <2>5. CASE path[t] = {f}
    <3>1. node'[t] = NoNode /\ pc'[t] # "open"
      BY <1>0, <2>1, <2>4, <2>5 DEF ReturnFrom, Serve, Kept
    <3>2. QED
      BY <1>0, <2>2, <2>3, <2>4, <3>1
         DEF Progress, Carries, ToReport, Neat
  <2>6. CASE path[t] # {f}
    <3>1. node'[t] = f /\ pc'[t] = "report"
      BY <1>0, <2>1, <2>6 DEF ReturnFrom
    <3>2. f \in Called(path[t])
      BY <1>0, <2>1, <2>6, TopWasCalled DEF ReturnFrom, IsTop, Control
    <3>3. ToReport(t)' \subseteq ToReport(t)
      BY <2>2, <2>3, <3>1, <3>2 DEF ToReport
    <3>4. Neat(t)'
      BY <1>0, <2>1, <2>2, <3>1 DEF Neat
    <3>5. QED
      BY <2>2, <3>3, <3>4 DEF Progress, Carries
  <2>7. QED
    BY <2>5, <2>6
<1>8. QED
  BY <1>1, <1>2, <1>3, <1>4, <1>5, <1>6, <1>7 DEF RunLoop

LEMMA ServeStealReports ==
  ASSUME TypeInv, PlaceInv, NEW t \in Thread, Neat(t), ServeSteal(t)
  PROVE  Progress(t) /\ Neat(t)'
<1> USE DEF At, Goto, data, stack, locals, queues, flags, results, cluster
<1>0. /\ pc \in [Thread -> Label]
      /\ from \in [Thread -> {"own", "stolen", "none"}]
  BY DEF TypeInv, TypeOK
<1>1. CASE TestAndSet(t)
  BY <1>0, <1>1, QuietStep
     DEF TestAndSet, SetFlag, Kept, Answerable, Serving, InCallback
<1>2. CASE Probe(t)
  BY <1>0, <1>2, QuietStep DEF Probe, Move, Answerable, Serving, InCallback
<1>3. CASE Drain(t)
  BY <1>0, <1>3, QuietStep DEF Drain, Move, Answerable, Serving, InCallback
<1>4. CASE TakeRoot(t)
  BY <1>0, <1>4, QuietStep DEF TakeRoot, Answerable, Serving, InCallback
<1>5. CASE SendRoots(t)
  BY <1>0, <1>5, QuietStep
     DEF SendRoots, SendSteal, Answerable, Serving, InCallback
<1>6. CASE SendNode(t)
  BY <1>0, <1>6, QuietStep
     DEF SendNode, SendSteal, Answerable, Serving, InCallback
<1>7. CASE SendNothing(t)
  BY <1>0, <1>7, QuietStep
     DEF SendNothing, Move, Answerable, Serving, InCallback
<1>8. CASE Clear(t)
  BY <1>0, <1>8, QuietStep
     DEF Clear, SetFlag, Returned, Kept, Answerable, Serving, InCallback
<1>9. QED
  BY <1>1, <1>2, <1>3, <1>4, <1>5, <1>6, <1>7, <1>8 DEF ServeSteal

LEMMA SolutionCbReports ==
  ASSUME TypeInv, PlaceInv, NEW t \in Thread, Neat(t), SolutionCb(t)
  PROVE  Progress(t) /\ Neat(t)'
<1> USE DEF At, Goto, data, stack, locals, queues, flags, results, cluster
<1>0. /\ pc \in [Thread -> Label] /\ path \in [Thread -> SUBSET Frame]
      /\ todo \in [Thread -> SUBSET Node]
      /\ node \in [Thread -> Node \cup {NoNode}]
      /\ Control(t) /\ Tidy(t)
  BY DEF TypeInv, TypeOK, PlaceInv
<1>1. CASE ReadSize(t)
  BY <1>0, <1>1, QuietStep DEF ReadSize, Answerable, Serving, InCallback
<1>2. CASE DecideShare(t)
  BY <1>0, <1>2, QuietStep
     DEF DecideShare, Compare, Answerable, Serving, InCallback
<1>3. CASE KeepLocal(t)
  BY <1>0, <1>3, QuietStep
     DEF KeepLocal, Compare, Answerable, Serving, InCallback
<1>4. CASE Recurse(t)
  <2>1. PICK x \in {node[t]} : Push(t, x)
    BY <1>4 DEF Recurse, Compare
  <2>2. x \in Node /\ \E f \in path[t] : x \in Kids[f]
    BY <1>0, <1>4, <2>1, KidsType DEF Recurse, Compare, Control, InCallback
  <2>3. x \in Frame \ listed
    BY <1>4, <2>1, <2>2, KidsType
       DEF Recurse, Compare, PlaceInv, Apart, Mine, InHand
  <2>4. x \notin Kids[x] /\ Kids[x] \cap listed = {}
    BY <2>3, FreshKids
  <2>5. /\ path[t] \subseteq listed /\ x \notin todo[t] \cup path[t]
        /\ todo[t] \cap path[t] = {}
    BY <1>4, <2>1 DEF Recurse, Compare, Neat, Answerable, InCallback
  <2>6. /\ path'[t] = path[t] \cup {x} /\ todo'[t] = todo[t] \cup Kids[x]
        /\ listed' = listed \cup {x} /\ pc'[t] = "list"
        /\ UNCHANGED <<reported, extReported>>
    BY <1>0, <1>4, <2>1 DEF Recurse, Compare, Push
  <2>7. Called(path'[t]) \subseteq Called(path[t]) \cup {x}
    BY <2>4, <2>5, <2>6 DEF Called
  <2>8. x \in ToReport(t)
    BY <1>4, <2>1, <2>2, KidsType
       DEF Recurse, Compare, ToReport, Answerable, InCallback
  <2>9. Starts(t, x)
    BY <2>3, <2>6, <2>7, <2>8
       DEF Starts, ToReport, Answerable, Serving, InCallback
  <2>10. Neat(t)'
    BY <2>4, <2>5, <2>6 DEF Neat, Answerable, Serving, InCallback
  <2>11. QED
    BY <2>3, <2>9, <2>10 DEF Progress
<1>5. CASE Share(t)
  BY <1>0, <1>5, QuietStep DEF Share, Answerable, Serving, InCallback
<1>6. CASE ReportSolution(t)
  <2>1. node[t] \in Node /\ node[t] # NoNode /\ pc[t] = "report"
    BY <1>0, <1>6, KidsType DEF ReportSolution, Control
  <2>2. node[t] \in ToReport(t) /\ node[t] \notin todo[t] \cup path[t]
    BY <2>1 DEF ToReport, Neat, Answerable
  <2>3. /\ path' = path /\ todo' = todo /\ pc'[t] = "list"
        /\ reported' = reported \cup {node[t]}
        /\ UNCHANGED <<extReported, listed>>
    BY <1>0, <1>6 DEF ReportSolution
  <2>4. ToReport(t)' \subseteq ToReport(t) \ {node[t]}
    BY <2>2, <2>3 DEF ToReport, Called, Answerable, Serving, InCallback
  <2>5. Neat(t)'
    BY <2>1, <2>3 DEF Neat, Answerable, Serving, InCallback
  <2>6. QED
    BY <2>2, <2>3, <2>4, <2>5 DEF Progress, Delivers
<1>7. QED
  BY <1>1, <1>2, <1>3, <1>4, <1>5, <1>6 DEF SolutionCb

LEMMA WaitReports ==
  ASSUME TypeInv, PlaceInv, NEW t \in Thread, Neat(t), Wait(t)
  PROVE  Progress(t) /\ Neat(t)'
<1> USE DEF At, Goto, data, stack, locals, queues, flags, results, cluster
<1>0. /\ pc \in [Thread -> Label] /\ path \in [Thread -> SUBSET Frame]
      /\ todo \in [Thread -> SUBSET Node]
      /\ node \in [Thread -> Node \cup {NoNode}]
      /\ Control(t) /\ Tidy(t)
  BY DEF TypeInv, TypeOK, PlaceInv
<1>1. CASE StartWaiting(t)
  BY <1>0, <1>1, QuietStep
     DEF StartWaiting, Count, Answerable, Serving, InCallback
<1>2. CASE DequeueNode(t)
  BY <1>0, <1>2, QuietStep DEF DequeueNode, Answerable, Serving, InCallback
<1>3. CASE DequeueFails(t)
  BY <1>0, <1>3, QuietStep
     DEF DequeueFails, Answerable, Serving, InCallback
<1>4. CASE ReadTerminate(t)
  BY <1>0, <1>4, QuietStep
     DEF ReadTerminate, Move, Answerable, Serving, InCallback
<1>5. CASE ReadWaiting(t)
  BY <1>0, <1>5, QuietStep
     DEF ReadWaiting, Move, Answerable, Serving, InCallback
<1>6. CASE LeaveWithNode(t)
  <2>1. PICK x \in {node[t]} : Push(t, x) /\ x # NoNode
    BY <1>6 DEF LeaveWithNode, ListShared
  <2>2. x \in Frame \ listed
    BY <1>0, <1>6, <2>1, KidsType
       DEF LeaveWithNode, ListShared, PlaceInv, Apart, Mine, InHand
  <2>3. path[t] = {}
    BY <1>0, <1>6 DEF LeaveWithNode, ListShared, Control, Outside
  <2>4. /\ path'[t] = {x} /\ todo'[t] = todo[t] \cup Kids[x]
        /\ listed' = listed \cup {x} /\ pc'[t] = "list"
        /\ UNCHANGED <<reported, extReported>>
    BY <1>0, <1>6, <2>1, <2>3 DEF LeaveWithNode, ListShared, Push
  <2>5. QED
    BY <2>2, <2>3, <2>4, StartsBase
<1>7. CASE LeaveIdle(t)
  BY <1>0, <1>7, QuietStep
     DEF LeaveIdle, Count, Answerable, Serving, InCallback
<1>8. CASE Quit(t)
  BY <1>0, <1>8, QuietStep DEF Quit, Answerable, Serving, InCallback
<1>9. QED
  BY <1>1, <1>2, <1>3, <1>4, <1>5, <1>6, <1>7, <1>8 DEF Wait

LEMMA GetMoreWorkReports ==
  ASSUME TypeInv, PlaceInv, NEW t \in Thread, Neat(t), GetMoreWork(t)
  PROVE  Progress(t) /\ Neat(t)'
<1> USE DEF At, Goto, data, stack, locals, queues, flags, results, cluster
<1>0. pc \in [Thread -> Label]
  BY DEF TypeInv, TypeOK
<1>1. /\ path' = path /\ todo' = todo /\ node' = node
      /\ UNCHANGED <<reported, extReported, listed>>
  BY DEF GetMoreWork, EnterMoreWork, Count, Claim, SetFlag, CheckEmpty, Move,
         Ask, DiscardSteal, Answer, AnswerRoots, TakeRoots, AnswerSubtree,
         AnswerNothing, ReleaseClaim, LeaveMoreWork
<1>2. /\ pc[t] \notin Answerable \cup {"open"}
      /\ pc'[t] \notin Answerable \cup {"open"}
  BY <1>0 DEF GetMoreWork, EnterMoreWork, Count, Claim, SetFlag, CheckEmpty,
         Move, Ask, DiscardSteal, Answer, AnswerRoots, TakeRoots,
         AnswerSubtree, AnswerNothing, ReleaseClaim, LeaveMoreWork,
         Answerable, Serving, InCallback
<1>3. QED
  BY <1>1, <1>2, QuietStep

LEMMA StepReports ==
  ASSUME TypeInv, PlaceInv, NEW t \in Thread, Neat(t), Step(t)
  PROVE  Progress(t) /\ Neat(t)'
BY RunLoopReports, ServeStealReports, SolutionCbReports, WaitReports,
   GetMoreWorkReports DEF Step
-----------------------------------------------------------------------
(* The threads together                                                    *)

\* What the other threads will report is left alone.
LEMMA OthersReport ==
  ASSUME NEW t \in Thread, Alone(t), listed \subseteq listed',
         NEW u \in Thread \ {t}
  PROVE  /\ ToReport(u)' = ToReport(u)
         /\ Neat(u) => Neat(u)'
<1>1. pc'[u] = pc[u] /\ path'[u] = path[u] /\ node'[u] = node[u]
      /\ todo'[u] = todo[u]
  BY DEF Alone
<1>2. ToReport(u)' = ToReport(u)
  BY <1>1 DEF ToReport, Called
<1>3. Neat(u) => Neat(u)'
  BY <1>1 DEF Neat, At
<1>4. QED
  BY <1>2, <1>3

\* What a frame that begins calls back with is in no thread's hands yet, and
\* what one thread reports is to be reported by no other.
LEMMA ProgressOnce ==
  ASSUME ReportInv, NEW t \in Thread, Progress(t), Alone(t), Neat(t)'
  PROVE  ReportInv'
<1>1. listed \subseteq listed'
  BY DEF Progress, Carries, Starts, Delivers
<1>2. \A u \in Thread \ {t} : ToReport(u)' = ToReport(u) /\ Neat(u)'
  BY <1>1, OthersReport DEF ReportInv
<1>3. Once'
  <2>1. CASE Carries(t)
    <3>1. Out' = Out /\ listed' = listed
      BY <2>1 DEF Carries, Out
    <3>2. \A u \in Thread : ToReport(u)' \subseteq ToReport(u)
      BY <1>2, <2>1 DEF Carries
    <3>3. QED
      BY <3>1, <3>2 DEF Once, ReportInv
  <2>2. CASE \E x \in Frame : Starts(t, x)
    <3>1. PICK x \in Frame : Starts(t, x)
      BY <2>2
    <3>2. /\ Out' = Out /\ listed' = listed \cup {x}
          /\ x \in Frame \ listed
          /\ ToReport(t)' \subseteq ToReport(t) \cup Kids[x]
      BY <3>1 DEF Starts, Out
    <3>3. /\ Kids[x] \cap Out = {}
          /\ \A u \in Thread : Kids[x] \cap ToReport(u) = {}
      BY <3>2 DEF Once, ReportInv
    <3>4. \A u \in Thread : ToReport(u)' \cap Out' = {}
      BY <1>2, <3>2, <3>3 DEF Once, ReportInv
    <3>5. \A u, v \in Thread :
            u # v => ToReport(u)' \cap ToReport(v)' = {}
      <4>1. \A u, v \in Thread \ {t} :
              u # v => ToReport(u)' \cap ToReport(v)' = {}
        BY <1>2 DEF Once, ReportInv
      <4>2. \A u \in Thread \ {t} : ToReport(u)' \cap ToReport(t)' = {}
        BY <1>2, <3>2, <3>3 DEF Once, ReportInv
      <4>3. QED
        BY <4>1, <4>2
    <3>6. ASSUME NEW f \in Frame \ listed'
          PROVE  /\ Kids[f] \cap Out' = {}
                 /\ \A u \in Thread : Kids[f] \cap ToReport(u)' = {}
      <4>1. f \in Frame \ listed /\ f # x
        BY <3>2
      <4>2. Kids[f] \cap Kids[x] = {}
        BY <3>2, <4>1, ForestAssumption
      <4>3. QED
        BY <1>2, <3>2, <4>1, <4>2 DEF Once, ReportInv
    <3>7. QED
      BY <3>4, <3>5, <3>6 DEF Once
  <2>3. CASE Delivers(t)
    <3>1. /\ Out' = Out \cup {node[t]} /\ listed' = listed
          /\ node[t] \in ToReport(t)
          /\ ToReport(t)' \subseteq ToReport(t) \ {node[t]}
      BY <2>3 DEF Delivers, Out
    <3>2. /\ \A u \in Thread \ {t} : node[t] \notin ToReport(u)
          /\ \A f \in Frame \ listed : node[t] \notin Kids[f]
      BY <3>1 DEF Once, ReportInv
    <3>3. \A u \in Thread : ToReport(u)' \subseteq ToReport(u) \ {node[t]}
      BY <1>2, <3>1, <3>2
    <3>4. QED
      BY <3>1, <3>2, <3>3 DEF Once, ReportInv
  <2>4. QED
    BY <2>1, <2>2, <2>3 DEF Progress
<1>4. QED
  BY <1>2, <1>3 DEF ReportInv

\* At a barrier no thread has anything to report.
LEMMA BarrierReports ==
  ASSUME ReportInv, Barrier1 \/ Barrier2
  PROVE  ReportInv'
<1> USE DEF Barrier1, Barrier2, Release, vars, data, stack, locals, queues,
            flags, results, cluster, At
<1>1. \A t \in Thread : ToReport(t)' = ToReport(t)
  BY DEF ToReport, Called, Answerable, Serving, InCallback
<1>2. \A t \in Thread : Neat(t) => Neat(t)'
  BY DEF Neat, Answerable, Serving, InCallback
<1>3. QED
  BY <1>1, <1>2 DEF ReportInv, Once, Out

\* The rest of the cluster reports what the frames it begins call back with.
LEMMA EnvReports ==
  ASSUME TypeInv, PlaceInv, ReportInv, EnvSteal \/ EnvWork
  PROVE  ReportInv'
<1> USE DEF stack, locals, queues, flags, results
<1>1. listed \subseteq listed' /\ UNCHANGED <<pc, path, todo, node>>
  BY DEF EnvSteal, EnvWork
<1>2. \A t \in Thread : ToReport(t)' = ToReport(t) /\ Neat(t)'
  BY <1>1 DEF ToReport, Called, Neat, At, ReportInv
<1>3. CASE EnvSteal
  BY <1>2, <1>3 DEF EnvSteal, ReportInv, Once, Out
<1>4. CASE EnvWork
  <2>1. PICK f \in extWork : /\ extReported' = extReported \cup Kids[f]
                             /\ listed' = listed \cup {f}
    BY <1>4 DEF EnvWork
  <2>2. f \in Frame \ listed /\ Out' = Out \cup Kids[f]
    BY <1>4, <2>1 DEF EnvWork, PlaceInv, Apart, TypeInv, TypeOK, Out
  <2>3. \A g \in Frame \ listed' : g # f /\ Kids[g] \cap Kids[f] = {}
    BY <2>1, <2>2, ForestAssumption
  <2>4. \A t \in Thread : Kids[f] \cap ToReport(t) = {}
    BY <2>2 DEF ReportInv, Once
  <2>5. QED
    BY <1>2, <2>1, <2>2, <2>3, <2>4 DEF ReportInv, Once
<1>5. QED
  BY <1>3, <1>4

LEMMA InitReports == Init => ReportInv
<1> SUFFICES ASSUME Init PROVE ReportInv
  OBVIOUS
<1>1. \A t \in Thread : ToReport(t) = {} /\ Neat(t)
  BY DEF Init, ToReport, Called, Neat, Answerable, Serving, InCallback
<1>2. QED
  BY <1>1 DEF Init, ReportInv, Once, Out

LEMMA InductiveReports ==
  IInv /\ PlaceInv /\ ReportInv /\ [Next]_vars => ReportInv'
<1> SUFFICES ASSUME IInv, PlaceInv, ReportInv, [Next]_vars PROVE ReportInv'
  OBVIOUS
<1>1. ASSUME NEW t \in Thread, Step(t) PROVE ReportInv'
  <2>1. Alone(t)
    BY <1>1, StepEffects DEF IInv, Effects
  <2>2. Progress(t) /\ Neat(t)'
    BY <1>1, StepReports DEF IInv, ReportInv
  <2>3. QED
    BY <2>1, <2>2, ProgressOnce
<1>2. CASE Barrier1 \/ Barrier2
  BY <1>2, BarrierReports
<1>3. CASE EnvSteal \/ EnvWork
  BY <1>3, EnvReports DEF IInv
<1>4. CASE UNCHANGED vars
  BY <1>4 DEF vars, data, stack, locals, queues, flags, results, cluster,
              ReportInv, Once, Out, Neat, ToReport, Called, At
<1>5. QED
  BY <1>1, <1>2, <1>3, <1>4 DEF Next, Joined

LEMMA ReportsInvariant == Spec => [](IInv /\ PlaceInv /\ ReportInv)
BY PlacesInvariant, InitReports, InductiveReports, PTL DEF Spec

LEMMA ReportsOnce == IInv /\ ReportInv => ReportedOnce
<1> SUFFICES ASSUME IInv, ReportInv PROVE ReportedOnce
  OBVIOUS
<1>1. ASSUME NEW t \in Thread, At(t, "report")
      PROVE  node[t] \in ToReport(t)
  BY <1>1, KidsType
     DEF IInv, TypeInv, Control, At, ToReport, Answerable
<1>2. QED
  BY <1>1 DEF ReportInv, Once, Out, ReportedOnce

\* A node about to be reported was reported by nobody, in this process or
\* another, and no other thread is about to: whoever begins a node that was
\* handed over, the thread that was called back with it reports it, once.
THEOREM ReportsHappenOnce == Spec => []ReportedOnce
BY ReportsOnce, ReportsInvariant, PTL
-----------------------------------------------------------------------
(* The solutions counted                                                   *)

\* Between the two barriers.
Phase == {"claim", "check", "ask", "answer", "release", "rest", "barrier2"}

\* No thread enumerates while another asks for work.
Together == \A t, u \in Thread : pc[t] \in Phase <=> pc[u] \in Phase

\* What a step does to the count: nothing, or it sends it to the master, or
\* resets it on the answer, or reports a node; and it passes no barrier.
Ledger(t) ==
  /\ pc'[t] \in Phase <=> pc[t] \in Phase
  /\ \/ /\ At(t, "answer") <=> pc'[t] = "answer"
        /\ UNCHANGED <<sentCount, solutionsFound, reported>>
     \/ /\ At(t, "ask") /\ pc'[t] = "answer"
        /\ sentCount' = sentCount + solutionsFound
        /\ UNCHANGED <<solutionsFound, reported>>
     \/ /\ At(t, "answer") /\ pc'[t] # "answer"
        /\ solutionsFound' = 0
        /\ UNCHANGED <<sentCount, reported>>
     \/ /\ At(t, "report") /\ pc'[t] # "answer"
        /\ reported' = reported \cup {node[t]}
        /\ solutionsFound' = IF node[t] \in Solution THEN solutionsFound + 1
                                                     ELSE solutionsFound
        /\ UNCHANGED sentCount

LEMMA RunLoopLedger ==
  ASSUME TypeInv, NEW t \in Thread, RunLoop(t)
  PROVE  Ledger(t)
<1> USE DEF TypeInv, TypeOK, Label, Goto, At, data, stack, locals, queues,
            flags, results, cluster, Control, Ledger, Phase
<1>1. CASE Outer(t)
  BY <1>1 DEF Outer, Move
<1>2. CASE PickLocal(t)
  BY <1>2 DEF PickLocal, Push
<1>3. CASE DequeueRoot(t)
  BY <1>3 DEF DequeueRoot
<1>4. CASE GetRoot(t)
  BY <1>4 DEF GetRoot
<1>5. CASE NoOwnData(t)
  BY <1>5 DEF NoOwnData, Serve, Kept
<1>6. CASE CallBack(t)
  BY <1>6 DEF CallBack, Serve, Kept
<1>7. CASE Return(t)
  BY <1>7 DEF Return, ReturnFrom, Serve, Kept
<1>8. QED
  BY <1>1, <1>2, <1>3, <1>4, <1>5, <1>6, <1>7 DEF RunLoop

LEMMA ServeStealLedger ==
  ASSUME TypeInv, NEW t \in Thread, ServeSteal(t)
  PROVE  Ledger(t)
<1> USE DEF TypeInv, TypeOK, Label, Goto, At, data, stack, locals, queues,
            flags, results, cluster, Control, Ledger, Phase
<1>1. CASE TestAndSet(t)
  BY <1>1 DEF TestAndSet, SetFlag, Kept
<1>2. CASE Probe(t)
  BY <1>2 DEF Probe, Move
<1>3. CASE Drain(t)
  BY <1>3 DEF Drain, Move
<1>4. CASE TakeRoot(t)
  BY <1>4 DEF TakeRoot
<1>5. CASE SendRoots(t)
  BY <1>5 DEF SendRoots, SendSteal
<1>6. CASE SendNode(t)
  BY <1>6 DEF SendNode, SendSteal
<1>7. CASE SendNothing(t)
  BY <1>7 DEF SendNothing, Move
<1>8. CASE Clear(t)
  BY <1>8 DEF Clear, SetFlag, Returned, Kept
<1>9. QED
  BY <1>1, <1>2, <1>3, <1>4, <1>5, <1>6, <1>7, <1>8 DEF ServeSteal

LEMMA SolutionCbLedger ==
  ASSUME TypeInv, NEW t \in Thread, SolutionCb(t)
  PROVE  Ledger(t)
<1> USE DEF TypeInv, TypeOK, Label, Goto, At, data, stack, locals, queues,
            flags, results, cluster, Control, Ledger, Phase
<1>1. CASE ReadSize(t)
  BY <1>1 DEF ReadSize
<1>2. CASE DecideShare(t)
  BY <1>2 DEF DecideShare, Compare
<1>3. CASE KeepLocal(t)
  BY <1>3 DEF KeepLocal, Compare
<1>4. CASE Recurse(t)
  BY <1>4 DEF Recurse, Compare, Push
<1>5. CASE Share(t)
  BY <1>5 DEF Share, Enqueue
<1>6. CASE ReportSolution(t)
  BY <1>6 DEF ReportSolution
<1>7. QED
  BY <1>1, <1>2, <1>3, <1>4, <1>5, <1>6 DEF SolutionCb

LEMMA WaitLedger ==
  ASSUME TypeInv, NEW t \in Thread, Wait(t)
  PROVE  Ledger(t)
<1> USE DEF TypeInv, TypeOK, Label, Goto, At, data, stack, locals, queues,
            flags, results, cluster, Control, Ledger, Phase
<1>1. CASE StartWaiting(t)
  BY <1>1 DEF StartWaiting, Count
<1>2. CASE DequeueNode(t)
  BY <1>2 DEF DequeueNode
<1>3. CASE DequeueFails(t)
  BY <1>3 DEF DequeueFails
<1>4. CASE ReadTerminate(t)
  BY <1>4 DEF ReadTerminate, Move
<1>5. CASE ReadWaiting(t)
  BY <1>5 DEF ReadWaiting, Move
<1>6. CASE LeaveWithNode(t)
  BY <1>6 DEF LeaveWithNode, ListShared, Push
<1>7. CASE LeaveIdle(t)
  BY <1>7 DEF LeaveIdle, Count
<1>8. CASE Quit(t)
  BY <1>8 DEF Quit
<1>9. QED
  BY <1>1, <1>2, <1>3, <1>4, <1>5, <1>6, <1>7, <1>8 DEF Wait

LEMMA GetMoreWorkLedger ==
  ASSUME TypeInv, NEW t \in Thread, GetMoreWork(t)
  PROVE  Ledger(t)
<1> USE DEF TypeInv, TypeOK, Label, Goto, At, data, stack, locals, queues,
            flags, results, cluster, Control, Ledger, Phase
<1>1. CASE EnterMoreWork(t)
  BY <1>1 DEF EnterMoreWork, Count
<1>2. CASE Claim(t)
  BY <1>2 DEF Claim, SetFlag
<1>3. CASE CheckEmpty(t)
  BY <1>3 DEF CheckEmpty, Move
<1>4. CASE Ask(t)
  BY <1>4 DEF Ask
<1>5. CASE DiscardSteal(t)
  BY <1>5 DEF DiscardSteal
<1>6. CASE AnswerRoots(t)
  BY <1>6 DEF AnswerRoots, TakeRoots
<1>7. CASE AnswerSubtree(t)
  BY <1>7 DEF AnswerSubtree, Enqueue
<1>8. CASE AnswerNothing(t)
  BY <1>8 DEF AnswerNothing
<1>9. CASE ReleaseClaim(t)
  BY <1>9 DEF ReleaseClaim, SetFlag
<1>10. CASE LeaveMoreWork(t)
  BY <1>10 DEF LeaveMoreWork, Count
<1>11. QED
  BY <1>1, <1>2, <1>3, <1>4, <1>5, <1>6, <1>7, <1>8, <1>9,
     <1>10 DEF GetMoreWork, Answer

LEMMA StepLedger ==
  ASSUME TypeInv, NEW t \in Thread, Step(t)
  PROVE  Ledger(t)
BY RunLoopLedger, ServeStealLedger, SolutionCbLedger, WaitLedger,
   GetMoreWorkLedger DEF Step

\* The thread at "ask" or "answer" is the only one there, and none is at
\* "report" then; what is reported was not reported before.
LEMMA LedgerBalanced ==
  ASSUME TypeInv, OneInMpi, ReportInv, Together, CountConserved,
         NEW t \in Thread, Alone(t), Ledger(t)
  PROVE  Together' /\ CountConserved'
<1> DEFINE Answering == \E u \in Thread : pc[u] = "answer"
           Answering1 == \E u \in Thread : pc'[u] = "answer"
<1>1. \A u \in Thread \ {t} : pc'[u] = pc[u]
  BY DEF Alone
<1>2. Together'
  BY <1>1 DEF Ledger, Together
<1>3. sentCount \in Nat /\ solutionsFound \in Nat /\ reported \subseteq Node
  BY DEF TypeInv, TypeOK
<1>4. IsFiniteSet(reported \cap Solution)
      /\ Cardinality(reported \cap Solution) \in Nat
  BY <1>3, ForestAssumption, FS_Subset, FS_CardinalityType
<1>5. sentCount + (IF Answering THEN 0 ELSE solutionsFound)
        = Cardinality(reported \cap Solution)
  BY DEF CountConserved, At
<1>6. pc[t] \in {"ask", "answer"} => \A u \in Thread \ {t} : pc[u] # "answer"
  BY DEF OneInMpi, Holding
<1>7. sentCount' + (IF Answering1 THEN 0 ELSE solutionsFound')
        = Cardinality(reported' \cap Solution)
  <2>1. CASE /\ pc[t] = "answer" <=> pc'[t] = "answer"
             /\ UNCHANGED <<sentCount, solutionsFound, reported>>
    <3>1. Answering <=> Answering1
      BY <1>1, <2>1
    <3> HIDE DEF Answering, Answering1
    <3>2. QED
      BY <1>5, <2>1, <3>1
  <2>2. CASE /\ pc[t] = "ask" /\ pc'[t] = "answer"
             /\ sentCount' = sentCount + solutionsFound
             /\ UNCHANGED <<solutionsFound, reported>>
    <3>1. ~ Answering /\ Answering1
      BY <1>6, <2>2
    <3> HIDE DEF Answering, Answering1
    <3>2. QED
      BY <1>3, <1>5, <2>2, <3>1
  <2>3. CASE /\ pc[t] = "answer" /\ pc'[t] # "answer"
             /\ solutionsFound' = 0
             /\ UNCHANGED <<sentCount, reported>>
    <3>1. Answering /\ ~ Answering1
      BY <1>1, <1>6, <2>3
    <3> HIDE DEF Answering, Answering1
    <3>2. QED
      BY <1>3, <1>5, <2>3, <3>1
  <2>4. CASE /\ pc[t] = "report" /\ pc'[t] # "answer"
             /\ reported' = reported \cup {node[t]}
             /\ solutionsFound' = IF node[t] \in Solution
                                  THEN solutionsFound + 1 ELSE solutionsFound
             /\ UNCHANGED sentCount
    <3>1. \A u \in Thread : pc[u] # "answer"
      BY <2>4 DEF Together, Phase
    <3>2. ~ Answering /\ ~ Answering1
      BY <1>1, <2>4, <3>1
    <3>3. node[t] \notin reported
      BY <2>4, KidsType
         DEF TypeInv, Control, ReportInv, Once, Out, ToReport, Answerable
    <3> HIDE DEF Answering, Answering1
    <3>4. CASE node[t] \in Solution
      <4>1. reported' \cap Solution = (reported \cap Solution) \cup {node[t]}
        BY <2>4, <3>4
      <4>2. Cardinality(reported' \cap Solution)
              = Cardinality(reported \cap Solution) + 1
        BY <1>4, <3>3, <4>1, FS_AddElement
      <4>3. QED
        BY <1>3, <1>4, <1>5, <2>4, <3>2, <3>4, <4>2
    <3>5. CASE node[t] \notin Solution
      <4>1. reported' \cap Solution = reported \cap Solution
        BY <2>4, <3>5
      <4>2. QED
        BY <1>5, <2>4, <3>2, <3>5, <4>1
    <3>6. QED
      BY <3>4, <3>5
  <2>5. QED
    BY <2>1, <2>2, <2>3, <2>4 DEF Ledger, At
<1>8. QED
  BY <1>2, <1>7 DEF CountConserved, At

CountInv == Together /\ CountConserved

LEMMA InitCount == Init => CountInv
<1> SUFFICES ASSUME Init PROVE CountInv
  OBVIOUS
<1>1. reported \cap Solution = {} /\ Cardinality({}) = 0
  BY FS_EmptySet DEF Init
<1>2. CountConserved
  BY <1>1 DEF Init, CountConserved
<1>3. QED
  BY <1>2 DEF Init, CountInv, Together

LEMMA InductiveCount ==
  IInv /\ ReportInv /\ CountInv /\ [Next]_vars => CountInv'
<1> SUFFICES ASSUME IInv, ReportInv, CountInv, [Next]_vars PROVE CountInv'
  OBVIOUS
<1>1. ASSUME NEW t \in Thread, Step(t) PROVE CountInv'
  <2>1. Alone(t) /\ Ledger(t)
    BY <1>1, StepEffects, StepLedger DEF IInv, Effects
  <2>2. QED
    BY <2>1, LedgerBalanced DEF IInv, CountInv
<1>2. CASE Barrier1 \/ Barrier2
  <2>1. /\ \A t \in Thread : pc[t] # "answer" /\ pc'[t] # "answer"
        /\ UNCHANGED <<sentCount, solutionsFound, reported>>
    BY <1>2 DEF Barrier1, Barrier2, Release, At, data, results, cluster
  <2>2. Together'
    BY <1>2 DEF Barrier1, Barrier2, Release, Together
  <2>3. QED
    BY <2>1, <2>2 DEF CountInv, CountConserved, At
<1>3. CASE EnvSteal \/ EnvWork
  BY <1>3 DEF EnvSteal, EnvWork, results, CountInv, Together,
              CountConserved, At
<1>4. CASE UNCHANGED vars
  BY <1>4 DEF vars, data, results, cluster, CountInv, Together,
              CountConserved, At
<1>5. QED
  BY <1>1, <1>2, <1>3, <1>4 DEF Next, Joined

LEMMA CountInvariant == Spec => []CountInv
BY ReportsInvariant, InitCount, InductiveCount, PTL DEF Spec

\* The solutions sent to the master and those counted since are the nodes
\* reported that are solutions: resetting solutions_found_ when the answer
\* comes loses none, because no thread reports between the two barriers.
THEOREM CountIsConserved == Spec => []CountConserved
<1>1. CountInv => CountConserved
  BY DEF CountInv
<1>2. QED
  BY <1>1, CountInvariant, PTL
-----------------------------------------------------------------------
(* Buffers                                                                 *)

\* The nodes in a thread that it may still read.
InThread(t) ==
  lnodes[t] \cup (path[t] \cap Node) \cup todo[t] \cup ({node[t]} \ {NoNode})

\* A thread that found neither a local node nor a root, in this round.
FoundNone(t) ==
  \/ pc[t] \in {"idle", "spin", "ended", "allIdle", "leave", "quit", "more",
                "barrier1"}
  \/ pc[t] \in Serving /\ node[t] = NoNode /\ from[t] # "own"

\* Such a thread has no local nodes, and none has any between the barriers.
EmptyHanded(t) == FoundNone(t) \/ pc[t] \in Phase => lnodes[t] = {}

\* The thread that asks for more work has seen that the queues are empty.
AskEmpty ==
  \A t \in Thread :
    pc[t] \in {"ask", "answer"} => gnodes = {} /\ possibleRoots = {}

\* While there are roots nobody has been idle in this round; so nobody has
\* shared a node, and every node is where its vectors are.
AtHome ==
  possibleRoots # {} =>
    /\ gnodes = {}
    /\ \A t \in Thread :
         /\ ~ FoundNone(t)
         /\ pc[t] # "share"
         /\ \A x \in InThread(t) : block[x] = t

BufferInv ==
  /\ \A t \in Thread : EmptyHanded(t)
  /\ AskEmpty
  /\ AtHome
  /\ NoBufferReuse
-----------------------------------------------------------------------
(* Nodes that nobody has been called back with                             *)

LEMMA LiveNodes == Live = gnodes \cup UNION {InThread(t) : t \in Thread}
BY DEF Live, InThread

\* A node in a thread is the thread's to begin, was begun, or is the thread's
\* to report.
LEMMA WhereNodesAre ==
  ASSUME TypeInv, PlaceInv, ReportInv, NEW t \in Thread
  PROVE  InThread(t) \subseteq Mine(t) \cup listed \cup ToReport(t)
<1>0. /\ pc \in [Thread -> Label] /\ path \in [Thread -> SUBSET Frame]
      /\ Control(t) /\ Tidy(t) /\ Neat(t)
  BY DEF TypeInv, TypeOK, PlaceInv, ReportInv
<1>1. lnodes[t] \cup todo[t] \subseteq Mine(t)
  BY DEF Mine
<1>2. path[t] \cap Node \subseteq listed
  <2>1. CASE At(t, "open")
    BY <1>0, <2>1, ForestAssumption DEF Tidy
  <2>2. CASE ~ At(t, "open")
    BY <1>0, <2>2 DEF Neat
  <2>3. QED
    BY <2>1, <2>2
<1>3. {node[t]} \ {NoNode} \subseteq Mine(t) \cup ToReport(t)
  <2>1. CASE pc[t] \in Answerable
    BY <2>1 DEF ToReport
  <2>2. CASE pc[t] = "leave"
    BY <2>2 DEF Mine, InHand
  <2>3. CASE pc[t] \notin Answerable \cup {"leave"}
    <3>1. pc[t] \in (Outside \ {"leave"}) \cup {"open", "list"}
      BY <1>0, <2>3 DEF Label, Outside, Answerable, Serving, InCallback
    <3>2. QED
      BY <1>0, <3>1 DEF Control
  <2>4. QED
    BY <2>1, <2>2, <2>3
<1>4. QED
  BY <1>1, <1>2, <1>3 DEF InThread

\* What a frame that begins calls back with is in no queue and no thread.
LEMMA FreshNodes ==
  ASSUME TypeInv, PlaceInv, ReportInv, NEW f \in Frame \ listed
  PROVE  /\ Kids[f] \cap gnodes = {}
         /\ \A t \in Thread : Kids[f] \cap InThread(t) = {}
<1>1. Kids[f] \cap (gnodes \cup listed) = {}
      /\ \A t \in Thread : Kids[f] \cap Mine(t) = {}
  BY DEF PlaceInv, Unborn
<1>2. \A t \in Thread : Kids[f] \cap ToReport(t) = {}
  BY DEF ReportInv, Once
<1>3. QED
  BY <1>1, <1>2, WhereNodesAre

\* Between the barriers a thread has no nodes.
LEMMA PhaseHasNoNodes ==
  ASSUME TypeInv, PlaceInv, NEW t \in Thread, EmptyHanded(t),
         pc[t] \in Phase
  PROVE  InThread(t) = {}
<1>1. path[t] = {} /\ node[t] = NoNode
  BY DEF TypeInv, Control, Phase, Outside
<1>2. todo[t] = {}
  BY <1>1 DEF PlaceInv, Tidy
<1>3. QED
  BY <1>1, <1>2 DEF InThread, EmptyHanded
-----------------------------------------------------------------------
(* What a step does to nodes and their vectors                             *)

\* It moves nodes, but to no other thread.
Carry(t) ==
  /\ gnodes' \cup InThread(t)' \subseteq gnodes \cup InThread(t)
  /\ block' = block

\* It begins a root, in its own vectors.
FromRoot(t) ==
  \E r \in Frame \ listed :
    /\ pc[t] = "open"
    /\ gnodes' = gnodes
    /\ InThread(t)' \subseteq InThread(t) \cup Kids[r]
    /\ block' = [y \in Node |-> IF y \in Kids[r] THEN t ELSE block[y]]

\* It begins a node, in the vectors of that node.
FromNode(t) ==
  \E x \in Node \ listed :
    /\ x \in InThread(t)
    /\ gnodes' = gnodes
    /\ InThread(t)' \subseteq InThread(t) \cup Kids[x]
    /\ block' = [y \in Node |-> IF y \in Kids[x] THEN block[x] ELSE block[y]]

\* It puts a node of a message, with vectors of its own, in the queue.
FromMessage(t) ==
  \E x \in Node :
    /\ pc[t] = "answer"
    /\ gnodes' = gnodes \cup {x}
    /\ InThread(t)' = InThread(t)
    /\ block' = [block EXCEPT ![x] = Fresh]

Buffers(t) == Carry(t) \/ FromRoot(t) \/ FromNode(t) \/ FromMessage(t)

\* Where it adds to the queues, and where it goes from there.
Supply(t) ==
  /\ gnodes' \subseteq gnodes \cup InThread(t) \/ pc[t] = "answer"
  /\ gnodes' \subseteq gnodes \/ pc[t] \in {"share", "answer"}
  /\ \/ possibleRoots' \subseteq possibleRoots
     \/ pc[t] = "answer" /\ gnodes' \subseteq gnodes
  /\ UNCHANGED <<gnodes, possibleRoots>> \/ pc'[t] \notin {"ask", "answer"}

Route(t) ==
  /\ pc'[t] = "open" =>
       pc[t] = "pick" /\ lnodes[t] = {} /\ possibleRoots # {}
  /\ FoundNone(t)' => FoundNone(t) \/ possibleRoots = {}
  /\ pc'[t] = "share" => pc[t] = "compare" /\ seen[t] < waiting
  /\ pc'[t] \in {"ask", "answer"} =>
       \/ pc[t] \in {"ask", "answer"}
       \/ gnodes = {} /\ possibleRoots = {}
  /\ possibleRoots' \subseteq possibleRoots \/ pc'[t] = "release"
  /\ EmptyHanded(t)'

\* A step that leaves the nodes of its thread where they are.
LEMMA QuietBuffers ==
  ASSUME NEW t \in Thread, gnodes' \subseteq gnodes, block' = block,
         path'[t] = path[t], todo'[t] = todo[t], node'[t] \in {node[t], NoNode},
         lnodes'[t] = lnodes[t]
  PROVE  Buffers(t)
BY DEF Buffers, Carry, InThread

LEMMA RunLoopBuffers ==
  ASSUME TypeInv, PlaceInv, NEW t \in Thread, RunLoop(t)
  PROVE  Buffers(t)
<1> USE DEF At, Goto, data, stack, locals, queues, flags, results, cluster
<1>0. /\ pc \in [Thread -> Label] /\ path \in [Thread -> SUBSET Frame]
      /\ todo \in [Thread -> SUBSET Node]
      /\ node \in [Thread -> Node \cup {NoNode}]
      /\ lnodes \in [Thread -> SUBSET Node]
      /\ from \in [Thread -> {"own", "stolen", "none"}]
      /\ Control(t) /\ Tidy(t)
  BY DEF TypeInv, TypeOK, PlaceInv
<1>1. CASE Outer(t)
  BY <1>1, QuietBuffers DEF Outer, Move
<1>2. CASE PickLocal(t)
  <2>1. PICK x \in lnodes[t] : /\ lnodes' = [lnodes EXCEPT ![t] = @ \ {x}]
                               /\ Push(t, x)
    BY <1>2 DEF PickLocal
  <2>2. x \in Node \ listed /\ x \in InThread(t)
    BY <1>0, <2>1 DEF PlaceInv, Apart, Mine, InThread
  <2>3. /\ gnodes' = gnodes /\ node' = node
        /\ path'[t] = path[t] \cup {x} /\ todo'[t] = todo[t] \cup Kids[x]
        /\ lnodes'[t] = lnodes[t] \ {x}
        /\ block' = [y \in Node |-> IF y \in Kids[x] THEN block[x]
                                                     ELSE block[y]]
    BY <1>0, <1>2, <2>1 DEF PickLocal, Push
  <2>4. InThread(t)' \subseteq InThread(t) \cup Kids[x]
    BY <2>1, <2>3 DEF InThread
  <2>5. QED
    BY <2>2, <2>3, <2>4 DEF Buffers, FromNode
<1>3. CASE DequeueRoot(t)
  <2>1. PICK r \in possibleRoots : path' = [path EXCEPT ![t] = {r}]
    BY <1>3 DEF DequeueRoot
  <2>2. path'[t] \cap Node = {}
    BY <1>0, <2>1, KidsType, ForestAssumption DEF TypeInv, TypeOK
  <2>3. UNCHANGED <<gnodes, block, todo, node, lnodes>>
    BY <1>3 DEF DequeueRoot
  <2>4. QED
    BY <2>2, <2>3 DEF Buffers, Carry, InThread
<1>4. CASE GetRoot(t)
  <2>1. PICK r \in path[t] :
          /\ todo' = [todo EXCEPT ![t] = Kids[r]]
          /\ block' = [y \in Node |-> IF y \in Kids[r] THEN t ELSE block[y]]
    BY <1>4 DEF GetRoot
  <2>2. r \in Frame \ listed
    BY <1>0, <1>4, <2>1 DEF GetRoot, PlaceInv, Apart, Mine
  <2>3. pc[t] = "open" /\ UNCHANGED <<gnodes, path, node, lnodes>>
        /\ todo'[t] = Kids[r]
    BY <1>0, <1>4, <2>1 DEF GetRoot
  <2>4. QED
    BY <2>1, <2>2, <2>3 DEF Buffers, FromRoot, InThread
<1>5. CASE NoOwnData(t)
  BY <1>5, QuietBuffers DEF NoOwnData
<1>6. CASE CallBack(t)
  <2>1. PICK x \in todo[t] : /\ todo' = [todo EXCEPT ![t] = @ \ {x}]
                             /\ node' = [node EXCEPT ![t] = x]
    BY <1>6 DEF CallBack
  <2>2. UNCHANGED <<gnodes, block, path, lnodes>>
        /\ todo'[t] \subseteq todo[t] /\ node'[t] \in todo[t]
    BY <1>0, <1>6, <2>1 DEF CallBack
  <2>3. QED
    BY <2>2 DEF Buffers, Carry, InThread
<1>7. CASE Return(t)
  <2>1. PICK f \in path[t] : ReturnFrom(t, f, path[t] # {f})
    BY <1>7 DEF Return
  <2>2. UNCHANGED <<gnodes, block, todo, lnodes>> /\ path'[t] = path[t] \ {f}
    BY <1>0, <1>7, <2>1 DEF Return, ReturnFrom
  <2>3. node'[t] \in {node[t]} \cup (path[t] \cap Node)
    <3>1. CASE path[t] = {f}
      BY <2>1, <3>1 DEF ReturnFrom
    <3>2. CASE path[t] # {f}
      <4>1. f \in Called(path[t])
        BY <1>0, <1>7, <2>1, <3>2, TopWasCalled
           DEF Return, ReturnFrom, IsTop, Control
      <4>2. f \in Node
        BY <1>0, <4>1, KidsType DEF Called
      <4>3. node'[t] = f
        BY <1>0, <2>1, <3>2 DEF ReturnFrom
      <4>4. QED
        BY <2>1, <4>2, <4>3
    <3>3. QED
      BY <3>1, <3>2
  <2>4. QED
    BY <2>2, <2>3 DEF Buffers, Carry, InThread
<1>8. QED
  BY <1>1, <1>2, <1>3, <1>4, <1>5, <1>6, <1>7 DEF RunLoop

LEMMA ServeStealBuffers ==
  ASSUME NEW t \in Thread, ServeSteal(t)
  PROVE  Buffers(t)
<1> USE DEF data, stack, locals, queues, flags, results, cluster
<1>1. /\ gnodes' = gnodes /\ block' = block
      /\ UNCHANGED <<path, todo, node, lnodes>>
  BY DEF ServeSteal, TestAndSet, SetFlag, Probe, Move, Drain, TakeRoot,
         SendRoots, SendSteal, SendNode, SendNothing, Clear
<1>2. QED
  BY <1>1, QuietBuffers

LEMMA SolutionCbBuffers ==
  ASSUME TypeInv, PlaceInv, NEW t \in Thread, SolutionCb(t)
  PROVE  Buffers(t)
<1> USE DEF At, Goto, data, stack, locals, queues, flags, results, cluster
<1>0. /\ pc \in [Thread -> Label] /\ path \in [Thread -> SUBSET Frame]
      /\ todo \in [Thread -> SUBSET Node]
      /\ node \in [Thread -> Node \cup {NoNode}]
      /\ lnodes \in [Thread -> SUBSET Node]
      /\ Control(t) /\ Tidy(t)
  BY DEF TypeInv, TypeOK, PlaceInv
<1>1. CASE ReadSize(t)
  BY <1>1, QuietBuffers DEF ReadSize
<1>2. CASE DecideShare(t)
  BY <1>2, QuietBuffers DEF DecideShare, Compare
<1>3. CASE KeepLocal(t)
  <2>1. node[t] \in Node /\ node[t] # NoNode
    BY <1>0, <1>3, KidsType DEF KeepLocal, Compare, Control, InCallback
  <2>2. /\ UNCHANGED <<gnodes, block, path, todo, node>>
        /\ lnodes'[t] = lnodes[t] \cup {node[t]}
    BY <1>0, <1>3 DEF KeepLocal, Compare
  <2>3. QED
    BY <2>1, <2>2 DEF Buffers, Carry, InThread
<1>4. CASE Recurse(t)
  <2>1. PICK x \in {node[t]} : Push(t, x)
    BY <1>4 DEF Recurse, Compare
  <2>2. x \in Node
    BY <1>0, <1>4, <2>1, KidsType DEF Recurse, Compare, Control, InCallback
  <2>3. x \notin listed /\ x \in InThread(t)
    BY <1>4, <2>1, <2>2, KidsType
       DEF Recurse, Compare, PlaceInv, Apart, Mine, InHand, InThread
  <2>4. /\ gnodes' = gnodes /\ lnodes' = lnodes /\ node'[t] = NoNode
        /\ path'[t] = path[t] \cup {x} /\ todo'[t] = todo[t] \cup Kids[x]
        /\ block' = [y \in Node |-> IF y \in Kids[x] THEN block[x]
                                                     ELSE block[y]]
    BY <1>0, <1>4, <2>1 DEF Recurse, Compare, Push
  <2>5. InThread(t)' \subseteq InThread(t) \cup Kids[x]
    BY <2>3, <2>4 DEF InThread
  <2>6. QED
    BY <2>2, <2>3, <2>4, <2>5 DEF Buffers, FromNode
<1>5. CASE Share(t)
  <2>1. node[t] \in Node /\ node[t] # NoNode
    BY <1>0, <1>5, KidsType DEF Share, Control, InCallback
  <2>2. /\ UNCHANGED <<block, path, todo, node, lnodes>>
        /\ gnodes' = gnodes \cup {node[t]}
    BY <1>5 DEF Share, Enqueue
  <2>3. QED
    BY <2>1, <2>2 DEF Buffers, Carry, InThread
<1>6. CASE ReportSolution(t)
  BY <1>0, <1>6, QuietBuffers DEF ReportSolution
<1>7. QED
  BY <1>1, <1>2, <1>3, <1>4, <1>5, <1>6 DEF SolutionCb

LEMMA WaitBuffers ==
  ASSUME TypeInv, PlaceInv, NEW t \in Thread, Wait(t)
  PROVE  Buffers(t)
<1> USE DEF At, Goto, data, stack, locals, queues, flags, results, cluster
<1>0. /\ pc \in [Thread -> Label] /\ path \in [Thread -> SUBSET Frame]
      /\ todo \in [Thread -> SUBSET Node]
      /\ node \in [Thread -> Node \cup {NoNode}]
      /\ Control(t) /\ Tidy(t)
  BY DEF TypeInv, TypeOK, PlaceInv
<1>1. CASE StartWaiting(t)
  BY <1>1, QuietBuffers DEF StartWaiting, Count
<1>2. CASE DequeueNode(t)
  <2>1. PICK x \in gnodes : /\ gnodes' = gnodes \ {x}
                            /\ node' = [node EXCEPT ![t] = x]
    BY <1>2 DEF DequeueNode
  <2>2. node'[t] \in gnodes /\ UNCHANGED <<block, path, todo, lnodes>>
    BY <1>0, <1>2, <2>1 DEF DequeueNode
  <2>3. QED
    BY <2>1, <2>2 DEF Buffers, Carry, InThread
<1>3. CASE DequeueFails(t)
  BY <1>3, QuietBuffers DEF DequeueFails
<1>4. CASE ReadTerminate(t)
  BY <1>4, QuietBuffers DEF ReadTerminate, Move
<1>5. CASE ReadWaiting(t)
  BY <1>5, QuietBuffers DEF ReadWaiting, Move
<1>6. CASE LeaveWithNode(t)
  <2>1. PICK x \in {node[t]} : Push(t, x) /\ x # NoNode
    BY <1>6 DEF LeaveWithNode, ListShared
  <2>2. x \in Node \ listed /\ x \in InThread(t)
    BY <1>0, <1>6, <2>1
       DEF LeaveWithNode, ListShared, PlaceInv, Apart, Mine, InHand, InThread
  <2>3. /\ gnodes' = gnodes /\ lnodes' = lnodes /\ node'[t] = NoNode
        /\ path'[t] = path[t] \cup {x} /\ todo'[t] = todo[t] \cup Kids[x]
        /\ block' = [y \in Node |-> IF y \in Kids[x] THEN block[x]
                                                     ELSE block[y]]
    BY <1>0, <1>6, <2>1 DEF LeaveWithNode, ListShared, Push
  <2>4. InThread(t)' \subseteq InThread(t) \cup Kids[x]
    BY <2>2, <2>3 DEF InThread
  <2>5. QED
    BY <2>2, <2>3, <2>4 DEF Buffers, FromNode
<1>7. CASE LeaveIdle(t)
  BY <1>7, QuietBuffers DEF LeaveIdle, Count
<1>8. CASE Quit(t)
  BY <1>8, QuietBuffers DEF Quit
<1>9. QED
  BY <1>1, <1>2, <1>3, <1>4, <1>5, <1>6, <1>7, <1>8 DEF Wait

LEMMA GetMoreWorkBuffers ==
  ASSUME NEW t \in Thread, GetMoreWork(t)
  PROVE  Buffers(t)
<1> USE DEF At, Goto, data, stack, locals, queues, flags, results, cluster
<1>1. CASE AnswerSubtree(t)
  <2>1. PICK x \in extWork \cap Node : /\ Enqueue(t, x)
                                       /\ block' = [block EXCEPT ![x] = Fresh]
    BY <1>1 DEF AnswerSubtree
  <2>2. pc[t] = "answer" /\ gnodes' = gnodes \cup {x}
        /\ UNCHANGED <<path, todo, node, lnodes>>
    BY <1>1, <2>1 DEF AnswerSubtree, Enqueue
  <2>3. QED
    BY <2>1, <2>2 DEF Buffers, FromMessage, InThread
<1>2. CASE ~ AnswerSubtree(t)
  <2>1. UNCHANGED <<gnodes, block, path, todo, node, lnodes>>
    BY <1>2 DEF GetMoreWork, EnterMoreWork, Claim, CheckEmpty, Ask,
                DiscardSteal, Answer, AnswerRoots, TakeRoots, AnswerNothing,
                ReleaseClaim, LeaveMoreWork, Count, SetFlag, Move
  <2>2. QED
    BY <2>1, QuietBuffers
<1>3. QED
  BY <1>1, <1>2

LEMMA StepBuffers ==
  ASSUME TypeInv, PlaceInv, NEW t \in Thread, Step(t)
  PROVE  Buffers(t)
BY RunLoopBuffers, ServeStealBuffers, SolutionCbBuffers, WaitBuffers,
   GetMoreWorkBuffers DEF Step

\* Where a step adds to the queues, and where its thread goes.
LEMMA RunLoopRoute ==
  ASSUME TypeInv, NEW t \in Thread, EmptyHanded(t), RunLoop(t)
  PROVE  Supply(t) /\ Route(t)
<1> USE DEF TypeInv, TypeOK, Label, Goto, At, data, stack, locals, queues,
            flags, results, cluster, Control, Outside, Serving, InCallback,
            EmptyHanded, FoundNone, Phase, Supply, Route, InThread
<1>1. CASE Outer(t)
  BY <1>1, KidsType DEF Outer, Move
<1>2. CASE PickLocal(t)
  BY <1>2, KidsType DEF PickLocal, Push
<1>3. CASE DequeueRoot(t)
  BY <1>3, KidsType DEF DequeueRoot
<1>4. CASE GetRoot(t)
  BY <1>4, KidsType DEF GetRoot
<1>5. CASE NoOwnData(t)
  BY <1>5, KidsType DEF NoOwnData, Serve, Kept
<1>6. CASE CallBack(t)
  BY <1>6, KidsType DEF CallBack, Serve, Kept
<1>7. CASE Return(t)
  BY <1>7, KidsType DEF Return, ReturnFrom, Serve, Kept
<1>8. QED
  BY <1>1, <1>2, <1>3, <1>4, <1>5, <1>6, <1>7 DEF RunLoop

LEMMA ServeStealRoute ==
  ASSUME TypeInv, NEW t \in Thread, EmptyHanded(t), ServeSteal(t)
  PROVE  Supply(t) /\ Route(t)
<1> USE DEF TypeInv, TypeOK, Label, Goto, At, data, stack, locals, queues,
            flags, results, cluster, Control, Outside, Serving, InCallback,
            EmptyHanded, FoundNone, Phase, Supply, Route, InThread
<1>1. CASE TestAndSet(t)
  BY <1>1, KidsType DEF TestAndSet, SetFlag, Kept
<1>2. CASE Probe(t)
  BY <1>2, KidsType DEF Probe, Move
<1>3. CASE Drain(t)
  BY <1>3, KidsType DEF Drain, Move
<1>4. CASE TakeRoot(t)
  BY <1>4, KidsType DEF TakeRoot
<1>5. CASE SendRoots(t)
  BY <1>5, KidsType DEF SendRoots, SendSteal
<1>6. CASE SendNode(t)
  BY <1>6, KidsType DEF SendNode, SendSteal
<1>7. CASE SendNothing(t)
  BY <1>7, KidsType DEF SendNothing, Move
<1>8. CASE Clear(t)
  BY <1>8, KidsType DEF Clear, SetFlag, Returned, Kept
<1>9. QED
  BY <1>1, <1>2, <1>3, <1>4, <1>5, <1>6, <1>7, <1>8 DEF ServeSteal

LEMMA SolutionCbRoute ==
  ASSUME TypeInv, NEW t \in Thread, EmptyHanded(t), SolutionCb(t)
  PROVE  Supply(t) /\ Route(t)
<1> USE DEF TypeInv, TypeOK, Label, Goto, At, data, stack, locals, queues,
            flags, results, cluster, Control, Outside, Serving, InCallback,
            EmptyHanded, FoundNone, Phase, Supply, Route, InThread
<1>1. CASE ReadSize(t)
  BY <1>1, KidsType DEF ReadSize
<1>2. CASE DecideShare(t)
  BY <1>2, KidsType DEF DecideShare, Compare
<1>3. CASE KeepLocal(t)
  BY <1>3, KidsType DEF KeepLocal, Compare
<1>4. CASE Recurse(t)
  BY <1>4, KidsType DEF Recurse, Compare, Push
<1>5. CASE Share(t)
  BY <1>5, KidsType DEF Share, Enqueue
<1>6. CASE ReportSolution(t)
  BY <1>6, KidsType DEF ReportSolution
<1>7. QED
  BY <1>1, <1>2, <1>3, <1>4, <1>5, <1>6 DEF SolutionCb

LEMMA WaitRoute ==
  ASSUME TypeInv, NEW t \in Thread, EmptyHanded(t), Wait(t)
  PROVE  Supply(t) /\ Route(t)
<1> USE DEF TypeInv, TypeOK, Label, Goto, At, data, stack, locals, queues,
            flags, results, cluster, Control, Outside, Serving, InCallback,
            EmptyHanded, FoundNone, Phase, Supply, Route, InThread
<1>1. CASE StartWaiting(t)
  BY <1>1, KidsType DEF StartWaiting, Count
<1>2. CASE DequeueNode(t)
  BY <1>2, KidsType DEF DequeueNode
<1>3. CASE DequeueFails(t)
  BY <1>3, KidsType DEF DequeueFails
<1>4. CASE ReadTerminate(t)
  BY <1>4, KidsType DEF ReadTerminate, Move
<1>5. CASE ReadWaiting(t)
  BY <1>5, KidsType DEF ReadWaiting, Move
<1>6. CASE LeaveWithNode(t)
  BY <1>6, KidsType DEF LeaveWithNode, ListShared, Push
<1>7. CASE LeaveIdle(t)
  BY <1>7, KidsType DEF LeaveIdle, Count
<1>8. CASE Quit(t)
  BY <1>8, KidsType DEF Quit
<1>9. QED
  BY <1>1, <1>2, <1>3, <1>4, <1>5, <1>6, <1>7, <1>8 DEF Wait

LEMMA GetMoreWorkRoute ==
  ASSUME TypeInv, NEW t \in Thread, EmptyHanded(t), GetMoreWork(t)
  PROVE  Supply(t) /\ Route(t)
<1> USE DEF TypeInv, TypeOK, Label, Goto, At, data, stack, locals, queues,
            flags, results, cluster, Control, Outside, Serving, InCallback,
            EmptyHanded, FoundNone, Phase, Supply, Route, InThread
<1>1. CASE EnterMoreWork(t)
  BY <1>1, KidsType DEF EnterMoreWork, Count
<1>2. CASE Claim(t)
  BY <1>2, KidsType DEF Claim, SetFlag
<1>3. CASE CheckEmpty(t)
  BY <1>3, KidsType DEF CheckEmpty, Move
<1>4. CASE Ask(t)
  BY <1>4, KidsType DEF Ask
<1>5. CASE DiscardSteal(t)
  BY <1>5, KidsType DEF DiscardSteal
<1>6. CASE AnswerRoots(t)
  BY <1>6, KidsType DEF AnswerRoots, TakeRoots
<1>7. CASE AnswerSubtree(t)
  BY <1>7, KidsType DEF AnswerSubtree, Enqueue
<1>8. CASE AnswerNothing(t)
  BY <1>8, KidsType DEF AnswerNothing
<1>9. CASE ReleaseClaim(t)
  BY <1>9, KidsType DEF ReleaseClaim, SetFlag
<1>10. CASE LeaveMoreWork(t)
  BY <1>10, KidsType DEF LeaveMoreWork, Count
<1>11. QED
  BY <1>1, <1>2, <1>3, <1>4, <1>5, <1>6, <1>7, <1>8, <1>9,
     <1>10 DEF GetMoreWork, Answer

LEMMA StepRoute ==
  ASSUME TypeInv, NEW t \in Thread, EmptyHanded(t), Step(t)
  PROVE  Supply(t) /\ Route(t)
BY RunLoopRoute, ServeStealRoute, SolutionCbRoute, WaitRoute,
   GetMoreWorkRoute DEF Step
-----------------------------------------------------------------------
(* Every step keeps BufferInv                                              *)

\* A step of one thread leaves the nodes of the others where they are.
LEMMA OthersKeepNodes ==
  ASSUME NEW t \in Thread, Alone(t), NEW u \in Thread \ {t}
  PROVE  /\ pc'[u] = pc[u] /\ InThread(u)' = InThread(u)
         /\ FoundNone(u)' <=> FoundNone(u)
         /\ EmptyHanded(u) => EmptyHanded(u)'
BY DEF Alone, InThread, FoundNone, EmptyHanded

\* While every node is at home, no thread sees another one idle.
LEMMA NobodyWaits ==
  ASSUME WaitingExact, Together, AtHome, possibleRoots # {},
         NEW t \in Thread, pc[t] = "compare"
  PROVE  waiting = 0
<1>1. \A u \in Thread : pc[u] \notin Phase
  BY DEF Together, Phase
<1>2. {u \in Thread : pc[u] \in Counted} = {}
  BY <1>1 DEF AtHome, FoundNone, Counted, Phase
<1>3. QED
  BY <1>2, FS_EmptySet DEF WaitingExact

LEMMA AskEmptyStep ==
  ASSUME OneInMpi, Together, AskEmpty,
         NEW t \in Thread, Alone(t), Supply(t), Route(t)
  PROVE  AskEmpty'
<1>1. CASE pc'[t] \in {"ask", "answer"}
  <2>1. gnodes = {} /\ possibleRoots = {}
    BY <1>1 DEF Route, AskEmpty
  <2>2. QED
    BY <1>1, <2>1 DEF Supply, AskEmpty
<1>2. CASE pc'[t] \notin {"ask", "answer"}
  <2> SUFFICES ASSUME NEW u \in Thread \ {t}, pc'[u] \in {"ask", "answer"}
               PROVE  gnodes' = {} /\ possibleRoots' = {}
    BY <1>2 DEF AskEmpty
  <2>1. pc[u] \in {"ask", "answer"}
    BY OthersKeepNodes
  <2>2. pc[t] \in Phase /\ pc[t] \notin {"ask", "answer"}
    BY <2>1 DEF Together, Phase, OneInMpi, Holding
  <2>3. QED
    BY <2>1, <2>2 DEF Supply, AskEmpty, Phase
<1>3. QED
  BY <1>1, <1>2

\* New roots arrive when no thread has a node.
LEMMA RootsArrive ==
  ASSUME TypeInv, PlaceInv, Together, \A u \in Thread : EmptyHanded(u),
         AskEmpty, NEW t \in Thread, Alone(t), Buffers(t), Supply(t),
         Route(t), ~ (possibleRoots' \subseteq possibleRoots)
  PROVE  AtHome'
<1>1. pc[t] = "answer" /\ pc'[t] = "release" /\ gnodes = {} /\ gnodes' = {}
  BY DEF Supply, Route, AskEmpty
<1>2. \A u \in Thread : pc[u] \in Phase
  BY <1>1 DEF Together, Phase
<1>3. \A u \in Thread : InThread(u) = {}
  BY <1>2, PhaseHasNoNodes
<1>4. InThread(t)' = {}
  BY <1>1, <1>3 DEF Buffers, Carry, FromRoot, FromNode, FromMessage
<1>5. \A u \in Thread : InThread(u)' = {} /\ pc'[u] \in Phase
  BY <1>1, <1>2, <1>3, <1>4, OthersKeepNodes DEF Phase
<1>6. QED
  BY <1>1, <1>5 DEF AtHome, FoundNone, Phase, Serving

LEMMA AtHomeStep ==
  ASSUME IInv, PlaceInv, ReportInv, Together, BufferInv,
         NEW t \in Thread, Alone(t), Buffers(t), Supply(t), Route(t),
         possibleRoots' \subseteq possibleRoots
  PROVE  AtHome'
<1> SUFFICES ASSUME possibleRoots' # {}
             PROVE  /\ gnodes' = {}
                    /\ \A u \in Thread :
                         /\ ~ FoundNone(u)' /\ pc'[u] # "share"
                         /\ \A x \in InThread(u)' : block'[x] = u
  BY DEF AtHome
<1>1. /\ possibleRoots # {} /\ gnodes = {}
      /\ \A u \in Thread : /\ ~ FoundNone(u) /\ pc[u] # "share"
                           /\ \A x \in InThread(u) : block[x] = u
  BY DEF BufferInv, AtHome
<1>2. pc[t] # "answer"
  BY <1>1 DEF BufferInv, AskEmpty
<1>3. gnodes' = {}
  BY <1>1, <1>2 DEF Supply
<1>4. \A u \in Thread : ~ FoundNone(u)'
  BY <1>1, OthersKeepNodes DEF Route
<1>5. pc'[t] # "share"
  <2> SUFFICES ASSUME pc'[t] = "share" PROVE FALSE
    OBVIOUS
  <2>1. pc[t] = "compare" /\ seen[t] < waiting
    BY DEF Route
  <2>2. waiting = 0
    BY <1>1, <2>1, NobodyWaits DEF IInv, BufferInv
  <2>3. seen[t] \in Nat
    BY DEF IInv, TypeInv, TypeOK
  <2>4. QED
    BY <2>1, <2>2, <2>3
<1>6. \A u \in Thread : pc'[u] # "share"
  BY <1>1, <1>5, OthersKeepNodes
<1>7. ASSUME NEW u \in Thread, NEW x \in InThread(u)' PROVE block'[x] = u
  <2>0. /\ \A v \in Thread : InThread(v) \subseteq Node
        /\ u # t => x \in InThread(u)
    BY <1>7, OthersKeepNodes DEF IInv, TypeInv, TypeOK, InThread
  <2>1. CASE Carry(t)
    BY <1>1, <1>7, <2>0, <2>1 DEF Carry
  <2>2. CASE FromRoot(t)
    <3>1. PICK r \in Frame \ listed :
            /\ InThread(t)' \subseteq InThread(t) \cup Kids[r]
            /\ block' = [y \in Node |-> IF y \in Kids[r] THEN t ELSE block[y]]
      BY <2>2 DEF FromRoot
    <3>2. u # t => x \notin Kids[r]
      BY <2>0, FreshNodes DEF IInv
    <3>3. QED
      BY <1>1, <1>7, <2>0, <3>1, <3>2, KidsType
  <2>3. CASE FromNode(t)
    <3>1. PICK z \in Node \ listed :
            /\ z \in InThread(t)
            /\ InThread(t)' \subseteq InThread(t) \cup Kids[z]
            /\ block' = [y \in Node |-> IF y \in Kids[z] THEN block[z]
                                                         ELSE block[y]]
      BY <2>3 DEF FromNode
    <3>2. u # t => x \notin Kids[z]
      BY <2>0, <3>1, FreshNodes, KidsType DEF IInv
    <3>3. QED
      BY <1>1, <1>7, <2>0, <3>1, <3>2, KidsType
  <2>4. QED
    BY <1>2, <2>1, <2>2, <2>3 DEF Buffers, FromMessage
<1>8. QED
  BY <1>3, <1>4, <1>6, <1>7

\* The vectors of a thread that opened a root stay unused until it builds
\* the node of the root in them.
LEMMA NoReuseStep ==
  ASSUME TypeInv, PlaceInv, ReportInv, BufferInv,
         NEW t \in Thread, Alone(t), Buffers(t), Supply(t), Route(t)
  PROVE  NoBufferReuse'
<1> SUFFICES ASSUME NEW u \in Thread, pc'[u] = "open", NEW x \in Live'
             PROVE  block'[x] # u
  BY DEF NoBufferReuse, At
<1>0. /\ gnodes \subseteq Node /\ \A v \in Thread : InThread(v) \subseteq Node
      /\ block \in [Node -> Thread \cup {Fresh}]
      /\ Fresh \notin Thread
  BY WorkStealAssumption DEF TypeInv, TypeOK, InThread, Fresh
<1>1. x \in gnodes' \/ \E v \in Thread : x \in InThread(v)'
  BY DEF Live, InThread
<1>2. CASE u = t
  <2>1. pc[t] = "pick" /\ lnodes[t] = {} /\ possibleRoots # {}
    BY <1>2 DEF Route
  <2>2. /\ gnodes = {}
        /\ \A v \in Thread : \A y \in InThread(v) : block[y] = v
    BY <2>1 DEF BufferInv, AtHome
  <2>3. InThread(t) = {}
    BY <2>1 DEF TypeInv, Control, Outside, PlaceInv, Tidy, InThread
  <2>4. gnodes' = {} /\ InThread(t)' = {} /\ block' = block
    BY <2>1, <2>2, <2>3
       DEF Buffers, Carry, FromRoot, FromNode, FromMessage
  <2>5. QED
    BY <1>1, <1>2, <2>2, <2>4, OthersKeepNodes
<1>3. CASE u # t
  <2>1. pc[u] = "open"
    BY <1>3, OthersKeepNodes
  <2>2. \A y \in gnodes : block[y] # u
    BY <2>1 DEF BufferInv, NoBufferReuse, At, Live
  <2>3. \A v \in Thread : \A y \in InThread(v) : block[y] # u
    BY <2>1, LiveNodes DEF BufferInv, NoBufferReuse, At
  <2>4. x \in gnodes' \cup InThread(t)'
          \/ \E v \in Thread \ {t} : x \in InThread(v)
    BY <1>1, OthersKeepNodes
  <2>5. CASE Carry(t)
    BY <2>2, <2>3, <2>4, <2>5 DEF Carry
  <2>6. CASE FromRoot(t)
    BY <1>0, <1>3, <2>2, <2>3, <2>4, <2>6, KidsType DEF FromRoot
  <2>7. CASE FromNode(t)
    <3>1. PICK z \in Node \ listed :
            /\ z \in InThread(t) /\ gnodes' = gnodes
            /\ InThread(t)' \subseteq InThread(t) \cup Kids[z]
            /\ block' = [y \in Node |-> IF y \in Kids[z] THEN block[z]
                                                         ELSE block[y]]
      BY <2>7 DEF FromNode
    <3>2. x \in Node
      BY <1>0, <2>4, <3>1, KidsType
    <3>3. QED
      BY <2>2, <2>3, <2>4, <3>1, <3>2
  <2>8. CASE FromMessage(t)
    BY <1>0, <2>2, <2>3, <2>4, <2>8 DEF FromMessage
  <2>9. QED
    BY <2>5, <2>6, <2>7, <2>8 DEF Buffers
<1>4. QED
  BY <1>2, <1>3

LEMMA StepKeepsBuffers ==
  ASSUME IInv, PlaceInv, ReportInv, CountInv, BufferInv,
         NEW t \in Thread, Step(t)
  PROVE  BufferInv'
<1>1. Alone(t) /\ Buffers(t) /\ Supply(t) /\ Route(t)
  BY StepEffects, StepBuffers, StepRoute DEF IInv, Effects, BufferInv
<1>2. \A u \in Thread : EmptyHanded(u)'
  BY <1>1, OthersKeepNodes DEF Route, BufferInv
<1>3. AskEmpty'
  BY <1>1, AskEmptyStep DEF IInv, CountInv, BufferInv
<1>4. AtHome'
  BY <1>1, RootsArrive, AtHomeStep DEF IInv, CountInv, BufferInv
<1>5. NoBufferReuse'
  BY <1>1, NoReuseStep DEF IInv
<1>6. QED
  BY <1>2, <1>3, <1>4, <1>5 DEF BufferInv

\* At the first barrier every thread has found nothing; at the second, none
\* has a node.
LEMMA BarrierKeepsBuffers ==
  ASSUME BufferInv, Barrier1 \/ Barrier2
  PROVE  BufferInv'
<1> USE DEF data, stack, locals, queues
<1>0. /\ UNCHANGED <<gnodes, possibleRoots, block, lnodes, path, todo, node>>
      /\ \A t \in Thread : InThread(t)' = InThread(t)
  BY DEF Barrier1, Barrier2, Release, InThread
<1>1. \A t \in Thread : EmptyHanded(t)'
  BY <1>0 DEF Barrier1, Barrier2, Release, At, BufferInv, EmptyHanded,
              FoundNone, Phase, Serving
<1>2. /\ \A t \in Thread : pc'[t] \in {"claim", "outer"}
      /\ Barrier1 => \A t \in Thread : FoundNone(t)
  BY DEF Barrier1, Barrier2, Release, At, FoundNone
<1>3. AskEmpty' /\ NoBufferReuse'
  BY <1>2 DEF AskEmpty, NoBufferReuse, At
<1>4. AtHome'
  <2>1. CASE Barrier1
    BY <1>0, <1>2, <2>1, WorkStealAssumption DEF BufferInv, AtHome
  <2>2. CASE Barrier2
    <3>1. \A t \in Thread : ~ FoundNone(t)'
      BY <2>2 DEF Barrier2, Release, FoundNone, Serving
    <3>2. QED
      BY <1>0, <1>2, <3>1 DEF BufferInv, AtHome
  <2>3. QED
    BY <2>1, <2>2
<1>5. QED
  BY <1>1, <1>3, <1>4 DEF BufferInv

LEMMA InitBuffers == Init => BufferInv
<1> SUFFICES ASSUME Init PROVE BufferInv
  OBVIOUS
<1>1. \A t \in Thread : InThread(t) = {} /\ EmptyHanded(t) /\ ~ FoundNone(t)
  BY DEF Init, InThread, EmptyHanded, FoundNone, Serving, Phase
<1>2. QED
  BY <1>1 DEF Init, BufferInv, AskEmpty, AtHome, NoBufferReuse, At

LEMMA InductiveBuffers ==
  IInv /\ PlaceInv /\ ReportInv /\ CountInv /\ BufferInv /\ [Next]_vars
    => BufferInv'
<1> SUFFICES ASSUME IInv, PlaceInv, ReportInv, CountInv, BufferInv,
                    [Next]_vars
             PROVE  BufferInv'
  OBVIOUS
<1>1. ASSUME NEW t \in Thread, Step(t) PROVE BufferInv'
  BY <1>1, StepKeepsBuffers
<1>2. CASE Barrier1 \/ Barrier2
  BY <1>2, BarrierKeepsBuffers
<1>3. CASE EnvSteal \/ EnvWork \/ UNCHANGED vars
  <2>1. UNCHANGED <<pc, from, path, todo, node, lnodes, possibleRoots, gnodes,
                    block>>
    BY <1>3 DEF EnvSteal, EnvWork, vars, data, stack, locals, queues
  <2>2. QED
    BY <2>1 DEF BufferInv, EmptyHanded, FoundNone, AskEmpty, AtHome,
                NoBufferReuse, InThread, Live, At
<1>4. QED
  BY <1>1, <1>2, <1>3 DEF Next, Joined

\* GetRoot rewrites the vectors of its thread, which nodes of the previous
\* root and all below them point to, only when no such node is left: nodes
\* reach other threads only after some thread found no root, and the roots
\* that come later come when no thread and no queue has a node.
THEOREM BuffersAreNotReused == Spec => []NoBufferReuse
<1>1. BufferInv => NoBufferReuse
  BY DEF BufferInv
<1>2. QED
  BY <1>1, InitBuffers, InductiveBuffers, ReportsInvariant, CountInvariant,
     PTL DEF Spec

-----------------------------------------------------------------------
(* The end                                                                 *)

\* Where only the threads of a worker of the cluster go.
OfWorkers == Serving \cup {"clearGiven", "more", "barrier1"} \cup Phase

\* A thread that will look into gnodes again before it stops.
Active(t) ==
  /\ pc[t] \notin {"outer", "ended", "allIdle", "quit", "done"}
  /\ pc[t] = "leave" => node[t] # NoNode

\* ... or whose last try_dequeue failed although there was a node.
Watches(t) == Active(t) \/ missed[t]

\* A thread that begins another round, or has stopped, has no local nodes.
Halted(t) ==
  /\ pc[t] \in {"outer", "done"} => lnodes[t] = {}
  /\ pc[t] = "done" => terminate
  /\ IF Callbacks THEN pc[t] # "quit" ELSE pc[t] \notin OfWorkers

\* Nothing is left, and the threads of a worker only return.
NoneLeft == possibleRoots = {} /\ gnodes = {} /\ extWork = {}
Returning(t) == pc[t] \in Phase \cup {"outer", "done"}

\* A worker terminates when the cluster has no work.  Without a cluster some
\* thread is active while there are nodes, or missed one.
StopInv ==
  /\ \A t \in Thread : Halted(t)
  /\ Callbacks /\ terminate => NoneLeft /\ \A t \in Thread : Returning(t)
  /\ ~ Callbacks => /\ extWork = {}
                    /\ terminate => possibleRoots = {}
                    /\ gnodes # {} => \E t \in Thread : Watches(t)
  /\ Callbacks => \A t \in Thread : ~ missed[t]
-----------------------------------------------------------------------
(* Where the frames are *)

\* What nobody has begun: in the queues, elsewhere in the cluster, or with a
\* thread.
Pending ==
  possibleRoots \cup gnodes \cup extWork
    \cup UNION {Mine(t) : t \in Thread}

\* What will be reported.
Due == UNION {ToReport(t) : t \in Thread}

\* No frame is forgotten: the roots, and what a frame that began called back
\* with, began or will; and the latter was reported or will be.
Complete ==
  /\ RootId \subseteq listed \cup Pending
  /\ \A f \in listed : /\ Kids[f] \subseteq listed \cup Pending
                       /\ Kids[f] \subseteq Out \cup Due

\* Nor is one made up.
Sound ==
  /\ listed \cup Pending \subseteq RootId \cup Reachable
  /\ Out \cup Due \subseteq Reachable

WholeInv == StopInv /\ Complete /\ Sound
-----------------------------------------------------------------------
(* What a step does to the end of the enumeration *)

\* It ends a round without local nodes, and stops only on terminate, which
\* it sets without a cluster or when the cluster has no work.
Halts(t) ==
  /\ Halted(t)'
  /\ pc'[t] = "done" => pc[t] = "outer" /\ UNCHANGED <<reported, extReported>>
  /\ pc[t] # "done"
  /\ terminate => terminate'
  /\ terminate' => \/ terminate
                   \/ pc[t] = "quit"
                   \/ pc[t] = "answer" /\ pc'[t] = "release" /\ extWork = {}
                      /\ UNCHANGED <<queues, extWork>>

\* Without a cluster it stops being active only when it finds gnodes empty,
\* or misses a node; with one, it finds nothing more once it is to terminate.
Drains(t) ==
  /\ ~ Callbacks => /\ UNCHANGED extWork
                    /\ possibleRoots' \subseteq possibleRoots
                    /\ pc[t] = "quit" => possibleRoots = {}
                    /\ Watches(t) => gnodes' = {} \/ Watches(t)'
                    /\ gnodes' \subseteq gnodes \/ Active(t)
  /\ Callbacks /\ ~ missed[t] => ~ missed'[t]
  /\ Callbacks /\ terminate /\ NoneLeft /\ Returning(t)
       => NoneLeft' /\ Returning(t)'

LEMMA RunLoopHalts ==
  ASSUME TypeInv, NEW t \in Thread, Halted(t), EmptyHanded(t), RunLoop(t)
  PROVE  Halts(t)
<1> USE DEF TypeInv, TypeOK, Label, Goto, At, data, stack, locals, queues,
            flags, results, cluster, Control, Outside, Serving, InCallback,
            EmptyHanded, FoundNone, Phase, Halts, Halted, OfWorkers
<1>1. CASE Outer(t)
  BY <1>1, KidsType DEF Outer, Move
<1>2. CASE PickLocal(t)
  BY <1>2, KidsType DEF PickLocal, Push
<1>3. CASE DequeueRoot(t)
  BY <1>3, KidsType DEF DequeueRoot
<1>4. CASE GetRoot(t)
  BY <1>4, KidsType DEF GetRoot
<1>5. CASE NoOwnData(t)
  BY <1>5, KidsType DEF NoOwnData, Serve, Kept
<1>6. CASE CallBack(t)
  BY <1>6, KidsType DEF CallBack, Serve, Kept, IsTop
<1>7. CASE Return(t)
  BY <1>7, KidsType DEF Return, ReturnFrom, Serve, Kept, IsTop
<1>8. QED
  BY <1>1, <1>2, <1>3, <1>4, <1>5, <1>6, <1>7 DEF RunLoop

LEMMA ServeStealHalts ==
  ASSUME TypeInv, NEW t \in Thread, Halted(t), EmptyHanded(t), ServeSteal(t)
  PROVE  Halts(t)
<1> USE DEF TypeInv, TypeOK, Label, Goto, At, data, stack, locals, queues,
            flags, results, cluster, Control, Outside, Serving, InCallback,
            EmptyHanded, FoundNone, Phase, Halts, Halted, OfWorkers
<1>1. CASE TestAndSet(t)
  BY <1>1, KidsType DEF TestAndSet, SetFlag, Kept
<1>2. CASE Probe(t)
  BY <1>2, KidsType DEF Probe, Move
<1>3. CASE Drain(t)
  BY <1>3, KidsType DEF Drain, Move
<1>4. CASE TakeRoot(t)
  BY <1>4, KidsType DEF TakeRoot
<1>5. CASE SendRoots(t)
  BY <1>5, KidsType DEF SendRoots, SendSteal
<1>6. CASE SendNode(t)
  BY <1>6, KidsType DEF SendNode, SendSteal
<1>7. CASE SendNothing(t)
  BY <1>7, KidsType DEF SendNothing, Move
<1>8. CASE Clear(t)
  BY <1>8, KidsType DEF Clear, SetFlag, Returned, Kept
<1>9. QED
  BY <1>1, <1>2, <1>3, <1>4, <1>5, <1>6, <1>7, <1>8 DEF ServeSteal

LEMMA SolutionCbHalts ==
  ASSUME TypeInv, NEW t \in Thread, Halted(t), EmptyHanded(t), SolutionCb(t)
  PROVE  Halts(t)
<1> USE DEF TypeInv, TypeOK, Label, Goto, At, data, stack, locals, queues,
            flags, results, cluster, Control, Outside, Serving, InCallback,
            EmptyHanded, FoundNone, Phase, Halts, Halted, OfWorkers
<1>1. CASE ReadSize(t)
  BY <1>1, KidsType DEF ReadSize
<1>2. CASE DecideShare(t)
  BY <1>2, KidsType DEF DecideShare, Compare
<1>3. CASE KeepLocal(t)
  BY <1>3, KidsType DEF KeepLocal, Compare
<1>4. CASE Recurse(t)
  BY <1>4, KidsType DEF Recurse, Compare, Push
<1>5. CASE Share(t)
  BY <1>5, KidsType DEF Share, Enqueue
<1>6. CASE ReportSolution(t)
  BY <1>6, KidsType DEF ReportSolution
<1>7. QED
  BY <1>1, <1>2, <1>3, <1>4, <1>5, <1>6 DEF SolutionCb

LEMMA WaitHalts ==
  ASSUME TypeInv, NEW t \in Thread, Halted(t), EmptyHanded(t), Wait(t)
  PROVE  Halts(t)
<1> USE DEF TypeInv, TypeOK, Label, Goto, At, data, stack, locals, queues,
            flags, results, cluster, Control, Outside, Serving, InCallback,
            EmptyHanded, FoundNone, Phase, Halts, Halted, OfWorkers
<1>1. CASE StartWaiting(t)
  BY <1>1, KidsType DEF StartWaiting, Count
<1>2. CASE DequeueNode(t)
  BY <1>2, KidsType DEF DequeueNode
<1>3. CASE DequeueFails(t)
  BY <1>3, KidsType DEF DequeueFails
<1>4. CASE ReadTerminate(t)
  BY <1>4, KidsType DEF ReadTerminate, Move
<1>5. CASE ReadWaiting(t)
  BY <1>5, KidsType DEF ReadWaiting, Move
<1>6. CASE LeaveWithNode(t)
  BY <1>6, KidsType DEF LeaveWithNode, ListShared, Push
<1>7. CASE LeaveIdle(t)
  BY <1>7, KidsType DEF LeaveIdle, Count
<1>8. CASE Quit(t)
  BY <1>8, KidsType DEF Quit
<1>9. QED
  BY <1>1, <1>2, <1>3, <1>4, <1>5, <1>6, <1>7, <1>8 DEF Wait

LEMMA GetMoreWorkHalts ==
  ASSUME TypeInv, NEW t \in Thread, Halted(t), EmptyHanded(t), GetMoreWork(t)
  PROVE  Halts(t)
<1> USE DEF TypeInv, TypeOK, Label, Goto, At, data, stack, locals, queues,
            flags, results, cluster, Control, Outside, Serving, InCallback,
            EmptyHanded, FoundNone, Phase, Halts, Halted, OfWorkers
<1>1. CASE EnterMoreWork(t)
  BY <1>1, KidsType DEF EnterMoreWork, Count
<1>2. CASE Claim(t)
  BY <1>2, KidsType DEF Claim, SetFlag
<1>3. CASE CheckEmpty(t)
  BY <1>3, KidsType DEF CheckEmpty, Move
<1>4. CASE Ask(t)
  BY <1>4, KidsType DEF Ask
<1>5. CASE DiscardSteal(t)
  BY <1>5, KidsType DEF DiscardSteal
<1>6. CASE AnswerRoots(t)
  BY <1>6, KidsType DEF AnswerRoots, TakeRoots
<1>7. CASE AnswerSubtree(t)
  BY <1>7, KidsType DEF AnswerSubtree, Enqueue
<1>8. CASE AnswerNothing(t)
  BY <1>8, KidsType DEF AnswerNothing
<1>9. CASE ReleaseClaim(t)
  BY <1>9, KidsType DEF ReleaseClaim, SetFlag
<1>10. CASE LeaveMoreWork(t)
  BY <1>10, KidsType DEF LeaveMoreWork, Count
<1>11. QED
  BY <1>1, <1>2, <1>3, <1>4, <1>5, <1>6, <1>7, <1>8, <1>9, <1>10 DEF GetMoreWork, Answer

LEMMA StepHalts ==
  ASSUME TypeInv, NEW t \in Thread, Halted(t), EmptyHanded(t), Step(t)
  PROVE  Halts(t)
BY RunLoopHalts, ServeStealHalts, SolutionCbHalts, WaitHalts,
   GetMoreWorkHalts DEF Step

LEMMA RunLoopDrains ==
  ASSUME TypeInv, NEW t \in Thread, Halted(t), AtHome, RunLoop(t)
  PROVE  Drains(t)
<1> USE DEF TypeInv, TypeOK, Label, Goto, At, data, stack, locals, queues,
            flags, results, cluster, Control, Outside, Serving, InCallback,
            EmptyHanded, FoundNone, Phase, Drains, Halted,
            OfWorkers, AtHome, NoneLeft, Returning, Active, Watches
<1>1. CASE Outer(t)
  BY <1>1, KidsType DEF Outer, Move
<1>2. CASE PickLocal(t)
  BY <1>2, KidsType DEF PickLocal, Push
<1>3. CASE DequeueRoot(t)
  BY <1>3, KidsType DEF DequeueRoot
<1>4. CASE GetRoot(t)
  BY <1>4, KidsType DEF GetRoot
<1>5. CASE NoOwnData(t)
  BY <1>5, KidsType DEF NoOwnData, Serve, Kept
<1>6. CASE CallBack(t)
  BY <1>6, KidsType DEF CallBack, Serve, Kept, IsTop
<1>7. CASE Return(t)
  BY <1>7, KidsType DEF Return, ReturnFrom, Serve, Kept, IsTop
<1>8. QED
  BY <1>1, <1>2, <1>3, <1>4, <1>5, <1>6, <1>7 DEF RunLoop

LEMMA ServeStealDrains ==
  ASSUME TypeInv, NEW t \in Thread, Halted(t), AtHome, ServeSteal(t)
  PROVE  Drains(t)
<1> USE DEF TypeInv, TypeOK, Label, Goto, At, data, stack, locals, queues,
            flags, results, cluster, Control, Outside, Serving, InCallback,
            EmptyHanded, FoundNone, Phase, Drains, Halted,
            OfWorkers, AtHome, NoneLeft, Returning, Active, Watches
<1>1. CASE TestAndSet(t)
  BY <1>1, KidsType DEF TestAndSet, SetFlag, Kept
<1>2. CASE Probe(t)
  BY <1>2, KidsType DEF Probe, Move
<1>3. CASE Drain(t)
  BY <1>3, KidsType DEF Drain, Move
<1>4. CASE TakeRoot(t)
  BY <1>4, KidsType DEF TakeRoot
<1>5. CASE SendRoots(t)
  BY <1>5, KidsType DEF SendRoots, SendSteal
<1>6. CASE SendNode(t)
  BY <1>6, KidsType DEF SendNode, SendSteal
<1>7. CASE SendNothing(t)
  BY <1>7, KidsType DEF SendNothing, Move
<1>8. CASE Clear(t)
  BY <1>8, KidsType DEF Clear, SetFlag, Returned, Kept
<1>9. QED
  BY <1>1, <1>2, <1>3, <1>4, <1>5, <1>6, <1>7, <1>8 DEF ServeSteal

LEMMA SolutionCbDrains ==
  ASSUME TypeInv, NEW t \in Thread, Halted(t), AtHome, SolutionCb(t)
  PROVE  Drains(t)
<1> USE DEF TypeInv, TypeOK, Label, Goto, At, data, stack, locals, queues,
            flags, results, cluster, Control, Outside, Serving, InCallback,
            EmptyHanded, FoundNone, Phase, Drains, Halted,
            OfWorkers, AtHome, NoneLeft, Returning, Active, Watches
<1>1. CASE ReadSize(t)
  BY <1>1, KidsType DEF ReadSize
<1>2. CASE DecideShare(t)
  BY <1>2, KidsType DEF DecideShare, Compare
<1>3. CASE KeepLocal(t)
  BY <1>3, KidsType DEF KeepLocal, Compare
<1>4. CASE Recurse(t)
  BY <1>4, KidsType DEF Recurse, Compare, Push
<1>5. CASE Share(t)
  BY <1>5, KidsType DEF Share, Enqueue
<1>6. CASE ReportSolution(t)
  BY <1>6, KidsType DEF ReportSolution
<1>7. QED
  BY <1>1, <1>2, <1>3, <1>4, <1>5, <1>6 DEF SolutionCb

LEMMA WaitDrains ==
  ASSUME TypeInv, NEW t \in Thread, Halted(t), AtHome, Wait(t)
  PROVE  Drains(t)
<1> USE DEF TypeInv, TypeOK, Label, Goto, At, data, stack, locals, queues,
            flags, results, cluster, Control, Outside, Serving, InCallback,
            EmptyHanded, FoundNone, Phase, Drains, Halted,
            OfWorkers, AtHome, NoneLeft, Returning, Active, Watches
<1>1. CASE StartWaiting(t)
  BY <1>1, KidsType DEF StartWaiting, Count
<1>2. CASE DequeueNode(t)
  BY <1>2, KidsType DEF DequeueNode
<1>3. CASE DequeueFails(t)
  BY <1>3, KidsType DEF DequeueFails
<1>4. CASE ReadTerminate(t)
  BY <1>4, KidsType DEF ReadTerminate, Move
<1>5. CASE ReadWaiting(t)
  BY <1>5, KidsType DEF ReadWaiting, Move
<1>6. CASE LeaveWithNode(t)
  BY <1>6, KidsType DEF LeaveWithNode, ListShared, Push
<1>7. CASE LeaveIdle(t)
  BY <1>7, KidsType DEF LeaveIdle, Count
<1>8. CASE Quit(t)
  BY <1>8, KidsType DEF Quit
<1>9. QED
  BY <1>1, <1>2, <1>3, <1>4, <1>5, <1>6, <1>7, <1>8 DEF Wait

LEMMA GetMoreWorkDrains ==
  ASSUME TypeInv, NEW t \in Thread, Halted(t), AtHome, GetMoreWork(t)
  PROVE  Drains(t)
<1> USE DEF TypeInv, TypeOK, Label, Goto, At, data, stack, locals, queues,
            flags, results, cluster, Control, Outside, Serving, InCallback,
            EmptyHanded, FoundNone, Phase, Drains, Halted,
            OfWorkers, AtHome, NoneLeft, Returning, Active, Watches
<1>1. CASE EnterMoreWork(t)
  BY <1>1, KidsType DEF EnterMoreWork, Count
<1>2. CASE Claim(t)
  BY <1>2, KidsType DEF Claim, SetFlag
<1>3. CASE CheckEmpty(t)
  BY <1>3, KidsType DEF CheckEmpty, Move
<1>4. CASE Ask(t)
  BY <1>4, KidsType DEF Ask
<1>5. CASE DiscardSteal(t)
  BY <1>5, KidsType DEF DiscardSteal
<1>6. CASE AnswerRoots(t)
  BY <1>6, KidsType DEF AnswerRoots, TakeRoots
<1>7. CASE AnswerSubtree(t)
  BY <1>7, KidsType DEF AnswerSubtree, Enqueue
<1>8. CASE AnswerNothing(t)
  BY <1>8, KidsType DEF AnswerNothing
<1>9. CASE ReleaseClaim(t)
  BY <1>9, KidsType DEF ReleaseClaim, SetFlag
<1>10. CASE LeaveMoreWork(t)
  BY <1>10, KidsType DEF LeaveMoreWork, Count
<1>11. QED
  BY <1>1, <1>2, <1>3, <1>4, <1>5, <1>6, <1>7, <1>8, <1>9, <1>10 DEF GetMoreWork, Answer

LEMMA StepDrains ==
  ASSUME TypeInv, NEW t \in Thread, Halted(t), AtHome, Step(t)
  PROVE  Drains(t)
BY RunLoopDrains, ServeStealDrains, SolutionCbDrains, WaitDrains,
   GetMoreWorkDrains DEF Step
-----------------------------------------------------------------------
(* What a step does to the frames *)

\* It forgets no frame, and holds what a frame that it begins calls back
\* with.
Lasts(t) ==
  /\ Waiting(t) \subseteq Waiting(t)' \cup listed'
  /\ listed \subseteq listed'
  /\ \A x \in listed' \ listed : Kids[x] \subseteq todo'[t]

\* What is to be reported stays so until it is.
Owes(t) == ToReport(t) \cup Out \subseteq ToReport(t)' \cup Out'

LEMMA RunLoopLasts ==
  ASSUME TypeInv, PlaceInv, NEW t \in Thread, RunLoop(t)
  PROVE  Lasts(t)
<1> USE DEF TypeInv, TypeOK, Label, Goto, At, data, stack, locals, queues,
            flags, results, cluster, Control, Outside, Serving, InCallback,
            PlaceInv, Tidy, Mine, InHand, Waiting, Lasts
<1>1. CASE Outer(t)
  BY <1>1, KidsType DEF Outer, Move
<1>2. CASE PickLocal(t)
  BY <1>2, KidsType DEF PickLocal, Push
<1>3. CASE DequeueRoot(t)
  BY <1>3, KidsType DEF DequeueRoot
<1>4. CASE GetRoot(t)
  BY <1>4, KidsType DEF GetRoot
<1>5. CASE NoOwnData(t)
  BY <1>5, KidsType DEF NoOwnData, Serve, Kept
<1>6. CASE CallBack(t)
  BY <1>6, KidsType DEF CallBack, Serve, Kept, IsTop
<1>7. CASE Return(t)
  BY <1>7, KidsType DEF Return, ReturnFrom, Serve, Kept, IsTop
<1>8. QED
  BY <1>1, <1>2, <1>3, <1>4, <1>5, <1>6, <1>7 DEF RunLoop

LEMMA ServeStealLasts ==
  ASSUME TypeInv, PlaceInv, NEW t \in Thread, ServeSteal(t)
  PROVE  Lasts(t)
<1> USE DEF TypeInv, TypeOK, Label, Goto, At, data, stack, locals, queues,
            flags, results, cluster, Control, Outside, Serving, InCallback,
            PlaceInv, Tidy, Mine, InHand, Waiting, Lasts
<1>1. CASE TestAndSet(t)
  BY <1>1, KidsType DEF TestAndSet, SetFlag, Kept
<1>2. CASE Probe(t)
  BY <1>2, KidsType DEF Probe, Move
<1>3. CASE Drain(t)
  BY <1>3, KidsType DEF Drain, Move
<1>4. CASE TakeRoot(t)
  BY <1>4, KidsType DEF TakeRoot
<1>5. CASE SendRoots(t)
  BY <1>5, KidsType DEF SendRoots, SendSteal
<1>6. CASE SendNode(t)
  BY <1>6, KidsType DEF SendNode, SendSteal
<1>7. CASE SendNothing(t)
  BY <1>7, KidsType DEF SendNothing, Move
<1>8. CASE Clear(t)
  BY <1>8, KidsType DEF Clear, SetFlag, Returned, Kept
<1>9. QED
  BY <1>1, <1>2, <1>3, <1>4, <1>5, <1>6, <1>7, <1>8 DEF ServeSteal

LEMMA SolutionCbLasts ==
  ASSUME TypeInv, PlaceInv, NEW t \in Thread, SolutionCb(t)
  PROVE  Lasts(t)
<1> USE DEF TypeInv, TypeOK, Label, Goto, At, data, stack, locals, queues,
            flags, results, cluster, Control, Outside, Serving, InCallback,
            PlaceInv, Tidy, Mine, InHand, Waiting, Lasts
<1>1. CASE ReadSize(t)
  BY <1>1, KidsType DEF ReadSize
<1>2. CASE DecideShare(t)
  BY <1>2, KidsType DEF DecideShare, Compare
<1>3. CASE KeepLocal(t)
  BY <1>3, KidsType DEF KeepLocal, Compare
<1>4. CASE Recurse(t)
  BY <1>4, KidsType DEF Recurse, Compare, Push
<1>5. CASE Share(t)
  BY <1>5, KidsType DEF Share, Enqueue
<1>6. CASE ReportSolution(t)
  BY <1>6, KidsType DEF ReportSolution
<1>7. QED
  BY <1>1, <1>2, <1>3, <1>4, <1>5, <1>6 DEF SolutionCb

LEMMA WaitLasts ==
  ASSUME TypeInv, PlaceInv, NEW t \in Thread, Wait(t)
  PROVE  Lasts(t)
<1> USE DEF TypeInv, TypeOK, Label, Goto, At, data, stack, locals, queues,
            flags, results, cluster, Control, Outside, Serving, InCallback,
            PlaceInv, Tidy, Mine, InHand, Waiting, Lasts
<1>1. CASE StartWaiting(t)
  BY <1>1, KidsType DEF StartWaiting, Count
<1>2. CASE DequeueNode(t)
  BY <1>2, KidsType DEF DequeueNode
<1>3. CASE DequeueFails(t)
  BY <1>3, KidsType DEF DequeueFails
<1>4. CASE ReadTerminate(t)
  BY <1>4, KidsType DEF ReadTerminate, Move
<1>5. CASE ReadWaiting(t)
  BY <1>5, KidsType DEF ReadWaiting, Move
<1>6. CASE LeaveWithNode(t)
  BY <1>6, KidsType DEF LeaveWithNode, ListShared, Push
<1>7. CASE LeaveIdle(t)
  BY <1>7, KidsType DEF LeaveIdle, Count
<1>8. CASE Quit(t)
  BY <1>8, KidsType DEF Quit
<1>9. QED
  BY <1>1, <1>2, <1>3, <1>4, <1>5, <1>6, <1>7, <1>8 DEF Wait

LEMMA GetMoreWorkLasts ==
  ASSUME TypeInv, PlaceInv, NEW t \in Thread, GetMoreWork(t)
  PROVE  Lasts(t)
<1> USE DEF TypeInv, TypeOK, Label, Goto, At, data, stack, locals, queues,
            flags, results, cluster, Control, Outside, Serving, InCallback,
            PlaceInv, Tidy, Mine, InHand, Waiting, Lasts
<1>1. CASE EnterMoreWork(t)
  BY <1>1, KidsType DEF EnterMoreWork, Count
<1>2. CASE Claim(t)
  BY <1>2, KidsType DEF Claim, SetFlag
<1>3. CASE CheckEmpty(t)
  BY <1>3, KidsType DEF CheckEmpty, Move
<1>4. CASE Ask(t)
  BY <1>4, KidsType DEF Ask
<1>5. CASE DiscardSteal(t)
  BY <1>5, KidsType DEF DiscardSteal
<1>6. CASE AnswerRoots(t)
  BY <1>6, KidsType DEF AnswerRoots, TakeRoots
<1>7. CASE AnswerSubtree(t)
  BY <1>7, KidsType DEF AnswerSubtree, Enqueue
<1>8. CASE AnswerNothing(t)
  BY <1>8, KidsType DEF AnswerNothing
<1>9. CASE ReleaseClaim(t)
  BY <1>9, KidsType DEF ReleaseClaim, SetFlag
<1>10. CASE LeaveMoreWork(t)
  BY <1>10, KidsType DEF LeaveMoreWork, Count
<1>11. QED
  BY <1>1, <1>2, <1>3, <1>4, <1>5, <1>6, <1>7, <1>8, <1>9, <1>10 DEF GetMoreWork, Answer

LEMMA StepLasts ==
  ASSUME TypeInv, PlaceInv, NEW t \in Thread, Step(t)
  PROVE  Lasts(t)
BY RunLoopLasts, ServeStealLasts, SolutionCbLasts, WaitLasts,
   GetMoreWorkLasts DEF Step

LEMMA RunLoopOwes ==
  ASSUME TypeInv, PlaceInv, NEW t \in Thread, Neat(t), RunLoop(t)
  PROVE  Owes(t)
<1> USE DEF TypeInv, TypeOK, Label, Goto, At, data, stack, locals, queues,
            flags, results, cluster, Control, Outside, Serving, InCallback,
            PlaceInv, Tidy, Neat, ToReport, Answerable, Called, Out,
            Owes
<1>1. CASE Outer(t)
  BY <1>1, KidsType DEF Outer, Move
<1>2. CASE PickLocal(t)
  BY <1>2, KidsType DEF PickLocal, Push
<1>3. CASE DequeueRoot(t)
  BY <1>3, KidsType DEF DequeueRoot
<1>4. CASE GetRoot(t)
  BY <1>4, KidsType DEF GetRoot
<1>5. CASE NoOwnData(t)
  BY <1>5, KidsType DEF NoOwnData, Serve, Kept
<1>6. CASE CallBack(t)
  BY <1>6, KidsType DEF CallBack, Serve, Kept, IsTop
<1>7. CASE Return(t)
  BY <1>7, KidsType DEF Return, ReturnFrom, Serve, Kept, IsTop
<1>8. QED
  BY <1>1, <1>2, <1>3, <1>4, <1>5, <1>6, <1>7 DEF RunLoop

LEMMA ServeStealOwes ==
  ASSUME TypeInv, PlaceInv, NEW t \in Thread, Neat(t), ServeSteal(t)
  PROVE  Owes(t)
<1> USE DEF TypeInv, TypeOK, Label, Goto, At, data, stack, locals, queues,
            flags, results, cluster, Control, Outside, Serving, InCallback,
            PlaceInv, Tidy, Neat, ToReport, Answerable, Called, Out,
            Owes
<1>1. CASE TestAndSet(t)
  BY <1>1, KidsType DEF TestAndSet, SetFlag, Kept
<1>2. CASE Probe(t)
  BY <1>2, KidsType DEF Probe, Move
<1>3. CASE Drain(t)
  BY <1>3, KidsType DEF Drain, Move
<1>4. CASE TakeRoot(t)
  BY <1>4, KidsType DEF TakeRoot
<1>5. CASE SendRoots(t)
  BY <1>5, KidsType DEF SendRoots, SendSteal
<1>6. CASE SendNode(t)
  BY <1>6, KidsType DEF SendNode, SendSteal
<1>7. CASE SendNothing(t)
  BY <1>7, KidsType DEF SendNothing, Move
<1>8. CASE Clear(t)
  BY <1>8, KidsType DEF Clear, SetFlag, Returned, Kept
<1>9. QED
  BY <1>1, <1>2, <1>3, <1>4, <1>5, <1>6, <1>7, <1>8 DEF ServeSteal

LEMMA SolutionCbOwes ==
  ASSUME TypeInv, PlaceInv, NEW t \in Thread, Neat(t), SolutionCb(t)
  PROVE  Owes(t)
<1> USE DEF TypeInv, TypeOK, Label, Goto, At, data, stack, locals, queues,
            flags, results, cluster, Control, Outside, Serving, InCallback,
            PlaceInv, Tidy, Neat, ToReport, Answerable, Called, Out,
            Owes
<1>1. CASE ReadSize(t)
  BY <1>1, KidsType DEF ReadSize
<1>2. CASE DecideShare(t)
  BY <1>2, KidsType DEF DecideShare, Compare
<1>3. CASE KeepLocal(t)
  BY <1>3, KidsType DEF KeepLocal, Compare
<1>4. CASE Recurse(t)
  BY <1>4, KidsType DEF Recurse, Compare, Push
<1>5. CASE Share(t)
  BY <1>5, KidsType DEF Share, Enqueue
<1>6. CASE ReportSolution(t)
  BY <1>6, KidsType DEF ReportSolution
<1>7. QED
  BY <1>1, <1>2, <1>3, <1>4, <1>5, <1>6 DEF SolutionCb

LEMMA WaitOwes ==
  ASSUME TypeInv, PlaceInv, NEW t \in Thread, Neat(t), Wait(t)
  PROVE  Owes(t)
<1> USE DEF TypeInv, TypeOK, Label, Goto, At, data, stack, locals, queues,
            flags, results, cluster, Control, Outside, Serving, InCallback,
            PlaceInv, Tidy, Neat, ToReport, Answerable, Called, Out,
            Owes
<1>1. CASE StartWaiting(t)
  BY <1>1, KidsType DEF StartWaiting, Count
<1>2. CASE DequeueNode(t)
  BY <1>2, KidsType DEF DequeueNode
<1>3. CASE DequeueFails(t)
  BY <1>3, KidsType DEF DequeueFails
<1>4. CASE ReadTerminate(t)
  BY <1>4, KidsType DEF ReadTerminate, Move
<1>5. CASE ReadWaiting(t)
  BY <1>5, KidsType DEF ReadWaiting, Move
<1>6. CASE LeaveWithNode(t)
  BY <1>6, KidsType DEF LeaveWithNode, ListShared, Push
<1>7. CASE LeaveIdle(t)
  BY <1>7, KidsType DEF LeaveIdle, Count
<1>8. CASE Quit(t)
  BY <1>8, KidsType DEF Quit
<1>9. QED
  BY <1>1, <1>2, <1>3, <1>4, <1>5, <1>6, <1>7, <1>8 DEF Wait

LEMMA GetMoreWorkOwes ==
  ASSUME TypeInv, PlaceInv, NEW t \in Thread, Neat(t), GetMoreWork(t)
  PROVE  Owes(t)
<1> USE DEF TypeInv, TypeOK, Label, Goto, At, data, stack, locals, queues,
            flags, results, cluster, Control, Outside, Serving, InCallback,
            PlaceInv, Tidy, Neat, ToReport, Answerable, Called, Out,
            Owes
<1>1. CASE EnterMoreWork(t)
  BY <1>1, KidsType DEF EnterMoreWork, Count
<1>2. CASE Claim(t)
  BY <1>2, KidsType DEF Claim, SetFlag
<1>3. CASE CheckEmpty(t)
  BY <1>3, KidsType DEF CheckEmpty, Move
<1>4. CASE Ask(t)
  BY <1>4, KidsType DEF Ask
<1>5. CASE DiscardSteal(t)
  BY <1>5, KidsType DEF DiscardSteal
<1>6. CASE AnswerRoots(t)
  BY <1>6, KidsType DEF AnswerRoots, TakeRoots
<1>7. CASE AnswerSubtree(t)
  BY <1>7, KidsType DEF AnswerSubtree, Enqueue
<1>8. CASE AnswerNothing(t)
  BY <1>8, KidsType DEF AnswerNothing
<1>9. CASE ReleaseClaim(t)
  BY <1>9, KidsType DEF ReleaseClaim, SetFlag
<1>10. CASE LeaveMoreWork(t)
  BY <1>10, KidsType DEF LeaveMoreWork, Count
<1>11. QED
  BY <1>1, <1>2, <1>3, <1>4, <1>5, <1>6, <1>7, <1>8, <1>9, <1>10 DEF GetMoreWork, Answer

LEMMA StepOwes ==
  ASSUME TypeInv, PlaceInv, NEW t \in Thread, Neat(t), Step(t)
  PROVE  Owes(t)
BY RunLoopOwes, ServeStealOwes, SolutionCbOwes, WaitOwes,
   GetMoreWorkOwes DEF Step
-----------------------------------------------------------------------
(* Every step keeps the invariant *)

LEMMA StopStep ==
  ASSUME IInv, Together, BufferInv, StopInv, NEW t \in Thread, Step(t)
  PROVE  StopInv'
<1>1. Alone(t) /\ Halts(t) /\ Drains(t)
  BY StepEffects, StepHalts, StepDrains
     DEF IInv, Effects, BufferInv, StopInv
<1>2. \A u \in Thread \ {t} :
        /\ Halted(u)'
        /\ missed'[u] = missed[u]
        /\ Watches(u) <=> Watches(u)'
        /\ Returning(u) <=> Returning(u)'
  BY <1>1 DEF Alone, Halted, Active, Watches, Returning, Halts, StopInv
<1>3. \A u \in Thread : Halted(u)'
  BY <1>1, <1>2 DEF Halts
<1>4. ASSUME Callbacks, terminate'
      PROVE  NoneLeft' /\ \A u \in Thread : Returning(u)'
  <2>1. CASE terminate
    <3>1. NoneLeft /\ \A u \in Thread : Returning(u)
      BY <1>4, <2>1 DEF StopInv
    <3>2. NoneLeft' /\ Returning(t)'
      BY <1>1, <1>4, <2>1, <3>1 DEF Drains
    <3>3. QED
      BY <1>2, <3>1, <3>2
  <2>2. CASE ~ terminate
    <3>1. /\ pc[t] = "answer" /\ pc'[t] = "release" /\ extWork = {}
          /\ UNCHANGED <<queues, extWork>>
      BY <1>1, <1>4, <2>2 DEF Halts, StopInv, Halted
    <3>2. NoneLeft'
      BY <3>1 DEF BufferInv, AskEmpty, NoneLeft, queues
    <3>3. \A u \in Thread : pc[u] \in Phase
      BY <3>1 DEF Together, Phase
    <3>4. \A u \in Thread : Returning(u)'
      BY <1>2, <3>1, <3>3 DEF Returning, Phase
    <3>5. QED
      BY <3>2, <3>4
  <2>3. QED
    BY <2>1, <2>2
<1>5. ASSUME ~ Callbacks
      PROVE  /\ extWork' = {}
             /\ terminate' => possibleRoots' = {}
             /\ gnodes' # {} => \E u \in Thread : Watches(u)'
  <2>1. /\ extWork = {}
        /\ terminate => possibleRoots = {}
        /\ gnodes # {} => \E u \in Thread : Watches(u)
    BY <1>5 DEF StopInv
  <2>2. /\ extWork' = extWork /\ possibleRoots' \subseteq possibleRoots
        /\ pc[t] = "quit" => possibleRoots = {}
        /\ Watches(t) => gnodes' = {} \/ Watches(t)'
        /\ gnodes' \subseteq gnodes \/ Active(t)
    BY <1>1, <1>5 DEF Drains
  <2>3. pc[t] # "answer"
    BY <1>5 DEF StopInv, Halted, OfWorkers, Phase
  <2>4. terminate' => terminate \/ pc[t] = "quit"
    BY <1>1, <2>3 DEF Halts
  <2>5. gnodes' # {} => \E u \in Thread : Watches(u)'
    BY <1>2, <2>1, <2>2 DEF Watches
  <2>6. QED
    BY <2>1, <2>2, <2>4, <2>5
<1>6. ASSUME Callbacks, NEW u \in Thread PROVE ~ missed'[u]
  BY <1>1, <1>2, <1>6 DEF Drains, StopInv
<1>7. QED
  BY <1>3, <1>4, <1>5, <1>6 DEF StopInv

\* Only the threads of a worker pass barriers, the first one only while there
\* may be work.
LEMMA BarrierStops ==
  ASSUME BufferInv, StopInv, Barrier1 \/ Barrier2
  PROVE  StopInv'
<1>1. /\ UNCHANGED <<terminate, lnodes, missed, possibleRoots, gnodes, extWork>>
      /\ \A t \in Thread : \/ pc[t] = "barrier1" /\ pc'[t] = "claim"
                           \/ pc[t] = "barrier2" /\ pc'[t] = "outer"
  BY DEF Barrier1, Barrier2, Release, At, data, locals, queues, flags, cluster
<1>2. Callbacks
  BY <1>1, WorkStealAssumption DEF StopInv, Halted, OfWorkers, Phase
<1>3. \A t \in Thread : Halted(t)'
  BY <1>1, <1>2 DEF BufferInv, EmptyHanded, Halted, Phase
<1>4. ASSUME terminate
      PROVE  NoneLeft' /\ \A t \in Thread : Returning(t)'
  <2>1. NoneLeft /\ \A t \in Thread : Returning(t)
    BY <1>2, <1>4 DEF StopInv
  <2>2. \A t \in Thread : Returning(t)'
    BY <1>1 DEF Returning, Phase
  <2>3. QED
    BY <1>1, <2>1, <2>2 DEF NoneLeft
<1>5. QED
  BY <1>1, <1>2, <1>3, <1>4 DEF StopInv

LEMMA EnvStops ==
  ASSUME StopInv, EnvSteal \/ EnvWork
  PROVE  StopInv'
<1>1. /\ UNCHANGED <<pc, terminate, lnodes, missed, node, possibleRoots, gnodes>>
      /\ extWork' = extWork \/ extWork # {}
  BY DEF EnvSteal, EnvWork, data, locals, queues, flags
<1>2. \A t \in Thread : /\ Halted(t) <=> Halted(t)'
                        /\ Watches(t) <=> Watches(t)'
                        /\ Returning(t) <=> Returning(t)'
  BY <1>1 DEF Halted, Active, Watches, Returning
<1>3. QED
  BY <1>1, <1>2 DEF StopInv, NoneLeft
-----------------------------------------------------------------------
(* No frame is forgotten, none made up *)

LEMMA ReachableStep ==
  ASSUME NEW f \in RootId \cup Reachable
  PROVE  Kids[f] \subseteq Reachable
<1>1. f \in Frame /\ Kids[f] \subseteq Node
  BY KidsType DEF Reachable
<1>2. ASSUME NEW x \in Kids[f], NEW S \in SUBSET Node, Closed(S)
      PROVE  x \in S
  BY <1>2 DEF Closed, Reachable
<1>3. QED
  BY <1>1, <1>2 DEF Reachable

\* What a step may do to the frames, whoever makes it.
Grows ==
  /\ listed \cup Pending \subseteq listed' \cup Pending'
  /\ Out \cup Due \subseteq Out' \cup Due'
  /\ listed \subseteq listed' /\ Out \subseteq Out'
  /\ \A x \in listed' \ listed : /\ x \in Pending
                                 /\ Kids[x] \subseteq Pending'
                                 /\ Kids[x] \subseteq Out' \cup Due'
  /\ listed' \cup Pending'
       \subseteq listed \cup Pending \cup UNION {Kids[x] : x \in listed' \ listed}
  /\ Out' \cup Due'
       \subseteq Out \cup Due \cup UNION {Kids[x] : x \in listed' \ listed}

LEMMA GrowsWhole ==
  ASSUME Complete, Sound, Grows
  PROVE  Complete' /\ Sound'
<1>1. Complete'
  <2>1. RootId \subseteq listed' \cup Pending'
    BY DEF Complete, Grows
  <2>2. ASSUME NEW f \in listed'
        PROVE  /\ Kids[f] \subseteq listed' \cup Pending'
               /\ Kids[f] \subseteq Out' \cup Due'
    <3>1. CASE f \in listed
      BY <3>1 DEF Complete, Grows
    <3>2. CASE f \notin listed
      BY <3>2 DEF Grows
    <3>3. QED
      BY <3>1, <3>2
  <2>3. QED
    BY <2>1, <2>2 DEF Complete
<1>2. \A x \in listed' \ listed : Kids[x] \subseteq Reachable
  BY ReachableStep DEF Sound, Grows
<1>3. UNION {Kids[x] : x \in listed' \ listed} \subseteq Reachable
  BY <1>2
<1>4. /\ listed' \cup Pending' \subseteq RootId \cup Reachable
      /\ Out' \cup Due' \subseteq Reachable
  BY <1>3 DEF Sound, Grows
<1>5. QED
  BY <1>1, <1>4 DEF Sound

LEMMA StepGrows ==
  ASSUME IInv, PlaceInv, ReportInv, NEW t \in Thread, Step(t)
  PROVE  Grows
<1>1. /\ Alone(t) /\ Flow(t) /\ Progress(t) /\ Neat(t)'
      /\ Lasts(t) /\ Owes(t)
  BY StepEffects, StepFlow, StepReports, StepLasts, StepOwes
     DEF IInv, Effects, ReportInv
<1>2. \A u \in Thread \ {t} : Mine(u)' = Mine(u) /\ ToReport(u)' = ToReport(u)
  BY <1>1, OthersMine, OthersReport DEF Lasts
<1>3. listed \subseteq listed' /\ Out \subseteq Out'
  BY <1>1 DEF Lasts, Progress, Carries, Starts, Delivers, Out
<1>4. listed \cup Pending \subseteq listed' \cup Pending'
  <2>1. Waiting(t) \subseteq Waiting(t)' \cup listed'
    BY <1>1 DEF Lasts
  <2>2. Waiting(t)' \subseteq Pending'
    BY DEF Waiting, Pending
  <2>3. Pending = Waiting(t) \cup UNION {Mine(u) : u \in Thread \ {t}}
    BY DEF Waiting, Pending
  <2>4. \A u \in Thread \ {t} : Mine(u) \subseteq Pending'
    BY <1>2 DEF Pending
  <2>5. QED
    BY <1>3, <2>1, <2>2, <2>3, <2>4
<1>5. Out \cup Due \subseteq Out' \cup Due'
  <2>1. ToReport(t) \cup Out \subseteq ToReport(t)' \cup Out'
    BY <1>1 DEF Owes
  <2>2. ToReport(t)' \subseteq Due'
    BY DEF Due
  <2>3. \A u \in Thread \ {t} : ToReport(u) \subseteq Due'
    BY <1>2 DEF Due
  <2>4. Due = ToReport(t) \cup UNION {ToReport(u) : u \in Thread \ {t}}
    BY DEF Due
  <2>5. QED
    BY <2>1, <2>2, <2>3, <2>4
<1>6. \A x \in listed' \ listed : /\ Kids[x] \subseteq Pending'
                                  /\ Kids[x] \subseteq Out' \cup Due'
  <2>1. todo'[t] \subseteq Mine(t)' /\ todo'[t] \subseteq ToReport(t)'
    BY DEF Mine, ToReport
  <2>2. Mine(t)' \subseteq Pending' /\ ToReport(t)' \subseteq Due'
    BY DEF Pending, Due
  <2>3. \A x \in listed' \ listed : Kids[x] \subseteq todo'[t]
    BY <1>1 DEF Lasts
  <2>4. QED
    BY <2>1, <2>2, <2>3
<1>7. /\ \A x \in listed' \ listed : x \in Pending
      /\ Waiting(t)' \subseteq
           Waiting(t) \cup UNION {Kids[x] : x \in listed' \ listed}
  <2>1. CASE Moves(t)
    BY <2>1 DEF Moves
  <2>2. CASE \E x \in Frame : Begins(t, x)
    <3>1. PICK x \in Frame : Begins(t, x)
      BY <2>2
    <3>2. x \in Mine(t) /\ listed' = listed \cup {x} /\ x \notin listed
      BY <3>1 DEF Begins, PlaceInv, Apart
    <3>3. listed' \ listed = {x} /\ x \in Pending
      BY <3>2 DEF Pending
    <3>4. Waiting(t)' \subseteq Waiting(t) \cup Kids[x]
      BY <3>1 DEF Begins, Waiting
    <3>5. QED
      BY <3>3, <3>4
  <2>3. QED
    BY <1>1, <2>1, <2>2 DEF Flow
<1>8. listed' \cup Pending'
        \subseteq listed \cup Pending \cup UNION {Kids[x] : x \in listed' \ listed}
  <2>1. Waiting(t) \subseteq Pending
    BY DEF Waiting, Pending
  <2>2. Pending' = Waiting(t)' \cup UNION {Mine(u)' : u \in Thread \ {t}}
    BY DEF Waiting, Pending
  <2>3. \A u \in Thread \ {t} : Mine(u)' \subseteq Pending
    BY <1>2 DEF Pending
  <2>4. QED
    BY <1>7, <2>1, <2>2, <2>3
<1>9. Out' \cup Due'
        \subseteq Out \cup Due \cup UNION {Kids[x] : x \in listed' \ listed}
  <2>1. ToReport(t)' \cup Out' \subseteq
          ToReport(t) \cup Out \cup UNION {Kids[x] : x \in listed' \ listed}
    <3>1. CASE Carries(t) \/ Delivers(t)
      BY <3>1 DEF Carries, Delivers, Out
    <3>2. CASE \E x \in Frame : Starts(t, x)
      <4>1. PICK x \in Frame : Starts(t, x)
        BY <3>2
      <4>2. /\ listed' \ listed = {x} /\ Out' = Out
            /\ ToReport(t)' \subseteq ToReport(t) \cup Kids[x]
        BY <4>1 DEF Starts, Out
      <4>3. QED
        BY <4>2
    <3>3. QED
      BY <1>1, <3>1, <3>2 DEF Progress
  <2>2. ToReport(t) \subseteq Due
    BY DEF Due
  <2>3. \A u \in Thread \ {t} : ToReport(u)' \subseteq Due
    BY <1>2 DEF Due
  <2>4. Due' = ToReport(t)' \cup UNION {ToReport(u)' : u \in Thread \ {t}}
    BY DEF Due
  <2>5. QED
    BY <2>1, <2>2, <2>3, <2>4
<1>10. QED
  BY <1>3, <1>4, <1>5, <1>6, <1>7, <1>8, <1>9 DEF Grows

\* The rest of the cluster begins a frame and reports what it calls back
\* with, all at once.
LEMMA EnvGrows ==
  ASSUME IInv, PlaceInv, Barrier1 \/ Barrier2 \/ EnvSteal \/ EnvWork
  PROVE  Grows
<1> USE DEF data, stack, locals, queues, flags, results, cluster
<1>1. CASE Barrier1 \/ Barrier2
  <2>1. \A t \in Thread : Mine(t)' = Mine(t) /\ ToReport(t)' = ToReport(t)
    BY <1>1 DEF Barrier1, Barrier2, Release, At, Mine, InHand, Serving,
                ToReport, Called, Answerable, InCallback
  <2>2. UNCHANGED <<listed, possibleRoots, gnodes, extWork, reported,
                    extReported>>
    BY <1>1 DEF Barrier1, Barrier2, Release
  <2>3. Pending' = Pending /\ Due' = Due /\ Out' = Out
    BY <2>1, <2>2 DEF Pending, Due, Out
  <2>4. QED
    BY <2>2, <2>3 DEF Grows
<1>2. CASE EnvSteal \/ EnvWork
  <2>1. \A t \in Thread : Mine(t)' = Mine(t) /\ ToReport(t)' = ToReport(t)
    BY <1>2 DEF EnvSteal, EnvWork, At, Mine, ToReport, Called
  <2>2. UNCHANGED <<possibleRoots, gnodes, reported>>
    BY <1>2 DEF EnvSteal, EnvWork
  <2>3. Due' = Due
    BY <2>1 DEF Due
  <2>4. CASE EnvSteal
    <3>1. UNCHANGED <<listed, extWork, extReported>>
      BY <2>4 DEF EnvSteal
    <3>2. Pending' = Pending /\ Out' = Out
      BY <2>1, <2>2, <3>1 DEF Pending, Out
    <3>3. QED
      BY <2>3, <3>1, <3>2 DEF Grows
  <2>5. CASE EnvWork
    <3>1. PICK f \in extWork : /\ extWork' = (extWork \ {f}) \cup Kids[f]
                               /\ extReported' = extReported \cup Kids[f]
                               /\ listed' = listed \cup {f}
      BY <2>5 DEF EnvWork
    <3>2. f \notin listed /\ f \in Pending /\ listed' \ listed = {f}
      BY <3>1 DEF PlaceInv, Apart, Pending
    <3>3. /\ Pending \subseteq Pending' \cup {f}
          /\ Pending' \subseteq Pending \cup Kids[f]
          /\ Kids[f] \subseteq Pending'
      BY <2>1, <2>2, <3>1 DEF Pending
    <3>4. Out' = Out \cup Kids[f]
      BY <2>2, <3>1 DEF Out
    <3>5. QED
      BY <2>3, <3>1, <3>2, <3>3, <3>4 DEF Grows
  <2>6. QED
    BY <1>2, <2>4, <2>5
<1>3. QED
  BY <1>1, <1>2

LEMMA InitWhole == Init => WholeInv
<1> SUFFICES ASSUME Init PROVE WholeInv
  OBVIOUS
<1>1. \A t \in Thread : Mine(t) = {} /\ ToReport(t) = {}
  BY DEF Init, Mine, InHand, ToReport, Called, Answerable, Serving,
         InCallback, At
<1>2. Pending = RootId /\ Due = {} /\ Out = {}
  BY <1>1, OwnRootsType DEF Init, Pending, Due, Out
<1>3. Complete /\ Sound
  BY <1>2 DEF Init, Complete, Sound
<1>4. StopInv
  BY WorkStealAssumption
     DEF Init, StopInv, Halted, OfWorkers, Phase, Serving
<1>5. QED
  BY <1>3, <1>4 DEF WholeInv

LEMMA InductiveWhole ==
  IInv /\ PlaceInv /\ ReportInv /\ CountInv /\ BufferInv /\ WholeInv
    /\ [Next]_vars => WholeInv'
<1> SUFFICES ASSUME IInv, PlaceInv, ReportInv, CountInv, BufferInv, WholeInv,
                    [Next]_vars
             PROVE  WholeInv'
  OBVIOUS
<1>1. ASSUME NEW t \in Thread, Step(t) PROVE WholeInv'
  BY <1>1, StopStep, StepGrows, GrowsWhole DEF CountInv, WholeInv
<1>2. CASE Barrier1 \/ Barrier2
  BY <1>2, BarrierStops, EnvGrows, GrowsWhole DEF WholeInv
<1>3. CASE EnvSteal \/ EnvWork
  BY <1>3, EnvStops, EnvGrows, GrowsWhole DEF WholeInv
<1>4. CASE UNCHANGED vars
  <2> USE DEF vars, data, stack, locals, queues, flags, results, cluster
  <2>1. \A t \in Thread :
          /\ Mine(t)' = Mine(t) /\ ToReport(t)' = ToReport(t)
          /\ Halted(t) <=> Halted(t)'
          /\ Watches(t) <=> Watches(t)'
          /\ Returning(t) <=> Returning(t)'
    BY <1>4 DEF Mine, ToReport, Called, Halted, Active, Watches, Returning, At
  <2>2. Pending' = Pending /\ Due' = Due /\ Out' = Out
    BY <1>4, <2>1 DEF Pending, Due, Out
  <2>3. QED
    BY <1>4, <2>1, <2>2 DEF WholeInv, StopInv, NoneLeft, Complete, Sound
<1>5. QED
  BY <1>1, <1>2, <1>3, <1>4 DEF Next, Joined

Whole == IInv /\ PlaceInv /\ ReportInv /\ CountInv /\ BufferInv /\ WholeInv

LEMMA WholeInvariant == Spec => []Whole
BY InitWhole, InductiveWhole, InitBuffers, InductiveBuffers, ReportsInvariant,
   CountInvariant, PTL DEF Spec, Whole
-----------------------------------------------------------------------
\* When all threads have stopped the roots and the work of the cluster are
\* used up, and a node is left in gnodes only if some thread missed it.
LEMMA DoneEmpty ==
  ASSUME Whole, AllDone
  PROVE  /\ possibleRoots = {} /\ extWork = {}
         /\ gnodes # {} => ~ Callbacks /\ \E t \in Thread : missed[t]
<1>1. terminate /\ ~ \E t \in Thread : Active(t)
  BY WorkStealAssumption
     DEF AllDone, At, Whole, WholeInv, StopInv, Halted, Active
<1>2. QED
  BY <1>1 DEF Whole, WholeInv, StopInv, NoneLeft, Watches

LEMMA DoneThreads ==
  ASSUME Whole, AllDone
  PROVE  \A t \in Thread : Mine(t) = {} /\ ToReport(t) = {}
<1> SUFFICES ASSUME NEW t \in Thread PROVE Mine(t) = {} /\ ToReport(t) = {}
  OBVIOUS
<1>1. At(t, "done")
  BY DEF AllDone
<1>2. path[t] = {}
  BY <1>1 DEF Whole, IInv, TypeInv, Control, Outside, At
<1>3. todo[t] = {} /\ rootsToSend[t] = {}
  BY <1>1, <1>2 DEF Whole, PlaceInv, Tidy, At
<1>4. lnodes[t] = {}
  BY <1>1 DEF Whole, WholeInv, StopInv, Halted, At
<1>5. QED
  BY <1>1, <1>2, <1>3, <1>4
     DEF Mine, ToReport, Called, At, InHand, Answerable, Serving, InCallback

\* Then everything that began was reported with what it called back with, and
\* only what is in gnodes is to begin.
LEMMA DonePlaces ==
  ASSUME Whole, AllDone
  PROVE  /\ RootId \subseteq listed
         /\ \A f \in listed : /\ Kids[f] \subseteq listed \cup gnodes
                              /\ Kids[f] \subseteq Out
<1>1. Pending = gnodes /\ Due = {}
  BY DoneEmpty, DoneThreads DEF Pending, Due
<1>2. gnodes \subseteq Node
  BY DEF Whole, IInv, TypeInv, TypeOK
<1>3. QED
  BY <1>1, <1>2, ForestAssumption DEF Whole, WholeInv, Complete

\* What was reported was called back with by a frame that began.
LEMMA HasParent ==
  ASSUME Whole, NEW x \in Out
  PROVE  \E f \in listed : x \in Kids[f]
<1>1. x \in Reachable
  BY DEF Whole, WholeInv, Sound
<1>2. PICK f \in Frame : x \in Kids[f]
  <2>1. SUFFICES ASSUME \A f \in Frame : x \notin Kids[f] PROVE FALSE
    OBVIOUS
  <2>2. Closed(Node \ {x})
    BY <2>1, KidsType DEF Closed
  <2>3. QED
    BY <1>1, <2>2 DEF Reachable
<1>3. f \in listed
  BY <1>2 DEF Whole, ReportInv, Once
<1>4. QED
  BY <1>2, <1>3

\* A thread that has stopped has no node to work on.  When all have stopped
\* there is no root in the queue and, for a worker, no work in the cluster;
\* without callbacks, where termination is decided from waiting and a failing
\* try_dequeue, nodes may be left in gnodes, if some thread's last try_dequeue
\* failed although there was one, and what is below them, nothing else, was
\* not reported.  With callbacks no node is left.
THEOREM NothingIsLeft == Spec => []NothingLeftBehind
<1>1. Whole => NothingLeftBehind
  <2> SUFFICES ASSUME Whole PROVE NothingLeftBehind
    OBVIOUS
  <2>1. ASSUME NEW t \in Thread, At(t, "done")
        PROVE  lnodes[t] = {} /\ todo[t] = {} /\ path[t] = {}
    <3>1. lnodes[t] = {}
      BY <2>1 DEF Whole, WholeInv, StopInv, Halted, At
    <3>2. path[t] = {}
      BY <2>1 DEF Whole, IInv, TypeInv, Control, Outside, At
    <3>3. todo[t] = {}
      BY <3>2 DEF Whole, PlaceInv, Tidy
    <3>4. QED
      BY <3>1, <3>2, <3>3
  <2>2. ASSUME AllDone, NEW f \in RootId \cup (Out \ gnodes)
        PROVE  Kids[f] \subseteq Out
    <3>1. f \in listed
      BY <2>2, DonePlaces, HasParent
    <3>2. QED
      BY <2>2, <3>1, DonePlaces
  <2>3. QED
    BY <2>1, <2>2, DoneEmpty DEF NothingLeftBehind, Out
<1>2. QED
  BY <1>1, WholeInvariant, PTL

\* When the enumeration is complete everything below the roots was reported.
LEMMA DoneComplete == ASSUME Whole, Finished PROVE Out = Reachable
<1>1. AllDone /\ gnodes = {}
  BY DoneEmpty DEF Finished
<1> DEFINE S == listed \cap Out
<1>2. Out \subseteq Reachable
  BY DEF Whole, WholeInv, Sound
<1>3. S \in SUBSET Node
  BY <1>2 DEF Reachable
<1>4. Closed(S)
  BY <1>1, DonePlaces DEF Closed
<1>5. Reachable \subseteq S
  BY <1>3, <1>4 DEF Reachable
<1>6. QED
  BY <1>2, <1>5

LEMMA SameReachable == E!Reachable = Reachable
BY DEF E!Reachable, Reachable, E!Closed, Closed

\* A step reports what was not reported, and after the last thread has
\* stopped, or in the step in which it stops, nothing; and then no node is
\* taken from gnodes any more.
LEMMA ReportOrStop ==
  ASSUME Whole, [Next]_vars
  PROVE  /\ Out \subseteq Out'
         /\ AllDone => AllDone' /\ Out' = Out /\ gnodes' = gnodes
         /\ ~ AllDone /\ AllDone' => Out' = Out
<1>1. ASSUME NEW t \in Thread, Step(t)
      PROVE  /\ Out \subseteq Out' /\ ~ AllDone
             /\ AllDone' => Out' = Out
  <2>1. Halts(t)
    BY <1>1, StepHalts DEF Whole, IInv, WholeInv, StopInv, BufferInv
  <2>2. Grows
    BY <1>1, StepGrows DEF Whole
  <2>3. QED
    BY <2>1, <2>2 DEF Halts, Grows, AllDone, At, Out
<1>2. CASE Barrier1 \/ Barrier2
  <2>1. Out' = Out
    BY <1>2 DEF Barrier1, Barrier2, Release, data, results, cluster, Out
  <2>2. ~ AllDone
    BY <1>2, WorkStealAssumption DEF Barrier1, Barrier2, Release, AllDone, At
  <2>3. QED
    BY <2>1, <2>2
<1>3. CASE EnvSteal \/ EnvWork
  <2>1. /\ pc' = pc /\ gnodes' = gnodes
        /\ (Out' = Out \/ extWork # {}) /\ Out \subseteq Out'
    BY <1>3 DEF EnvSteal, EnvWork, queues, results, Out
  <2>2. AllDone' <=> AllDone
    BY <2>1 DEF AllDone, At
  <2>3. AllDone => extWork = {}
    BY DoneEmpty
  <2>4. QED
    BY <2>1, <2>2, <2>3
<1>4. CASE UNCHANGED vars
  BY <1>4 DEF vars, data, queues, results, cluster, Out, AllDone, At
<1>5. QED
  BY <1>1, <1>2, <1>3, <1>4 DEF Next, Joined

\* The enumeration stays complete, and nothing is reported when it becomes so.
LEMMA FinishedStep ==
  ASSUME Whole, [Next]_vars
  PROVE  /\ Finished => Finished' /\ Out' = Out
         /\ ~ Finished /\ Finished' => Out' = Out
BY ReportOrStop DEF Finished

LEMMA EnumerationStep ==
  ASSUME Whole, Sound', (Finished => Out = Reachable)', [Next]_vars
  PROVE  [E!Next]_(E!vars)
<1>0. Out = reported \cup extReported /\ Out' = reported' \cup extReported'
  BY DEF Out
<1>1. Finished \in BOOLEAN /\ Finished' \in BOOLEAN
  BY DEF Finished
<1>2. CASE Finished
  <2>1. Finished' = Finished /\ Out' = Out
    BY <1>1, <1>2, FinishedStep
  <2>2. QED
    BY <1>0, <2>1 DEF E!vars
<1>3. CASE ~ Finished /\ Finished'
  <2>1. Out' = Out /\ Out' = Reachable
    BY <1>3, FinishedStep DEF Reachable, Closed
  <2>2. Finished' = TRUE
    BY <1>1, <1>3
  <2>3. E!Finish
    BY <1>0, <1>3, <2>1, <2>2, SameReachable DEF E!Finish
  <2>4. QED
    BY <2>3 DEF E!Next
<1>4. CASE ~ Finished /\ ~ Finished'
  <2>1. Finished' = Finished
    BY <1>1, <1>4
  <2>2. Out \subseteq Out' /\ Out' \subseteq Reachable
    BY ReportOrStop DEF Sound, Reachable, Closed
  <2>3. CASE Out' = Out
    BY <1>0, <2>1, <2>3 DEF E!vars
  <2>4. CASE Out' # Out
    <3> DEFINE S == Out' \ Out
    <3>1. S \in SUBSET (Reachable \ Out) /\ S # {} /\ Out' = Out \cup S
      BY <2>2, <2>4
    <3>2. E!Report
      BY <1>0, <1>4, <2>1, <3>1, SameReachable DEF E!Report
    <3>3. QED
      BY <3>2 DEF E!Next
  <2>5. QED
    BY <2>3, <2>4
<1>5. QED
  BY <1>2, <1>3, <1>4

\* The threads, seen as the nodes reported and whether the enumeration is
\* complete, only do what the abstract enumeration allows: each step reports
\* nodes below the roots that were not reported before, and a worker stops, or
\* a process without callbacks stops with no node left in gnodes, only when
\* all of them were.
THEOREM ThreadsEnumerate == Spec => Enumerates
<1>1. Init => E!Init
  <2> SUFFICES ASSUME Init PROVE E!Init
    OBVIOUS
  <2>1. Finished = FALSE
    BY WorkStealAssumption DEF Init, Finished, AllDone, At
  <2>2. QED
    BY <2>1 DEF Init, E!Init
<1>2. Whole => Sound /\ (Finished => Out = Reachable)
  BY DoneComplete DEF Whole, WholeInv
<1>3. Whole /\ [Next]_vars /\ Sound' /\ (Finished => Out = Reachable)'
        => [E!Next]_(E!vars)
  BY EnumerationStep
<1>4. QED
  BY <1>1, <1>2, <1>3, WholeInvariant, PTL DEF Spec, Enumerates
=============================================================================
