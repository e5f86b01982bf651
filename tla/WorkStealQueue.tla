------------------------- MODULE WorkStealQueue -------------------------
(***************************************************************************)
(* ParallelPthreadsSteal with its queue: the threads of WorkSteal, in a    *)
(* process of its own, share their nodes through a ConcurrentQueue whose   *)
(* operations are not atomic.  gnodes is what was enqueued and has not     *)
(* been returned by try_dequeue.  possibleRoots is filled before the       *)
(* threads start and only shrinks; it stays as WorkSteal has it.           *)
(***************************************************************************)
EXTENDS WorkSteal, Sequences

CONSTANTS BlockSize, InitialBlocks, MaxBlocks

VARIABLES
  producers, tailIndex, headIndex, dequeueOptimisticCount, dequeueOvercommit,
  blockIndex, elements, elementsCompletelyDequeued, blocksMade, freeList, at,
  loc

Q == INSTANCE ConcurrentQueue WITH Value <- Node, Null <- NoNode

ASSUME LocalAssumption == ~ Callbacks /\ Q!QueueAssumption

queueVars == <<producers, tailIndex, headIndex, dequeueOptimisticCount,
               dequeueOvercommit, blockIndex, elements,
               elementsCompletelyDequeued, blocksMade, freeList, at, loc>>

allVars == <<vars, queueVars>>
-----------------------------------------------------------------------
QInit == Init /\ Q!Init

\* gnodes.size_approx(): several steps, and then seen has what it returns.
SizeSteps(t) == At(t, "size") /\ Q!Sizing(t) /\ UNCHANGED vars

SizeRead(t) == ReadSize(t) /\ Q!SizeIs(t, seen'[t])

\* gnodes.enqueue(node)
EnqueueSteps(t) == At(t, "share") /\ Q!Enqueuing(t) /\ UNCHANGED vars

ShareNode(t) == Share(t) /\ Q!Publish(t, node[t])

\* gnodes.try_dequeue(node)
DequeueSteps(t) == At(t, "spin") /\ Q!Dequeuing(t) /\ UNCHANGED vars

GetNode(t) == DequeueNode(t) /\ Q!Dequeued(t, node'[t])

GetNothing(t) == DequeueFails(t) /\ Q!Failed(t)

\* The steps of WorkSteal in which gnodes has no part.
Elsewhere(t) ==
  /\ \/ RunLoop(t)
     \/ DecideShare(t) \/ KeepLocal(t) \/ Recurse(t) \/ ReportSolution(t)
     \/ StartWaiting(t) \/ ReadTerminate(t) \/ ReadWaiting(t)
     \/ LeaveWithNode(t) \/ LeaveIdle(t) \/ Quit(t)
  /\ UNCHANGED queueVars

QStep(t) ==
  \/ Elsewhere(t)
  \/ SizeSteps(t) \/ SizeRead(t)
  \/ EnqueueSteps(t) \/ ShareNode(t)
  \/ DequeueSteps(t) \/ GetNode(t) \/ GetNothing(t)

QNext == (\E t \in Thread : QStep(t)) \/ (Joined /\ UNCHANGED queueVars)

QSpec == QInit /\ [][QNext]_allVars

QFairSpec == QSpec /\ \A t \in Thread : WF_allVars(QStep(t))
-----------------------------------------------------------------------
\* The properties of the queue, for its use here.
QueueTypeOK == Q!TypeOK

ClaimsCovered == Q!ClaimsCovered

SlotsClaimedOnce == Q!SlotsClaimedOnce

BlocksApart == Q!BlocksApart

\* The nodes in the queue and those on their way out are the shared ones:
\* a node that was enqueued is returned by one try_dequeue and no other.
NodesInQueue ==
  LET held == {elements[b][i] : b \in Q!Block, i \in 0..(BlockSize - 1)}
      out == {loc[t].item : t \in Thread}
  IN  gnodes = (held \cup out) \ {NoNode}

\* "No more data to process": the threads stop only when the queue is empty.
NoMoreData == AllDone => gnodes = {}
=======================================================================
