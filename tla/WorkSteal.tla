--------------------------- MODULE WorkSteal ---------------------------
(***************************************************************************)
(* ParallelPthreadsSteal (enumerator/parallel_pthreads_steal.hpp): the     *)
(* threads of one process enumerate a forest, share nodes through a queue, *)
(* and, when the process is a worker of the distributed enumerator         *)
(* (Callbacks), serve steal requests of the rest of the cluster and ask it *)
(* for more work.  The rest of the cluster is the environment: it holds    *)
(* work of its own (extWork) and enumerates it.                            *)
(*                                                                         *)
(* Each action is one access to shared state and what follows it in the    *)
(* same thread.  The order of the two queues and of lnodes is left open.   *)
(* The queues are those of ConcurrentQueue as its comments promise them:   *)
(* sizes are estimates and try_dequeue may fail although there is a node.  *)
(***************************************************************************)
EXTENDS Forest, Integers

CONSTANTS
  Thread,
  NoNode,      \* stands for dummyNode and for "no node in hand"
  Recursive,   \* CanUseRecursion()
  Callbacks,   \* SetCallbacks was called: the process is a worker
  OwnRoots     \* [_minRootId, _maxRootId): the roots this process starts with

ASSUME WorkStealAssumption ==
  /\ IsFiniteSet(Thread)
  /\ Thread # {}
  /\ NoNode \notin Frame
  /\ NoNode \notin Thread
  /\ Recursive \in BOOLEAN
  /\ Callbacks \in BOOLEAN
  /\ OwnRoots \subseteq RootId
  /\ ~Callbacks => OwnRoots = RootId

VARIABLES
  pc,             \* where each thread is
  from,           \* what the frame at the bottom of a thread's stack came
                  \* from: "own" data, a "stolen" node; "none": no own data
  path,           \* the frames on a thread's call stack: a path of the forest
  todo,           \* nodes those frames have still to call back with
  node,           \* argument of solution_cb, or the node just dequeued
  seen,           \* gnodes.size_approx() as read by solution_cb
  rootsToSend,    \* local of ServeSteal
  lnodes,         \* local nodes
  missed,         \* history: whether the last try_dequeue of a thread failed
                  \* although a node was in gnodes (without callbacks)
  possibleRoots,  \* global roots
  gnodes,         \* global nodes
  waiting, terminate, checkingSteal,
  block,          \* the thread whose root node's vectors a node points to
  reported, solutionsFound,
  listed,         \* frames begun, here or in the rest of the cluster
  stealReq,       \* a STEAL_REQUEST waits in the MPI channel
  extWork, extReported,
  sentCount       \* solutions sent to the master

stack == <<path, todo, listed, block>>
locals == <<from, seen, rootsToSend, lnodes, missed>>
queues == <<possibleRoots, gnodes>>
results == <<reported, solutionsFound>>
cluster == <<stealReq, extWork, extReported, sentCount>>
flags == <<waiting, terminate, checkingSteal>>
data == <<stack, locals, node, queues, flags, results, cluster>>
vars == <<pc, data>>

\* Nobody's buffer: the vectors of a deserialised node are its own.
Fresh == NoNode

Init ==
  /\ pc = [t \in Thread |-> "outer"]
  /\ from = [t \in Thread |-> "none"]
  /\ path = [t \in Thread |-> {}]
  /\ todo = [t \in Thread |-> {}]
  /\ node = [t \in Thread |-> NoNode]
  /\ seen = [t \in Thread |-> 0]
  /\ rootsToSend = [t \in Thread |-> {}]
  /\ lnodes = [t \in Thread |-> {}]
  /\ missed = [t \in Thread |-> FALSE]
  /\ possibleRoots = OwnRoots
  /\ gnodes = {}
  /\ waiting = 0
  /\ terminate = FALSE
  /\ checkingSteal = FALSE
  /\ block = [x \in Node |-> Fresh]
  /\ reported = {}
  /\ solutionsFound = 0
  /\ listed = {}
  /\ stealReq = FALSE
  /\ extWork = RootId \ OwnRoots
  /\ extReported = {}
  /\ sentCount = 0
-----------------------------------------------------------------------
At(t, l) == pc[t] = l

Goto(t, l) == pc' = [pc EXCEPT ![t] = l]

\* Thread t goes from l to next and changes nothing else.
Move(t, l, next) == At(t, l) /\ Goto(t, next) /\ UNCHANGED data

\* Thread t adds n to waiting on its way from l to next.
Count(t, l, next, n) ==
  /\ At(t, l)
  /\ Goto(t, next)
  /\ waiting' = waiting + n
  /\ UNCHANGED <<stack, locals, node, queues, terminate, checkingSteal,
                 results, cluster>>

\* Thread t sets or clears the flag checkingSteal on its way to next.
SetFlag(t, value, next) ==
  /\ checkingSteal' = value
  /\ Goto(t, next)
  /\ UNCHANGED <<stack, locals, node, queues, waiting, terminate, results,
                 cluster>>

\* Where a thread goes when ServeSteal(n) did not give n away; "own" or
\* "none" tells the loop of the thread whether it had own data.
Kept(n, source) ==
  IF n # NoNode THEN "size" ELSE IF source = "own" THEN "pick" ELSE "idle"

\* Where ServeSteal(n) begins: without callbacks it returns at once.
Serve(n, source) == IF Callbacks THEN "tas" ELSE Kept(n, source)

\* The frame being executed: no other frame of the stack is below it.
IsTop(t, f) == f \in path[t] /\ Kids[f] \cap path[t] = {}

\* Thread t calls ListChildren(x), on top of its stack.
Push(t, x) ==
  /\ path' = [path EXCEPT ![t] = @ \cup {x}]
  /\ todo' = [todo EXCEPT ![t] = @ \cup Kids[x]]
  /\ listed' = listed \cup {x}
  /\ block' = [y \in Node |-> IF y \in Kids[x] THEN block[x] ELSE block[y]]
-----------------------------------------------------------------------
(* The loop of a thread *)

\* while (!terminate)
Outer(t) == Move(t, "outer", IF terminate THEN "done" ELSE "pick")

\* Own data: a local node if there is one.
PickLocal(t) ==
  /\ At(t, "pick")
  /\ \E x \in lnodes[t] :
       lnodes' = [lnodes EXCEPT ![t] = @ \ {x}] /\ Push(t, x)
  /\ from' = [from EXCEPT ![t] = "own"]
  /\ Goto(t, "list")
  /\ UNCHANGED <<seen, rootsToSend, missed, node, queues, flags, results,
                 cluster>>

\* OpenRoot takes a root.  Nothing is added to possibleRoots while threads
\* take from it, so that this fails only when all roots are taken.
DequeueRoot(t) ==
  /\ At(t, "pick")
  /\ lnodes[t] = {}
  /\ \E r \in possibleRoots :
       /\ possibleRoots' = possibleRoots \ {r}
       /\ path' = [path EXCEPT ![t] = {r}]
  /\ from' = [from EXCEPT ![t] = "own"]
  /\ Goto(t, "open")
  /\ UNCHANGED <<todo, listed, block, seen, rootsToSend, lnodes, missed, node,
                 gnodes, flags, results, cluster>>

\* GetRoot: the node it calls back with is built in a buffer of the thread,
\* which the calls for all roots reuse.
GetRoot(t) ==
  /\ At(t, "open")
  /\ \E r \in path[t] :
       /\ todo' = [todo EXCEPT ![t] = Kids[r]]
       /\ listed' = listed \cup {r}
       /\ block' = [y \in Node |-> IF y \in Kids[r] THEN t ELSE block[y]]
  /\ Goto(t, "list")
  /\ UNCHANGED <<path, locals, node, queues, flags, results, cluster>>

\* No own data: ServeSteal(dummyNode, false) comes next.
NoOwnData(t) ==
  /\ At(t, "pick")
  /\ lnodes[t] = {}
  /\ possibleRoots = {}
  /\ from' = [from EXCEPT ![t] = "none"]
  /\ Goto(t, Serve(NoNode, "none"))
  /\ UNCHANGED <<stack, seen, rootsToSend, lnodes, missed, node, queues, flags,
                 results, cluster>>

\* The frame on top calls solution_cb(x), which begins with ServeSteal(x).
CallBack(t) ==
  /\ At(t, "list")
  /\ \E f \in path[t] :
       /\ IsTop(t, f)
       /\ \E x \in Kids[f] \cap todo[t] :
            /\ todo' = [todo EXCEPT ![t] = @ \ {x}]
            /\ node' = [node EXCEPT ![t] = x]
            /\ Goto(t, Serve(x, from[t]))
  /\ UNCHANGED <<path, listed, block, locals, queues, flags, results,
                 cluster>>

\* Frame f of t returns: to solution_cb(f) when that had called it (called),
\* else to the loop of the thread.
ReturnFrom(t, f, called) ==
  /\ IsTop(t, f)
  /\ Kids[f] \cap todo[t] = {}
  /\ path' = [path EXCEPT ![t] = @ \ {f}]
  /\ node' = IF called THEN [node EXCEPT ![t] = f] ELSE node
  /\ Goto(t, IF called THEN "report"
             ELSE IF from[t] = "own" THEN Serve(NoNode, "own") ELSE "pick")

\* Mutant of Return: the frame at the bottom of the stack, reported by the
\* thread that shared it, is reported as well.
ReturnReportsBase(t) ==
  /\ At(t, "list")
  /\ \E f \in path[t] : ReturnFrom(t, f, f \in Node)
  /\ UNCHANGED <<todo, listed, block, locals, queues, flags, results,
                 cluster>>

Return(t) ==
  /\ At(t, "list")
  /\ \E f \in path[t] : ReturnFrom(t, f, path[t] # {f})
  /\ UNCHANGED <<todo, listed, block, locals, queues, flags, results,
                 cluster>>
-----------------------------------------------------------------------
(* ServeSteal *)

\* Mutant of TestAndSet: the flag is set without being tested.
TestAndSetUntested(t) == At(t, "tas") /\ SetFlag(t, TRUE, "probe")

\* checkingSteal.test_and_set()
TestAndSet(t) ==
  /\ At(t, "tas")
  /\ SetFlag(t, TRUE, IF checkingSteal THEN Kept(node[t], from[t])
                                       ELSE "probe")

\* CheckStealRequest: MPI_Iprobe on the channel from the master.
Probe(t) == Move(t, "probe", IF stealReq THEN "drain" ELSE "clear")

\* The condition of the loop that collects about half of the roots.
Drain(t) ==
  Move(t, "drain",
       IF /\ possibleRoots # {}
          /\ Cardinality(rootsToSend[t]) < Cardinality(possibleRoots)
       THEN "take" ELSE "send")

\* The roots may be gone since the condition was read.
TakeRoot(t) ==
  /\ At(t, "take")
  /\ \/ /\ possibleRoots = {}
        /\ UNCHANGED <<possibleRoots, rootsToSend>>
     \/ \E r \in possibleRoots :
          /\ possibleRoots' = possibleRoots \ {r}
          /\ rootsToSend' = [rootsToSend EXCEPT ![t] = @ \cup {r}]
  /\ Goto(t, "drain")
  /\ UNCHANGED <<stack, from, seen, lnodes, missed, node, gnodes, flags,
                 results, cluster>>

\* SendSteal receives the request and sends the frames in W.
SendSteal(t, W, next) ==
  /\ stealReq
  /\ stealReq' = FALSE
  /\ extWork' = extWork \cup W
  /\ rootsToSend' = [rootsToSend EXCEPT ![t] = {}]
  /\ Goto(t, next)
  /\ UNCHANGED <<stack, from, seen, lnodes, missed, node, queues, flags,
                 results, extReported, sentCount>>

SendRoots(t) ==
  /\ At(t, "send")
  /\ rootsToSend[t] # {}
  /\ SendSteal(t, rootsToSend[t], "clear")

\* useNode is true: solution_cb called ServeSteal.
SendNode(t) ==
  /\ At(t, "send")
  /\ rootsToSend[t] = {}
  /\ node[t] # NoNode
  /\ SendSteal(t, {node[t]}, "clearGiven")

\* Mutant of SendNothing: useNode left at its default gives dummyNode away.
SendDummyNode(t) ==
  /\ At(t, "send")
  /\ rootsToSend[t] = {}
  /\ node[t] = NoNode
  /\ SendSteal(t, {NoNode}, "clear")

\* No root and no node to give: the request stays in the channel.
SendNothing(t) ==
  /\ rootsToSend[t] = {}
  /\ node[t] = NoNode
  /\ Move(t, "send", "clear")

\* Where ServeSteal returns to: solution_cb reports a node it gave away.
Returned(t) ==
  IF At(t, "clearGiven") THEN "report" ELSE Kept(node[t], from[t])

\* Mutants of Clear: offloadedNode is not set, and the node is kept as well
\* as given away; the flag stays set.
ClearKeepsGiven(t) ==
  /\ pc[t] \in {"clear", "clearGiven"}
  /\ SetFlag(t, FALSE, Kept(node[t], from[t]))

ClearForgets(t) ==
  /\ pc[t] \in {"clear", "clearGiven"}
  /\ SetFlag(t, checkingSteal, Returned(t))

\* checkingSteal.clear(), and ServeSteal returns offloadedNode.
Clear(t) ==
  /\ pc[t] \in {"clear", "clearGiven"}
  /\ SetFlag(t, FALSE, Returned(t))
-----------------------------------------------------------------------
(* solution_cb, when the node was not given away *)

\* gnodes.size_approx() and waiting are read one after the other.  Other
\* threads may be in the queue, and the size is any that nodes enqueued once
\* can add up to.
ReadSize(t) ==
  /\ At(t, "size")
  /\ \E n \in 0..Cardinality(Node) : seen' = [seen EXCEPT ![t] = n]
  /\ Goto(t, "compare")
  /\ UNCHANGED <<stack, from, rootsToSend, lnodes, missed, node, queues, flags,
                 results, cluster>>

\* gnodes.size_approx() < waiting; what was read is not used again.
Compare(t, less) ==
  /\ At(t, "compare")
  /\ seen[t] < waiting <=> less
  /\ seen' = [seen EXCEPT ![t] = 0]

DecideShare(t) ==
  /\ Compare(t, TRUE)
  /\ Goto(t, "share")
  /\ UNCHANGED <<stack, from, rootsToSend, lnodes, missed, node, queues, flags,
                 results, cluster>>

Enqueue(t, x) == gnodes' = gnodes \cup {x} /\ UNCHANGED possibleRoots

KeepLocal(t) ==
  /\ Compare(t, FALSE)
  /\ ~Recursive
  /\ lnodes' = [lnodes EXCEPT ![t] = @ \cup {node[t]}]
  /\ Goto(t, "report")
  /\ UNCHANGED <<stack, from, rootsToSend, missed, node, queues, flags,
                 results, cluster>>

Recurse(t) ==
  /\ Compare(t, FALSE)
  /\ Recursive
  /\ Push(t, node[t])
  /\ node' = [node EXCEPT ![t] = NoNode]
  /\ Goto(t, "list")
  /\ UNCHANGED <<from, rootsToSend, lnodes, missed, queues, flags, results,
                 cluster>>

\* Mutant of Share: solution_cb returns as soon as the node is shared.
ShareUnreported(t) ==
  /\ At(t, "share")
  /\ Enqueue(t, node[t])
  /\ node' = [node EXCEPT ![t] = NoNode]
  /\ Goto(t, "list")
  /\ UNCHANGED <<stack, locals, flags, results, cluster>>

Share(t) ==
  /\ At(t, "share")
  /\ Enqueue(t, node[t])
  /\ Goto(t, "report")
  /\ UNCHANGED <<stack, locals, node, flags, results, cluster>>

\* ReportSolution(system, node), and solution_cb returns.
ReportSolution(t) ==
  /\ At(t, "report")
  /\ reported' = reported \cup {node[t]}
  /\ solutionsFound' = IF node[t] \in Solution THEN solutionsFound + 1
                                               ELSE solutionsFound
  /\ node' = [node EXCEPT ![t] = NoNode]
  /\ Goto(t, "list")
  /\ UNCHANGED <<stack, locals, queues, flags, cluster>>
-----------------------------------------------------------------------
(* No own data: wait for a node of another thread *)

\* Mutant of StartWaiting: a while loop in place of do ... while, so that
\* the conditions are tested before the first try_dequeue.
StartWaitingTestsFirst(t) == Count(t, "idle", "ended", 1)

StartWaiting(t) == Count(t, "idle", "spin", 1)

DequeueNode(t) ==
  /\ At(t, "spin")
  /\ \E x \in gnodes :
       gnodes' = gnodes \ {x} /\ node' = [node EXCEPT ![t] = x]
  /\ Goto(t, "leave")
  /\ missed' = [missed EXCEPT ![t] = FALSE]
  /\ UNCHANGED <<stack, from, seen, rootsToSend, lnodes, possibleRoots, flags,
                 results, cluster>>

\* try_dequeue may fail although a node is there: "the queue is likely but
\* not guaranteed to be empty".
DequeueFails(t) ==
  /\ At(t, "spin")
  /\ Goto(t, "ended")
  /\ missed' = [missed EXCEPT ![t] = ~ Callbacks /\ gnodes # {}]
  /\ UNCHANGED <<stack, from, seen, rootsToSend, lnodes, node, queues, flags,
                 results, cluster>>

\* Mutant of ReadTerminate: the loop does not test terminate.
IgnoreTerminate(t) == Move(t, "ended", "allIdle")

\* !terminate && waiting < _nthreads, one read after the other
ReadTerminate(t) ==
  Move(t, "ended", IF terminate THEN "leave" ELSE "allIdle")

ReadWaiting(t) ==
  Move(t, "allIdle", IF waiting < Cardinality(Thread) THEN "spin" ELSE "leave")

\* ListChildren of the node another thread had shared.
ListShared(t) ==
  /\ At(t, "leave")
  /\ node[t] # NoNode
  /\ Push(t, node[t])
  /\ node' = [node EXCEPT ![t] = NoNode]
  /\ from' = [from EXCEPT ![t] = "stolen"]
  /\ Goto(t, "list")
  /\ UNCHANGED <<seen, rootsToSend, lnodes, missed, queues, terminate,
                 checkingSteal, results, cluster>>

\* Mutant of LeaveWithNode: --waiting only when nothing was found.
LeaveStillCounted(t) == ListShared(t) /\ UNCHANGED waiting

LeaveWithNode(t) == ListShared(t) /\ waiting' = waiting - 1

\* --waiting with nothing found: the inner loop ends.
LeaveIdle(t) ==
  /\ node[t] = NoNode
  /\ Count(t, "leave", IF Callbacks THEN "more" ELSE "quit", -1)

\* No _moreWorkCb: terminate = true
Quit(t) ==
  /\ At(t, "quit")
  /\ terminate' = TRUE
  /\ Goto(t, "outer")
  /\ UNCHANGED <<stack, locals, node, queues, waiting, checkingSteal,
                 results, cluster>>
-----------------------------------------------------------------------
(* More work from the cluster *)

\* Mutant of EnterMoreWork: the first barrier.wait() is missing.
EnterWithoutBarrier(t) == Count(t, "more", "claim", 1)

\* ++waiting, and the thread arrives at the first barrier.
EnterMoreWork(t) == Count(t, "more", "barrier1", 1)

\* barrier.wait() returns in every thread once all have arrived.
Release(l, next) ==
  /\ \A t \in Thread : At(t, l)
  /\ pc' = [t \in Thread |-> next]
  /\ UNCHANGED data

Barrier1 == Release("barrier1", "claim")

\* checkingSteal.test_and_set() picks the thread that asks for more work.
Claim(t) ==
  /\ At(t, "claim")
  /\ SetFlag(t, TRUE, IF checkingSteal THEN "rest" ELSE "check")

\* Mutant of CheckEmpty: only the roots are tested before asking.
CheckRootsOnly(t) ==
  Move(t, "check", IF /\ lnodes[t] = {} /\ possibleRoots = {}
                      /\ ~terminate
                   THEN "ask" ELSE "release")

\* All threads are between the barriers and none is in a queue: here the
\* sizes are exact.
CheckEmpty(t) ==
  Move(t, "check", IF /\ lnodes[t] = {} /\ possibleRoots = {}
                      /\ gnodes = {}    /\ ~terminate
                   THEN "ask" ELSE "release")

\* The RANGE_REQUEST carries the solutions found since the last one.
Ask(t) ==
  /\ At(t, "ask")
  /\ sentCount' = sentCount + solutionsFound
  /\ Goto(t, "answer")
  /\ UNCHANGED <<stack, locals, node, queues, flags, results, stealReq,
                 extWork, extReported>>

\* A steal request sent before the answer: dropped, and the RANGE_REQUEST
\* is sent again with no solutions in it.
DiscardSteal(t) ==
  /\ At(t, "answer")
  /\ stealReq
  /\ stealReq' = FALSE
  /\ UNCHANGED <<pc, stack, locals, node, queues, flags, results, extWork,
                 extReported, sentCount>>

\* MORE_WORK_RANGE or MORE_WORK_ROOTS: roots nobody has opened.
TakeRoots(t) ==
  /\ At(t, "answer")
  /\ ~stealReq
  /\ \E S \in SUBSET (extWork \cap RootId) :
       /\ S # {}
       /\ possibleRoots' = possibleRoots \cup S
       /\ extWork' = extWork \ S
  /\ Goto(t, "release")
  /\ UNCHANGED <<stack, locals, node, gnodes, flags, reported, stealReq,
                 extReported, sentCount>>

\* Mutant of AnswerRoots: solutions_found_ is not reset.
AnswerRootsNoReset(t) == TakeRoots(t) /\ UNCHANGED solutionsFound

AnswerRoots(t) == TakeRoots(t) /\ solutionsFound' = 0

\* MORE_WORK_SUBTREE: a node another worker gave away, rebuilt from the
\* message.
AnswerSubtree(t) ==
  /\ At(t, "answer")
  /\ ~stealReq
  /\ \E x \in extWork \cap Node :
       /\ Enqueue(t, x)
       /\ extWork' = extWork \ {x}
       /\ block' = [block EXCEPT ![x] = Fresh]
  /\ solutionsFound' = 0
  /\ Goto(t, "release")
  /\ UNCHANGED <<path, todo, listed, locals, node, flags, reported,
                 stealReq, extReported, sentCount>>

\* MORE_WORK_NOTHING: nobody in the cluster has work left.
AnswerNothing(t) ==
  /\ At(t, "answer")
  /\ ~stealReq
  /\ extWork = {}
  /\ terminate' = TRUE
  /\ solutionsFound' = 0
  /\ Goto(t, "release")
  /\ UNCHANGED <<stack, locals, node, queues, waiting, checkingSteal,
                 reported, cluster>>

\* Mutant of ReleaseClaim: the flag stays set after the answer.
ReleaseForgets(t) == Move(t, "release", "rest")

ReleaseClaim(t) == At(t, "release") /\ SetFlag(t, FALSE, "rest")

\* --waiting, and the thread arrives at the second barrier.
LeaveMoreWork(t) == Count(t, "rest", "barrier2", -1)

Barrier2 == Release("barrier2", "outer")
-----------------------------------------------------------------------
(* The rest of the cluster *)

\* The master asks this worker for work; it waits for the answer before it
\* asks again.
EnvSteal ==
  /\ Callbacks
  /\ ~stealReq
  /\ ~terminate
  /\ stealReq' = TRUE
  /\ UNCHANGED <<pc, stack, locals, node, queues, flags, results, extWork,
                 extReported, sentCount>>

\* Another worker begins a frame and reports what it calls back with.
EnvWork ==
  /\ \E f \in extWork :
       /\ extWork' = (extWork \ {f}) \cup Kids[f]
       /\ extReported' = extReported \cup Kids[f]
       /\ listed' = listed \cup {f}
  /\ UNCHANGED <<pc, path, todo, block, locals, node, queues, flags,
                 results, stealReq, sentCount>>
-----------------------------------------------------------------------
Answer(t) == AnswerRoots(t) \/ AnswerSubtree(t) \/ AnswerNothing(t)

RunLoop(t) ==
  \/ Outer(t) \/ PickLocal(t) \/ DequeueRoot(t) \/ GetRoot(t)
  \/ NoOwnData(t) \/ CallBack(t) \/ Return(t)

ServeSteal(t) ==
  \/ TestAndSet(t) \/ Probe(t) \/ Drain(t) \/ TakeRoot(t)
  \/ SendRoots(t) \/ SendNode(t) \/ SendNothing(t) \/ Clear(t)

SolutionCb(t) ==
  \/ ReadSize(t) \/ DecideShare(t) \/ KeepLocal(t) \/ Recurse(t)
  \/ Share(t) \/ ReportSolution(t)

Wait(t) ==
  \/ StartWaiting(t) \/ DequeueNode(t) \/ DequeueFails(t)
  \/ ReadTerminate(t) \/ ReadWaiting(t) \/ LeaveWithNode(t)
  \/ LeaveIdle(t) \/ Quit(t)

GetMoreWork(t) ==
  \/ EnterMoreWork(t) \/ Claim(t) \/ CheckEmpty(t) \/ Ask(t)
  \/ DiscardSteal(t) \/ Answer(t) \/ ReleaseClaim(t) \/ LeaveMoreWork(t)

Step(t) ==
  RunLoop(t) \/ ServeSteal(t) \/ SolutionCb(t) \/ Wait(t) \/ GetMoreWork(t)

\* All threads have left worker_thread and are joined.
AllDone == \A t \in Thread : At(t, "done")

\* Run has returned: nothing moves any more.
Joined == AllDone /\ UNCHANGED vars

Next ==
  \/ \E t \in Thread : Step(t)
  \/ Barrier1
  \/ Barrier2
  \/ EnvSteal
  \/ EnvWork
  \/ Joined

\* The operating system runs every thread; and what the threads wait for
\* comes: the cluster answers a request even if steal requests keep crossing
\* it, and try_dequeue does not fail forever while it is called again and
\* again with a node in the queue.
Fairness ==
  /\ \A t \in Thread : WF_vars(Step(t))
  /\ WF_vars(Barrier1 \/ Barrier2)
  /\ SF_vars(\E t \in Thread : Answer(t) \/ DequeueNode(t))

Spec == Init /\ [][Next]_vars

FairSpec == Spec /\ Fairness
-----------------------------------------------------------------------
(* Invariants *)

Label ==
  {"outer", "pick", "open", "list", "tas", "probe", "drain", "take", "send",
   "clear", "clearGiven", "size", "compare", "share", "report", "idle",
   "spin", "ended", "allIdle", "leave", "quit", "more", "barrier1", "claim",
   "check", "ask", "answer", "release", "rest", "barrier2", "done"}

\* Every variable keeps its type.
TypeOK ==
  /\ pc \in [Thread -> Label]
  /\ from \in [Thread -> {"own", "stolen", "none"}]
  /\ path \in [Thread -> SUBSET Frame]
  /\ todo \in [Thread -> SUBSET Node]
  /\ node \in [Thread -> Node \cup {NoNode}]
  /\ seen \in [Thread -> Nat]
  /\ rootsToSend \in [Thread -> SUBSET RootId]
  /\ lnodes \in [Thread -> SUBSET Node]
  /\ missed \in [Thread -> BOOLEAN]
  /\ possibleRoots \in SUBSET RootId
  /\ gnodes \in SUBSET Node
  /\ waiting \in Int
  /\ terminate \in BOOLEAN
  /\ checkingSteal \in BOOLEAN
  /\ block \in [Node -> Thread \cup {Fresh}]
  /\ reported \in SUBSET Node
  /\ solutionsFound \in Nat
  /\ listed \in SUBSET Frame
  /\ stealReq \in BOOLEAN
  /\ extWork \in SUBSET Frame
  /\ extReported \in SUBSET Node
  /\ sentCount \in Nat

\* Where a thread is counted in waiting.
Counted == {"spin", "ended", "allIdle", "leave", "barrier1", "claim",
            "check", "ask", "answer", "release", "rest"}

\* waiting, incremented at two places of the loop and decremented at two
\* others, counts the threads between them: it never drifts, so it reaches
\* the number of threads exactly when no thread runs a frame.
WaitingExact == waiting = Cardinality({t \in Thread : pc[t] \in Counted})

\* Where a thread holds the flag checkingSteal.
Holding == {"probe", "drain", "take", "send", "clear", "clearGiven",
            "check", "ask", "answer", "release"}

\* At most one thread is in ServeSteal or asks for work: MPI is used by one
\* thread at a time, and no request is received twice.
OneInMpi ==
  /\ \A t, u \in Thread : pc[t] \in Holding /\ pc[u] \in Holding => t = u
  /\ checkingSteal <=> \E t \in Thread : pc[t] \in Holding

\* What CheckStealRequest saw is still in the channel when SendSteal receives
\* it: MPI_Recv in SendSteal does not block while the flag is held.
ProbeStillTrue ==
  \A t \in Thread : pc[t] \in {"drain", "take", "send"} => stealReq

\* Nodes some thread may still read.
Live ==
  gnodes \cup UNION {lnodes[t] \cup (path[t] \cap Node) \cup todo[t]
                       \cup ({node[t]} \ {NoNode}) : t \in Thread}

\* GetRoot rewrites the vectors its thread's previous root nodes, and all
\* their descendants, point to: no such node may be alive anywhere, in
\* particular none that another thread took from gnodes.
NoBufferReuse ==
  \A t \in Thread : At(t, "open") => \A x \in Live : block[x] # t

\* Frames a thread holds that it, or somebody else, will begin.
Held(t) ==
  lnodes[t] \cup rootsToSend[t]
    \cup (IF At(t, "open") THEN path[t] ELSE {})
    \cup (IF At(t, "leave") THEN {node[t]} \ {NoNode} ELSE {})

\* The places outside the threads where a frame waits to be begun, and the
\* frames already begun.
Places == <<possibleRoots, gnodes, extWork, listed>>

\* A frame waits in one place at most, and nowhere once it was begun: no
\* root is opened twice and no node is listed twice, by whichever threads
\* and processes.
NothingTwice ==
  /\ \A i, j \in 1..4 : i # j => Places[i] \cap Places[j] = {}
  /\ \A t \in Thread : \A i \in 1..4 : Held(t) \cap Places[i] = {}
  /\ \A t, u \in Thread : t # u => Held(t) \cap Held(u) = {}

\* A node about to be reported was not reported before, here or elsewhere,
\* and no other thread is about to report it: a solution is printed once.
ReportedOnce ==
  /\ \A t \in Thread :
       At(t, "report") => node[t] \notin reported \cup extReported
  /\ \A t, u \in Thread :
       t # u /\ At(t, "report") /\ At(u, "report") => node[t] # node[u]

\* Resetting solutions_found_ after the master's answer loses no solution
\* and counts none twice.
CountConserved ==
  sentCount + (IF \E t \in Thread : At(t, "answer") THEN 0 ELSE solutionsFound)
    = Cardinality(reported \cap Solution)

\* A thread that stops leaves nothing behind that only it could finish.  When
\* the last one stops, the roots and the work of the cluster are used up.  A
\* node is left in gnodes only by a process without callbacks, and only if
\* for some thread the last try_dequeue failed although there was a node; and
\* only what is below the nodes left there was not reported.
NothingLeftBehind ==
  /\ \A t \in Thread :
       At(t, "done") => lnodes[t] = {} /\ todo[t] = {} /\ path[t] = {}
  /\ AllDone =>
       /\ possibleRoots = {} /\ extWork = {}
       /\ gnodes # {} => ~Callbacks /\ \E t \in Thread : missed[t]
       /\ LET out == reported \cup extReported
          IN  \A f \in RootId \cup (out \ gnodes) : Kids[f] \subseteq out

\* The enumeration is complete: in a worker when the threads have stopped,
\* else when they have and no node is left in the queue.
Finished == AllDone /\ (Callbacks \/ gnodes = {})

\* The threads together implement the abstract enumeration: only nodes below
\* the roots are reported, and all of them once it is complete.
E == INSTANCE Enumeration WITH reported <- reported \cup extReported,
                               finished <- Finished
Enumerates == E!Init /\ [][E!Next]_E!vars

\* The threads stop: nobody waits forever for a node, at a barrier or for
\* the flag.
Termination == <>AllDone

\* A steal request is received sooner or later, by ServeSteal or by the
\* worker that asks for work itself: the master, which waits for the answer,
\* is not blocked.
StealAnswered == stealReq ~> ~stealReq
=======================================================================
