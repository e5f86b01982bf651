------------------------ MODULE DistributedMPI ------------------------
(***************************************************************************)
(* The distributed enumerator (enumerator/distributed_mpi.hpp), built as   *)
(* build.sh builds it: with NDEBUG, so that assert() does nothing.         *)
(* Rank 0, the master, hands out ranges of roots and then moves work from  *)
(* one worker to another; worker w is the process of rank w + 1.  What a   *)
(* worker does with its threads is WorkSteal; here it is a pool of roots   *)
(* and nodes.  MPI keeps the order of the messages of a pair of processes, *)
(* and sends are buffered.  A length and the data it announces are sent    *)
(* together and modelled as one message.                                   *)
(***************************************************************************)
EXTENDS Forest, Integers, Sequences

CONSTANTS
  NumWorkers,     \* _worldSize - 1
  ChunksPerNode   \* the flag chunks_per_node, passed on as roots_per_node

Worker == 0..(NumWorkers - 1)
MaxRoots == Cardinality(RootId)

ASSUME DistributedAssumption ==
  /\ NumWorkers \in Nat \ {0}
  /\ ChunksPerNode \in Nat \ {0}
  /\ RootId = 0..(MaxRoots - 1)

VARIABLES
  \* the master
  mpc,              \* "recv": in MPI_Recv of a request; "steal": in the loop
                    \* of WaitRangeRequest; "reply": waits for the victim
  nextRangeStart,
  stealer,          \* whose request is being answered
  workersStates,
  lastRequest,      \* the rank of each worker by the time of its last
                    \* request, 1 the oldest; 0: it never asked
  lastStealVictim,
  solutionsCount,
  \* the workers
  wpc,              \* "start", "first" request, "fresh" work, "work", "wait"
                    \* for more work, "done", or "undefined"
  roots, nodes,     \* the work of a worker
  found,            \* its solutions_found_
  reported,
  \* the channels
  toMaster, toWorker

masterVars == <<mpc, nextRangeStart, stealer, workersStates, lastRequest,
                lastStealVictim, solutionsCount>>
workerVars == <<wpc, roots, nodes, found, reported>>
vars == <<masterVars, workerVars, toMaster, toWorker>>

\* Messages.  RANGE_RESPONSE and a stolen chunk or subtree carry the work.
RangeRequest(n) == [type |-> "RANGE_REQUEST", count |-> n]
StealRequest == [type |-> "STEAL_REQUEST"]
RangeResponse(S) == [type |-> "RANGE_RESPONSE", work |-> S]
Stolen(S) == [type |-> "STEAL_RESPONSE", work |-> S]
Termination == [type |-> "TERMINATION"]

Init ==
  /\ mpc = "recv"
  /\ nextRangeStart = MaxRoots
  /\ stealer = 0
  /\ workersStates = [w \in Worker |-> "ROOTS"]
  /\ lastRequest = [w \in Worker |-> 0]
  /\ lastStealVictim = 0
  /\ solutionsCount = 0
  /\ wpc = [w \in Worker |-> "start"]
  /\ roots = [w \in Worker |-> {}]
  /\ nodes = [w \in Worker |-> {}]
  /\ found = [w \in Worker |-> 0]
  /\ reported = {}
  /\ toMaster = [w \in Worker |-> <<>>]
  /\ toWorker = [w \in Worker |-> <<>>]

Lower(m, n) == IF m < n THEN m ELSE n

Pop(channel, w) == [channel EXCEPT ![w] = Tail(@)]
Send(channel, w, m) == [channel EXCEPT ![w] = Append(@, m)]
-----------------------------------------------------------------------
(* The master *)

\* Roots are handed out from the end; a range has no more roots than there
\* are per worker.
RootsPerNode == Lower(ChunksPerNode, MaxRoots \div NumWorkers)

\* Mutant of RangeBegin: the last, shorter range is not treated apart.
RangeBeginUnchecked ==
  IF nextRangeStart = 0 THEN MaxRoots ELSE nextRangeStart - RootsPerNode

\* Where the range for the next request begins; MaxRoots: no range is left,
\* or ranges are empty.
RangeBegin ==
  IF nextRangeStart = 0
  THEN MaxRoots
  ELSE nextRangeStart - Lower(RootsPerNode, nextRangeStart)

terminated == \A w \in Worker : workersStates[w] = "STEAL_WAIT"

\* Worker w made the latest request.
Touch(w) ==
  LET asked == {v \in Worker : lastRequest[v] # 0}
      later == {v \in asked : lastRequest[v] > lastRequest[w]} IN
  lastRequest' =
    [v \in Worker |->
       IF v = w THEN Cardinality(asked \cup {w})
       ELSE IF w \in asked /\ v \in later THEN lastRequest[v] - 1
       ELSE lastRequest[v]]

\* The busy worker, other than the last victim, whose last request is the
\* oldest; worker 0 if there is none.
GetStealVictim ==
  LET busy == {w \in Worker \ {lastStealVictim} :
                 workersStates[w] # "STEAL_WAIT"} IN
  IF busy = {} THEN 0
  ELSE CHOOSE v \in busy : \A w \in busy :
         \/ lastRequest[v] < lastRequest[w]
         \/ lastRequest[v] = lastRequest[w] /\ v <= w

\* MPI_Recv of a request, from any worker.
ReceiveRequest(w) ==
  /\ mpc = "recv"
  /\ toMaster[w] # <<>>
  /\ toMaster' = Pop(toMaster, w)
  /\ solutionsCount' = solutionsCount + Head(toMaster[w]).count
  /\ Touch(w)

\* Mutant of GiveRange: the last root of the range is left out.
GiveRangeShort(w) ==
  /\ ReceiveRequest(w)
  /\ RangeBegin # MaxRoots
  /\ toWorker' =
       Send(toWorker, w, RangeResponse(RangeBegin..(nextRangeStart - 2)))
  /\ nextRangeStart' = RangeBegin
  /\ UNCHANGED <<mpc, stealer, workersStates, lastStealVictim, workerVars>>

GiveRange(w) ==
  /\ ReceiveRequest(w)
  /\ RangeBegin # MaxRoots
  /\ toWorker' =
       Send(toWorker, w, RangeResponse(RangeBegin..(nextRangeStart - 1)))
  /\ nextRangeStart' = RangeBegin
  /\ UNCHANGED <<mpc, stealer, workersStates, lastStealVictim, workerVars>>

BeginSteal(w) ==
  /\ ReceiveRequest(w)
  /\ RangeBegin = MaxRoots
  /\ workersStates' = [workersStates EXCEPT ![w] = "STEAL_WAIT"]
  /\ stealer' = w
  /\ mpc' = "steal"
  /\ UNCHANGED <<nextRangeStart, lastStealVictim, toWorker, workerVars>>

AskVictim ==
  /\ mpc = "steal"
  /\ ~terminated
  /\ lastStealVictim' = GetStealVictim
  /\ toWorker' = Send(toWorker, lastStealVictim', StealRequest)
  /\ mpc' = "reply"
  /\ UNCHANGED <<nextRangeStart, stealer, workersStates, lastRequest,
                 solutionsCount, toMaster, workerVars>>

\* The victim's answer, whatever it is.
VictimAnswers(type) ==
  /\ mpc = "reply"
  /\ toMaster[lastStealVictim] # <<>>
  /\ Head(toMaster[lastStealVictim]).type = type
  /\ toMaster' = Pop(toMaster, lastStealVictim)

\* Mutant of Forward: the stealer is still taken for a worker that waits.
ForwardUnmarked ==
  /\ VictimAnswers("STEAL_RESPONSE")
  /\ toWorker' = Send(toWorker, stealer, Head(toMaster[lastStealVictim]))
  /\ mpc' = "recv"
  /\ UNCHANGED <<nextRangeStart, stealer, workersStates, lastRequest,
                 lastStealVictim, solutionsCount, workerVars>>

\* The work is sent on, and WaitRangeRequest returns.
Forward ==
  /\ VictimAnswers("STEAL_RESPONSE")
  /\ toWorker' = Send(toWorker, stealer, Head(toMaster[lastStealVictim]))
  /\ workersStates' = [workersStates EXCEPT ![stealer] = "STEAL_PROCESSING"]
  /\ mpc' = "recv"
  /\ UNCHANGED <<nextRangeStart, stealer, lastRequest, lastStealVictim,
                 solutionsCount, workerVars>>

\* The victim's own request crossed the steal request.
VictimIsIdle ==
  /\ VictimAnswers("RANGE_REQUEST")
  /\ solutionsCount' =
       solutionsCount + Head(toMaster[lastStealVictim]).count
  /\ workersStates' = [workersStates EXCEPT ![lastStealVictim] = "STEAL_WAIT"]
  /\ Touch(lastStealVictim)
  /\ mpc' = "steal"
  /\ UNCHANGED <<nextRangeStart, stealer, lastStealVictim, toWorker,
                 workerVars>>

\* WaitRangeRequest returns true: the first loop of Run ignores it, the
\* second one ends.
Broadcast ==
  /\ mpc = "steal"
  /\ terminated
  /\ toWorker' = [w \in Worker |-> Append(toWorker[w], Termination)]
  /\ mpc' = IF nextRangeStart = 0 THEN "done" ELSE "recv"
  /\ UNCHANGED <<nextRangeStart, stealer, workersStates, lastRequest,
                 lastStealVictim, solutionsCount, toMaster, workerVars>>

Master ==
  \/ \E w \in Worker : GiveRange(w) \/ BeginSteal(w)
  \/ AskVictim \/ Forward \/ VictimIsIdle \/ Broadcast
-----------------------------------------------------------------------
(* The workers *)

\* MoreWork(n) begins: a request that carries n solutions.
Request(w, n, next) ==
  /\ toMaster' = Send(toMaster, w, RangeRequest(n))
  /\ wpc' = [wpc EXCEPT ![w] = next]
  /\ UNCHANGED <<masterVars, roots, nodes, found, reported, toWorker>>

RequestFirst(w) == wpc[w] = "start" /\ Request(w, 0, "first")

\* Every thread is idle.
RequestMore(w) ==
  /\ wpc[w] \in {"fresh", "work"}
  /\ roots[w] = {}
  /\ nodes[w] = {}
  /\ Request(w, found[w], "wait")

\* A message reaches MoreWork.
Receive(w, type) ==
  /\ wpc[w] \in {"first", "wait"}
  /\ toWorker[w] # <<>>
  /\ Head(toWorker[w]).type = type
  /\ toWorker' = Pop(toWorker, w)

\* Mutant of DropSteal: the steal request is dropped without a new request.
DropStealSilently(w) ==
  /\ Receive(w, "STEAL_REQUEST")
  /\ UNCHANGED <<masterVars, workerVars, toMaster>>

\* Mutant of DropSteal: the new request carries the solutions again.
DropStealRecount(w) ==
  /\ Receive(w, "STEAL_REQUEST")
  /\ toMaster' = Send(toMaster, w, RangeRequest(found[w]))
  /\ UNCHANGED <<masterVars, workerVars>>

\* A steal request that crossed the request: the request is sent again,
\* without the solutions.
DropSteal(w) ==
  /\ Receive(w, "STEAL_REQUEST")
  /\ toMaster' = Send(toMaster, w, RangeRequest(0))
  /\ UNCHANGED <<masterVars, workerVars>>

\* Worker::Run uses the range of the first answer whatever that answer is.
\* If it is not a range, what was received is lost and what the worker does
\* with its uninitialised range is undefined: here, nothing.
UnlessFirst(w, next) == IF wpc[w] = "first" THEN "undefined" ELSE next

ReceiveRange(w) ==
  /\ Receive(w, "RANGE_RESPONSE")
  /\ roots' = [roots EXCEPT ![w] = Head(toWorker[w]).work]
  /\ found' = [found EXCEPT ![w] = 0]
  /\ wpc' = [wpc EXCEPT ![w] = "fresh"]
  /\ UNCHANGED <<masterVars, nodes, reported, toMaster>>

ReceiveStolen(w) ==
  /\ Receive(w, "STEAL_RESPONSE")
  /\ wpc' = [wpc EXCEPT ![w] = UnlessFirst(w, "fresh")]
  /\ IF wpc[w] = "first" THEN UNCHANGED <<roots, nodes>>
     ELSE LET work == Head(toWorker[w]).work IN
          /\ roots' = [roots EXCEPT ![w] = work \cap RootId]
          /\ nodes' = [nodes EXCEPT ![w] = work \cap Node]
  /\ found' = [found EXCEPT ![w] = 0]
  /\ UNCHANGED <<masterVars, reported, toMaster>>

ReceiveTermination(w) ==
  /\ Receive(w, "TERMINATION")
  /\ wpc' = [wpc EXCEPT ![w] = UnlessFirst(w, "done")]
  /\ found' = [found EXCEPT ![w] = 0]
  /\ UNCHANGED <<masterVars, roots, nodes, reported, toMaster>>

\* Some thread begins a root or a node.  The threads do so before they look
\* for a steal request.
Enumerate(w) ==
  /\ wpc[w] \in {"fresh", "work"}
  /\ \E f \in roots[w] \cup nodes[w] :
       /\ roots' = [roots EXCEPT ![w] = @ \ {f}]
       /\ nodes' = [nodes EXCEPT ![w] = (@ \ {f}) \cup Kids[f]]
       /\ found' = [found EXCEPT ![w] = @ + Cardinality(Kids[f] \cap Solution)]
       /\ reported' = reported \cup Kids[f]
  /\ wpc' = [wpc EXCEPT ![w] = "work"]
  /\ UNCHANGED <<masterVars, toMaster, toWorker>>

\* Mutant of Serve: SendSteal does not receive the request it answers.
ServeUnreceived(w, W) ==
  /\ wpc[w] = "work"
  /\ toWorker[w] # <<>>
  /\ toMaster' = Send(toMaster, w, Stolen(W))
  /\ UNCHANGED toWorker

\* CheckStealRequest sees a message, and SendSteal sends W.
Serve(w, W) ==
  /\ wpc[w] = "work"
  /\ toWorker[w] # <<>>
  /\ toWorker' = Pop(toWorker, w)
  /\ toMaster' = Send(toMaster, w, Stolen(W))

\* Mutant of GiveRoots: the roots sent are kept.
GiveRootsTwice(w) ==
  /\ \E S \in SUBSET roots[w] : S # {} /\ Serve(w, S)
  /\ UNCHANGED <<masterVars, workerVars>>

\* Some roots, about half of them.
GiveRoots(w) ==
  /\ \E S \in SUBSET roots[w] :
       /\ S # {}
       /\ Serve(w, S)
       /\ roots' = [roots EXCEPT ![w] = @ \ S]
  /\ UNCHANGED <<masterVars, wpc, nodes, found, reported>>

GiveNode(w) ==
  /\ roots[w] = {}
  /\ \E x \in nodes[w] :
       /\ Serve(w, {x})
       /\ nodes' = [nodes EXCEPT ![w] = @ \ {x}]
  /\ UNCHANGED <<masterVars, wpc, roots, found, reported>>

WorkerStep(w) ==
  \/ RequestFirst(w) \/ RequestMore(w) \/ DropSteal(w)
  \/ ReceiveRange(w) \/ ReceiveStolen(w) \/ ReceiveTermination(w)
  \/ Enumerate(w) \/ GiveRoots(w) \/ GiveNode(w)

\* The processes that are left return from RunInternal.
Finished == mpc = "done" /\ \A w \in Worker : wpc[w] = "done"

SomeUndefined == \E w \in Worker : wpc[w] = "undefined"

Next == Master \/ \E w \in Worker : WorkerStep(w)

Spec == Init /\ [][Next]_vars

\* Every process runs.
FairSpec ==
  Spec /\ WF_vars(Master) /\ \A w \in Worker : WF_vars(WorkerStep(w))
-----------------------------------------------------------------------
Message ==
  [type : {"RANGE_REQUEST"}, count : Nat]
    \cup [type : {"STEAL_REQUEST", "TERMINATION"}]
    \cup [type : {"RANGE_RESPONSE", "STEAL_RESPONSE"}, work : SUBSET Frame]

\* Every variable keeps its type.
TypeOK ==
  /\ mpc \in {"recv", "steal", "reply", "done"}
  /\ nextRangeStart \in 0..MaxRoots
  /\ stealer \in Worker
  /\ workersStates \in
       [Worker -> {"ROOTS", "STEAL_WAIT", "STEAL_PROCESSING"}]
  /\ lastRequest \in [Worker -> 0..NumWorkers]
  /\ lastStealVictim \in Worker
  /\ solutionsCount \in Nat
  /\ wpc \in [Worker -> {"start", "first", "fresh", "work", "wait", "done",
                         "undefined"}]
  /\ roots \in [Worker -> SUBSET RootId]
  /\ nodes \in [Worker -> SUBSET Node]
  /\ found \in [Worker -> Nat]
  /\ reported \in SUBSET Node
  /\ toMaster \in [Worker -> Seq(Message)]
  /\ toWorker \in [Worker -> Seq(Message)]

One(P) == IF P THEN 1 ELSE 0

\* A worker that waits in MoreWork has one request under way, and a worker
\* that works has none: on its way to the master, being answered, or to be
\* sent again when a steal request is dropped.  With none a worker would
\* wait forever, with two it would read an answer while it works.
RequestsBalanced ==
  mpc # "done" =>
    \A w \in Worker :
      Len(toMaster[w]) + Len(toWorker[w])
          + One(mpc \in {"steal", "reply"} /\ stealer = w)
          - One(mpc = "reply" /\ lastStealVictim = w)
        = One(wpc[w] \in {"first", "wait"})

\* Every message finds the code that expects it: a working process sees only
\* steal requests, so that CheckStealRequest, which probes for any message,
\* tells one; the master receives requests outside of a steal.
MessagesExpected ==
  /\ \A w \in Worker : wpc[w] \in {"fresh", "work"} =>
       \A i \in 1..Len(toWorker[w]) : toWorker[w][i] = StealRequest
  /\ mpc = "recv" =>
       \A w \in Worker : \A i \in 1..Len(toMaster[w]) :
         toMaster[w][i].type = "RANGE_REQUEST"

\* The work in a channel.
Carried(c) ==
  UNION {c[i].work : i \in {j \in 1..Len(c) : "work" \in DOMAIN c[j]}}

\* When the workers are told to terminate nobody has work and none is on its
\* way, although the master only knows what the workers told it.
TerminationSafe ==
  (\E w \in Worker : \E i \in 1..Len(toWorker[w]) :
     toWorker[w][i] = Termination) =>
    \A w \in Worker : /\ roots[w] = {}
                      /\ nodes[w] = {}
                      /\ Carried(toMaster[w]) = {}
                      /\ Carried(toWorker[w]) = {}

\* The sum of the values of f, natural numbers.
SumOver(f) == Cardinality(UNION {{x} \X (1..f[x]) : x \in DOMAIN f})

CountIn(m) == IF m.type = "RANGE_REQUEST" THEN m.count ELSE 0
CountOnTheWay(w) ==
  SumOver([i \in 1..Len(toMaster[w]) |-> CountIn(toMaster[w][i])])

\* Solutions of w that the master has not counted: a worker that waits has
\* sent what it found.
Uncounted(w) == CountOnTheWay(w) + IF wpc[w] = "wait" THEN 0 ELSE found[w]

\* No solution is lost or counted twice on its way to the master, also when
\* a request is sent again or answers a steal request; requests nobody
\* receives at the end carry none.
CountConserved ==
  /\ solutionsCount + SumOver([w \in Worker |-> Uncounted(w)])
       = Cardinality(reported \cap Solution)
  /\ mpc = "done" => solutionsCount = Cardinality(reported \cap Solution)

\* A frame is in one place of the cluster at most.
WorkUnique ==
  \A v, w \in Worker :
    LET Mine(u) == roots[u] \cup nodes[u]
        Moving(u) == {Carried(toMaster[u]), Carried(toWorker[u])} IN
    /\ v # w => Mine(v) \cap Mine(w) = {}
    /\ \A S \in Moving(w) : Mine(v) \cap S = {}
    /\ Carried(toMaster[v]) \cap Carried(toWorker[w]) = {}

\* The cluster implements the abstract enumeration.
E == INSTANCE Enumeration WITH finished <- Finished
Enumerates == E!Init /\ [][E!Next]_E!vars

\* Every run ends, unless some worker's first request comes too late.
Ends == <>(Finished \/ SomeUndefined)

\* distributed_mpi.hpp:165 asserts it.
VictimIsNotStealer == mpc = "reply" => lastStealVictim # stealer

\* distributed_mpi.hpp:384 and 386: the first answer is a batch of roots.
FirstAnswerIsRange == ~SomeUndefined

\* distributed_mpi.hpp:129 and 284: once everyone is told to terminate the
\* master stops waiting for requests.
TerminationEndsMaster ==
  (\E w \in Worker : \E i \in 1..Len(toWorker[w]) :
     toWorker[w][i] = Termination) => mpc = "done"
=======================================================================
