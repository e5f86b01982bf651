----------------------- MODULE DistributedMPI_proofs -----------------------
(***************************************************************************)
(* Theorems about the master and the workers of the distributed            *)
(* enumerator, for any forest and any number of workers: their protocol,   *)
(* and the work and the solutions that they hand each other.  No frame and *)
(* no solution is lost or handled twice, and the cluster enumerates the    *)
(* forest.                                                                 *)
(***************************************************************************)
EXTENDS DistributedMPI, FiniteSetTheorems, FunctionTheorems, SequenceTheorems,
        WellFoundedInduction, TLAPS

\* A range of roots is not empty, unless there is no root at all.  With fewer
\* roots than workers RootsPerNode is zero: no root is ever handed out.
EnoughRoots == MaxRoots = 0 \/ MaxRoots >= NumWorkers

\* The master waits for the answer of w to a steal request, or looks for
\* work for w.
Asked(w) == mpc = "reply" /\ lastStealVictim = w
Served(w) == mpc \in {"steal", "reply"} /\ stealer = w

\* Worker w is in MoreWork, and worker w has told the master so.
Waits(w) == wpc[w] \in {"first", "wait"}
Waiting(w) == workersStates[w] = "STEAL_WAIT"

\* The requests and answers between the master and w, until it is told to
\* terminate: an answer to a steal request comes first, work for w too.
Balanced(w) ==
  Len(toMaster[w]) + Len(toWorker[w])
      + (IF Served(w) THEN 1 ELSE 0) - (IF Asked(w) THEN 1 ELSE 0)
    = IF Waits(w) THEN 1 ELSE 0
Exchange(w) ==
  /\ Balanced(w)
  /\ wpc[w] # "done"
  /\ \A i \in 1..Len(toMaster[w]) :
       \/ toMaster[w][i].type = "RANGE_REQUEST" /\ Waits(w)
       \/ /\ i = 1
          /\ toMaster[w][i].type = "STEAL_RESPONSE"
          /\ Asked(w) /\ ~ Served(w) /\ ~ Waiting(w)
          /\ toWorker[w] = <<>>
          /\ wpc[w] \in {"work", "wait"}
  /\ \A i \in 1..Len(toWorker[w]) :
       \/ toWorker[w][i] = StealRequest
       \/ /\ i = 1
          /\ toWorker[w][i].type \in {"RANGE_RESPONSE", "STEAL_RESPONSE"}
          /\ Waits(w) /\ ~ Served(w) /\ ~ Waiting(w)
          /\ toMaster[w] = <<>>
  /\ Waiting(w) => Waits(w)

\* Once it was told to terminate: what is left carries no work.
Over(w) ==
  /\ wpc[w] \in {"first", "wait", "done", "undefined"}
  /\ \A i \in 1..Len(toMaster[w]) : toMaster[w][i].type = "RANGE_REQUEST"
  /\ \A i \in 1..Len(toWorker[w]) :
       toWorker[w][i].type \in {"STEAL_REQUEST", "TERMINATION"}

\* The master is out of ranges once it steals.
MasterInv ==
  /\ mpc \in {"steal", "reply"} => Waiting(stealer)
  /\ mpc # "recv" \/ (\E w \in Worker : Waiting(w)) => nextRangeStart = 0

IdleInv ==
  \A w \in Worker : wpc[w] \notin {"fresh", "work"} =>
                      roots[w] = {} /\ nodes[w] = {}

ExchangeInv ==
  /\ MasterInv
  /\ IdleInv
  /\ IF mpc = "done" THEN \A w \in Worker : Over(w)
                     ELSE \A w \in Worker : Exchange(w)
-----------------------------------------------------------------------
(* Types                                                                   *)

LEMMA Constants ==
  /\ NumWorkers \in Nat \ {0} /\ MaxRoots \in Nat
  /\ Worker = 0..(NumWorkers - 1) /\ IsFiniteSet(Worker)
  /\ Cardinality(Worker) = NumWorkers
  /\ RootId = 0..(MaxRoots - 1)
  /\ RootId \subseteq Frame /\ Node \subseteq Frame
  /\ \A f \in Frame : Kids[f] \subseteq Node
<1>1. NumWorkers \in Nat \ {0} /\ RootId = 0..(MaxRoots - 1)
  BY DistributedAssumption
<1>2. MaxRoots \in Nat
  BY ForestAssumption, FS_CardinalityType DEF MaxRoots
<1>3. IsFiniteSet(Worker) /\ Cardinality(Worker) = NumWorkers
  BY <1>1, FS_Interval DEF Worker
<1>4. QED
  BY <1>1, <1>2, <1>3, ForestAssumption DEF Worker, Frame

LEMMA DivFacts ==
  ASSUME NEW m \in Nat, NEW n \in Nat \ {0}
  PROVE  /\ m \div n \in Nat
         /\ m >= n => m \div n >= 1
         /\ m < n => m \div n = 0
OBVIOUS

\* The range handed out next, if there is one, is not empty.
LEMMA RangeFacts ==
  ASSUME nextRangeStart \in 0..MaxRoots
  PROVE  /\ RangeBegin \in 0..MaxRoots
         /\ RangeBegin # MaxRoots => RangeBegin <= nextRangeStart
         /\ nextRangeStart = 0 => RangeBegin = MaxRoots
         /\ EnoughRoots /\ RangeBegin = MaxRoots => nextRangeStart = 0
         /\ ~ EnoughRoots /\ nextRangeStart = MaxRoots =>
              RangeBegin = MaxRoots /\ MaxRoots # 0
<1>1. /\ MaxRoots \div NumWorkers \in Nat
      /\ MaxRoots >= NumWorkers => MaxRoots \div NumWorkers >= 1
      /\ MaxRoots < NumWorkers => MaxRoots \div NumWorkers = 0
  BY Constants, DivFacts
<1> USE Constants
<1>2. /\ RootsPerNode \in Nat
      /\ MaxRoots >= NumWorkers => RootsPerNode >= 1
      /\ MaxRoots < NumWorkers => RootsPerNode = 0
  BY <1>1, DistributedAssumption DEF RootsPerNode, Lower
<1> HIDE DEF RootsPerNode
<1> DEFINE r == RootsPerNode
<1>3. /\ r \in Nat
      /\ EnoughRoots => MaxRoots = 0 \/ r >= 1
      /\ ~ EnoughRoots => MaxRoots # 0 /\ r = 0
  BY <1>2 DEF EnoughRoots
<1>4. RangeBegin = IF nextRangeStart = 0 THEN MaxRoots
                   ELSE nextRangeStart - (IF r < nextRangeStart THEN r
                                          ELSE nextRangeStart)
  BY DEF RangeBegin, Lower
<1> HIDE DEF r
<1>5. QED
  BY <1>3, <1>4

LEMMA RangeTypes ==
  ASSUME nextRangeStart \in 0..MaxRoots
  PROVE  /\ RangeBegin..(nextRangeStart - 1) \in SUBSET RootId
         /\ RangeBegin..(nextRangeStart - 1) \in SUBSET Frame
<1>1. RangeBegin..(nextRangeStart - 1) \subseteq RootId
  BY RangeFacts, Constants
<1>2. QED
  BY <1>1, Constants

LEMMA MessageTypes ==
  /\ \A n \in Nat : RangeRequest(n) \in Message
                    /\ RangeRequest(n).type = "RANGE_REQUEST"
  /\ StealRequest \in Message /\ StealRequest.type = "STEAL_REQUEST"
  /\ Termination \in Message /\ Termination.type = "TERMINATION"
  /\ \A S \in SUBSET Frame :
       /\ RangeResponse(S) \in Message
       /\ RangeResponse(S).type = "RANGE_RESPONSE"
       /\ RangeResponse(S).work = S
       /\ Stolen(S) \in Message
       /\ Stolen(S).type = "STEAL_RESPONSE"
       /\ Stolen(S).work = S
  /\ \A m \in Message :
       /\ m.type = "RANGE_REQUEST" => m.count \in Nat
       /\ m.type \in {"RANGE_RESPONSE", "STEAL_RESPONSE"} =>
            m.work \in SUBSET Frame
       /\ m.type = "STEAL_REQUEST" => m = StealRequest
BY DEF Message, RangeRequest, StealRequest, Termination, RangeResponse, Stolen

\* Receiving and sending a message.
LEMMA PopType ==
  ASSUME NEW M, NEW c \in [Worker -> Seq(M)], NEW w \in Worker, c[w] # <<>>
  PROVE  Pop(c, w) \in [Worker -> Seq(M)] /\ Head(c[w]) \in M
BY DEF Pop

LEMMA PopFacts ==
  ASSUME NEW c \in [Worker -> Seq(Message)], NEW w \in Worker, c[w] # <<>>
  PROVE  /\ Pop(c, w) \in [Worker -> Seq(Message)]
         /\ Pop(c, w)[w] = Tail(c[w])
         /\ \A v \in Worker \ {w} : Pop(c, w)[v] = c[v]
         /\ Len(c[w]) \in Nat \ {0}
         /\ Len(Pop(c, w)[w]) = Len(c[w]) - 1
         /\ Head(c[w]) = c[w][1] /\ Head(c[w]) \in Message
         /\ \A i \in 1..(Len(c[w]) - 1) : Pop(c, w)[w][i] = c[w][i + 1]
BY DEF Pop

LEMMA SendType ==
  ASSUME NEW M, NEW c \in [Worker -> Seq(M)], NEW w \in Worker, NEW m \in M
  PROVE  Send(c, w, m) \in [Worker -> Seq(M)]
BY DEF Send

LEMMA SendFacts ==
  ASSUME NEW c \in [Worker -> Seq(Message)], NEW w \in Worker,
         NEW m \in Message
  PROVE  /\ Send(c, w, m) \in [Worker -> Seq(Message)]
         /\ Send(c, w, m)[w] = Append(c[w], m)
         /\ \A v \in Worker \ {w} : Send(c, w, m)[v] = c[v]
         /\ Len(Send(c, w, m)[w]) = Len(c[w]) + 1
         /\ \A i \in 1..Len(c[w]) : Send(c, w, m)[w][i] = c[w][i]
         /\ Send(c, w, m)[w][Len(c[w]) + 1] = m
BY DEF Send

LEMMA TouchType ==
  ASSUME lastRequest \in [Worker -> 0..NumWorkers], NEW w \in Worker, Touch(w)
  PROVE  lastRequest' \in [Worker -> 0..NumWorkers]
<1> DEFINE asked == {v \in Worker : lastRequest[v] # 0}
<1>1. IsFiniteSet(asked \cup {w})
      /\ Cardinality(asked \cup {w}) \in 0..NumWorkers
  <2>1. asked \cup {w} \subseteq Worker
    OBVIOUS
  <2>2. QED
    BY <2>1, Constants, FS_Subset, FS_CardinalityType
<1> HIDE DEF asked
<1>2. lastRequest' =
        [v \in Worker |->
           IF v = w THEN Cardinality(asked \cup {w})
           ELSE IF w \in asked
                     /\ v \in {u \in asked : lastRequest[u] > lastRequest[w]}
                THEN lastRequest[v] - 1
           ELSE lastRequest[v]]
  BY DEF Touch, asked
<1>3. \A v \in Worker : lastRequest[v] > lastRequest[w] =>
                          lastRequest[v] - 1 \in 0..NumWorkers
  BY Constants
<1>4. QED
  BY <1>1, <1>2, <1>3

LEMMA Least ==
  ASSUME NEW S \in SUBSET Nat, S # {}
  PROVE  \E m \in S : \A n \in S : m <= n
<1>1. PICK m \in S : \A n \in S : ~ (<<n, m>> \in OpToRel(<, Nat))
  BY WFMin, NatLessThanWellFounded
<1>2. \A n \in S : ~ (n < m)
  BY <1>1 DEF OpToRel
<1>3. QED
  BY <1>2

LEMMA VictimType == ASSUME TypeOK PROVE GetStealVictim \in Worker
<1> DEFINE busy == {w \in Worker \ {lastStealVictim} :
                      workersStates[w] # "STEAL_WAIT"}
           times == {lastRequest[w] : w \in busy}
<1>1. CASE busy = {}
  BY <1>1, Constants DEF GetStealVictim
<1>2. CASE busy # {}
  <2>1. times \in SUBSET Nat /\ times # {}
    <3>1. \A w \in busy : lastRequest[w] \in Nat
      BY Constants DEF TypeOK
    <3>2. QED
      BY <3>1, <1>2
  <2>2. PICK t \in times : \A u \in times : t <= u
    BY <2>1, Least
  <2> DEFINE oldest == {w \in busy : lastRequest[w] = t}
  <2>3. oldest \in SUBSET Nat /\ oldest # {}
    <3>1. busy \subseteq Nat
      BY Constants
    <3>2. \E w \in busy : lastRequest[w] = t
      OBVIOUS
    <3>3. QED
      BY <3>1, <3>2
  <2>4. PICK v \in oldest : \A w \in oldest : v <= w
    BY <2>3, Least
  <2>5. /\ v \in busy /\ v \in Worker
        /\ \A w \in busy :
             \/ lastRequest[v] < lastRequest[w]
             \/ lastRequest[v] = lastRequest[w] /\ v <= w
    <3>1. \A w \in busy : lastRequest[w] \in Nat /\ t <= lastRequest[w]
      BY <2>2, Constants DEF TypeOK
    <3>2. QED
      BY <3>1, <2>2, <2>4
  <2>6. QED
    BY <1>2, <2>5 DEF GetStealVictim
<1>3. QED
  BY <1>1, <1>2

\* A batch of the master holds roots.
Batch ==
  {m \in Message : m.type = "RANGE_RESPONSE" => m.work \subseteq RootId}
RangesOfRoots == toWorker \in [Worker -> Seq(Batch)]

LEMMA ReceiveRequestType ==
  ASSUME TypeOK, MessagesExpected, NEW w \in Worker, ReceiveRequest(w)
  PROVE  /\ solutionsCount' \in Nat
         /\ lastRequest' \in [Worker -> 0..NumWorkers]
         /\ toMaster' \in [Worker -> Seq(Message)]
<1>1. Head(toMaster[w]).count \in Nat
  BY PopFacts, MessageTypes DEF ReceiveRequest, MessagesExpected, TypeOK
<1>2. solutionsCount' \in Nat
  <2>1. \A n \in Nat : solutionsCount + n \in Nat
    BY DEF TypeOK
  <2>2. QED
    BY <1>1, <2>1 DEF ReceiveRequest
<1>3. lastRequest' \in [Worker -> 0..NumWorkers]
  BY TouchType DEF ReceiveRequest, TypeOK
<1>4. toMaster' \in [Worker -> Seq(Message)]
  BY PopFacts DEF ReceiveRequest, TypeOK
<1>5. QED
  BY <1>2, <1>3, <1>4

LEMMA VictimAnswersType ==
  ASSUME TypeOK, NEW type, VictimAnswers(type)
  PROVE  /\ lastStealVictim \in Worker
         /\ toMaster[lastStealVictim] # <<>>
         /\ toMaster' = Pop(toMaster, lastStealVictim)
         /\ toMaster' \in [Worker -> Seq(Message)]
         /\ Head(toMaster[lastStealVictim]) \in Message
         /\ Head(toMaster[lastStealVictim]).type = type
<1>1. lastStealVictim \in Worker /\ toMaster[lastStealVictim] # <<>>
      /\ toMaster' = Pop(toMaster, lastStealVictim)
      /\ Head(toMaster[lastStealVictim]).type = type
  BY DEF VictimAnswers, TypeOK
<1>2. QED
  BY <1>1, PopFacts DEF TypeOK

LEMMA MasterType ==
  ASSUME TypeOK, MessagesExpected, Master
  PROVE  TypeOK'
<1> USE DEF TypeOK
<1>1. ASSUME NEW w \in Worker, GiveRange(w)
      PROVE  TypeOK'
  <2>1. RangeBegin..(nextRangeStart - 1) \in SUBSET Frame
        /\ RangeBegin \in 0..MaxRoots
    BY RangeTypes, RangeFacts
  <2>2. toWorker' \in [Worker -> Seq(Message)]
    BY <1>1, <2>1, MessageTypes, SendFacts DEF GiveRange
  <2>3. QED
    BY <1>1, <2>1, <2>2, ReceiveRequestType DEF GiveRange, workerVars
<1>2. ASSUME NEW w \in Worker, BeginSteal(w)
      PROVE  TypeOK'
  BY <1>2, ReceiveRequestType DEF BeginSteal, workerVars
<1>3. CASE AskVictim
  <2>1. lastStealVictim' \in Worker
    BY <1>3, VictimType DEF AskVictim
  <2>2. toWorker' \in [Worker -> Seq(Message)]
    BY <1>3, <2>1, MessageTypes, SendFacts DEF AskVictim
  <2>3. QED
    BY <1>3, <2>1, <2>2 DEF AskVictim, workerVars
<1>4. CASE Forward
  <2>1. toMaster' \in [Worker -> Seq(Message)]
        /\ Head(toMaster[lastStealVictim]) \in Message
    BY <1>4, VictimAnswersType DEF Forward
  <2>2. toWorker' \in [Worker -> Seq(Message)]
    BY <1>4, <2>1, SendFacts DEF Forward
  <2>3. QED
    BY <1>4, <2>1, <2>2 DEF Forward, workerVars
<1>5. CASE VictimIsIdle
  <2>1. toMaster' \in [Worker -> Seq(Message)]
        /\ Head(toMaster[lastStealVictim]).count \in Nat
    BY <1>5, VictimAnswersType, MessageTypes DEF VictimIsIdle
  <2>2. lastRequest' \in [Worker -> 0..NumWorkers]
    BY <1>5, TouchType DEF VictimIsIdle
  <2>3. solutionsCount' \in Nat
    <3>1. \A n \in Nat : solutionsCount + n \in Nat
      OBVIOUS
    <3>2. QED
      BY <1>5, <2>1, <3>1 DEF VictimIsIdle
  <2>4. workersStates' \in
          [Worker -> {"ROOTS", "STEAL_WAIT", "STEAL_PROCESSING"}]
    BY <1>5 DEF VictimIsIdle
  <2>5. QED
    BY <1>5, <2>1, <2>2, <2>3, <2>4 DEF VictimIsIdle, workerVars
<1>6. CASE Broadcast
  <2>1. toWorker' \in [Worker -> Seq(Message)]
    BY <1>6, MessageTypes DEF Broadcast
  <2>2. QED
    BY <1>6, <2>1 DEF Broadcast, workerVars
<1>7. QED
  BY <1>1, <1>2, <1>3, <1>4, <1>5, <1>6 DEF Master

\* Every message a worker receives.
LEMMA ReceiveType ==
  ASSUME TypeOK, NEW w \in Worker, NEW type, Receive(w, type)
  PROVE  /\ toWorker[w] # <<>>
         /\ toWorker' = Pop(toWorker, w)
         /\ toWorker' \in [Worker -> Seq(Message)]
         /\ Head(toWorker[w]) = toWorker[w][1]
         /\ Head(toWorker[w]) \in Message
         /\ Head(toWorker[w]).type = type
         /\ 1 \in 1..Len(toWorker[w])
<1>1. toWorker[w] # <<>> /\ toWorker' = Pop(toWorker, w)
      /\ Head(toWorker[w]).type = type
  BY DEF Receive
<1>2. toWorker \in [Worker -> Seq(Message)]
  BY DEF TypeOK
<1>3. Len(toWorker[w]) \in Nat \ {0}
  BY <1>1, <1>2, PopFacts
<1>4. 1 \in 1..Len(toWorker[w])
  BY <1>3
<1>5. QED
  BY <1>1, <1>2, <1>4, PopFacts

LEMMA ServeType ==
  ASSUME TypeOK, NEW w \in Worker, NEW W \in SUBSET Frame, Serve(w, W)
  PROVE  /\ toWorker' \in [Worker -> Seq(Message)]
         /\ toMaster' \in [Worker -> Seq(Message)]
BY PopFacts, SendFacts, MessageTypes DEF Serve, TypeOK

LEMMA FoundType ==
  ASSUME NEW f \in Frame
  PROVE  Cardinality(Kids[f] \cap Solution) \in Nat
BY ForestAssumption, FS_Subset, FS_CardinalityType, Constants

LEMMA WorkerType ==
  ASSUME TypeOK, RangesOfRoots, NEW w \in Worker, WorkerStep(w)
  PROVE  TypeOK'
<1> USE DEF TypeOK
<1>1. ASSUME NEW n \in Nat, NEW next \in {"first", "wait"},
             Request(w, n, next)
      PROVE  TypeOK'
  <2>1. toMaster' \in [Worker -> Seq(Message)]
    BY <1>1, SendFacts, MessageTypes DEF Request
  <2>2. QED
    BY <1>1, <2>1 DEF Request, masterVars
<1>2. CASE RequestFirst(w)
  BY <1>2, <1>1 DEF RequestFirst
<1>3. CASE RequestMore(w)
  BY <1>3, <1>1 DEF RequestMore
<1>4. CASE DropSteal(w)
  <2>1. toMaster' \in [Worker -> Seq(Message)]
    BY <1>4, SendFacts, MessageTypes DEF DropSteal
  <2>2. QED
    BY <1>4, <2>1, ReceiveType DEF DropSteal, masterVars, workerVars
<1>5. CASE ReceiveRange(w)
  <2>1. /\ Head(toWorker[w]).work \subseteq RootId
        /\ toWorker' \in [Worker -> Seq(Message)]
    <3>1. Receive(w, "RANGE_RESPONSE")
      BY <1>5 DEF ReceiveRange
    <3>2. /\ 1 \in 1..Len(toWorker[w])
          /\ toWorker[w][1].type = "RANGE_RESPONSE"
          /\ Head(toWorker[w]) = toWorker[w][1]
          /\ toWorker' \in [Worker -> Seq(Message)]
      BY <3>1, ReceiveType
    <3>3. toWorker[w][1] \in Batch
      BY <3>2, SMTT(30) DEF RangesOfRoots
    <3>4. QED
      BY <3>2, <3>3 DEF Batch
  <2>2. QED
    BY <1>5, <2>1 DEF ReceiveRange, masterVars
<1>6. CASE ReceiveStolen(w)
  <2>1. /\ roots' \in [Worker -> SUBSET RootId]
        /\ nodes' \in [Worker -> SUBSET Node]
    <3> DEFINE work == Head(toWorker[w]).work
    <3>1. CASE wpc[w] = "first"
      BY <1>6, <3>1 DEF ReceiveStolen
    <3>2. CASE wpc[w] # "first"
      <4>1. /\ roots' = [roots EXCEPT ![w] = work \cap RootId]
            /\ nodes' = [nodes EXCEPT ![w] = work \cap Node]
        BY <1>6, <3>2 DEF ReceiveStolen
      <4> HIDE DEF work
      <4>2. work \cap RootId \in SUBSET RootId /\ work \cap Node \in SUBSET Node
        OBVIOUS
      <4>3. QED
        BY <4>1, <4>2
    <3>3. QED
      BY <3>1, <3>2
  <2>2. toWorker' \in [Worker -> Seq(Message)]
    BY <1>6, ReceiveType DEF ReceiveStolen
  <2>3. QED
    BY <1>6, <2>1, <2>2 DEF ReceiveStolen, masterVars, UnlessFirst
<1>7. CASE ReceiveTermination(w)
  BY <1>7, ReceiveType DEF ReceiveTermination, masterVars, UnlessFirst
<1>8. CASE Enumerate(w)
  <2>1. PICK f \in roots[w] \cup nodes[w] :
          /\ roots' = [roots EXCEPT ![w] = @ \ {f}]
          /\ nodes' = [nodes EXCEPT ![w] = (@ \ {f}) \cup Kids[f]]
          /\ found' =
               [found EXCEPT ![w] = @ + Cardinality(Kids[f] \cap Solution)]
          /\ reported' = reported \cup Kids[f]
    BY <1>8 DEF Enumerate
  <2>2. f \in Frame
    BY Constants
  <2>3. /\ roots' \in [Worker -> SUBSET RootId]
        /\ nodes' \in [Worker -> SUBSET Node]
        /\ reported' \in SUBSET Node
    BY <2>1, <2>2, Constants
  <2>4. found' \in [Worker -> Nat]
    <3>1. \A k \in Nat : found[w] + k \in Nat
      BY SMTT(30)
    <3>2. QED
      BY <3>1, <2>1, <2>2, FoundType
  <2>5. QED
    BY <1>8, <2>3, <2>4 DEF Enumerate, masterVars
<1>9. CASE GiveRoots(w)
  <2>1. PICK S \in SUBSET roots[w] :
          Serve(w, S) /\ roots' = [roots EXCEPT ![w] = @ \ S]
    BY <1>9 DEF GiveRoots
  <2>2. S \in SUBSET Frame
    BY Constants
  <2>3. roots' \in [Worker -> SUBSET RootId]
    BY <2>1
  <2>4. QED
    BY <1>9, <2>1, <2>2, <2>3, ServeType DEF GiveRoots, masterVars
<1>10. CASE GiveNode(w)
  <2>1. PICK x \in nodes[w] :
          Serve(w, {x}) /\ nodes' = [nodes EXCEPT ![w] = @ \ {x}]
    BY <1>10 DEF GiveNode
  <2>2. {x} \in SUBSET Frame
    BY Constants
  <2>3. nodes' \in [Worker -> SUBSET Node]
    BY <2>1
  <2>4. QED
    BY <1>10, <2>1, <2>2, <2>3, ServeType DEF GiveNode, masterVars
<1>11. QED
  BY <1>2, <1>3, <1>4, <1>5, <1>6, <1>7, <1>8, <1>9, <1>10 DEF WorkerStep
-----------------------------------------------------------------------
(* Requests and answers                                                    *)

LEMMA Lengths ==
  ASSUME TypeOK, NEW w \in Worker
  PROVE  /\ Len(toMaster[w]) \in Nat /\ Len(toWorker[w]) \in Nat
         /\ toMaster[w] = <<>> <=> Len(toMaster[w]) = 0
         /\ toWorker[w] = <<>> <=> Len(toWorker[w]) = 0
<1>1. toMaster[w] \in Seq(Message) /\ toWorker[w] \in Seq(Message)
  BY DEF TypeOK
<1>2. QED
  BY <1>1

LEMMA Undisturbed ==
  ASSUME NEW w \in Worker, Exchange(w),
         toMaster'[w] = toMaster[w], toWorker'[w] = toWorker[w],
         wpc'[w] = wpc[w], workersStates'[w] = workersStates[w],
         Served(w)' <=> Served(w), Asked(w)' <=> Asked(w)
  PROVE  Exchange(w)'
BY DEF Exchange, Balanced, Waits, Waiting

\* A request of a worker whose answer the master does not wait for.
LEMMA RequestArrives ==
  ASSUME TypeOK, NEW w \in Worker, Exchange(w), ~ Asked(w),
         toMaster[w] # <<>>
  PROVE  /\ Len(toMaster[w]) = 1 /\ toWorker[w] = <<>>
         /\ Waits(w) /\ ~ Served(w)
         /\ Head(toMaster[w]).type = "RANGE_REQUEST"
<1> USE Lengths
<1>1. Waits(w) /\ toMaster[w][1].type = "RANGE_REQUEST"
  BY DEF Exchange
<1>2. Len(toMaster[w]) = 1 /\ Len(toWorker[w]) = 0 /\ ~ Served(w)
  <2> DEFINE t == Len(toMaster[w])
             k == Len(toWorker[w])
  <2>1. t \in Nat /\ k \in Nat /\ t # 0
    OBVIOUS
  <2>2. t + k + (IF Served(w) THEN 1 ELSE 0) - (IF Asked(w) THEN 1 ELSE 0)
          = IF Waits(w) THEN 1 ELSE 0
    BY DEF Exchange, Balanced
  <2> HIDE DEF t, k
  <2>3. t = 1 /\ k = 0 /\ ~ Served(w)
    BY <1>1, <2>1, <2>2
  <2>4. QED
    BY <2>3 DEF t, k
<1>3. Head(toMaster[w]) = toMaster[w][1]
  BY DEF TypeOK
<1>4. QED
  BY <1>1, <1>2, <1>3

\* The victim's work.
LEMMA WorkArrives ==
  ASSUME TypeOK, NEW w \in Worker, Exchange(w), Asked(w), toMaster[w] # <<>>,
         Head(toMaster[w]).type = "STEAL_RESPONSE"
  PROVE  /\ toWorker[w] = <<>> /\ ~ Served(w) /\ ~ Waiting(w)
         /\ Len(toMaster[w]) = IF Waits(w) THEN 2 ELSE 1
         /\ wpc[w] \in {"work", "wait"}
         /\ \A i \in 1..Len(toMaster[w]) : i # 1 =>
              toMaster[w][i].type = "RANGE_REQUEST" /\ Waits(w)
<1> USE Lengths
<1>1. Head(toMaster[w]) = toMaster[w][1] /\ 1 \in 1..Len(toMaster[w])
  BY DEF TypeOK
<1>2. /\ toWorker[w] = <<>> /\ ~ Served(w) /\ ~ Waiting(w)
      /\ wpc[w] \in {"work", "wait"}
  BY <1>1 DEF Exchange
<1>3. Len(toMaster[w]) = IF Waits(w) THEN 2 ELSE 1
  BY <1>2 DEF Exchange, Balanced
<1>4. QED
  BY <1>2, <1>3 DEF Exchange

\* The victim's own request instead.
LEMMA RequestInstead ==
  ASSUME TypeOK, NEW w \in Worker, Exchange(w), Asked(w), toMaster[w] # <<>>,
         Head(toMaster[w]).type = "RANGE_REQUEST"
  PROVE  /\ Waits(w)
         /\ \A i \in 1..Len(toMaster[w]) :
              toMaster[w][i].type = "RANGE_REQUEST"
         /\ \A i \in 1..Len(toWorker[w]) : toWorker[w][i] = StealRequest
<1> USE Lengths
<1>1. Head(toMaster[w]) = toMaster[w][1] /\ 1 \in 1..Len(toMaster[w])
  BY DEF TypeOK
<1>2. Waits(w)
  BY <1>1 DEF Exchange
<1>3. QED
  BY <1>1, <1>2 DEF Exchange

\* A steal request and work reach a worker in MoreWork.
LEMMA StealArrives ==
  ASSUME TypeOK, NEW w \in Worker, Exchange(w), toWorker[w] # <<>>,
         Head(toWorker[w]).type = "STEAL_REQUEST"
  PROVE  /\ \A i \in 1..Len(toWorker[w]) : toWorker[w][i] = StealRequest
         /\ \A i \in 1..Len(toMaster[w]) :
              toMaster[w][i].type = "RANGE_REQUEST"
<1> USE Lengths
<1>1. Head(toWorker[w]) = toWorker[w][1] /\ 1 \in 1..Len(toWorker[w])
  BY DEF TypeOK
<1>2. QED
  BY <1>1 DEF Exchange

LEMMA AnswerArrives ==
  ASSUME TypeOK, NEW w \in Worker, Exchange(w), toWorker[w] # <<>>,
         Head(toWorker[w]).type # "STEAL_REQUEST"
  PROVE  /\ Head(toWorker[w]).type \in {"RANGE_RESPONSE", "STEAL_RESPONSE"}
         /\ toMaster[w] = <<>>
         /\ Waits(w) /\ ~ Served(w) /\ ~ Waiting(w)
         /\ Len(toWorker[w]) = IF Asked(w) THEN 2 ELSE 1
         /\ \A i \in 1..Len(toWorker[w]) : i # 1 => toWorker[w][i] = StealRequest
<1> USE Lengths
<1>1. Head(toWorker[w]) = toWorker[w][1] /\ 1 \in 1..Len(toWorker[w])
  BY DEF TypeOK
<1>2. /\ toWorker[w][1].type \in {"RANGE_RESPONSE", "STEAL_RESPONSE"}
      /\ toMaster[w] = <<>> /\ Waits(w) /\ ~ Served(w) /\ ~ Waiting(w)
  BY <1>1, MessageTypes DEF Exchange
<1>3. Len(toWorker[w]) = IF Asked(w) THEN 2 ELSE 1
  BY <1>2 DEF Exchange, Balanced
<1>4. QED
  BY <1>1, <1>2, <1>3 DEF Exchange

\* A steal request reaches a worker that works.
LEMMA StealReachesWork ==
  ASSUME TypeOK, NEW w \in Worker, Exchange(w), wpc[w] \in {"fresh", "work"},
         toWorker[w] # <<>>
  PROVE  /\ Len(toWorker[w]) = 1 /\ toWorker[w][1] = StealRequest
         /\ toMaster[w] = <<>>
         /\ Asked(w) /\ ~ Served(w) /\ ~ Waiting(w) /\ ~ Waits(w)
<1> USE Lengths
<1>1. ~ Waits(w)
  BY DEF Waits
<1>2. /\ toMaster[w] = <<>> /\ toWorker[w][1] = StealRequest
      /\ ~ Waiting(w)
  BY <1>1 DEF Exchange
<1>3. Len(toWorker[w]) = 1 /\ Asked(w) /\ ~ Served(w)
  <2>1. Balanced(w) /\ Len(toWorker[w]) \in Nat \ {0}
        /\ Len(toMaster[w]) = 0
    BY <1>2 DEF Exchange
  <2>2. CASE Served(w) /\ Asked(w)
    BY <1>1, <2>1, <2>2 DEF Balanced
  <2>3. CASE Served(w) /\ ~ Asked(w)
    BY <1>1, <2>1, <2>3 DEF Balanced
  <2>4. CASE ~ Served(w) /\ Asked(w)
    BY <1>1, <2>1, <2>4 DEF Balanced
  <2>5. CASE ~ Served(w) /\ ~ Asked(w)
    BY <1>1, <2>1, <2>5 DEF Balanced
  <2>6. QED
    BY <2>2, <2>3, <2>4, <2>5
<1>4. QED
  BY <1>1, <1>2, <1>3

\* The balance after a step.
LEMMA Rebalance ==
  ASSUME TypeOK, NEW w \in Worker, Balanced(w), NEW dt \in Int, NEW dk \in Int,
         Len(toMaster'[w]) = Len(toMaster[w]) + dt,
         Len(toWorker'[w]) = Len(toWorker[w]) + dk,
         dt + dk + (IF Served(w)' THEN 1 ELSE 0) - (IF Asked(w)' THEN 1 ELSE 0)
             - (IF Waits(w)' THEN 1 ELSE 0)
           = (IF Served(w) THEN 1 ELSE 0) - (IF Asked(w) THEN 1 ELSE 0)
               - (IF Waits(w) THEN 1 ELSE 0)
  PROVE  Balanced(w)'
<1> DEFINE t == Len(toMaster[w])
           k == Len(toWorker[w])
           t1 == Len(toMaster'[w])
           k1 == Len(toWorker'[w])
           s == IF Served(w) THEN 1 ELSE 0
           a == IF Asked(w) THEN 1 ELSE 0
           x == IF Waits(w) THEN 1 ELSE 0
           s1 == IF Served(w)' THEN 1 ELSE 0
           a1 == IF Asked(w)' THEN 1 ELSE 0
           x1 == IF Waits(w)' THEN 1 ELSE 0
<1>1. t \in Nat /\ k \in Nat
  BY Lengths
<1>2. s \in Int /\ a \in Int /\ x \in Int /\ s1 \in Int /\ a1 \in Int
      /\ x1 \in Int
  OBVIOUS
<1>3. t + k + s - a = x
  BY DEF Balanced
<1>4. t1 = t + dt /\ k1 = k + dk /\ dt + dk + s1 - a1 - x1 = s - a - x
  OBVIOUS
<1>5. SUFFICES t1 + k1 + s1 - a1 = x1
  BY DEF Balanced
<1> HIDE DEF t, k, s, a, x, t1, k1, s1, a1, x1
<1>6. QED
  BY <1>1, <1>2, <1>3, <1>4
-----------------------------------------------------------------------
(* Each step of the master keeps the exchange with each worker             *)

LEMMA GiveRangeExchange ==
  ASSUME TypeOK, ExchangeInv, mpc # "done", NEW w \in Worker, GiveRange(w)
  PROVE  MasterInv' /\ \A v \in Worker : Exchange(v)'
<1>1. /\ mpc = "recv" /\ mpc' = "recv" /\ toMaster[w] # <<>>
      /\ toMaster' = Pop(toMaster, w)
      /\ workersStates' = workersStates /\ wpc' = wpc
  BY DEF GiveRange, ReceiveRequest, workerVars
<1>2. \A v \in Worker : /\ ~ Asked(v) /\ ~ Asked(v)' 
                        /\ ~ Served(v) /\ ~ Served(v)'
  BY <1>1 DEF Asked, Served
<1>3. PICK m \in Message : /\ m.type = "RANGE_RESPONSE"
                           /\ toWorker' = Send(toWorker, w, m)
  <2>1. RangeBegin..(nextRangeStart - 1) \in SUBSET Frame
    BY RangeTypes DEF TypeOK
  <2>2. QED
    BY <2>1, MessageTypes DEF GiveRange
<1>4. \A v \in Worker : Exchange(v) /\ ~ Waiting(v)
  <2>1. nextRangeStart # 0
    BY RangeFacts DEF GiveRange, TypeOK
  <2>2. QED
    BY <2>1 DEF ExchangeInv, MasterInv
<1>5. /\ Len(toMaster[w]) = 1 /\ toWorker[w] = <<>> /\ Waits(w)
  BY <1>1, <1>2, <1>4, RequestArrives
<1>6. /\ toMaster \in [Worker -> Seq(Message)]
      /\ toWorker \in [Worker -> Seq(Message)]
  BY DEF TypeOK
<1>7. /\ toMaster'[w] = <<>> /\ Len(toMaster'[w]) = 0
      /\ Len(toWorker'[w]) = 1 /\ toWorker'[w][1] = m
  <2>1. /\ Len(toMaster'[w]) = Len(toMaster[w]) - 1
        /\ toMaster' \in [Worker -> Seq(Message)]
    BY <1>1, <1>6, PopFacts
  <2>2. toMaster'[w] = <<>> /\ Len(toMaster'[w]) = 0
    BY <1>5, <2>1
  <2>3. Len(toWorker[w]) = 0
    BY <1>5
  <2>4. /\ Len(toWorker'[w]) = Len(toWorker[w]) + 1
        /\ toWorker'[w][Len(toWorker[w]) + 1] = m
    BY <1>3, <1>6, SendFacts, SMTT(30)
  <2>5. QED
    BY <2>2, <2>3, <2>4
<1>8. Waits(w)' /\ \A v \in Worker : ~ Waiting(v)'
  BY <1>1, <1>4, <1>5 DEF Waits, Waiting
<1>9. Exchange(w)'
  <2>1. Balanced(w)'
    BY <1>2, <1>7, <1>8 DEF Balanced
  <2>2. wpc'[w] # "done"
    BY <1>1, <1>4 DEF Exchange
  <2>3. QED
    BY <2>1, <2>2, <1>2, <1>3, <1>7, <1>8 DEF Exchange
<1>10. ASSUME NEW v \in Worker \ {w} PROVE Exchange(v)'
  <2>1. toMaster'[v] = toMaster[v]
    BY <1>1, <1>6 DEF Pop
  <2>2. toWorker'[v] = toWorker[v]
    BY <1>3, <1>6 DEF Send
  <2>3. QED
    BY <2>1, <2>2, <1>1, <1>2, <1>4, Undisturbed
<1>11. MasterInv'
  BY <1>1, <1>8 DEF MasterInv
<1>12. QED
  BY <1>9, <1>10, <1>11

LEMMA BeginStealExchange ==
  ASSUME TypeOK, ExchangeInv, EnoughRoots, mpc # "done", NEW w \in Worker,
         BeginSteal(w)
  PROVE  MasterInv' /\ \A v \in Worker : Exchange(v)'
<1>1. /\ mpc = "recv" /\ mpc' = "steal" /\ toMaster[w] # <<>>
      /\ toMaster' = Pop(toMaster, w) /\ toWorker' = toWorker
      /\ workersStates' = [workersStates EXCEPT ![w] = "STEAL_WAIT"]
      /\ wpc' = wpc /\ stealer' = w /\ nextRangeStart' = nextRangeStart
  BY DEF BeginSteal, ReceiveRequest, workerVars
<1>2. \A v \in Worker : /\ ~ Asked(v) /\ ~ Asked(v)' /\ ~ Served(v)
                        /\ Served(v)' <=> v = w
  BY <1>1 DEF Asked, Served
<1>3. \A v \in Worker : Exchange(v)
  BY DEF ExchangeInv
<1>4. Len(toMaster[w]) = 1 /\ toWorker[w] = <<>> /\ Waits(w)
  BY <1>1, <1>2, <1>3, RequestArrives
<1>5. /\ toMaster \in [Worker -> Seq(Message)]
      /\ workersStates'[w] = "STEAL_WAIT"
      /\ \A v \in Worker \ {w} : workersStates'[v] = workersStates[v]
  BY <1>1 DEF TypeOK
<1>6. /\ Len(toMaster'[w]) = 0 /\ Len(toWorker'[w]) = 0 /\ Waits(w)'
  <2>1. Len(toMaster'[w]) = Len(toMaster[w]) - 1
    BY <1>1, <1>5, PopFacts
  <2>2. QED
    BY <2>1, <1>1, <1>4 DEF Waits
<1>7. Exchange(w)'
  <2>1. Balanced(w)'
    BY <1>2, <1>6 DEF Balanced
  <2>2. wpc'[w] # "done"
    BY <1>1, <1>3 DEF Exchange
  <2>3. QED
    BY <2>1, <2>2, <1>6 DEF Exchange
<1>8. ASSUME NEW v \in Worker \ {w} PROVE Exchange(v)'
  <2>1. toMaster'[v] = toMaster[v] /\ toWorker'[v] = toWorker[v]
    BY <1>1, <1>5, PopFacts
  <2>2. QED
    BY <2>1, <1>1, <1>2, <1>3, <1>5, Undisturbed
<1>9. MasterInv'
  <2>1. nextRangeStart = 0
    BY RangeFacts DEF BeginSteal, TypeOK
  <2>2. QED
    BY <2>1, <1>1, <1>5 DEF MasterInv, Waiting
<1>10. QED
  BY <1>7, <1>8, <1>9

LEMMA AskVictimExchange ==
  ASSUME TypeOK, ExchangeInv, mpc # "done", AskVictim
  PROVE  MasterInv' /\ \A v \in Worker : Exchange(v)'
<1>1. PICK w \in Worker : w = lastStealVictim'
  BY VictimType DEF AskVictim
<1>2. /\ mpc = "steal" /\ mpc' = "reply" /\ toMaster' = toMaster
      /\ toWorker' = Send(toWorker, w, StealRequest)
      /\ workersStates' = workersStates /\ wpc' = wpc
      /\ stealer' = stealer /\ nextRangeStart' = nextRangeStart
  BY <1>1 DEF AskVictim, workerVars
<1>3. \A v \in Worker : /\ ~ Asked(v) /\ (Asked(v)' <=> v = w)
                        /\ Served(v)' <=> Served(v)
  BY <1>1, <1>2 DEF Asked, Served
<1>4. \A v \in Worker : Exchange(v)
  BY DEF ExchangeInv
<1>5. /\ toWorker \in [Worker -> Seq(Message)]
      /\ Len(toWorker[w]) \in Nat /\ Len(toMaster[w]) \in Nat
  BY <1>1, Lengths DEF TypeOK
<1>6. /\ Len(toWorker'[w]) = Len(toWorker[w]) + 1
      /\ \A i \in 1..Len(toWorker[w]) : toWorker'[w][i] = toWorker[w][i]
      /\ toWorker'[w][Len(toWorker[w]) + 1] = StealRequest
      /\ \A v \in Worker \ {w} : toWorker'[v] = toWorker[v]
  <2>1. StealRequest \in Message
    BY MessageTypes
  <2>2. QED
    BY <2>1, <1>1, <1>2, <1>5, SendFacts
<1>7. Exchange(w)'
  <2>1. Waits(w)' <=> Waits(w)
    BY <1>2 DEF Waits
  <2>2. Waiting(w)' <=> Waiting(w)
    BY <1>2 DEF Waiting
  <2>3. Balanced(w)'
    <3>1. Balanced(w) /\ Len(toMaster'[w]) = Len(toMaster[w]) + 0
      BY <1>1, <1>2, <1>4, <1>5 DEF Exchange
    <3>2. 0 + 1 + (IF Served(w)' THEN 1 ELSE 0) - (IF Asked(w)' THEN 1 ELSE 0)
             - (IF Waits(w)' THEN 1 ELSE 0)
           = (IF Served(w) THEN 1 ELSE 0) - (IF Asked(w) THEN 1 ELSE 0)
               - (IF Waits(w) THEN 1 ELSE 0)
      BY <1>1, <1>3, <2>1
    <3>3. QED
      BY <1>1, <1>6, <3>1, <3>2, Rebalance
  <2>4. wpc'[w] # "done"
    BY <1>1, <1>2, <1>4 DEF Exchange
  <2>5. \A i \in 1..Len(toMaster[w]) : toMaster[w][i].type = "RANGE_REQUEST"
                                       /\ Waits(w)
    BY <1>1, <1>3, <1>4 DEF Exchange
  <2>6. ASSUME NEW i \in 1..Len(toWorker'[w])
        PROVE  \/ toWorker'[w][i] = StealRequest
               \/ /\ i = 1
                  /\ toWorker'[w][i].type \in {"RANGE_RESPONSE", "STEAL_RESPONSE"}
                  /\ Waits(w)' /\ ~ Served(w)' /\ ~ Waiting(w)'
                  /\ toMaster'[w] = <<>>
    <3>1. i \in 1..Len(toWorker[w]) \/ i = Len(toWorker[w]) + 1
      BY <1>5, <1>6
    <3>2. CASE i \in 1..Len(toWorker[w])
      BY <1>1, <1>2, <1>3, <1>4, <1>6, <2>1, <2>2, <3>2 DEF Exchange
    <3>3. QED
      BY <3>1, <3>2, <1>6
  <2>7. Waiting(w)' => Waits(w)'
    BY <1>1, <1>4, <2>1, <2>2 DEF Exchange
  <2>8. QED
    BY <1>2, <2>1, <2>3, <2>4, <2>5, <2>6, <2>7 DEF Exchange
<1>8. ASSUME NEW v \in Worker \ {w} PROVE Exchange(v)'
  BY <1>2, <1>3, <1>4, <1>6, Undisturbed
<1>9. MasterInv'
  <2>1. MasterInv
    BY DEF ExchangeInv
  <2>2. QED
    BY <2>1, <1>2 DEF MasterInv, Waiting
<1>10. QED
  BY <1>7, <1>8, <1>9

LEMMA ForwardExchange ==
  ASSUME TypeOK, ExchangeInv, mpc # "done", Forward
  PROVE  MasterInv' /\ \A v \in Worker : Exchange(v)'
<1>1. PICK w \in Worker : w = lastStealVictim
  BY DEF TypeOK
<1>2. PICK s \in Worker : s = stealer
  BY DEF TypeOK
<1>3. PICK m \in Message : m = Head(toMaster[w])
                           /\ m.type = "STEAL_RESPONSE"
  BY <1>1, VictimAnswersType DEF Forward
<1>4. /\ mpc = "reply" /\ mpc' = "recv" /\ toMaster[w] # <<>>
      /\ toMaster' = Pop(toMaster, w) /\ toWorker' = Send(toWorker, s, m)
      /\ workersStates' =
           [workersStates EXCEPT ![s] = "STEAL_PROCESSING"]
      /\ wpc' = wpc /\ nextRangeStart' = nextRangeStart
  BY <1>1, <1>2, <1>3 DEF Forward, VictimAnswers, workerVars
<1>5. \A v \in Worker : /\ (Asked(v) <=> v = w) /\ ~ Asked(v)'
                        /\ (Served(v) <=> v = s) /\ ~ Served(v)'
  BY <1>1, <1>2, <1>4 DEF Asked, Served
<1>6. (\A v \in Worker : Exchange(v)) /\ MasterInv
  BY DEF ExchangeInv
<1>7. /\ toMaster \in [Worker -> Seq(Message)]
      /\ toWorker \in [Worker -> Seq(Message)]
      /\ workersStates'[s] = "STEAL_PROCESSING"
      /\ \A v \in Worker \ {s} : workersStates'[v] = workersStates[v]
  BY <1>4 DEF TypeOK
<1>8. /\ toWorker[w] = <<>> /\ w # s /\ ~ Waiting(w)
      /\ Len(toMaster[w]) = IF Waits(w) THEN 2 ELSE 1
      /\ \A i \in 1..Len(toMaster[w]) : i # 1 =>
           toMaster[w][i].type = "RANGE_REQUEST" /\ Waits(w)
  BY <1>3, <1>4, <1>5, <1>6, WorkArrives
<1>9. \A v \in Worker : (Waits(v)' <=> Waits(v)) /\ wpc'[v] # "done"
  BY <1>4, <1>6 DEF Exchange, Waits
<1>10. ASSUME NEW v \in Worker \ {w} PROVE toMaster'[v] = toMaster[v]
  BY <1>4, <1>7 DEF Pop
<1>11. ASSUME NEW v \in Worker \ {s} PROVE toWorker'[v] = toWorker[v]
  BY <1>4, <1>7 DEF Send
<1>12. Exchange(w)'
  <2>1. /\ Len(toMaster'[w]) = Len(toMaster[w]) - 1
        /\ \A i \in 1..(Len(toMaster[w]) - 1) :
             toMaster'[w][i] = toMaster[w][i + 1]
        /\ Len(toMaster[w]) \in Nat
    <3>1. toMaster \in [Worker -> Seq(Message)]
      BY <1>7
    <3>2. QED
      BY <3>1, <1>4, PopFacts
  <2>2. toWorker'[w] = <<>>
    BY <1>8, <1>11
  <2>3. /\ Len(toMaster'[w]) = IF Waits(w)' THEN 1 ELSE 0
        /\ Len(toWorker'[w]) = 0
    BY <2>1, <2>2, <1>8, <1>9
  <2>4. Balanced(w)'
    BY <2>3, <1>5 DEF Balanced
  <2>5. \A i \in 1..Len(toMaster'[w]) :
          toMaster'[w][i].type = "RANGE_REQUEST" /\ Waits(w)'
    BY <2>1, <1>8, <1>9
  <2>6. ~ Waiting(w)'
    BY <1>7, <1>8 DEF Waiting
  <2>7. QED
    BY <2>2, <2>3, <2>4, <2>5, <2>6, <1>9 DEF Exchange
<1>13. Exchange(s)'
  <2>1. Waits(s) /\ Balanced(s)
    BY <1>2, <1>4, <1>6 DEF MasterInv, Exchange
  <2>2. Len(toMaster[s]) = 0 /\ Len(toWorker[s]) = 0
    <3> DEFINE t == Len(toMaster[s])
               k == Len(toWorker[s])
    <3>1. t \in Nat /\ k \in Nat
      BY Lengths
    <3>2. t + k + 1 - 0 = 1
      BY <2>1, <1>5, <1>8 DEF Balanced
    <3> HIDE DEF t, k
    <3>3. t = 0 /\ k = 0
      BY <3>1, <3>2
    <3>4. QED
      BY <3>3 DEF t, k
  <2>3. toMaster[s] = <<>> /\ toMaster'[s] = <<>> /\ Len(toMaster'[s]) = 0
    BY <2>2, <1>8, <1>10, Lengths
  <2>4. /\ Len(toWorker'[s]) = Len(toWorker[s]) + 1
        /\ toWorker'[s][Len(toWorker[s]) + 1] = m
    <3>1. toWorker \in [Worker -> Seq(Message)]
      BY <1>7
    <3>2. QED
      BY <3>1, <1>4, SendFacts
  <2>5. Len(toWorker'[s]) = 1 /\ toWorker'[s][1] = m
    BY <2>2, <2>4
  <2>6. Waits(s)' /\ ~ Waiting(s)'
    BY <2>1, <1>7, <1>9 DEF Waiting
  <2>7. Balanced(s)'
    BY <2>3, <2>5, <2>6, <1>5 DEF Balanced
  <2>8. QED
    BY <2>3, <2>5, <2>6, <2>7, <1>3, <1>5, <1>9 DEF Exchange
<1>14. ASSUME NEW v \in Worker \ {w, s} PROVE Exchange(v)'
  BY <1>4, <1>5, <1>6, <1>7, <1>10, <1>11, Undisturbed
<1>15. MasterInv'
  BY <1>4, <1>6 DEF MasterInv
<1>16. QED
  BY <1>12, <1>13, <1>14, <1>15

LEMMA VictimIsIdleExchange ==
  ASSUME TypeOK, ExchangeInv, mpc # "done", VictimIsIdle
  PROVE  MasterInv' /\ \A v \in Worker : Exchange(v)'
<1>1. PICK w \in Worker : w = lastStealVictim
  BY DEF TypeOK
<1>2. Head(toMaster[w]).type = "RANGE_REQUEST"
  BY <1>1, VictimAnswersType DEF VictimIsIdle
<1>3. /\ mpc = "reply" /\ mpc' = "steal" /\ toMaster[w] # <<>>
      /\ toMaster' = Pop(toMaster, w) /\ toWorker' = toWorker
      /\ workersStates' = [workersStates EXCEPT ![w] = "STEAL_WAIT"]
      /\ wpc' = wpc /\ nextRangeStart' = nextRangeStart /\ stealer' = stealer
  BY <1>1 DEF VictimIsIdle, VictimAnswers, workerVars
<1>4. \A v \in Worker : /\ (Asked(v) <=> v = w) /\ ~ Asked(v)'
                        /\ (Served(v) <=> Served(v)')
  BY <1>1, <1>3 DEF Asked, Served
<1>5. (\A v \in Worker : Exchange(v)) /\ MasterInv
  BY DEF ExchangeInv
<1>6. /\ toMaster \in [Worker -> Seq(Message)]
      /\ workersStates'[w] = "STEAL_WAIT"
      /\ \A v \in Worker \ {w} : workersStates'[v] = workersStates[v]
  BY <1>3 DEF TypeOK
<1>7. /\ Waits(w)
      /\ \A i \in 1..Len(toMaster[w]) : toMaster[w][i].type = "RANGE_REQUEST"
      /\ \A i \in 1..Len(toWorker[w]) : toWorker[w][i] = StealRequest
  BY <1>2, <1>3, <1>4, <1>5, RequestInstead
<1>8. \A v \in Worker : (Waits(v)' <=> Waits(v)) /\ wpc'[v] # "done"
  BY <1>3, <1>5 DEF Exchange, Waits
<1>9. Exchange(w)'
  <2>1. /\ Len(toMaster'[w]) = Len(toMaster[w]) - 1
        /\ \A i \in 1..(Len(toMaster[w]) - 1) :
             toMaster'[w][i] = toMaster[w][i + 1]
        /\ Len(toMaster[w]) \in Nat /\ Len(toWorker[w]) \in Nat
    BY <1>3, <1>6, PopFacts, Lengths
  <2>2. Balanced(w)'
    <3> DEFINE t == Len(toMaster[w])
               k == Len(toWorker[w])
               e == IF Served(w) THEN 1 ELSE 0
    <3>1. t \in Nat /\ k \in Nat /\ e \in Int
      BY <2>1
    <3>2. Balanced(w)
      BY <1>5 DEF Exchange
    <3>3. t + k + e - 1 = 1
      BY <3>2, <1>4, <1>7 DEF Balanced
    <3>4. SUFFICES (t - 1) + k + e - 0 = 1
      BY <2>1, <1>3, <1>4, <1>7, <1>8 DEF Balanced
    <3> HIDE DEF t, k, e
    <3>5. QED
      BY <3>1, <3>3
  <2>3. \A i \in 1..Len(toMaster'[w]) :
          toMaster'[w][i].type = "RANGE_REQUEST" /\ Waits(w)'
    BY <2>1, <1>7, <1>8
  <2>4. QED
    BY <2>2, <2>3, <1>3, <1>7, <1>8 DEF Exchange
<1>10. ASSUME NEW v \in Worker \ {w} PROVE Exchange(v)'
  <2>1. toMaster'[v] = toMaster[v]
    BY <1>3, <1>6 DEF Pop
  <2>2. QED
    BY <2>1, <1>3, <1>4, <1>5, <1>6, Undisturbed
<1>11. MasterInv'
  <2>1. stealer \in Worker /\ workersStates[stealer] = "STEAL_WAIT"
    BY <1>3, <1>5 DEF MasterInv, Waiting, TypeOK
  <2>2. workersStates'[stealer'] = "STEAL_WAIT"
    BY <2>1, <1>3, <1>6
  <2>3. QED
    BY <2>2, <1>3, <1>5 DEF MasterInv, Waiting
<1>12. QED
  BY <1>9, <1>10, <1>11

LEMMA BroadcastExchange ==
  ASSUME TypeOK, ExchangeInv, mpc # "done", Broadcast
  PROVE  ExchangeInv'
<1>1. /\ mpc = "steal" /\ \A v \in Worker : Waiting(v)
      /\ toWorker' = [w \in Worker |-> Append(toWorker[w], Termination)]
      /\ toMaster' = toMaster /\ wpc' = wpc /\ roots' = roots
      /\ nodes' = nodes /\ nextRangeStart' = nextRangeStart
      /\ mpc' = IF nextRangeStart = 0 THEN "done" ELSE "recv"
  BY DEF Broadcast, terminated, workerVars, Waiting
<1>2. mpc' = "done" /\ nextRangeStart = 0
  BY <1>1 DEF ExchangeInv, MasterInv
<1>3. ASSUME NEW w \in Worker PROVE Over(w)'
  <2>1. Exchange(w) /\ ~ Asked(w) /\ Waiting(w)
    BY <1>1 DEF ExchangeInv, Asked
  <2>2. wpc[w] \in {"first", "wait"}
    BY <2>1 DEF Exchange, Waits
  <2>3. \A i \in 1..Len(toMaster[w]) : toMaster[w][i].type = "RANGE_REQUEST"
    BY <2>1 DEF Exchange
  <2>4. \A i \in 1..Len(toWorker[w]) : toWorker[w][i] = StealRequest
    BY <2>1 DEF Exchange
  <2>5. /\ toWorker \in [Worker -> Seq(Message)]
        /\ toWorker[w] \in Seq(Message) /\ Termination \in Message
        /\ StealRequest.type = "STEAL_REQUEST"
        /\ Termination.type = "TERMINATION"
    BY MessageTypes DEF TypeOK
  <2>6. ASSUME NEW i \in 1..Len(toWorker'[w])
        PROVE  toWorker'[w][i] \in {StealRequest, Termination}
    <3>1. toWorker'[w] = Append(toWorker[w], Termination)
      BY <1>1
    <3>2. QED
      BY <3>1, <2>4, <2>5
  <2>7. QED
    BY <2>2, <2>3, <2>5, <2>6, <1>1 DEF Over
<1>4. QED
  BY <1>1, <1>2, <1>3 DEF ExchangeInv, MasterInv, IdleInv
-----------------------------------------------------------------------
(* Each step of a worker does                                              *)

LEMMA WorkerIsLocal ==
  ASSUME TypeOK, NEW w \in Worker, WorkerStep(w)
  PROVE  /\ masterVars' = masterVars
         /\ \A v \in Worker \ {w} :
              /\ toMaster'[v] = toMaster[v] /\ toWorker'[v] = toWorker[v]
              /\ wpc'[v] = wpc[v] /\ roots'[v] = roots[v]
              /\ nodes'[v] = nodes[v]
<1> USE DEF TypeOK
<1>1. CASE RequestFirst(w)
  BY <1>1 DEF RequestFirst, Request, Send
<1>2. CASE RequestMore(w)
  BY <1>2 DEF RequestMore, Request, Send
<1>3. CASE DropSteal(w)
  BY <1>3 DEF DropSteal, Receive, Pop, Send, workerVars
<1>4. CASE ReceiveRange(w)
  BY <1>4 DEF ReceiveRange, Receive, Pop
<1>5. CASE ReceiveStolen(w)
  BY <1>5 DEF ReceiveStolen, Receive, Pop
<1>6. CASE ReceiveTermination(w)
  BY <1>6 DEF ReceiveTermination, Receive, Pop
<1>7. CASE Enumerate(w)
  BY <1>7 DEF Enumerate
<1>8. CASE GiveRoots(w)
  BY <1>8 DEF GiveRoots, Serve, Pop, Send
<1>9. CASE GiveNode(w)
  BY <1>9 DEF GiveNode, Serve, Pop, Send
<1>10. QED
  BY <1>1, <1>2, <1>3, <1>4, <1>5, <1>6, <1>7, <1>8, <1>9 DEF WorkerStep

LEMMA ReceiveExchange ==
  ASSUME TypeOK, NEW w \in Worker, Exchange(w), masterVars' = masterVars,
         Receive(w, "RANGE_RESPONSE") \/ Receive(w, "STEAL_RESPONSE"),
         toMaster' = toMaster, wpc'[w] \in {"fresh", "undefined"}
  PROVE  Exchange(w)'
<1>1. /\ toWorker[w] # <<>> /\ toWorker' = Pop(toWorker, w)
      /\ Head(toWorker[w]).type # "STEAL_REQUEST"
  BY DEF Receive
<1>2. /\ toMaster[w] = <<>> /\ ~ Served(w) /\ ~ Waiting(w)
      /\ Len(toWorker[w]) = IF Asked(w) THEN 2 ELSE 1
      /\ \A i \in 1..Len(toWorker[w]) : i # 1 => toWorker[w][i] = StealRequest
  BY <1>1, AnswerArrives
<1>3. toWorker \in [Worker -> Seq(Message)]
  BY DEF TypeOK
<1>4. /\ Len(toWorker'[w]) = Len(toWorker[w]) - 1
      /\ \A i \in 1..(Len(toWorker[w]) - 1) :
           toWorker'[w][i] = toWorker[w][i + 1]
      /\ Len(toWorker[w]) \in Nat
  BY <1>1, <1>3, PopFacts
<1>5. /\ (Asked(w)' <=> Asked(w)) /\ ~ Served(w)' /\ ~ Waiting(w)'
  BY <1>2 DEF Asked, Served, Waiting, masterVars
<1>6. ~ Waits(w)'
  BY DEF Waits
<1>7. Len(toWorker'[w]) = (IF Asked(w)' THEN 1 ELSE 0) /\ Len(toMaster'[w]) = 0
  BY <1>2, <1>4, <1>5
<1>8. Balanced(w)'
  BY <1>5, <1>6, <1>7 DEF Balanced
<1>9. \A i \in 1..Len(toWorker'[w]) : toWorker'[w][i] = StealRequest
  BY <1>2, <1>4
<1>10. QED
  BY <1>5, <1>7, <1>8, <1>9 DEF Exchange

LEMMA ServeExchange ==
  ASSUME TypeOK, NEW w \in Worker, Exchange(w), masterVars' = masterVars,
         NEW W \in SUBSET Frame, Serve(w, W), wpc' = wpc
  PROVE  Exchange(w)'
<1>1. /\ wpc[w] = "work" /\ toWorker[w] # <<>>
      /\ toWorker' = Pop(toWorker, w)
  BY DEF Serve
<1>2. /\ Len(toWorker[w]) = 1 /\ toMaster[w] = <<>>
      /\ Asked(w) /\ ~ Served(w) /\ ~ Waiting(w) /\ ~ Waits(w)
  BY <1>1, StealReachesWork
<1>3. PICK m \in Message : /\ m.type = "STEAL_RESPONSE"
                           /\ toMaster' = Send(toMaster, w, m)
  BY MessageTypes DEF Serve
<1>4. /\ toWorker \in [Worker -> Seq(Message)]
      /\ toMaster \in [Worker -> Seq(Message)]
  BY DEF TypeOK
<1>5. Len(toWorker'[w]) = 0 /\ toWorker'[w] = <<>>
  <2>1. Len(toWorker'[w]) = Len(toWorker[w]) - 1
        /\ toWorker' \in [Worker -> Seq(Message)]
    BY <1>1, <1>4, PopFacts
  <2>2. QED
    BY <2>1, <1>2
<1>6. Len(toMaster'[w]) = 1 /\ toMaster'[w][1] = m
  <2>1. /\ Len(toMaster'[w]) = Len(toMaster[w]) + 1
        /\ toMaster'[w][Len(toMaster[w]) + 1] = m
    <3>1. toMaster \in [Worker -> Seq(Message)]
      BY <1>4
    <3>2. QED
      BY <3>1, <1>3, SendFacts
  <2>2. QED
    BY <2>1, <1>2
<1>7. /\ Asked(w)' /\ ~ Served(w)' /\ ~ Waiting(w)' /\ ~ Waits(w)'
  BY <1>2 DEF Asked, Served, Waiting, Waits, masterVars
<1>8. Balanced(w)'
  BY <1>5, <1>6, <1>7 DEF Balanced
<1>9. QED
  BY <1>1, <1>3, <1>5, <1>6, <1>7, <1>8 DEF Exchange

LEMMA RequestExchange ==
  ASSUME TypeOK, NEW w \in Worker, Exchange(w), masterVars' = masterVars,
         RequestFirst(w) \/ RequestMore(w)
  PROVE  Exchange(w)'
<1>1. PICK m \in Message : /\ m.type = "RANGE_REQUEST"
                           /\ toMaster' = Send(toMaster, w, m)
  <2>1. CASE RequestFirst(w)
    BY <2>1, MessageTypes DEF RequestFirst, Request
  <2>2. CASE RequestMore(w)
    BY <2>2, MessageTypes DEF RequestMore, Request, TypeOK
  <2>3. QED
    BY <2>1, <2>2
<1>2. /\ ~ Waits(w) /\ Waits(w)'
      /\ wpc[w] = "work" => wpc'[w] = "wait"
      /\ wpc'[w] # "done" /\ toWorker' = toWorker
  BY DEF RequestFirst, RequestMore, Request, Waits, TypeOK
<1>3. /\ (Asked(w)' <=> Asked(w)) /\ (Served(w)' <=> Served(w))
      /\ (Waiting(w)' <=> Waiting(w))
  BY DEF Asked, Served, Waiting, masterVars
<1>4. toMaster \in [Worker -> Seq(Message)]
  BY DEF TypeOK
<1>5. /\ Len(toMaster'[w]) = Len(toMaster[w]) + 1
      /\ \A i \in 1..Len(toMaster[w]) : toMaster'[w][i] = toMaster[w][i]
      /\ toMaster'[w][Len(toMaster[w]) + 1] = m
  BY <1>1, <1>4, SendFacts
<1>6. Len(toMaster[w]) \in Nat /\ Len(toWorker[w]) \in Nat
  BY Lengths
<1>7. Balanced(w)'
  <2> DEFINE t == Len(toMaster[w])
             k == Len(toWorker[w])
             s == IF Served(w) THEN 1 ELSE 0
             a == IF Asked(w) THEN 1 ELSE 0
  <2>1. t \in Nat /\ k \in Nat /\ s \in Int /\ a \in Int
    BY <1>6
  <2>2. t + k + s - a = 0
    BY <1>2 DEF Exchange, Balanced
  <2>3. SUFFICES (t + 1) + k + s - a = 1
    BY <1>2, <1>3, <1>5 DEF Balanced
  <2> HIDE DEF t, k, s, a
  <2>4. QED
    BY <2>1, <2>2
<1>8. ASSUME NEW i \in 1..Len(toMaster'[w])
      PROVE  \/ toMaster'[w][i].type = "RANGE_REQUEST" /\ Waits(w)'
             \/ /\ i = 1
                /\ toMaster'[w][i].type = "STEAL_RESPONSE"
                /\ Asked(w)' /\ ~ Served(w)' /\ ~ Waiting(w)'
                /\ toWorker'[w] = <<>>
                /\ wpc'[w] \in {"work", "wait"}
  <2>1. CASE i \in 1..Len(toMaster[w])
    BY <2>1, <1>2, <1>3, <1>5 DEF Exchange, Waits
  <2>2. CASE i = Len(toMaster[w]) + 1
    BY <2>2, <1>1, <1>2, <1>5
  <2>3. QED
    BY <2>1, <2>2, <1>5, <1>6
<1>9. \A i \in 1..Len(toWorker'[w]) : toWorker'[w][i] = StealRequest
  BY <1>2 DEF Exchange
<1>10. QED
  BY <1>2, <1>7, <1>8, <1>9 DEF Exchange

LEMMA DropStealExchange ==
  ASSUME TypeOK, NEW w \in Worker, Exchange(w), masterVars' = masterVars,
         DropSteal(w)
  PROVE  Exchange(w)'
<1>1. /\ toWorker[w] # <<>> /\ toWorker' = Pop(toWorker, w)
      /\ Head(toWorker[w]).type = "STEAL_REQUEST"
      /\ Waits(w) /\ wpc' = wpc
  BY DEF DropSteal, Receive, Waits, workerVars
<1>2. PICK m \in Message : /\ m.type = "RANGE_REQUEST"
                           /\ toMaster' = Send(toMaster, w, m)
  BY MessageTypes DEF DropSteal
<1>3. /\ \A i \in 1..Len(toWorker[w]) : toWorker[w][i] = StealRequest
      /\ \A i \in 1..Len(toMaster[w]) : toMaster[w][i].type = "RANGE_REQUEST"
  BY <1>1, StealArrives
<1>4. /\ (Asked(w)' <=> Asked(w)) /\ (Served(w)' <=> Served(w))
      /\ Waits(w)'
  BY <1>1 DEF Asked, Served, Waits, masterVars
<1>5. /\ toWorker \in [Worker -> Seq(Message)]
      /\ toMaster \in [Worker -> Seq(Message)]
  BY DEF TypeOK
<1>6. /\ Len(toMaster'[w]) = Len(toMaster[w]) + 1
      /\ \A i \in 1..Len(toMaster[w]) : toMaster'[w][i] = toMaster[w][i]
      /\ toMaster'[w][Len(toMaster[w]) + 1] = m
  <2>1. toMaster \in [Worker -> Seq(Message)]
    BY <1>5
  <2>2. QED
    BY <2>1, <1>2, SendFacts
<1>7. /\ Len(toWorker'[w]) = Len(toWorker[w]) - 1
      /\ \A i \in 1..(Len(toWorker[w]) - 1) :
           toWorker'[w][i] = toWorker[w][i + 1]
  <2>1. toWorker \in [Worker -> Seq(Message)]
    BY <1>5
  <2>2. QED
    BY <2>1, <1>1, PopFacts
<1>8. Len(toMaster[w]) \in Nat /\ Len(toWorker[w]) \in Nat
  BY Lengths
<1>9. Balanced(w)'
  <2> DEFINE t == Len(toMaster[w])
             k == Len(toWorker[w])
             s == IF Served(w) THEN 1 ELSE 0
             a == IF Asked(w) THEN 1 ELSE 0
  <2>1. t \in Nat /\ k \in Nat /\ s \in Int /\ a \in Int
    BY <1>8
  <2>2. t + k + s - a = 1
    BY <1>1 DEF Exchange, Balanced
  <2>3. SUFFICES (t + 1) + (k - 1) + s - a = 1
    BY <1>4, <1>6, <1>7 DEF Balanced
  <2> HIDE DEF t, k, s, a
  <2>4. QED
    BY <2>1, <2>2
<1>10. \A i \in 1..Len(toMaster'[w]) : toMaster'[w][i].type = "RANGE_REQUEST"
  BY <1>2, <1>3, <1>6, <1>8
<1>11. \A i \in 1..Len(toWorker'[w]) : toWorker'[w][i] = StealRequest
  BY <1>3, <1>7, <1>8
<1>12. wpc'[w] # "done"
  BY <1>1 DEF Exchange
<1>13. QED
  BY <1>4, <1>9, <1>10, <1>11, <1>12 DEF Exchange

LEMMA EnumerateExchange ==
  ASSUME TypeOK, NEW w \in Worker, Exchange(w), masterVars' = masterVars,
         Enumerate(w)
  PROVE  Exchange(w)'
<1>1. /\ wpc[w] \in {"fresh", "work"} /\ wpc'[w] = "work"
      /\ toMaster' = toMaster /\ toWorker' = toWorker
  BY DEF Enumerate, TypeOK
<1>2. ~ Waits(w) /\ ~ Waits(w)'
  BY <1>1 DEF Waits
<1>3. /\ (Asked(w)' <=> Asked(w)) /\ (Served(w)' <=> Served(w))
      /\ (Waiting(w)' <=> Waiting(w))
  BY DEF Asked, Served, Waiting, masterVars
<1>4. Balanced(w)'
  BY <1>1, <1>2, <1>3 DEF Exchange, Balanced
<1>5. QED
  BY <1>1, <1>2, <1>3, <1>4 DEF Exchange

LEMMA WorkerExchange ==
  ASSUME TypeOK, ExchangeInv, mpc # "done", NEW w \in Worker, WorkerStep(w)
  PROVE  MasterInv' /\ \A v \in Worker : Exchange(v)'
<1>1. masterVars' = masterVars
  BY WorkerIsLocal
<1>2. Exchange(w)
  BY DEF ExchangeInv
<1>3. MasterInv'
  <2>1. MasterInv
    BY DEF ExchangeInv
  <2>2. QED
    BY <2>1, <1>1 DEF MasterInv, masterVars, Waiting
<1>4. ASSUME NEW v \in Worker \ {w} PROVE Exchange(v)'
  <2>1. /\ Exchange(v)
        /\ toMaster'[v] = toMaster[v] /\ toWorker'[v] = toWorker[v]
        /\ wpc'[v] = wpc[v]
    BY WorkerIsLocal DEF ExchangeInv
  <2>2. /\ workersStates'[v] = workersStates[v]
        /\ (Served(v)' <=> Served(v)) /\ (Asked(v)' <=> Asked(v))
    BY <1>1 DEF masterVars, Served, Asked
  <2>3. QED
    BY <2>1, <2>2, Undisturbed
<1>5. Exchange(w)'
  <2>1. CASE RequestFirst(w) \/ RequestMore(w)
    BY <2>1, <1>1, <1>2, RequestExchange
  <2>2. CASE DropSteal(w)
    BY <2>2, <1>1, <1>2, DropStealExchange
  <2>3. CASE ReceiveRange(w)
    BY <2>3, <1>1, <1>2, ReceiveExchange DEF ReceiveRange, TypeOK
  <2>4. CASE ReceiveStolen(w)
    BY <2>4, <1>1, <1>2, ReceiveExchange DEF ReceiveStolen, UnlessFirst, TypeOK
  <2>5. CASE ReceiveTermination(w)
    <3>1. toWorker[w] # <<>> /\ Head(toWorker[w]).type = "TERMINATION"
      BY <2>5 DEF ReceiveTermination, Receive
    <3>2. QED
      BY <3>1, <1>2, AnswerArrives
  <2>6. CASE Enumerate(w)
    BY <2>6, <1>1, <1>2, EnumerateExchange
  <2>7. CASE GiveRoots(w)
    <3>1. PICK S \in SUBSET roots[w] : Serve(w, S)
      BY <2>7 DEF GiveRoots
    <3>2. S \in SUBSET Frame /\ wpc' = wpc
      BY <2>7, Constants DEF TypeOK, GiveRoots
    <3>3. QED
      BY <3>1, <3>2, <1>1, <1>2, ServeExchange
  <2>8. CASE GiveNode(w)
    <3>1. PICK x \in nodes[w] : Serve(w, {x})
      BY <2>8 DEF GiveNode
    <3>2. {x} \in SUBSET Frame /\ wpc' = wpc
      BY <2>8, Constants DEF TypeOK, GiveNode
    <3>3. QED
      BY <3>1, <3>2, <1>1, <1>2, ServeExchange
  <2>9. QED
    BY <2>1, <2>2, <2>3, <2>4, <2>5, <2>6, <2>7, <2>8 DEF WorkerStep
<1>6. QED
  BY <1>3, <1>4, <1>5

\* A worker without work stays without, until it receives some.
LEMMA IdleStep ==
  ASSUME TypeOK, IdleInv, Next
  PROVE  IdleInv'
<1>1. CASE Master
  <2>1. wpc' = wpc /\ roots' = roots /\ nodes' = nodes
    BY <1>1 DEF Master, GiveRange, BeginSteal, AskVictim, Forward,
                VictimIsIdle, Broadcast, workerVars
  <2>2. QED
    BY <2>1 DEF IdleInv
<1>2. ASSUME NEW w \in Worker, WorkerStep(w)
      PROVE  IdleInv'
  <2>1. wpc'[w] \notin {"fresh", "work"} => roots'[w] = {} /\ nodes'[w] = {}
    <3>1. CASE RequestFirst(w) \/ RequestMore(w)
      BY <3>1 DEF RequestFirst, RequestMore, Request, IdleInv, TypeOK
    <3>2. CASE DropSteal(w) \/ GiveRoots(w) \/ GiveNode(w)
      BY <3>2 DEF DropSteal, Receive, GiveRoots, GiveNode, Serve, IdleInv,
                  TypeOK, workerVars
    <3>3. CASE ReceiveRange(w) \/ Enumerate(w)
      BY <3>3 DEF ReceiveRange, Enumerate, TypeOK
    <3>4. CASE ReceiveStolen(w) \/ ReceiveTermination(w)
      BY <3>4 DEF ReceiveStolen, ReceiveTermination, Receive, UnlessFirst,
                  IdleInv, TypeOK
    <3>5. QED
      BY <1>2, <3>1, <3>2, <3>3, <3>4 DEF WorkerStep
  <2>2. \A v \in Worker \ {w} :
          wpc'[v] = wpc[v] /\ roots'[v] = roots[v] /\ nodes'[v] = nodes[v]
    BY <1>2, WorkerIsLocal
  <2>3. QED
    BY <2>1, <2>2 DEF IdleInv
<1>3. QED
  BY <1>1, <1>2 DEF Next

\* After the broadcast only steal requests are answered.
LEMMA OverStep ==
  ASSUME TypeOK, mpc = "done", \A w \in Worker : Over(w), Next
  PROVE  mpc' = "done" /\ nextRangeStart' = nextRangeStart
         /\ \A w \in Worker : Over(w)'
<1>1. ~ Master
  BY DEF Master, GiveRange, BeginSteal, AskVictim, Forward, VictimIsIdle,
         Broadcast, ReceiveRequest, VictimAnswers
<1>2. PICK w \in Worker : WorkerStep(w)
  BY <1>1 DEF Next
<1>3. mpc' = "done" /\ nextRangeStart' = nextRangeStart
  BY <1>2, WorkerIsLocal DEF masterVars
<1>4. ASSUME NEW v \in Worker \ {w} PROVE Over(v)'
  <2>1. /\ toMaster'[v] = toMaster[v] /\ toWorker'[v] = toWorker[v]
        /\ wpc'[v] = wpc[v]
    BY <1>2, WorkerIsLocal
  <2>2. QED
    BY <2>1 DEF Over
<1>5. toWorker[w] # <<>> =>
        Head(toWorker[w]).type \in {"STEAL_REQUEST", "TERMINATION"}
  <2>1. toWorker[w] \in Seq(Message)
    BY DEF TypeOK
  <2>2. QED
    BY <2>1 DEF Over
<1>6. DropSteal(w) \/ ReceiveTermination(w)
  BY <1>2, <1>5 DEF WorkerStep, RequestFirst, RequestMore, ReceiveRange,
    ReceiveStolen, Enumerate, GiveRoots, GiveNode, Serve, Receive, Over
<1>7. toWorker[w] # <<>> /\ toWorker' = Pop(toWorker, w)
  BY <1>6 DEF DropSteal, ReceiveTermination, Receive
<1>8. \A i \in 1..Len(toWorker'[w]) :
        toWorker'[w][i].type \in {"STEAL_REQUEST", "TERMINATION"}
  <2>1. toWorker \in [Worker -> Seq(Message)]
    BY DEF TypeOK
  <2>2. /\ Len(toWorker'[w]) = Len(toWorker[w]) - 1
        /\ Len(toWorker[w]) \in Nat
        /\ \A i \in 1..(Len(toWorker[w]) - 1) :
             toWorker'[w][i] = toWorker[w][i + 1]
    BY <2>1, <1>7, PopFacts
  <2>3. QED
    BY <2>2 DEF Over
<1>9. wpc'[w] \in {"first", "wait", "done", "undefined"}
  BY <1>6 DEF DropSteal, ReceiveTermination, UnlessFirst, workerVars, Over,
              TypeOK
<1>10. \A i \in 1..Len(toMaster'[w]) : toMaster'[w][i].type = "RANGE_REQUEST"
  <2>1. CASE toMaster' = toMaster
    BY <2>1 DEF Over
  <2>2. CASE DropSteal(w)
    <3>1. PICK m \in Message : /\ m.type = "RANGE_REQUEST"
                               /\ toMaster' = Send(toMaster, w, m)
      BY <2>2, MessageTypes DEF DropSteal
    <3>2. toMaster \in [Worker -> Seq(Message)]
      BY DEF TypeOK
    <3>3. /\ Len(toMaster'[w]) = Len(toMaster[w]) + 1
          /\ \A i \in 1..Len(toMaster[w]) : toMaster'[w][i] = toMaster[w][i]
          /\ toMaster'[w][Len(toMaster[w]) + 1] = m
      BY <3>1, <3>2, SendFacts
    <3>4. Len(toMaster[w]) \in Nat
      BY Lengths
    <3>5. QED
      BY <3>1, <3>3, <3>4 DEF Over
  <2>3. QED
    BY <1>6, <2>1, <2>2 DEF ReceiveTermination
<1>11. QED
  BY <1>3, <1>4, <1>8, <1>9, <1>10 DEF Over

LEMMA ExchangeStep ==
  ASSUME TypeOK, ExchangeInv, EnoughRoots, Next
  PROVE  ExchangeInv'
<1>1. IdleInv'
  BY IdleStep DEF ExchangeInv
<1>2. CASE mpc = "done"
  <2>1. /\ mpc' = "done" /\ nextRangeStart' = nextRangeStart
        /\ \A w \in Worker : Over(w)'
    BY <1>2, OverStep DEF ExchangeInv
  <2>2. nextRangeStart = 0
    BY <1>2 DEF ExchangeInv, MasterInv
  <2>3. QED
    BY <1>1, <2>1, <2>2 DEF ExchangeInv, MasterInv
<1>3. CASE mpc # "done" /\ Broadcast
  BY <1>3, BroadcastExchange
<1>4. CASE mpc # "done" /\ ~ Broadcast
  <2>1. mpc' # "done"
    <3>1. CASE Master
      BY <3>1, <1>4 DEF Master, GiveRange, BeginSteal, AskVictim, Forward,
                        VictimIsIdle, ReceiveRequest
    <3>2. ASSUME NEW w \in Worker, WorkerStep(w) PROVE mpc' # "done"
      BY <3>2, <1>4, WorkerIsLocal DEF masterVars
    <3>3. QED
      BY <3>1, <3>2 DEF Next
  <2>2. MasterInv' /\ \A v \in Worker : Exchange(v)'
    BY <1>4, GiveRangeExchange, BeginStealExchange, AskVictimExchange,
       ForwardExchange, VictimIsIdleExchange, WorkerExchange DEF Next, Master
  <2>3. QED
    BY <1>1, <2>1, <2>2 DEF ExchangeInv
<1>5. QED
  BY <1>2, <1>3, <1>4
-----------------------------------------------------------------------
(* Fewer roots than workers, and at least one root                         *)

Requests == {m \in Message : m.type = "RANGE_REQUEST"}
Orders == {m \in Message : m.type \in {"STEAL_REQUEST", "TERMINATION"}}

\* No range is handed out, no worker ever has work, and the first loop of Run
\* does not end.
Barren ==
  /\ mpc # "done" /\ nextRangeStart = MaxRoots
  /\ \A w \in Worker : wpc[w] \notin {"fresh", "work"}
  /\ toMaster \in [Worker -> Seq(Requests)]
  /\ toWorker \in [Worker -> Seq(Orders)]

LEMMA BarrenHeads ==
  ASSUME Barren, NEW w \in Worker
  PROVE  /\ toMaster[w] # <<>> =>
              Head(toMaster[w]).type = "RANGE_REQUEST"
         /\ toWorker[w] # <<>> =>
              Head(toWorker[w]).type \in {"STEAL_REQUEST", "TERMINATION"}
<1>1. toMaster[w] # <<>> => Head(toMaster[w]) \in Requests
  <2>1. toMaster[w] \in Seq(Requests)
    BY DEF Barren
  <2>2. QED
    BY <2>1
<1>2. toWorker[w] # <<>> => Head(toWorker[w]) \in Orders
  <2>1. toWorker[w] \in Seq(Orders)
    BY DEF Barren
  <2>2. QED
    BY <2>1
<1>3. QED
  BY <1>1, <1>2 DEF Requests, Orders

LEMMA BarrenStep ==
  ASSUME TypeOK, Barren, ~ EnoughRoots, Next
  PROVE  Barren'
<1>1. StealRequest \in Orders /\ Termination \in Orders
      /\ \A n \in Nat : RangeRequest(n) \in Requests
  BY MessageTypes DEF Orders, Requests
<1>2. RangeBegin = MaxRoots /\ MaxRoots # 0
  BY RangeFacts DEF TypeOK, Barren
<1>3. CASE Master
  <2>1. ~ Forward
    BY BarrenHeads DEF Forward, VictimAnswers, TypeOK
  <2>2. mpc' # "done" /\ nextRangeStart' = nextRangeStart /\ wpc' = wpc
    BY <1>2, <1>3, <2>1 DEF Master, GiveRange, BeginSteal, AskVictim,
      VictimIsIdle, Broadcast, ReceiveRequest, workerVars, Barren
  <2>3. toMaster' \in [Worker -> Seq(Requests)]
    <3>1. ASSUME NEW w \in Worker, toMaster[w] # <<>>,
                 toMaster' = Pop(toMaster, w)
          PROVE  toMaster' \in [Worker -> Seq(Requests)]
      BY <3>1, PopType DEF Barren
    <3>2. CASE \E w \in Worker : BeginSteal(w)
      BY <3>1, <3>2 DEF BeginSteal, ReceiveRequest
    <3>3. CASE VictimIsIdle
      BY <3>1, <3>3 DEF VictimIsIdle, VictimAnswers, TypeOK
    <3>4. CASE AskVictim \/ Broadcast
      BY <3>4 DEF AskVictim, Broadcast, Barren
    <3>5. QED
      BY <1>2, <1>3, <2>1, <3>2, <3>3, <3>4 DEF Master, GiveRange
  <2>4. toWorker' \in [Worker -> Seq(Orders)]
    <3>1. CASE AskVictim
      <4>1. lastStealVictim' \in Worker
            /\ toWorker' = Send(toWorker, lastStealVictim', StealRequest)
        BY <3>1, VictimType DEF AskVictim
      <4>2. toWorker \in [Worker -> Seq(Orders)]
        BY DEF Barren
      <4>3. QED
        BY <1>1, <4>1, <4>2, SendType
    <3>2. CASE Broadcast
      <4>1. \A w \in Worker : Append(toWorker[w], Termination) \in Seq(Orders)
        BY <1>1 DEF Barren
      <4>2. QED
        BY <3>2, <4>1 DEF Broadcast
    <3>3. CASE toWorker' = toWorker
      BY <3>3 DEF Barren
    <3>4. QED
      BY <1>2, <1>3, <2>1, <3>1, <3>2, <3>3
      DEF Master, GiveRange, BeginSteal, VictimIsIdle
  <2>5. QED
    BY <2>2, <2>3, <2>4 DEF Barren
<1>4. ASSUME NEW w \in Worker, WorkerStep(w) PROVE Barren'
  <2>1. RequestFirst(w) \/ DropSteal(w) \/ ReceiveTermination(w)
    BY <1>4, BarrenHeads DEF WorkerStep, RequestMore, ReceiveRange,
      ReceiveStolen, Enumerate, GiveRoots, GiveNode, Serve, Receive, Barren
  <2>2. masterVars' = masterVars
        /\ \A v \in Worker \ {w} : wpc'[v] = wpc[v]
    BY <1>4, WorkerIsLocal
  <2>3. wpc'[w] \notin {"fresh", "work"}
    BY <2>1 DEF RequestFirst, Request, DropSteal, ReceiveTermination,
                UnlessFirst, workerVars, TypeOK, Barren
  <2>4. toMaster' \in [Worker -> Seq(Requests)]
    <3>1. \/ toMaster' = toMaster
          \/ \E n \in Nat : toMaster' = Send(toMaster, w, RangeRequest(n))
      BY <2>1 DEF RequestFirst, Request, DropSteal, ReceiveTermination
    <3>2. ASSUME NEW n \in Nat, toMaster' = Send(toMaster, w, RangeRequest(n))
          PROVE  toMaster' \in [Worker -> Seq(Requests)]
      <4>1. RangeRequest(n) \in Requests
        BY <1>1
      <4>2. toMaster \in [Worker -> Seq(Requests)]
        BY DEF Barren
      <4>3. QED
        BY <3>2, <4>1, <4>2, SendType
    <3>3. QED
      BY <3>1, <3>2 DEF Barren
  <2>5. toWorker' \in [Worker -> Seq(Orders)]
    <3>1. \/ toWorker' = toWorker
          \/ toWorker[w] # <<>> /\ toWorker' = Pop(toWorker, w)
      BY <2>1 DEF RequestFirst, Request, DropSteal, ReceiveTermination,
                  Receive
    <3>2. QED
      BY <3>1, PopType, SMTT(30) DEF Barren
  <2>6. QED
    BY <2>2, <2>3, <2>4, <2>5 DEF Barren, masterVars
<1>5. QED
  BY <1>3, <1>4 DEF Next
-----------------------------------------------------------------------
(* The invariant                                                           *)

LEMMA RangesStep ==
  ASSUME TypeOK, RangesOfRoots, Next
  PROVE  RangesOfRoots'
<1>1. /\ StealRequest \in Batch /\ Termination \in Batch
      /\ \A S \in SUBSET RootId : RangeResponse(S) \in Batch
  BY MessageTypes, Constants, ZenonT(30) DEF Batch
<1>2. toWorker \in [Worker -> Seq(Batch)]
  BY DEF RangesOfRoots
<1>3. ASSUME NEW w \in Worker, NEW m \in Batch, toWorker' = Send(toWorker, w, m)
      PROVE  RangesOfRoots'
  BY <1>2, <1>3, SendType DEF RangesOfRoots
<1>4. ASSUME NEW w \in Worker, toWorker[w] # <<>>, toWorker' = Pop(toWorker, w)
      PROVE  RangesOfRoots'
  BY <1>2, <1>4, PopType DEF RangesOfRoots
<1>5. CASE toWorker' = toWorker
  BY <1>5 DEF RangesOfRoots
<1>6. CASE Master
  <2>1. ASSUME NEW w \in Worker, GiveRange(w) PROVE RangesOfRoots'
    <3>1. RangeResponse(RangeBegin..(nextRangeStart - 1)) \in Batch
      BY <1>1, RangeTypes DEF TypeOK
    <3>2. QED
      BY <2>1, <3>1, <1>3 DEF GiveRange
  <2>2. CASE AskVictim
    <3>1. lastStealVictim' \in Worker
      BY <2>2, VictimType DEF AskVictim
    <3>2. QED
      BY <2>2, <3>1, <1>1, <1>3 DEF AskVictim
  <2>3. CASE Forward
    <3>1. Head(toMaster[lastStealVictim]) \in Batch /\ stealer \in Worker
      BY <2>3, VictimAnswersType DEF Forward, Batch, TypeOK
    <3>2. QED
      BY <2>3, <3>1, <1>3 DEF Forward
  <2>4. CASE Broadcast
    <3>1. \A w \in Worker : Append(toWorker[w], Termination) \in Seq(Batch)
      BY <1>1, <1>2
    <3>2. QED
      BY <2>4, <3>1 DEF Broadcast, RangesOfRoots
  <2>5. QED
    BY <1>5, <1>6, <2>1, <2>2, <2>3, <2>4 DEF Master, BeginSteal, VictimIsIdle
<1>7. ASSUME NEW w \in Worker, WorkerStep(w) PROVE RangesOfRoots'
  BY <1>4, <1>5, <1>7 DEF WorkerStep, RequestFirst, RequestMore, Request,
    DropSteal, ReceiveRange, ReceiveStolen, ReceiveTermination, Receive,
    Enumerate, GiveRoots, GiveNode, Serve, workerVars
<1>8. QED
  BY <1>6, <1>7 DEF Next

\* What the theorems below rest on.
Inv ==
  /\ TypeOK
  /\ RangesOfRoots
  /\ IdleInv
  /\ EnoughRoots => ExchangeInv
  /\ ~ EnoughRoots => Barren

LEMMA ExpectedFromInv ==
  ASSUME Inv PROVE MessagesExpected
<1>1. CASE EnoughRoots
  <2>1. ExchangeInv
    BY <1>1 DEF Inv
  <2>2. ASSUME NEW w \in Worker, wpc[w] \in {"fresh", "work"}
        PROVE  \A i \in 1..Len(toWorker[w]) : toWorker[w][i] = StealRequest
    <3>1. Exchange(w) /\ ~ Waits(w)
      BY <2>1, <2>2 DEF ExchangeInv, Over, Waits
    <3>2. QED
      BY <3>1 DEF Exchange
  <2>3. ASSUME mpc = "recv", NEW w \in Worker
        PROVE  \A i \in 1..Len(toMaster[w]) :
                 toMaster[w][i].type = "RANGE_REQUEST"
    <3>1. Exchange(w) /\ ~ Asked(w)
      BY <2>1, <2>3 DEF ExchangeInv, Asked
    <3>2. QED
      BY <3>1 DEF Exchange
  <2>4. QED
    BY <2>2, <2>3 DEF MessagesExpected
<1>2. CASE ~ EnoughRoots
  <2>1. Barren
    BY <1>2 DEF Inv
  <2>2. ASSUME NEW w \in Worker, NEW i \in 1..Len(toMaster[w])
        PROVE  toMaster[w][i].type = "RANGE_REQUEST"
    <3>1. toMaster[w] \in Seq(Requests)
      BY <2>1 DEF Barren
    <3>2. toMaster[w][i] \in Requests
      BY <3>1
    <3>3. QED
      BY <3>2 DEF Requests
  <2>3. QED
    BY <2>1, <2>2 DEF MessagesExpected, Barren
<1>3. QED
  BY <1>1, <1>2

LEMMA InitInv == Init => Inv
<1> SUFFICES ASSUME Init PROVE Inv
  OBVIOUS
<1>1. TypeOK
  BY Constants DEF Init, TypeOK
<1>2. RangesOfRoots /\ IdleInv
  BY DEF Init, RangesOfRoots, IdleInv
<1>3. ExchangeInv
  BY DEF Init, ExchangeInv, MasterInv, IdleInv, Exchange, Balanced, Asked,
         Served, Waits, Waiting
<1>4. Barren
  BY DEF Init, Barren
<1>5. QED
  BY <1>1, <1>2, <1>3, <1>4 DEF Inv

LEMMA InvStep == Inv /\ [Next]_vars => Inv'
<1> SUFFICES ASSUME Inv, [Next]_vars PROVE Inv'
  OBVIOUS
<1>1. CASE Next
  <2>1. TypeOK'
    BY <1>1, ExpectedFromInv, MasterType, WorkerType DEF Inv, Next
  <2>2. RangesOfRoots' /\ IdleInv'
    BY <1>1, RangesStep, IdleStep DEF Inv
  <2>3. CASE EnoughRoots
    BY <1>1, <2>1, <2>2, <2>3, ExchangeStep DEF Inv
  <2>4. CASE ~ EnoughRoots
    BY <1>1, <2>1, <2>2, <2>4, BarrenStep DEF Inv
  <2>5. QED
    BY <2>3, <2>4
<1>2. CASE UNCHANGED vars
  <2>1. TypeOK'
    BY <1>2 DEF Inv, TypeOK, vars, masterVars, workerVars
  <2>2. RangesOfRoots' /\ IdleInv'
    BY <1>2 DEF Inv, RangesOfRoots, IdleInv, vars, masterVars, workerVars
  <2>3. EnoughRoots => ExchangeInv'
    <3>1. MasterInv => MasterInv'
      BY <1>2 DEF MasterInv, Waiting, vars, masterVars
    <3>2. \A w \in Worker : Exchange(w) => Exchange(w)'
      BY <1>2, Undisturbed DEF Served, Asked, vars, masterVars, workerVars
    <3>3. \A w \in Worker : Over(w) => Over(w)'
      BY <1>2 DEF Over, vars, workerVars
    <3>4. mpc' = mpc
      BY <1>2 DEF vars, masterVars
    <3>5. QED
      BY <2>2, <3>1, <3>2, <3>3, <3>4 DEF Inv, ExchangeInv
  <2>4. ~ EnoughRoots => Barren'
    BY <1>2 DEF Inv, Barren, vars, masterVars, workerVars
  <2>5. QED
    BY <2>1, <2>2, <2>3, <2>4 DEF Inv
<1>3. QED
  BY <1>1, <1>2

LEMMA InvHolds == Spec => []Inv
<1>1. QED
  BY InitInv, InvStep, PTL DEF Spec

\* Every variable of the master, the workers and the channels keeps its type.
THEOREM TypesAreKept == Spec => []TypeOK
<1>1. Inv => TypeOK
  BY DEF Inv
<1>2. QED
  BY <1>1, InvHolds, PTL

\* Until the master ends, a worker in MoreWork has one request on its way,
\* being answered or to be sent again, and a worker that works has none.
\* With at least one root and fewer roots than workers this is false: the
\* master says TERMINATION and goes on to receive requests.
THEOREM OneRequestEach == EnoughRoots => (Spec => []RequestsBalanced)
<1> SUFFICES ASSUME EnoughRoots PROVE Spec => []RequestsBalanced
  OBVIOUS
<1>1. Inv => RequestsBalanced
  <2> SUFFICES ASSUME Inv, mpc # "done", NEW w \in Worker
               PROVE  Len(toMaster[w]) + Len(toWorker[w])
                          + One(mpc \in {"steal", "reply"} /\ stealer = w)
                          - One(mpc = "reply" /\ lastStealVictim = w)
                        = One(wpc[w] \in {"first", "wait"})
    BY DEF RequestsBalanced
  <2>1. Balanced(w)
    BY DEF Inv, ExchangeInv, Exchange
  <2>2. QED
    BY <2>1 DEF Balanced, Served, Asked, Waits, One
<1>2. QED
  BY <1>1, InvHolds, PTL

\* A worker that works is sent nothing but steal requests, and the master,
\* when it receives a request, finds one.
THEOREM ReceiversExpect == Spec => []MessagesExpected
<1>1. Inv => MessagesExpected
  BY ExpectedFromInv
<1>2. QED
  BY <1>1, InvHolds, PTL

\* Messages without work carry none.
LEMMA NothingCarried ==
  ASSUME NEW c \in Seq(Message),
         \A i \in 1..Len(c) :
           c[i].type \in {"RANGE_REQUEST", "STEAL_REQUEST", "TERMINATION"}
  PROVE  Carried(c) = {}
<1>1. ASSUME NEW m \in Message,
             m.type \in {"RANGE_REQUEST", "STEAL_REQUEST", "TERMINATION"}
      PROVE  "work" \notin DOMAIN m
  BY <1>1 DEF Message
<1>2. {j \in 1..Len(c) : "work" \in DOMAIN c[j]} = {}
  BY <1>1
<1>3. QED
  BY <1>2 DEF Carried

\* Once some worker is told to terminate no worker has work, and none is in
\* a channel.
THEOREM TerminationLeavesNoWork == Spec => []TerminationSafe
<1>1. ASSUME Inv, NEW v \in Worker, NEW k \in 1..Len(toWorker[v]),
             toWorker[v][k] = Termination
      PROVE  \A w \in Worker : /\ roots[w] = {} /\ nodes[w] = {}
                               /\ Carried(toMaster[w]) = {}
                               /\ Carried(toWorker[w]) = {}
  <2>1. toWorker[v][k].type = "TERMINATION" /\ toWorker[v][k] # StealRequest
    BY <1>1, MessageTypes
  <2>2. ASSUME NEW w \in Worker
        PROVE  /\ wpc[w] \notin {"fresh", "work"}
               /\ \A i \in 1..Len(toMaster[w]) :
                    toMaster[w][i].type = "RANGE_REQUEST"
               /\ \A i \in 1..Len(toWorker[w]) :
                    toWorker[w][i].type \in {"STEAL_REQUEST", "TERMINATION"}
    <3>1. CASE EnoughRoots
      <4>1. ~ Exchange(v)
        BY <1>1, <2>1 DEF Exchange
      <4>2. Over(w)
        BY <1>1, <3>1, <4>1 DEF Inv, ExchangeInv
      <4>3. QED
        BY <4>2 DEF Over
    <3>2. CASE ~ EnoughRoots
      <4>1. Barren
        BY <1>1, <3>2 DEF Inv
      <4>2. toMaster[w] \in Seq(Requests) /\ toWorker[w] \in Seq(Orders)
        BY <4>1 DEF Barren
      <4>3. /\ \A i \in 1..Len(toMaster[w]) : toMaster[w][i] \in Requests
            /\ \A i \in 1..Len(toWorker[w]) : toWorker[w][i] \in Orders
        BY <4>2
      <4>4. QED
        BY <4>1, <4>3 DEF Barren, Requests, Orders
    <3>3. QED
      BY <3>1, <3>2
  <2>3. TAKE w \in Worker
  <2>4. roots[w] = {} /\ nodes[w] = {}
    BY <1>1, <2>2 DEF Inv, IdleInv
  <2>5. toMaster[w] \in Seq(Message) /\ toWorker[w] \in Seq(Message)
    BY <1>1 DEF Inv, TypeOK
  <2>6. Carried(toMaster[w]) = {} /\ Carried(toWorker[w]) = {}
    BY <2>2, <2>5, NothingCarried
  <2>7. QED
    BY <2>4, <2>6
<1>2. Inv => TerminationSafe
  BY <1>1 DEF TerminationSafe
<1>3. QED
  BY <1>2, InvHolds, PTL

\* With a root for every worker, or none at all, the master has ended once a
\* worker is told to terminate.
THEOREM EnoughRootsEndMaster == EnoughRoots => (Spec => []TerminationEndsMaster)
<1> SUFFICES ASSUME EnoughRoots PROVE Spec => []TerminationEndsMaster
  OBVIOUS
<1>1. ASSUME Inv, NEW v \in Worker, NEW k \in 1..Len(toWorker[v]),
             toWorker[v][k] = Termination
      PROVE  mpc = "done"
  <2>1. toWorker[v][k].type = "TERMINATION" /\ toWorker[v][k] # StealRequest
    BY <1>1, MessageTypes
  <2>2. ~ Exchange(v)
    BY <1>1, <2>1 DEF Exchange
  <2>3. QED
    BY <1>1, <2>2 DEF Inv, ExchangeInv
<1>2. Inv => TerminationEndsMaster
  BY <1>1 DEF TerminationEndsMaster
<1>3. QED
  BY <1>2, InvHolds, PTL
-----------------------------------------------------------------------
(* Where the frames are                                                    *)

\* A frame may be with a worker, on its way to or from the master, or among
\* the roots not handed out.
Mine(w) == <<w, "mine">>
Up(w) == <<w, "up">>
Down(w) == <<w, "down">>
Left == <<NumWorkers, "left">>
Place == (Worker \X {"mine", "up", "down"}) \cup {Left}

Held(p) ==
  IF p[2] = "mine" THEN roots[p[1]] \cup nodes[p[1]]
  ELSE IF p[2] = "up" THEN Carried(toMaster[p[1]])
  ELSE IF p[2] = "down" THEN Carried(toWorker[p[1]])
  ELSE 0..(nextRangeStart - 1)

HeldOnce ==
  \A p, q \in Place : p # q => Held(p) \cap Held(q) = {}

\* A frame held was handed out by nobody else and called back nothing yet,
\* nor did a node that was not reported.
Fresh ==
  /\ \A p \in Place : \A f \in Held(p) : /\ f \in RootId \cup reported
                                         /\ Kids[f] \cap reported = {}
  /\ \A x \in Node \ reported : Kids[x] \cap reported = {}

Sound == reported \subseteq Reachable

\* A frame whose turn came is held or called back, unless a worker lost it.
Complete ==
  SomeUndefined \/ \A f \in RootId \cup reported :
    Kids[f] \subseteq reported \/ \E p \in Place : f \in Held(p)

WorkInv == HeldOnce /\ Fresh /\ Sound /\ Complete

LEMMA PlaceCases ==
  ASSUME NEW p \in Place
  PROVE  p = Left \/ \E w \in Worker : p \in {Mine(w), Up(w), Down(w)}
BY DEF Place, Mine, Up, Down

LEMMA PlacesApart ==
  /\ Left \in Place
  /\ \A w \in Worker :
       /\ Mine(w) \in Place /\ Up(w) \in Place /\ Down(w) \in Place
       /\ Left \notin {Mine(w), Up(w), Down(w)}
       /\ \A v \in Worker :
            /\ Mine(v) # Up(w) /\ Mine(v) # Down(w) /\ Up(v) # Down(w)
            /\ v # w => Mine(v) # Mine(w) /\ Up(v) # Up(w) /\ Down(v) # Down(w)
BY DEF Place, Mine, Up, Down, Left

LEMMA HeldAt ==
  /\ Held(Left) = 0..(nextRangeStart - 1)
  /\ \A w \in Worker : /\ Held(Mine(w)) = roots[w] \cup nodes[w]
                       /\ Held(Up(w)) = Carried(toMaster[w])
                       /\ Held(Down(w)) = Carried(toWorker[w])
BY DEF Held, Mine, Up, Down, Left

LEMMA HeldAtNext ==
  /\ Held(Left)' = 0..(nextRangeStart' - 1)
  /\ \A w \in Worker : /\ Held(Mine(w))' = roots'[w] \cup nodes'[w]
                       /\ Held(Up(w))' = Carried(toMaster'[w])
                       /\ Held(Down(w))' = Carried(toWorker'[w])
BY DEF Held, Mine, Up, Down, Left, Carried

\* The work in one message.
Load(m) ==
  IF m.type \in {"RANGE_RESPONSE", "STEAL_RESPONSE"} THEN m.work ELSE {}

LEMMA LoadFacts ==
  /\ Load(StealRequest) = {} /\ Load(Termination) = {}
  /\ \A n \in Nat : Load(RangeRequest(n)) = {}
  /\ \A S \in SUBSET Frame : Load(RangeResponse(S)) = S /\ Load(Stolen(S)) = S
BY MessageTypes DEF Load

LEMMA CarriedIs ==
  ASSUME NEW c \in Seq(Message), NEW f
  PROVE  f \in Carried(c) <=> \E i \in 1..Len(c) : f \in Load(c[i])
<1>1. ASSUME NEW m \in Message
      PROVE  "work" \in DOMAIN m
               <=> m.type \in {"RANGE_RESPONSE", "STEAL_RESPONSE"}
  BY DEF Message
<1>2. \A i \in 1..Len(c) : c[i] \in Message
  OBVIOUS
<1>3. QED
  BY <1>1, <1>2 DEF Carried, Load

LEMMA CarriedSend ==
  ASSUME NEW c \in [Worker -> Seq(Message)], NEW w \in Worker,
         NEW m \in Message
  PROVE  Carried(Send(c, w, m)[w]) = Carried(c[w]) \cup Load(m)
<1> DEFINE d == Send(c, w, m)[w]
<1>1. /\ d \in Seq(Message) /\ c[w] \in Seq(Message) /\ Len(c[w]) \in Nat
      /\ Len(d) = Len(c[w]) + 1
      /\ \A i \in 1..Len(c[w]) : d[i] = c[w][i]
      /\ d[Len(c[w]) + 1] = m
  BY SendFacts
<1> HIDE DEF d
<1>2. ASSUME NEW f PROVE f \in Carried(d) <=> f \in Carried(c[w]) \cup Load(m)
  <2>1. /\ f \in Carried(d) <=> \E i \in 1..Len(d) : f \in Load(d[i])
        /\ f \in Carried(c[w]) <=> \E i \in 1..Len(c[w]) : f \in Load(c[w][i])
    BY <1>1, CarriedIs
  <2>2. \A i \in 1..Len(d) : i \in 1..Len(c[w]) \/ i = Len(c[w]) + 1
    BY <1>1
  <2>3. \A i \in 1..Len(c[w]) : i \in 1..Len(d)
    BY <1>1
  <2>4. Len(c[w]) + 1 \in 1..Len(d)
    BY <1>1
  <2>5. QED
    BY <1>1, <2>1, <2>2, <2>3, <2>4
<1>3. QED
  BY <1>2 DEF d

LEMMA CarriedPop ==
  ASSUME NEW c \in [Worker -> Seq(Message)], NEW w \in Worker, c[w] # <<>>
  PROVE  /\ Carried(c[w]) = Load(Head(c[w])) \cup Carried(Pop(c, w)[w])
         /\ (\A i \in 1..Len(c[w]) : i # 1 => Load(c[w][i]) = {})
              => Carried(Pop(c, w)[w]) = {}
<1> DEFINE d == Pop(c, w)[w]
<1>1. /\ d \in Seq(Message) /\ c[w] \in Seq(Message)
      /\ Len(c[w]) \in Nat \ {0}
      /\ Len(d) = Len(c[w]) - 1
      /\ \A i \in 1..(Len(c[w]) - 1) : d[i] = c[w][i + 1]
      /\ Head(c[w]) = c[w][1]
  BY PopFacts
<1> HIDE DEF d
<1>2. \A f : /\ f \in Carried(d) <=> \E i \in 1..Len(d) : f \in Load(d[i])
             /\ f \in Carried(c[w])
                  <=> \E i \in 1..Len(c[w]) : f \in Load(c[w][i])
  BY <1>1, CarriedIs
<1>3. \A i \in 1..Len(d) : i + 1 \in 1..Len(c[w]) /\ i + 1 # 1
  BY <1>1
<1>4. \A i \in 1..Len(c[w]) : i = 1 \/ (i - 1 \in 1..Len(d)
                                          /\ d[i - 1] = c[w][i])
  BY <1>1
<1>5. 1 \in 1..Len(c[w])
  BY <1>1
<1>6. \A f : f \in Carried(c[w]) <=> f \in Load(Head(c[w])) \cup Carried(d)
  <2>1. ASSUME NEW f, f \in Carried(d) PROVE f \in Carried(c[w])
    BY <1>1, <1>2, <1>3, <2>1
  <2>2. ASSUME NEW f, f \in Load(Head(c[w])) PROVE f \in Carried(c[w])
    BY <1>1, <1>2, <1>5, <2>2
  <2>3. ASSUME NEW f, f \in Carried(c[w])
        PROVE  f \in Load(Head(c[w])) \cup Carried(d)
    <3>1. PICK i \in 1..Len(c[w]) : f \in Load(c[w][i])
      BY <1>2, <2>3
    <3>2. CASE i = 1
      BY <3>1, <3>2, <1>1
    <3>3. CASE i # 1
      BY <3>1, <3>3, <1>2, <1>4
    <3>4. QED
      BY <3>2, <3>3
  <2>4. QED
    BY <2>1, <2>2, <2>3
<1>7. ASSUME \A i \in 1..Len(c[w]) : i # 1 => Load(c[w][i]) = {}
      PROVE  Carried(d) = {}
  <2>1. \A i \in 1..Len(d) : Load(d[i]) = {}
    BY <1>1, <1>3, <1>7
  <2>2. QED
    BY <2>1, <1>2
<1>8. QED
  BY <1>6, <1>7 DEF d

\* No work waits behind another message.
LEMMA OnlyFirstCarries ==
  ASSUME Inv, NEW w \in Worker
  PROVE  /\ \A i \in 1..Len(toMaster[w]) : i # 1 => Load(toMaster[w][i]) = {}
         /\ \A i \in 1..Len(toWorker[w]) : i # 1 => Load(toWorker[w][i]) = {}
<1>1. CASE EnoughRoots
  <2>1. Exchange(w) \/ Over(w)
    BY <1>1 DEF Inv, ExchangeInv
  <2>2. CASE Exchange(w)
    BY <2>2, MessageTypes DEF Exchange, Load
  <2>3. CASE Over(w)
    BY <2>3 DEF Over, Load
  <2>4. QED
    BY <2>1, <2>2, <2>3
<1>2. CASE ~ EnoughRoots
  <2>1. toMaster[w] \in Seq(Requests) /\ toWorker[w] \in Seq(Orders)
    BY <1>2 DEF Inv, Barren
  <2>2. /\ \A i \in 1..Len(toMaster[w]) : toMaster[w][i] \in Requests
        /\ \A i \in 1..Len(toWorker[w]) : toWorker[w][i] \in Orders
    BY <2>1
  <2>3. QED
    BY <2>2 DEF Load, Requests, Orders
<1>3. QED
  BY <1>1, <1>2
-----------------------------------------------------------------------
(* How a step moves the frames                                             *)

StillHeld ==
  /\ \A r \in Place : Held(r)' = Held(r)
  /\ reported' = reported

\* The frames S go from p to q.
Moved(p, q, S) ==
  /\ p \in Place /\ q \in Place /\ p # q /\ S \subseteq Held(p)
  /\ Held(p)' = Held(p) \ S
  /\ Held(q)' = Held(q) \cup S
  /\ \A r \in Place \ {p, q} : Held(r)' = Held(r)
  /\ reported' = reported

\* What a worker received is lost.
Lost ==
  /\ \A r \in Place : Held(r)' \subseteq Held(r)
  /\ reported' = reported
  /\ SomeUndefined'

\* Worker w calls f, which calls back its children.
Expanded(w, f) ==
  /\ f \in Held(Mine(w))
  /\ Held(Mine(w))' = (Held(Mine(w)) \ {f}) \cup Kids[f]
  /\ \A r \in Place \ {Mine(w)} : Held(r)' = Held(r)
  /\ reported' = reported \cup Kids[f]

LEMMA HeldElsewhere ==
  ASSUME NEW P \in SUBSET Place,
         Left \notin P => nextRangeStart' = nextRangeStart,
         \A v \in Worker :
           /\ Mine(v) \notin P => roots'[v] = roots[v] /\ nodes'[v] = nodes[v]
           /\ Up(v) \notin P => Carried(toMaster'[v]) = Carried(toMaster[v])
           /\ Down(v) \notin P => Carried(toWorker'[v]) = Carried(toWorker[v])
  PROVE  \A r \in Place \ P : Held(r)' = Held(r)
<1>1. ASSUME NEW v \in Worker
      PROVE  /\ Mine(v) \notin P => Held(Mine(v))' = Held(Mine(v))
             /\ Up(v) \notin P => Held(Up(v))' = Held(Up(v))
             /\ Down(v) \notin P => Held(Down(v))' = Held(Down(v))
  BY HeldAt, HeldAtNext
<1>2. Left \notin P => Held(Left)' = Held(Left)
  BY HeldAt, HeldAtNext
<1>3. TAKE r \in Place \ P
<1>4. CASE r = Left
  BY <1>2, <1>4
<1>5. ASSUME NEW v \in Worker, r \in {Mine(v), Up(v), Down(v)}
      PROVE  Held(r)' = Held(r)
  <2>1. CASE r = Mine(v)
    BY <2>1, <1>1
  <2>2. CASE r = Up(v)
    BY <2>2, <1>1
  <2>3. CASE r = Down(v)
    BY <2>3, <1>1
  <2>4. QED
    BY <1>5, <2>1, <2>2, <2>3
<1>6. QED
  BY <1>4, <1>5, PlaceCases

LEMMA PopNothing ==
  ASSUME NEW c \in [Worker -> Seq(Message)], NEW w \in Worker, c[w] # <<>>,
         Load(Head(c[w])) = {}
  PROVE  \A v \in Worker : Carried(Pop(c, w)[v]) = Carried(c[v])
<1>1. Carried(Pop(c, w)[w]) = Carried(c[w])
  <2>1. Carried(c[w]) = Load(Head(c[w])) \cup Carried(Pop(c, w)[w])
    BY CarriedPop
  <2>2. QED
    BY <2>1
<1>2. \A v \in Worker \ {w} : Pop(c, w)[v] = c[v]
  BY DEF Pop
<1>3. QED
  BY <1>1, <1>2

LEMMA SendNothing ==
  ASSUME NEW c \in [Worker -> Seq(Message)], NEW w \in Worker,
         NEW m \in Message, Load(m) = {}
  PROVE  \A v \in Worker : Carried(Send(c, w, m)[v]) = Carried(c[v])
<1>1. Carried(Send(c, w, m)[w]) = Carried(c[w])
  <2>1. Carried(Send(c, w, m)[w]) = Carried(c[w]) \cup Load(m)
    BY CarriedSend
  <2>2. QED
    BY <2>1
<1>2. \A v \in Worker \ {w} : Send(c, w, m)[v] = c[v]
  BY DEF Send
<1>3. QED
  BY <1>1, <1>2

LEMMA Channels ==
  ASSUME Inv
  PROVE  /\ TypeOK
         /\ toMaster \in [Worker -> Seq(Message)]
         /\ toWorker \in [Worker -> Seq(Message)]
BY DEF Inv, TypeOK

\* The master's step that hands out a range or passes work on.
LEMMA GiveRangeMoves ==
  ASSUME Inv, NEW w \in Worker, GiveRange(w)
  PROVE  \E S : Moved(Left, Down(w), S)
<1> DEFINE S == RangeBegin..(nextRangeStart - 1)
<1>1. /\ toMaster[w] # <<>> /\ toMaster' = Pop(toMaster, w) /\ mpc = "recv"
      /\ toWorker' = Send(toWorker, w, RangeResponse(S))
      /\ nextRangeStart' = RangeBegin
      /\ roots' = roots /\ nodes' = nodes /\ reported' = reported
  BY DEF GiveRange, ReceiveRequest, workerVars
<1>2. Load(Head(toMaster[w])) = {}
  <2>1. Head(toMaster[w]).type = "RANGE_REQUEST"
    BY <1>1, Channels, PopFacts, ExpectedFromInv DEF MessagesExpected
  <2>2. QED
    BY <2>1 DEF Load
<1>3. \A v \in Worker : Carried(toMaster'[v]) = Carried(toMaster[v])
  BY <1>1, <1>2, Channels, PopNothing
<1>4. S \in SUBSET Frame
  BY Channels, RangeTypes DEF TypeOK
<1>5. Carried(toWorker'[w]) = Carried(toWorker[w]) \cup S
  <2>1. RangeResponse(S) \in Message /\ Load(RangeResponse(S)) = S
    BY <1>4, MessageTypes, LoadFacts
  <2>2. toWorker \in [Worker -> Seq(Message)]
    BY Channels
  <2>3. Carried(Send(toWorker, w, RangeResponse(S))[w])
          = Carried(toWorker[w]) \cup Load(RangeResponse(S))
    BY <2>1, <2>2, CarriedSend
  <2>4. QED
    BY <1>1, <2>1, <2>3
<1>6. \A v \in Worker \ {w} : toWorker'[v] = toWorker[v]
  BY <1>1, Channels DEF Send
<1>7. \A r \in Place \ {Left, Down(w)} : Held(r)' = Held(r)
  BY <1>1, <1>3, <1>6, PlacesApart, HeldElsewhere
<1>8. /\ RangeBegin \in Nat /\ nextRangeStart \in Nat
      /\ RangeBegin <= nextRangeStart
  BY Constants, RangeFacts, Channels DEF GiveRange, TypeOK
<1>9. S \subseteq Held(Left) /\ Held(Left)' = Held(Left) \ S
  <2>1. Held(Left) = 0..(nextRangeStart - 1)
    BY HeldAt
  <2>2. Held(Left)' = 0..(RangeBegin - 1)
    BY <1>1, HeldAtNext
  <2>3. QED
    BY <2>1, <2>2, <1>8
<1>10. Held(Down(w))' = Held(Down(w)) \cup S
  BY <1>5, HeldAt, HeldAtNext
<1>11. QED
  BY <1>1, <1>7, <1>9, <1>10, PlacesApart DEF Moved

LEMMA ForwardMoves ==
  ASSUME Inv, Forward
  PROVE  \E v, w \in Worker : \E S : Moved(Up(v), Down(w), S)
<1>1. PICK v \in Worker : v = lastStealVictim
  BY DEF Inv, TypeOK
<1>2. PICK w \in Worker : w = stealer
  BY DEF Inv, TypeOK
<1>3. PICK m \in Message : m = Head(toMaster[v])
  BY <1>1, VictimAnswersType DEF Forward, Inv
<1>4. /\ toMaster[v] # <<>> /\ toMaster' = Pop(toMaster, v)
      /\ toWorker' = Send(toWorker, w, m)
      /\ roots' = roots /\ nodes' = nodes /\ reported' = reported
      /\ nextRangeStart' = nextRangeStart
  BY <1>1, <1>2, <1>3 DEF Forward, VictimAnswers, workerVars
<1>5. /\ Carried(toMaster[v]) = Load(m) \cup Carried(toMaster'[v])
      /\ Carried(toMaster'[v]) = {}
  BY <1>3, <1>4, Channels, CarriedPop, OnlyFirstCarries
<1>6. Carried(toWorker'[w]) = Carried(toWorker[w]) \cup Load(m)
  BY <1>4, Channels, CarriedSend
<1>7. \A u \in Worker \ {v} : toMaster'[u] = toMaster[u]
  BY <1>4, Channels DEF Pop
<1>8. \A u \in Worker \ {w} : toWorker'[u] = toWorker[u]
  BY <1>4, Channels DEF Send
<1>9. \A r \in Place \ {Up(v), Down(w)} : Held(r)' = Held(r)
  <2>1. {Up(v), Down(w)} \in SUBSET Place
    BY PlacesApart
  <2>2. \A u \in Worker :
          /\ Up(u) \notin {Up(v), Down(w)} => toMaster'[u] = toMaster[u]
          /\ Down(u) \notin {Up(v), Down(w)} => toWorker'[u] = toWorker[u]
    BY <1>7, <1>8
  <2>3. QED
    BY <1>4, <2>1, <2>2, HeldElsewhere
<1>10. /\ Load(m) \subseteq Held(Up(v)) /\ Held(Up(v))' = Held(Up(v)) \ Load(m)
       /\ Held(Down(w))' = Held(Down(w)) \cup Load(m)
  BY <1>5, <1>6, HeldAt, HeldAtNext
<1>11. Up(v) \in Place /\ Down(w) \in Place /\ Up(v) # Down(w)
  BY PlacesApart
<1>12. Moved(Up(v), Down(w), Load(m))
  BY <1>4, <1>9, <1>10, <1>11 DEF Moved
<1>13. QED
  BY <1>12

\* A worker that works holds no answer, and one in MoreWork no work.
LEMMA WorkerHeads ==
  ASSUME Inv, NEW w \in Worker
  PROVE  /\ wpc[w] \in {"fresh", "work"} /\ toWorker[w] # <<>> =>
              Load(Head(toWorker[w])) = {}
         /\ wpc[w] \notin {"fresh", "work"} => roots[w] = {} /\ nodes[w] = {}
<1>1. ASSUME wpc[w] \in {"fresh", "work"}, toWorker[w] # <<>>
      PROVE  Load(Head(toWorker[w])) = {}
  <2>1. Head(toWorker[w]) = toWorker[w][1] /\ 1 \in 1..Len(toWorker[w])
    <3>1. toWorker[w] \in Seq(Message)
      BY Channels
    <3>2. QED
      BY <3>1, <1>1
  <2>2. Head(toWorker[w]) = StealRequest
    BY <1>1, <2>1, ExpectedFromInv DEF MessagesExpected
  <2>3. QED
    BY <2>2, LoadFacts
<1>2. QED
  BY <1>1 DEF Inv, IdleInv

\* A worker receives work.
LEMMA ReceiveMoves ==
  ASSUME Inv, NEW w \in Worker, NEW type \in {"RANGE_RESPONSE", "STEAL_RESPONSE"},
         Receive(w, type),
         roots'[w] \cup nodes'[w] = Head(toWorker[w]).work,
         \A v \in Worker \ {w} : roots'[v] = roots[v] /\ nodes'[v] = nodes[v],
         toMaster' = toMaster, nextRangeStart' = nextRangeStart,
         reported' = reported
  PROVE  \E S : Moved(Down(w), Mine(w), S)
<1> DEFINE S == Load(Head(toWorker[w]))
<1>1. /\ toWorker[w] # <<>> /\ toWorker' = Pop(toWorker, w)
      /\ roots'[w] \cup nodes'[w] = S /\ roots[w] = {} /\ nodes[w] = {}
  BY WorkerHeads DEF Receive, Load
<1>2. /\ Carried(toWorker[w]) = S \cup Carried(toWorker'[w])
      /\ Carried(toWorker'[w]) = {}
  BY <1>1, Channels, CarriedPop, OnlyFirstCarries
<1> HIDE DEF S
<1>3. \A v \in Worker \ {w} : toWorker'[v] = toWorker[v]
  BY <1>1, Channels DEF Pop
<1>4. \A r \in Place \ {Down(w), Mine(w)} : Held(r)' = Held(r)
  <2>1. {Down(w), Mine(w)} \in SUBSET Place
    BY PlacesApart
  <2>2. \A v \in Worker :
          /\ Mine(v) \notin {Down(w), Mine(w)} =>
               roots'[v] = roots[v] /\ nodes'[v] = nodes[v]
          /\ Down(v) \notin {Down(w), Mine(w)} => toWorker'[v] = toWorker[v]
    BY <1>3
  <2>3. QED
    BY <2>1, <2>2, HeldElsewhere
<1>5. /\ Held(Down(w)) = S /\ Held(Down(w))' = {}
      /\ Held(Mine(w)) = {} /\ Held(Mine(w))' = S
  BY <1>1, <1>2, HeldAt, HeldAtNext
<1>6. QED
  BY <1>4, <1>5, PlacesApart DEF Moved

\* A worker sends work.
LEMMA ServeMoves ==
  ASSUME Inv, NEW w \in Worker, NEW S \in SUBSET (roots[w] \cup nodes[w]),
         Serve(w, S),
         roots'[w] \cup nodes'[w] = (roots[w] \cup nodes[w]) \ S,
         \A v \in Worker \ {w} : roots'[v] = roots[v] /\ nodes'[v] = nodes[v],
         nextRangeStart' = nextRangeStart, reported' = reported
  PROVE  Moved(Mine(w), Up(w), S)
<1>1. /\ toWorker[w] # <<>> /\ toWorker' = Pop(toWorker, w)
      /\ toMaster' = Send(toMaster, w, Stolen(S))
      /\ Load(Head(toWorker[w])) = {}
  BY WorkerHeads DEF Serve
<1>2. Stolen(S) \in Message /\ Load(Stolen(S)) = S
  <2>1. S \in SUBSET Frame
    BY Channels, Constants DEF TypeOK
  <2>2. QED
    BY <2>1, MessageTypes, LoadFacts
<1>3. \A v \in Worker : Carried(toWorker'[v]) = Carried(toWorker[v])
  BY <1>1, Channels, PopNothing
<1>4. Carried(toMaster'[w]) = Carried(toMaster[w]) \cup S
  <2>1. toMaster \in [Worker -> Seq(Message)]
    BY Channels
  <2>2. Carried(Send(toMaster, w, Stolen(S))[w])
          = Carried(toMaster[w]) \cup Load(Stolen(S))
    BY <1>2, <2>1, CarriedSend
  <2>3. QED
    BY <1>1, <1>2, <2>2
<1>5. \A v \in Worker \ {w} : toMaster'[v] = toMaster[v]
  BY <1>1, Channels DEF Send
<1>6. \A r \in Place \ {Mine(w), Up(w)} : Held(r)' = Held(r)
  <2>1. {Mine(w), Up(w)} \in SUBSET Place
    BY PlacesApart
  <2>2. \A v \in Worker :
          /\ Mine(v) \notin {Mine(w), Up(w)} =>
               roots'[v] = roots[v] /\ nodes'[v] = nodes[v]
          /\ Up(v) \notin {Mine(w), Up(w)} => toMaster'[v] = toMaster[v]
    BY <1>5
  <2>3. QED
    BY <1>3, <2>1, <2>2, HeldElsewhere
<1>7. /\ S \subseteq Held(Mine(w)) /\ Held(Mine(w))' = Held(Mine(w)) \ S
      /\ Held(Up(w))' = Held(Up(w)) \cup S
  BY <1>4, HeldAt, HeldAtNext
<1>8. QED
  BY <1>6, <1>7, PlacesApart DEF Moved

\* What the master does besides.
LEMMA MasterStill ==
  ASSUME Inv,
         \/ \E w \in Worker : BeginSteal(w)
         \/ AskVictim \/ VictimIsIdle \/ Broadcast
  PROVE  StillHeld
<1>1. /\ roots' = roots /\ nodes' = nodes /\ reported' = reported
      /\ nextRangeStart' = nextRangeStart
  BY DEF BeginSteal, AskVictim, VictimIsIdle, Broadcast, workerVars
<1>2. ASSUME NEW w \in Worker, toMaster[w] # <<>>, toMaster' = Pop(toMaster, w),
             Head(toMaster[w]).type = "RANGE_REQUEST"
      PROVE  \A v \in Worker : Carried(toMaster'[v]) = Carried(toMaster[v])
  <2>1. Load(Head(toMaster[w])) = {}
    BY <1>2 DEF Load
  <2>2. QED
    BY <1>2, <2>1, Channels, PopNothing
<1>3. \A v \in Worker : Carried(toMaster'[v]) = Carried(toMaster[v])
  <2>1. ASSUME NEW w \in Worker, BeginSteal(w)
        PROVE  \A v \in Worker : Carried(toMaster'[v]) = Carried(toMaster[v])
    <3>1. /\ toMaster[w] # <<>> /\ toMaster' = Pop(toMaster, w)
          /\ mpc = "recv"
      BY <2>1 DEF BeginSteal, ReceiveRequest
    <3>2. Head(toMaster[w]).type = "RANGE_REQUEST"
      BY <3>1, Channels, PopFacts, ExpectedFromInv DEF MessagesExpected
    <3>3. QED
      BY <3>1, <3>2, <1>2
  <2>2. CASE VictimIsIdle
    BY <2>2, <1>2, VictimAnswersType, Channels DEF VictimIsIdle
  <2>3. CASE AskVictim \/ Broadcast
    BY <2>3 DEF AskVictim, Broadcast
  <2>4. QED
    BY <2>1, <2>2, <2>3
<1>4. \A v \in Worker : Carried(toWorker'[v]) = Carried(toWorker[v])
  <2>1. CASE AskVictim
    <3>1. PICK w \in Worker : w = lastStealVictim'
      BY <2>1, VictimType, Channels DEF AskVictim
    <3>2. StealRequest \in Message /\ Load(StealRequest) = {}
      BY MessageTypes, LoadFacts
    <3>3. toWorker' = Send(toWorker, w, StealRequest)
      BY <2>1, <3>1 DEF AskVictim
    <3>4. QED
      BY <3>2, <3>3, Channels, SendNothing
  <2>2. CASE Broadcast
    <3>1. TAKE v \in Worker
    <3>2. toWorker'[v] = Send(toWorker, v, Termination)[v]
      BY <2>2, Channels DEF Broadcast, Send
    <3>3. Termination \in Message /\ Load(Termination) = {}
      BY MessageTypes, LoadFacts
    <3>4. toWorker \in [Worker -> Seq(Message)]
      BY Channels
    <3>5. Carried(Send(toWorker, v, Termination)[v]) = Carried(toWorker[v])
      BY <3>3, <3>4, SendNothing
    <3>6. QED
      BY <3>2, <3>5
  <2>3. CASE toWorker' = toWorker
    BY <2>3
  <2>4. QED
    BY <2>1, <2>2, <2>3 DEF BeginSteal, VictimIsIdle
<1>5. \A r \in Place \ {} : Held(r)' = Held(r)
  BY <1>1, <1>3, <1>4, HeldElsewhere
<1>6. QED
  BY <1>1, <1>5 DEF StillHeld

LEMMA WorkerStill ==
  ASSUME Inv, NEW w \in Worker,
         RequestFirst(w) \/ RequestMore(w) \/ DropSteal(w) \/ ReceiveTermination(w)
  PROVE  StillHeld
<1>1. /\ roots' = roots /\ nodes' = nodes /\ reported' = reported
      /\ nextRangeStart' = nextRangeStart
  BY DEF RequestFirst, RequestMore, Request, DropSteal, ReceiveTermination,
         workerVars, masterVars
<1>2. \A v \in Worker : Carried(toMaster'[v]) = Carried(toMaster[v])
  <2>1. \/ toMaster' = toMaster
        \/ \E n \in Nat : toMaster' = Send(toMaster, w, RangeRequest(n))
    BY DEF RequestFirst, RequestMore, Request, DropSteal, ReceiveTermination,
           Inv, TypeOK
  <2>2. ASSUME NEW n \in Nat, toMaster' = Send(toMaster, w, RangeRequest(n))
        PROVE  \A v \in Worker : Carried(toMaster'[v]) = Carried(toMaster[v])
    <3>1. RangeRequest(n) \in Message /\ Load(RangeRequest(n)) = {}
      BY MessageTypes, LoadFacts
    <3>2. QED
      BY <2>2, <3>1, Channels, SendNothing
  <2>3. QED
    BY <2>1, <2>2
<1>3. \A v \in Worker : Carried(toWorker'[v]) = Carried(toWorker[v])
  <2>1. \/ toWorker' = toWorker
        \/ /\ toWorker[w] # <<>> /\ toWorker' = Pop(toWorker, w)
           /\ Head(toWorker[w]).type \in {"STEAL_REQUEST", "TERMINATION"}
    BY DEF RequestFirst, RequestMore, Request, DropSteal, ReceiveTermination,
           Receive
  <2>2. QED
    BY <2>1, Channels, PopNothing DEF Load
<1>4. \A r \in Place \ {} : Held(r)' = Held(r)
  BY <1>1, <1>2, <1>3, HeldElsewhere
<1>5. QED
  BY <1>1, <1>4 DEF StillHeld

LEMMA LostFirst ==
  ASSUME Inv, NEW w \in Worker, ReceiveStolen(w), wpc[w] = "first"
  PROVE  Lost
<1>1. /\ toWorker[w] # <<>> /\ toWorker' = Pop(toWorker, w)
      /\ roots' = roots /\ nodes' = nodes /\ reported' = reported
      /\ toMaster' = toMaster /\ nextRangeStart' = nextRangeStart
      /\ wpc' = [wpc EXCEPT ![w] = "undefined"]
  BY DEF ReceiveStolen, Receive, UnlessFirst, masterVars
<1>2. SomeUndefined'
  BY <1>1, Channels DEF SomeUndefined, TypeOK
<1>3. \A v \in Worker \ {w} : toWorker'[v] = toWorker[v]
  BY <1>1, Channels DEF Pop
<1>4. \A r \in Place \ {Down(w)} : Held(r)' = Held(r)
  BY <1>1, <1>3, PlacesApart, HeldElsewhere
<1>5. Held(Down(w))' \subseteq Held(Down(w))
  <2>1. Carried(toWorker'[w]) \subseteq Carried(toWorker[w])
    BY <1>1, Channels, CarriedPop, ZenonT(30)
  <2>2. QED
    BY <2>1, HeldAt, HeldAtNext
<1>6. QED
  BY <1>1, <1>2, <1>4, <1>5 DEF Lost

LEMMA EnumerateExpands ==
  ASSUME Inv, NEW w \in Worker, Enumerate(w)
  PROVE  \E f \in Frame : Expanded(w, f)
<1>1. PICK f \in roots[w] \cup nodes[w] :
        /\ roots' = [roots EXCEPT ![w] = @ \ {f}]
        /\ nodes' = [nodes EXCEPT ![w] = (@ \ {f}) \cup Kids[f]]
        /\ reported' = reported \cup Kids[f]
  BY DEF Enumerate
<1>2. /\ toMaster' = toMaster /\ toWorker' = toWorker
      /\ nextRangeStart' = nextRangeStart
  BY DEF Enumerate, masterVars
<1>3. f \in Frame
  BY Channels, Constants DEF TypeOK
<1>4. roots'[w] \cup nodes'[w] = ((roots[w] \cup nodes[w]) \ {f}) \cup Kids[f]
  BY <1>1, Channels DEF TypeOK
<1>5. \A v \in Worker \ {w} : roots'[v] = roots[v] /\ nodes'[v] = nodes[v]
  BY <1>1, Channels DEF TypeOK
<1>6. \A r \in Place \ {Mine(w)} : Held(r)' = Held(r)
  BY <1>2, <1>5, PlacesApart, HeldElsewhere
<1>7. /\ f \in Held(Mine(w))
      /\ Held(Mine(w))' = (Held(Mine(w)) \ {f}) \cup Kids[f]
  BY <1>4, HeldAt, HeldAtNext
<1>8. QED
  BY <1>1, <1>3, <1>6, <1>7 DEF Expanded

LEMMA WorkerMoves ==
  ASSUME Inv, NEW w \in Worker,
         \/ ReceiveRange(w)
         \/ ReceiveStolen(w) /\ wpc[w] # "first"
         \/ GiveRoots(w)
         \/ GiveNode(w)
  PROVE  \E p, q, S : Moved(p, q, S)
<1> USE DEF TypeOK
<1>1. CASE ReceiveRange(w)
  <2>1. Receive(w, "RANGE_RESPONSE") /\ toMaster' = toMaster
        /\ nextRangeStart' = nextRangeStart /\ reported' = reported
    BY <1>1 DEF ReceiveRange, masterVars
  <2>2. nodes[w] = {}
    BY <2>1, WorkerHeads DEF Receive
  <2>3. /\ roots'[w] \cup nodes'[w] = Head(toWorker[w]).work
        /\ \A v \in Worker \ {w} : roots'[v] = roots[v] /\ nodes'[v] = nodes[v]
    BY <1>1, <2>2, Channels DEF ReceiveRange
  <2>4. QED
    BY <2>1, <2>3, ReceiveMoves
<1>2. CASE ReceiveStolen(w) /\ wpc[w] # "first"
  <2>1. Receive(w, "STEAL_RESPONSE") /\ toMaster' = toMaster
        /\ nextRangeStart' = nextRangeStart /\ reported' = reported
    BY <1>2 DEF ReceiveStolen, masterVars
  <2>2. PICK W \in SUBSET Frame : W = Head(toWorker[w]).work
    <3>1. Head(toWorker[w]) \in Message
          /\ Head(toWorker[w]).type = "STEAL_RESPONSE"
      BY <2>1, ReceiveType, Channels
    <3>2. QED
      BY <3>1, MessageTypes
  <2>3. /\ roots' = [roots EXCEPT ![w] = W \cap RootId]
        /\ nodes' = [nodes EXCEPT ![w] = W \cap Node]
    BY <1>2, <2>2 DEF ReceiveStolen
  <2>4. W = (W \cap RootId) \cup (W \cap Node)
    BY DEF Frame
  <2>5. /\ roots'[w] \cup nodes'[w] = W
        /\ \A v \in Worker \ {w} : roots'[v] = roots[v] /\ nodes'[v] = nodes[v]
    BY <2>3, <2>4, Channels
  <2>6. QED
    BY <2>1, <2>2, <2>5, ReceiveMoves
<1>3. CASE GiveRoots(w)
  <2>1. PICK S \in SUBSET roots[w] :
          Serve(w, S) /\ roots' = [roots EXCEPT ![w] = @ \ S]
    BY <1>3 DEF GiveRoots
  <2>2. nodes' = nodes /\ reported' = reported
        /\ nextRangeStart' = nextRangeStart
    BY <1>3 DEF GiveRoots, masterVars
  <2>3. S \cap nodes[w] = {}
    BY Channels, ForestAssumption
  <2>4. /\ roots'[w] \cup nodes'[w] = (roots[w] \cup nodes[w]) \ S
        /\ \A v \in Worker \ {w} : roots'[v] = roots[v] /\ nodes'[v] = nodes[v]
    BY <2>1, <2>2, <2>3, Channels
  <2>5. S \in SUBSET (roots[w] \cup nodes[w])
    OBVIOUS
  <2>6. QED
    BY <2>1, <2>2, <2>4, <2>5, ServeMoves
<1>4. CASE GiveNode(w)
  <2>1. PICK x \in nodes[w] :
          Serve(w, {x}) /\ nodes' = [nodes EXCEPT ![w] = @ \ {x}]
    BY <1>4 DEF GiveNode
  <2>2. roots' = roots /\ reported' = reported /\ roots[w] = {}
        /\ nextRangeStart' = nextRangeStart
    BY <1>4 DEF GiveNode, masterVars
  <2>3. /\ roots'[w] \cup nodes'[w] = (roots[w] \cup nodes[w]) \ {x}
        /\ \A v \in Worker \ {w} : roots'[v] = roots[v] /\ nodes'[v] = nodes[v]
    BY <2>1, <2>2, Channels
  <2>4. {x} \in SUBSET (roots[w] \cup nodes[w])
    OBVIOUS
  <2>5. QED
    BY <2>1, <2>2, <2>3, <2>4, ServeMoves
<1>5. QED
  BY <1>1, <1>2, <1>3, <1>4

\* Each step moves some frames, loses some, or calls one.
LEMMA StepMoves ==
  ASSUME Inv, [Next]_vars
  PROVE  \/ StillHeld
         \/ Lost
         \/ \E p, q, S : Moved(p, q, S)
         \/ \E w \in Worker : \E f \in Frame : Enumerate(w) /\ Expanded(w, f)
<1>1. CASE UNCHANGED vars
  <2>1. \A r \in Place \ {} : Held(r)' = Held(r)
    BY <1>1, HeldElsewhere DEF vars, masterVars, workerVars
  <2>2. QED
    BY <1>1, <2>1 DEF StillHeld, vars, workerVars
<1>2. CASE Master
  BY <1>2, GiveRangeMoves, ForwardMoves, MasterStill DEF Master
<1>3. ASSUME NEW w \in Worker, WorkerStep(w)
      PROVE  \/ StillHeld
             \/ Lost
             \/ \E p, q, S : Moved(p, q, S)
             \/ \E f \in Frame : Enumerate(w) /\ Expanded(w, f)
  <2>1. CASE RequestFirst(w) \/ RequestMore(w) \/ DropSteal(w)
               \/ ReceiveTermination(w)
    BY <2>1, WorkerStill
  <2>2. CASE ReceiveStolen(w) /\ wpc[w] = "first"
    BY <2>2, LostFirst
  <2>3. CASE \/ ReceiveRange(w)
             \/ ReceiveStolen(w) /\ wpc[w] # "first"
             \/ GiveRoots(w)
             \/ GiveNode(w)
    BY <2>3, WorkerMoves
  <2>4. CASE Enumerate(w)
    BY <2>4, EnumerateExpands
  <2>5. QED
    BY <1>3, <2>1, <2>2, <2>3, <2>4 DEF WorkerStep
<1>4. QED
  BY <1>1, <1>2, <1>3 DEF Next

LEMMA UndefinedStays ==
  ASSUME Inv, [Next]_vars, SomeUndefined
  PROVE  SomeUndefined'
<1>1. PICK v \in Worker : wpc[v] = "undefined"
  BY DEF SomeUndefined
<1>2. wpc'[v] = "undefined"
  <2>1. CASE UNCHANGED vars
    BY <1>1, <2>1 DEF vars, workerVars
  <2>2. CASE Master
    BY <1>1, <2>2 DEF Master, GiveRange, BeginSteal, AskVictim, Forward,
                      VictimIsIdle, Broadcast, workerVars
  <2>3. ASSUME NEW w \in Worker, WorkerStep(w) PROVE wpc'[v] = "undefined"
    <3>1. wpc[w] # "undefined" \/ wpc' = wpc
      BY <2>3 DEF WorkerStep, RequestFirst, RequestMore, DropSteal, Receive,
        ReceiveRange, ReceiveStolen, ReceiveTermination, Enumerate, GiveRoots,
        GiveNode
    <3>2. QED
      BY <1>1, <2>3, <3>1, WorkerIsLocal, Channels
  <2>4. QED
    BY <2>1, <2>2, <2>3 DEF Next
<1>3. QED
  BY <1>2 DEF SomeUndefined
-----------------------------------------------------------------------
(* Nothing is done twice, nothing is left out                              *)

LEMMA ReachableStep ==
  ASSUME NEW f \in RootId \cup Reachable
  PROVE  Kids[f] \subseteq Reachable
<1>1. f \in Frame /\ Kids[f] \subseteq Node
  BY Constants DEF Reachable
<1>2. ASSUME NEW x \in Kids[f], NEW S \in SUBSET Node, Closed(S)
      PROVE  x \in S
  BY <1>2 DEF Closed, Reachable
<1>3. QED
  BY <1>1, <1>2 DEF Reachable

LEMMA StillWork ==
  ASSUME WorkInv, StillHeld, SomeUndefined => SomeUndefined'
  PROVE  WorkInv'
<1>1. HeldOnce'
  BY DEF WorkInv, HeldOnce, StillHeld
<1>2. Fresh' /\ Sound'
  BY DEF WorkInv, Fresh, Sound, StillHeld
<1>3. Complete'
  BY DEF WorkInv, Complete, StillHeld
<1>4. QED
  BY <1>1, <1>2, <1>3 DEF WorkInv

LEMMA LostWork ==
  ASSUME WorkInv, Lost
  PROVE  WorkInv'
<1>1. HeldOnce'
  <2>1. ASSUME NEW p \in Place, NEW q \in Place, p # q
        PROVE  Held(p)' \cap Held(q)' = {}
    <3>1. Held(p)' \subseteq Held(p) /\ Held(q)' \subseteq Held(q)
      BY DEF Lost
    <3>2. QED
      BY <2>1, <3>1 DEF WorkInv, HeldOnce
  <2>2. QED
    BY <2>1 DEF HeldOnce
<1>2. Fresh' /\ Sound'
  BY DEF WorkInv, Fresh, Sound, Lost
<1>3. Complete'
  BY DEF Complete, Lost
<1>4. QED
  BY <1>1, <1>2, <1>3 DEF WorkInv

LEMMA MovedWork ==
  ASSUME WorkInv, NEW p, NEW q, NEW S, Moved(p, q, S),
         SomeUndefined => SomeUndefined'
  PROVE  WorkInv'
<1>1. /\ p \in Place /\ q \in Place /\ p # q /\ S \subseteq Held(p)
      /\ Held(p)' = Held(p) \ S /\ Held(q)' = Held(q) \cup S
      /\ \A r \in Place \ {p, q} : Held(r)' = Held(r)
      /\ reported' = reported
  BY DEF Moved
<1>2. HeldOnce /\ Fresh /\ Sound /\ Complete
  BY DEF WorkInv
<1>3. HeldOnce'
  <2>1. \A r \in Place \ {q} : Held(r)' \subseteq Held(r) /\ Held(r)' \cap S = {}
    <3>1. TAKE r \in Place \ {q}
    <3>2. CASE r = p
      BY <1>1, <3>2
    <3>3. CASE r # p
      <4>1. Held(r)' = Held(r) /\ Held(r) \cap Held(p) = {}
        BY <1>1, <1>2, <3>3 DEF HeldOnce
      <4>2. QED
        BY <4>1, <1>1
    <3>4. QED
      BY <3>2, <3>3
  <2>2. \A r \in Place \ {q} : Held(r)' \cap Held(q)' = {}
    <3>1. TAKE r \in Place \ {q}
    <3>2. Held(r) \cap Held(q) = {}
      BY <1>1, <1>2 DEF HeldOnce
    <3>3. QED
      BY <1>1, <2>1, <3>2
  <2>3. \A r, t \in Place \ {q} : r # t => Held(r)' \cap Held(t)' = {}
    <3>1. TAKE r, t \in Place \ {q}
    <3>2. r # t => Held(r) \cap Held(t) = {}
      BY <1>2 DEF HeldOnce
    <3>3. QED
      BY <2>1, <3>2
  <2>4. QED
    BY <2>2, <2>3 DEF HeldOnce
<1>4. \A r \in Place : Held(r)' \subseteq Held(r) \cup Held(p)
  <2>1. TAKE r \in Place
  <2>2. CASE r \in {p, q}
    BY <1>1, <2>2
  <2>3. CASE r \notin {p, q}
    BY <1>1, <2>3
  <2>4. QED
    BY <2>2, <2>3
<1>5. Fresh' /\ Sound'
  BY <1>1, <1>2, <1>4 DEF Fresh, Sound
<1>6. \A r \in Place : Held(r) \subseteq Held(r)' \cup Held(q)'
  <2>1. TAKE r \in Place
  <2>2. CASE r \in {p, q}
    BY <1>1, <2>2
  <2>3. CASE r \notin {p, q}
    BY <1>1, <2>3
  <2>4. QED
    BY <2>2, <2>3
<1>7. Complete'
  <2>1. CASE SomeUndefined
    BY <2>1 DEF Complete
  <2>2. CASE ~ SomeUndefined
    <3>1. ASSUME NEW f \in RootId \cup reported,
                 ~ (Kids[f] \subseteq reported)
          PROVE  \E r \in Place : f \in Held(r)'
      <4>1. PICK r \in Place : f \in Held(r)
        BY <1>2, <2>2, <3>1 DEF Complete
      <4>2. QED
        BY <4>1, <1>1, <1>6
    <3>2. QED
      BY <3>1, <1>1 DEF Complete
  <2>3. QED
    BY <2>1, <2>2
<1>8. QED
  BY <1>3, <1>5, <1>7 DEF WorkInv

LEMMA ExpandedWork ==
  ASSUME TypeOK, WorkInv, NEW w \in Worker, NEW f \in Frame, Expanded(w, f),
         SomeUndefined => SomeUndefined'
  PROVE  WorkInv' /\ Kids[f] \subseteq Reachable \ reported
<1> DEFINE p == Mine(w)
<1>1. /\ p \in Place /\ f \in Held(p)
      /\ Held(p)' = (Held(p) \ {f}) \cup Kids[f]
      /\ \A r \in Place \ {p} : Held(r)' = Held(r)
      /\ reported' = reported \cup Kids[f]
  BY PlacesApart DEF Expanded
<1> HIDE DEF p
<1>2. HeldOnce /\ Fresh /\ Sound /\ Complete
  BY DEF WorkInv
<1>3. f \in RootId \cup reported /\ Kids[f] \cap reported = {}
  BY <1>1, <1>2 DEF Fresh
<1>4. /\ Kids[f] \subseteq Node /\ f \notin Kids[f]
      /\ RootId \cap Node = {} /\ reported \subseteq Node
      /\ \A g \in Frame : g # f => Kids[g] \cap Kids[f] = {}
  <2>1. f \notin Kids[f]
    <3>1. \E g \in {f} : \A h \in {f} : g \notin Kids[h]
      <4>1. {f} \in SUBSET Frame /\ {f} # {}
        OBVIOUS
      <4>2. QED
        BY <4>1, ForestAssumption
    <3>2. QED
      BY <3>1
  <2>2. QED
    BY <2>1, Constants, ForestAssumption DEF TypeOK
<1>5. \A r \in Place : Held(r) \cap Kids[f] = {}
  BY <1>2, <1>3, <1>4 DEF Fresh
<1>6. \A r \in Place \ {p} : Held(r) \cap Held(p) = {}
  BY <1>1, <1>2 DEF HeldOnce
<1>7. HeldOnce'
  <2>1. \A r \in Place \ {p} : Held(r)' \cap Held(p)' = {}
    <3>1. TAKE r \in Place \ {p}
    <3>2. Held(r)' = Held(r) /\ Held(r) \cap Kids[f] = {}
          /\ Held(r) \cap Held(p) = {}
      BY <1>1, <1>5, <1>6
    <3>3. QED
      BY <3>2, <1>1
  <2>2. \A r, t \in Place \ {p} : r # t => Held(r)' \cap Held(t)' = {}
    BY <1>1, <1>2 DEF HeldOnce
  <2>3. QED
    BY <2>1, <2>2 DEF HeldOnce
<1>8. ASSUME NEW r \in Place, NEW g \in Held(r)'
      PROVE  /\ g \in RootId \cup reported'
             /\ Kids[g] \cap reported' = {}
  <2>1. CASE g \in Kids[f]
    <3>1. g \in Node \ reported /\ g # f /\ g \in Frame
      BY <2>1, <1>3, <1>4, Constants
    <3>2. Kids[g] \cap reported = {} /\ Kids[g] \cap Kids[f] = {}
      BY <3>1, <1>2, <1>4 DEF Fresh
    <3>3. QED
      BY <2>1, <3>2, <1>1
  <2>2. CASE g \notin Kids[f]
    <3>1. g \in Held(r) /\ g # f
      <4>1. CASE r = p
        BY <4>1, <2>2, <1>1
      <4>2. CASE r # p
        BY <4>2, <1>1, <1>6
      <4>3. QED
        BY <4>1, <4>2
    <3>2. g \in RootId \cup reported /\ Kids[g] \cap reported = {}
      BY <3>1, <1>2 DEF Fresh
    <3>3. g \in Frame
      BY <3>2, <1>4, Constants
    <3>4. QED
      BY <3>1, <3>2, <3>3, <1>1, <1>4
  <2>3. QED
    BY <2>1, <2>2
<1>9. ASSUME NEW x \in Node \ reported' PROVE Kids[x] \cap reported' = {}
  <2>1. x \in Node \ reported /\ x # f /\ x \in Frame
    BY <1>1, <1>3, <1>4, Constants
  <2>2. Kids[x] \cap reported = {} /\ Kids[x] \cap Kids[f] = {}
    BY <2>1, <1>2, <1>4 DEF Fresh
  <2>3. QED
    BY <2>2, <1>1
<1>10. Fresh'
  BY <1>8, <1>9 DEF Fresh
<1>11. Kids[f] \subseteq Reachable \ reported
  <2>1. f \in RootId \cup Reachable
    BY <1>2, <1>3 DEF Sound
  <2>2. QED
    BY <2>1, <1>3, ReachableStep
<1>12. Sound'
  BY <1>1, <1>2, <1>11 DEF Sound
<1>13. Complete'
  <2>1. CASE SomeUndefined
    BY <2>1 DEF Complete
  <2>2. CASE ~ SomeUndefined
    <3>1. ASSUME NEW g \in RootId \cup reported', g # f,
                 ~ (Kids[g] \subseteq reported')
          PROVE  \E r \in Place : g \in Held(r)'
      <4>1. CASE g \in Kids[f]
        BY <4>1, <1>1
      <4>2. CASE g \notin Kids[f]
        <5>1. PICK r \in Place : g \in Held(r)
          BY <1>1, <1>2, <2>2, <3>1, <4>2 DEF Complete
        <5>2. g \in Held(r)'
          <6>1. CASE r = p
            BY <5>1, <6>1, <3>1, <1>1
          <6>2. CASE r # p
            BY <5>1, <6>2, <1>1
          <6>3. QED
            BY <6>1, <6>2
        <5>3. QED
          BY <5>2
      <4>3. QED
        BY <4>1, <4>2
    <3>2. Kids[f] \subseteq reported'
      BY <1>1
    <3>3. QED
      BY <3>1, <3>2 DEF Complete
  <2>3. QED
    BY <2>1, <2>2
<1>14. QED
  BY <1>7, <1>10, <1>11, <1>12, <1>13 DEF WorkInv

LEMMA InitWork == Init => WorkInv
<1> SUFFICES ASSUME Init PROVE WorkInv
  OBVIOUS
<1>1. TypeOK /\ reported = {} /\ nextRangeStart = MaxRoots
  BY InitInv DEF Init, Inv
<1>2. Held(Left) = RootId
  BY <1>1, HeldAt, Constants
<1>3. \A w \in Worker : /\ Held(Mine(w)) = {} /\ Held(Up(w)) = {}
                        /\ Held(Down(w)) = {}
  <2>1. Carried(<<>>) = {}
    <3>1. <<>> \in Seq(Message) /\ \A i \in 1..Len(<<>>) : FALSE
      OBVIOUS
    <3>2. QED
      BY <3>1, NothingCarried
  <2>2. QED
    BY <2>1, HeldAt DEF Init
<1>4. ASSUME NEW p \in Place PROVE p = Left \/ Held(p) = {}
  BY <1>3, PlaceCases
<1>5. HeldOnce
  BY <1>4 DEF HeldOnce
<1>6. Fresh /\ Sound
  BY <1>1, <1>2, <1>4 DEF Fresh, Sound
<1>7. Complete
  BY <1>1, <1>2, PlacesApart DEF Complete
<1>8. QED
  BY <1>5, <1>6, <1>7 DEF WorkInv

LEMMA WorkStep == Inv /\ WorkInv /\ [Next]_vars => WorkInv'
<1> SUFFICES ASSUME Inv, WorkInv, [Next]_vars PROVE WorkInv'
  OBVIOUS
<1>1. SomeUndefined => SomeUndefined'
  BY UndefinedStays
<1>2. CASE StillHeld
  BY <1>1, <1>2, StillWork
<1>3. CASE Lost
  BY <1>3, LostWork
<1>4. ASSUME NEW p, NEW q, NEW S, Moved(p, q, S) PROVE WorkInv'
  BY <1>1, <1>4, MovedWork
<1>5. ASSUME NEW w \in Worker, NEW f \in Frame, Expanded(w, f) PROVE WorkInv'
  BY <1>1, <1>5, ExpandedWork, Channels
<1>6. QED
  BY <1>2, <1>3, <1>4, <1>5, StepMoves

LEMMA WorkHolds == Spec => [](Inv /\ WorkInv)
<1>1. QED
  BY InitInv, InvStep, InitWork, WorkStep, PTL DEF Spec

\* A root or a node is with one worker, or on its way to or from one worker,
\* at most: no frame is enumerated twice.
THEOREM FramesAreHeldOnce == Spec => []WorkUnique
<1>1. ASSUME WorkInv PROVE WorkUnique
  <2>1. ASSUME NEW v \in Worker, NEW w \in Worker
        PROVE  /\ v # w => (roots[v] \cup nodes[v])
                             \cap (roots[w] \cup nodes[w]) = {}
               /\ (roots[v] \cup nodes[v]) \cap Carried(toMaster[w]) = {}
               /\ (roots[v] \cup nodes[v]) \cap Carried(toWorker[w]) = {}
               /\ Carried(toMaster[v]) \cap Carried(toWorker[w]) = {}
    <3>1. /\ v # w => Held(Mine(v)) \cap Held(Mine(w)) = {}
          /\ Held(Mine(v)) \cap Held(Up(w)) = {}
          /\ Held(Mine(v)) \cap Held(Down(w)) = {}
          /\ Held(Up(v)) \cap Held(Down(w)) = {}
      BY <1>1, PlacesApart DEF WorkInv, HeldOnce
    <3>2. QED
      BY <3>1, HeldAt
  <2>2. QED
    BY <2>1 DEF WorkUnique
<1>2. WorkInv => WorkUnique
  BY <1>1
<1>3. QED
  BY <1>2, WorkHolds, PTL

\* When Run has returned in every process everything was called back.
LEMMA FinishedComplete ==
  ASSUME Inv, WorkInv, Finished
  PROVE  reported = Reachable
<1>1. /\ mpc = "done" /\ \A w \in Worker : wpc[w] = "done"
      /\ ~ SomeUndefined
  BY DEF Finished, SomeUndefined
<1>2. ExchangeInv
  BY <1>1 DEF Inv, Barren
<1>3. /\ nextRangeStart = 0
      /\ \A w \in Worker : Over(w) /\ roots[w] = {} /\ nodes[w] = {}
  BY <1>1, <1>2 DEF ExchangeInv, MasterInv, IdleInv
<1>4. ASSUME NEW w \in Worker
      PROVE  Carried(toMaster[w]) = {} /\ Carried(toWorker[w]) = {}
  <2>1. toMaster[w] \in Seq(Message) /\ toWorker[w] \in Seq(Message)
    BY Channels
  <2>2. QED
    BY <2>1, <1>3, NothingCarried DEF Over
<1>5. \A p \in Place : Held(p) = {}
  <2>1. Held(Left) = {}
    BY <1>3, HeldAt
  <2>2. \A w \in Worker : /\ Held(Mine(w)) = {} /\ Held(Up(w)) = {}
                          /\ Held(Down(w)) = {}
    BY <1>3, <1>4, HeldAt
  <2>3. QED
    BY <2>1, <2>2, PlaceCases
<1>6. Closed(reported)
  BY <1>1, <1>5 DEF WorkInv, Complete, Closed
<1>7. Reachable \subseteq reported
  BY <1>6, Channels DEF Reachable, TypeOK
<1>8. QED
  BY <1>7 DEF WorkInv, Sound

LEMMA FinishedIsLast ==
  ASSUME Inv, [Next]_vars, Finished
  PROVE  Finished' /\ reported' = reported
<1>1. ~ Next
  BY DEF Finished, Next, Master, GiveRange, BeginSteal, AskVictim, Forward,
    VictimIsIdle, Broadcast, ReceiveRequest, VictimAnswers, WorkerStep,
    RequestFirst, RequestMore, DropSteal, Receive, ReceiveRange,
    ReceiveStolen, ReceiveTermination, Enumerate, GiveRoots, GiveNode, Serve
<1>2. QED
  BY <1>1 DEF Finished, vars, masterVars, workerVars

LEMMA SameReachable == E!Reachable = Reachable
BY DEF E!Reachable, Reachable, E!Closed, Closed

LEMMA EnumerationStep ==
  ASSUME Inv, WorkInv, [Next]_vars, (Finished => reported = Reachable)'
  PROVE  [E!Next]_(E!vars)
<1>1. Finished \in BOOLEAN /\ Finished' \in BOOLEAN
  BY DEF Finished
<1>2. CASE Finished
  <2>1. Finished' /\ reported' = reported
    BY <1>2, FinishedIsLast
  <2>2. Finished' = Finished
    BY <1>1, <1>2, <2>1
  <2>3. QED
    BY <2>1, <2>2 DEF E!vars
<1>3. ASSUME ~ Finished, NEW w \in Worker, NEW f \in Frame, Enumerate(w),
             Expanded(w, f)
      PROVE  [E!Next]_(E!vars)
  <2>1. Kids[f] \subseteq Reachable \ reported
    BY <1>3, ExpandedWork, UndefinedStays, Channels
  <2>2. ~ Finished'
    BY <1>3, Channels DEF Enumerate, Finished, TypeOK
  <2>3. Finished' = Finished
    BY <1>1, <1>3, <2>2
  <2>4. reported' = reported \cup Kids[f]
    BY <1>3 DEF Expanded
  <2>5. CASE Kids[f] = {}
    <3>1. reported' = reported
      BY <2>4, <2>5
    <3>2. QED
      BY <2>3, <3>1 DEF E!vars
  <2>6. CASE Kids[f] # {}
    <3>1. E!Report
      BY <1>3, <2>1, <2>3, <2>4, <2>6, SameReachable DEF E!Report
    <3>2. QED
      BY <3>1 DEF E!Next
  <2>7. QED
    BY <2>5, <2>6
<1>4. CASE ~ Finished /\ reported' = reported
  <2>1. CASE ~ Finished'
    <3>1. Finished' = Finished
      BY <1>1, <1>4, <2>1
    <3>2. QED
      BY <1>4, <3>1 DEF E!vars
  <2>2. CASE Finished'
    <3>1. reported' = Reachable
      BY <2>2 DEF Reachable, Closed
    <3>2. Finished' = TRUE
      BY <1>1, <2>2
    <3>3. E!Finish
      BY <1>4, <3>1, <3>2, SameReachable DEF E!Finish
    <3>4. QED
      BY <3>3 DEF E!Next
  <2>3. QED
    BY <2>1, <2>2
<1>5. QED
  BY <1>2, <1>3, <1>4, StepMoves DEF StillHeld, Lost, Moved

\* The cluster, seen as the set of nodes reported and whether every process
\* has returned, only does what the abstract enumeration allows: each step
\* reports nodes below the roots that were not reported before, and the last
\* one comes when all of them were.
THEOREM ClusterEnumerates == Spec => Enumerates
<1>1. Init => E!Init
  <2> SUFFICES ASSUME Init PROVE E!Init
    OBVIOUS
  <2>1. Finished = FALSE
    BY DEF Init, Finished
  <2>2. QED
    BY <2>1 DEF Init, E!Init
<1>2. Inv /\ WorkInv => (Finished => reported = Reachable)
  BY FinishedComplete
<1>3. Inv /\ WorkInv /\ [Next]_vars /\ (Finished => reported = Reachable)'
        => [E!Next]_(E!vars)
  BY EnumerationStep
<1>4. QED
  BY <1>1, <1>2, <1>3, WorkHolds, PTL DEF Spec, Enumerates
-----------------------------------------------------------------------
(* Sums                                                                    *)

\* The pairs that SumOver counts: f[x] of them for x.
Units(f) == UNION {{x} \X (1..f[x]) : x \in DOMAIN f}

LEMMA UpTo ==
  ASSUME NEW n \in Nat
  PROVE  IsFiniteSet(1..n) /\ Cardinality(1..n) = n
<1>1. IsFiniteSet(1..n)
      /\ Cardinality(1..n) = IF 1 > n THEN 0 ELSE n - 1 + 1
  BY FS_Interval
<1>2. QED
  BY <1>1

LEMMA UnitIs ==
  ASSUME NEW f, NEW u
  PROVE  u \in Units(f) <=> \E x \in DOMAIN f : \E k \in 1..f[x] : u = <<x, k>>
BY DEF Units

LEMMA UnitsFinite ==
  ASSUME NEW S, IsFiniteSet(S), NEW f \in [S -> Nat]
  PROVE  IsFiniteSet(Units(f)) /\ SumOver(f) \in Nat
<1> DEFINE B == {{x} \X (1..f[x]) : x \in S}
           b == [x \in S |-> {x} \X (1..f[x])]
<1>1. b \in Surjection(S, B)
  BY DEF Surjection
<1>2. IsFiniteSet(B)
  BY <1>1, FS_Surjection
<1>3. ASSUME NEW T \in B PROVE IsFiniteSet(T)
  <2>1. PICK x \in S : T = {x} \X (1..f[x])
    OBVIOUS
  <2>2. f[x] \in Nat
    OBVIOUS
  <2>3. IsFiniteSet(1..f[x]) /\ IsFiniteSet({x})
    BY <2>2, UpTo, FS_Singleton
  <2>4. QED
    BY <2>1, <2>3, FS_Product
<1>4. IsFiniteSet(UNION B)
  BY <1>2, <1>3, FS_UNION
<1>5. Units(f) = UNION B
  BY DEF Units
<1>6. QED
  BY <1>4, <1>5, FS_CardinalityType DEF SumOver, Units

\* One term apart from the others.
LEMMA SumSplit ==
  ASSUME NEW S, IsFiniteSet(S), NEW f \in [S -> Nat], NEW x \in S
  PROVE  SumOver(f) = f[x] + SumOver([y \in S \ {x} |-> f[y]])
<1> DEFINE g == [y \in S \ {x} |-> f[y]]
           here == {x} \X (1..f[x])
<1>1. IsFiniteSet(S \ {x}) /\ g \in [S \ {x} -> Nat]
  BY FS_Difference
<1>2. IsFiniteSet(Units(g)) /\ SumOver(g) \in Nat
  BY <1>1, UnitsFinite
<1>3. f[x] \in Nat
  OBVIOUS
<1>4. IsFiniteSet(1..f[x]) /\ Cardinality(1..f[x]) = f[x]
      /\ IsFiniteSet({x}) /\ Cardinality({x}) = 1
  BY <1>3, UpTo, FS_Singleton
<1>5. IsFiniteSet(here) /\ Cardinality(here) = f[x]
  BY <1>3, <1>4, FS_Product
<1>6. here \cap Units(g) = {}
  BY UnitIs
<1>7. Units(f) = here \cup Units(g)
  <2>1. ASSUME NEW u PROVE u \in Units(f) <=> u \in here \cup Units(g)
    <3>1. /\ u \in Units(f) <=> \E y \in S : \E k \in 1..f[y] : u = <<y, k>>
          /\ u \in Units(g) <=>
               \E y \in S \ {x} : \E k \in 1..f[y] : u = <<y, k>>
      BY UnitIs
    <3>2. u \in here <=> \E k \in 1..f[x] : u = <<x, k>>
      OBVIOUS
    <3>3. QED
      BY <3>1, <3>2
  <2>2. QED
    BY <2>1
<1> HIDE DEF here
<1>8. Cardinality(here \cup Units(g))
        = Cardinality(here) + Cardinality(Units(g))
            - Cardinality(here \cap Units(g))
  BY <1>2, <1>5, FS_Union
<1>9. SumOver(f) = f[x] + SumOver(g) - 0
  BY <1>5, <1>6, <1>7, <1>8, FS_EmptySet DEF SumOver, Units
<1>10. QED
  BY <1>2, <1>3, <1>9

\* One term changes.
LEMMA SumUpdate ==
  ASSUME NEW S, IsFiniteSet(S), NEW f \in [S -> Nat], NEW g \in [S -> Nat],
         NEW x \in S, \A y \in S \ {x} : g[y] = f[y]
  PROVE  SumOver(g) + f[x] = SumOver(f) + g[x]
<1> DEFINE r == [y \in S \ {x} |-> f[y]]
<1>1. r = [y \in S \ {x} |-> g[y]]
  OBVIOUS
<1>2. IsFiniteSet(S \ {x}) /\ r \in [S \ {x} -> Nat]
  BY FS_Difference
<1>3. SumOver(r) \in Nat
  BY <1>2, UnitsFinite
<1>4. SumOver(f) = f[x] + SumOver(r)
  BY SumSplit
<1>5. SumOver(g) = g[x] + SumOver([y \in S \ {x} |-> g[y]])
  BY SumSplit
<1>6. SumOver(g) = g[x] + SumOver(r)
  BY <1>1, <1>5
<1>7. f[x] \in Nat /\ g[x] \in Nat
  OBVIOUS
<1> HIDE DEF r
<1>8. QED
  BY <1>3, <1>4, <1>6, <1>7

LEMMA SumZero ==
  ASSUME NEW S, NEW f \in [S -> Nat], \A x \in S : f[x] = 0
  PROVE  SumOver(f) = 0
<1>1. ASSUME NEW u \in Units(f) PROVE FALSE
  <2>1. PICK x \in S : \E k \in 1..f[x] : u = <<x, k>>
    BY <1>1, UnitIs
  <2>2. QED
    BY <2>1
<1>2. Units(f) = {}
  BY <1>1
<1>3. QED
  BY <1>2, FS_EmptySet DEF SumOver, Units

\* The terms of a sequence: the last one, and the first one.
LEMMA SumLast ==
  ASSUME NEW n \in Nat, NEW f \in [1..(n + 1) -> Nat]
  PROVE  SumOver(f) = SumOver([i \in 1..n |-> f[i]]) + f[n + 1]
<1>1. IsFiniteSet(1..(n + 1)) /\ IsFiniteSet(1..n)
  BY UpTo
<1>2. (1..(n + 1)) \ {n + 1} = 1..n /\ n + 1 \in 1..(n + 1)
  OBVIOUS
<1>3. SumOver(f) = f[n + 1] + SumOver([i \in (1..(n + 1)) \ {n + 1} |-> f[i]])
  <2> DEFINE D == 1..(n + 1)
  <2>1. IsFiniteSet(D) /\ f \in [D -> Nat] /\ n + 1 \in D
    BY <1>1, <1>2
  <2> HIDE DEF D
  <2>2. SumOver(f) = f[n + 1] + SumOver([i \in D \ {n + 1} |-> f[i]])
    BY <2>1, SumSplit, ZenonT(30)
  <2>3. QED
    BY <2>2 DEF D
<1>4. [i \in 1..n |-> f[i]] \in [1..n -> Nat] /\ f[n + 1] \in Nat
  OBVIOUS
<1>5. SumOver([i \in 1..n |-> f[i]]) \in Nat
  BY <1>1, <1>4, UnitsFinite
<1>6. SumOver(f) = f[n + 1] + SumOver([i \in 1..n |-> f[i]])
  BY <1>2, <1>3
<1>7. QED
  BY <1>4, <1>5, <1>6

LEMMA SumFirst ==
  ASSUME NEW n \in Nat, NEW f \in [1..(n + 1) -> Nat]
  PROVE  SumOver(f) = f[1] + SumOver([i \in 1..n |-> f[i + 1]])
<1> DEFINE D == (1..(n + 1)) \ {1}
           g == [i \in D |-> f[i]]
           h == [i \in 1..n |-> f[i + 1]]
           shift == [u \in Units(h) |-> <<u[1] + 1, u[2]>>]
<1>1. IsFiniteSet(1..(n + 1)) /\ IsFiniteSet(1..n) /\ IsFiniteSet(D)
  <2>1. IsFiniteSet(1..(n + 1)) /\ IsFiniteSet(1..n)
    BY UpTo
  <2>2. QED
    BY <2>1, FS_Subset
<1>2. SumOver(f) = f[1] + SumOver(g)
  <2> DEFINE A == 1..(n + 1)
  <2>1. IsFiniteSet(A) /\ f \in [A -> Nat] /\ 1 \in A
    BY <1>1
  <2> HIDE DEF A
  <2>2. SumOver(f) = f[1] + SumOver([i \in A \ {1} |-> f[i]])
    BY <2>1, SumSplit, ZenonT(30)
  <2>3. QED
    BY <2>2 DEF A
<1>3. g \in [D -> Nat] /\ h \in [1..n -> Nat]
  OBVIOUS
<1>4. /\ \A i \in D : \A k \in 1..f[i] : <<i, k>> \in Units(g)
      /\ \A u \in Units(g) : \E i \in D : \E k \in 1..f[i] : u = <<i, k>>
      /\ \A i \in 1..n : \A k \in 1..f[i + 1] : <<i, k>> \in Units(h)
      /\ \A u \in Units(h) :
           \E i \in 1..n : \E k \in 1..f[i + 1] : u = <<i, k>>
  BY SMTT(30) DEF Units
<1>5. shift \in Bijection(Units(h), Units(g))
  <2>1. ASSUME NEW u \in Units(h) PROVE shift[u] \in Units(g)
    <3>1. PICK i \in 1..n : \E k \in 1..f[i + 1] : u = <<i, k>>
      BY <1>4
    <3>2. PICK k \in 1..f[i + 1] : u = <<i, k>>
      BY <3>1
    <3>3. shift[u] = <<i + 1, k>> /\ i + 1 \in D
      BY <3>2
    <3>4. QED
      BY <1>4, <3>3
  <2>2. ASSUME NEW u \in Units(h), NEW v \in Units(h), shift[u] = shift[v]
        PROVE  u = v
    <3>1. PICK i \in 1..n : \E k \in 1..f[i + 1] : u = <<i, k>>
      BY <1>4
    <3>2. PICK j \in 1..n : \E k \in 1..f[j + 1] : v = <<j, k>>
      BY <1>4
    <3>3. QED
      BY <2>2, <3>1, <3>2
  <2>3. ASSUME NEW v \in Units(g) PROVE \E u \in Units(h) : shift[u] = v
    <3>1. PICK i \in D : \E k \in 1..f[i] : v = <<i, k>>
      BY <1>4
    <3>2. PICK k \in 1..f[i] : v = <<i, k>>
      BY <3>1
    <3>3. i - 1 \in 1..n /\ (i - 1) + 1 = i
      OBVIOUS
    <3>4. <<i - 1, k>> \in Units(h)
      BY <1>4, <3>3
    <3>5. shift[<<i - 1, k>>] = v
      BY <3>2, <3>3, <3>4
    <3>6. QED
      BY <3>4, <3>5
  <2>4. shift \in [Units(h) -> Units(g)]
    BY <2>1
  <2> HIDE DEF shift
  <2>5. QED
    BY <2>2, <2>3, <2>4, Fun_IsBij
<1>6. IsFiniteSet(Units(h)) /\ SumOver(h) \in Nat
  BY <1>1, <1>3, UnitsFinite
<1>7. Cardinality(Units(g)) = Cardinality(Units(h))
  BY <1>5, <1>6, FS_Bijection DEF ExistsBijection
<1>8. QED
  BY <1>2, <1>7 DEF SumOver, Units

-----------------------------------------------------------------------
(* Solutions on their way to the master                                    *)

\* The solutions that the requests in a channel carry.
CountOf(c) == SumOver([i \in 1..Len(c) |-> CountIn(c[i])])

\* A request that is sent again carries none; the one that carries the
\* solutions is in front of it.
NoCount(w) == \A i \in 1..Len(toMaster[w]) : CountIn(toMaster[w][i]) = 0
CountFirst(w) ==
  \A i, j \in 1..Len(toMaster[w]) :
    i < j /\ toMaster[w][i].type = "RANGE_REQUEST" =>
      CountIn(toMaster[w][j]) = 0

\* A worker has solutions to send only while it works or waits.
NothingFound ==
  \A w \in Worker : wpc[w] \in {"start", "first", "undefined", "done"} =>
                      found[w] = 0

CountSum ==
  solutionsCount + SumOver([w \in Worker |-> Uncounted(w)])
    = Cardinality(reported \cap Solution)

\* The master has counted what a worker sent before it takes it for waiting,
\* and it ends when all of them wait.
CountedFirst ==
  EnoughRoots => /\ \A w \in Worker : CountFirst(w) /\ (Waiting(w) => NoCount(w))
                 /\ mpc = "done" => terminated

CountInv == CountSum /\ NothingFound /\ CountedFirst

LEMMA CountInType ==
  ASSUME NEW m \in Message
  PROVE  /\ CountIn(m) \in Nat
         /\ m.type = "RANGE_REQUEST" => m.count = CountIn(m)
         /\ m.type # "RANGE_REQUEST" => CountIn(m) = 0
BY DEF CountIn, Message

LEMMA CountInSent ==
  /\ \A n \in Nat : CountIn(RangeRequest(n)) = n
  /\ \A S \in SUBSET Frame : CountIn(Stolen(S)) = 0
BY DEF CountIn, RangeRequest, Stolen

LEMMA CountOfType ==
  ASSUME NEW c \in Seq(Message)
  PROVE  /\ CountOf(c) \in Nat
         /\ [i \in 1..Len(c) |-> CountIn(c[i])] \in [1..Len(c) -> Nat]
         /\ (\A i \in 1..Len(c) : CountIn(c[i]) = 0) => CountOf(c) = 0
<1> DEFINE f == [i \in 1..Len(c) |-> CountIn(c[i])]
<1>1. Len(c) \in Nat /\ \A i \in 1..Len(c) : c[i] \in Message
  OBVIOUS
<1>2. f \in [1..Len(c) -> Nat]
  BY <1>1, CountInType
<1>3. IsFiniteSet(1..Len(c))
  BY <1>1, UpTo
<1>4. CountOf(c) = SumOver(f)
  BY DEF CountOf
<1>5. (\A i \in 1..Len(c) : CountIn(c[i]) = 0) => \A i \in 1..Len(c) : f[i] = 0
  OBVIOUS
<1> HIDE DEF f
<1>6. SumOver(f) \in Nat
  BY <1>2, <1>3, UnitsFinite
<1>7. (\A i \in 1..Len(c) : f[i] = 0) => SumOver(f) = 0
  BY <1>2, SumZero
<1>8. QED
  BY <1>2, <1>4, <1>5, <1>6, <1>7 DEF f

LEMMA CountSend ==
  ASSUME NEW c \in [Worker -> Seq(Message)], NEW w \in Worker,
         NEW m \in Message
  PROVE  CountOf(Send(c, w, m)[w]) = CountOf(c[w]) + CountIn(m)
<1> DEFINE d == Send(c, w, m)[w]
           n == Len(c[w])
           f == [i \in 1..Len(d) |-> CountIn(d[i])]
           g == [i \in 1..n |-> CountIn(c[w][i])]
<1>1. /\ d \in Seq(Message) /\ n \in Nat /\ Len(d) = n + 1
      /\ \A i \in 1..n : d[i] = c[w][i]
      /\ d[n + 1] = m
  BY SendFacts
<1>2. CountOf(d) = SumOver(f) /\ CountOf(c[w]) = SumOver(g)
  BY DEF CountOf
<1>3. f \in [1..(n + 1) -> Nat]
  <2> HIDE DEF d
  <2>1. f \in [1..Len(d) -> Nat]
    BY <1>1, CountOfType
  <2> HIDE DEF f, n
  <2>2. QED
    BY <2>1, <1>1
<1>4. [i \in 1..n |-> f[i]] = g /\ f[n + 1] = CountIn(m)
  <2> HIDE DEF d
  <2>1. /\ \A i \in 1..n : f[i] = CountIn(c[w][i])
        /\ f[n + 1] = CountIn(m)
    BY <1>1
  <2>2. QED
    BY <2>1
<1> HIDE DEF f, n, g, d
<1>5. SumOver(f) = SumOver([i \in 1..n |-> f[i]]) + f[n + 1]
  BY <1>1, <1>3, SumLast
<1>6. QED
  BY <1>2, <1>4, <1>5 DEF d

LEMMA CountPop ==
  ASSUME NEW c \in [Worker -> Seq(Message)], NEW w \in Worker, c[w] # <<>>
  PROVE  CountOf(c[w]) = CountIn(Head(c[w])) + CountOf(Pop(c, w)[w])
<1> DEFINE d == Pop(c, w)[w]
           n == Len(d)
           f == [i \in 1..Len(c[w]) |-> CountIn(c[w][i])]
           g == [i \in 1..n |-> CountIn(d[i])]
<1>1. /\ c[w] \in Seq(Message) /\ d \in Seq(Message)
      /\ n \in Nat /\ Len(c[w]) = n + 1
      /\ \A i \in 1..n : d[i] = c[w][i + 1]
      /\ Head(c[w]) = c[w][1]
  <2>1. /\ Pop(c, w) \in [Worker -> Seq(Message)]
        /\ Len(c[w]) \in Nat \ {0} /\ Len(d) = Len(c[w]) - 1
        /\ \A i \in 1..(Len(c[w]) - 1) : d[i] = c[w][i + 1]
        /\ Head(c[w]) = c[w][1]
    BY PopFacts
  <2> HIDE DEF d
  <2>2. c[w] \in Seq(Message)
    OBVIOUS
  <2>3. d \in Seq(Message)
    BY <2>1 DEF d
  <2>4. QED
    BY <2>1, <2>2, <2>3
<1>2. CountOf(d) = SumOver(g) /\ CountOf(c[w]) = SumOver(f)
  BY DEF CountOf
<1>3. f \in [1..(n + 1) -> Nat]
  <2>1. f \in [1..Len(c[w]) -> Nat]
    BY <1>1, CountOfType
  <2> HIDE DEF f, n
  <2>2. QED
    BY <2>1, <1>1
<1> HIDE DEF d
<1>4. [i \in 1..n |-> f[i + 1]] = g /\ f[1] = CountIn(Head(c[w]))
  <2>1. /\ \A i \in 1..n : f[i + 1] = CountIn(d[i])
        /\ f[1] = CountIn(Head(c[w]))
    BY <1>1
  <2>2. QED
    BY <2>1
<1> HIDE DEF f, n, g
<1>5. SumOver(f) = f[1] + SumOver([i \in 1..n |-> f[i + 1]])
  BY <1>1, <1>3, SumFirst
<1>6. QED
  BY <1>2, <1>4, <1>5 DEF d

\* What worker w found and did not send.
Unsent(w) == IF wpc[w] = "wait" THEN 0 ELSE found[w]

\* A step of worker w, or of the master with w, moves solutions, but loses none.
Kept(w) ==
  /\ \A v \in Worker \ {w} : Uncounted(v)' = Uncounted(v)
  /\ solutionsCount' + Uncounted(w)' = solutionsCount + Uncounted(w)
  /\ reported' = reported

LEMMA UncountedIs ==
  ASSUME NEW w \in Worker
  PROVE  /\ Uncounted(w) = CountOf(toMaster[w]) + Unsent(w)
         /\ Uncounted(w)' = CountOf(toMaster'[w]) + Unsent(w)'
BY DEF Uncounted, CountOnTheWay, CountOf, Unsent, CountIn

LEMMA UncountedType ==
  ASSUME TypeOK, NEW w \in Worker
  PROVE  /\ CountOf(toMaster[w]) \in Nat /\ Unsent(w) \in Nat
         /\ Uncounted(w) \in Nat
<1>1. CountOf(toMaster[w]) \in Nat
  <2>1. toMaster[w] \in Seq(Message)
    BY DEF TypeOK
  <2>2. QED
    BY <2>1, CountOfType
<1>2. Unsent(w) \in Nat
  BY DEF TypeOK, Unsent
<1>3. QED
  BY <1>1, <1>2, UncountedIs

LEMMA UncountedTypeNext ==
  ASSUME TypeOK', NEW w \in Worker
  PROVE  Uncounted(w)' \in Nat
<1>1. CountOf(toMaster'[w]) \in Nat
  <2>1. toMaster'[w] \in Seq(Message)
    BY DEF TypeOK
  <2>2. QED
    BY <2>1, CountOfType
<1>2. Unsent(w)' \in Nat
  BY DEF TypeOK, Unsent
<1>3. QED
  BY <1>1, <1>2, UncountedIs

LEMMA SumChange ==
  ASSUME TypeOK, TypeOK', NEW w \in Worker,
         \A v \in Worker \ {w} : Uncounted(v)' = Uncounted(v)
  PROVE  /\ SumOver([v \in Worker |-> Uncounted(v)]) \in Nat
         /\ SumOver([v \in Worker |-> Uncounted(v)])' \in Nat
         /\ SumOver([v \in Worker |-> Uncounted(v)])' + Uncounted(w)
              = SumOver([v \in Worker |-> Uncounted(v)]) + Uncounted(w)'
<1> DEFINE f == [v \in Worker |-> Uncounted(v)]
           g == [v \in Worker |-> Uncounted(v)']
<1>1. f \in [Worker -> Nat] /\ g \in [Worker -> Nat]
  BY UncountedType, UncountedTypeNext
<1>2. \A v \in Worker : f[v] = Uncounted(v) /\ g[v] = Uncounted(v)'
  OBVIOUS
<1>3. SumOver([v \in Worker |-> Uncounted(v)])' = SumOver(g)
  BY DEF SumOver
<1> HIDE DEF f, g
<1>4. IsFiniteSet(Worker)
  BY Constants
<1>5. \A v \in Worker \ {w} : g[v] = f[v]
  BY <1>2
<1>6. SumOver(g) + f[w] = SumOver(f) + g[w]
  BY <1>1, <1>4, <1>5, SumUpdate
<1>7. SumOver(f) \in Nat /\ SumOver(g) \in Nat
  BY <1>1, <1>4, UnitsFinite
<1>8. QED
  BY <1>2, <1>3, <1>6, <1>7 DEF f

LEMMA KeptSum ==
  ASSUME TypeOK, TypeOK', CountSum, NEW w \in Worker, Kept(w)
  PROVE  CountSum'
<1> DEFINE s == SumOver([v \in Worker |-> Uncounted(v)])
           a == solutionsCount
           b == solutionsCount'
           x == Uncounted(w)
           y == Uncounted(w)'
           t == s'
<1>1. s \in Nat /\ t \in Nat /\ t + x = s + y
  BY SumChange DEF Kept
<1>2. x \in Nat /\ y \in Nat /\ a \in Nat /\ b \in Nat
  BY UncountedType, UncountedTypeNext DEF TypeOK
<1>3. b + y = a + x
  BY DEF Kept
<1>4. a + s = Cardinality(reported \cap Solution)
  BY DEF CountSum
<1>5. CountSum' <=> b + t = Cardinality(reported' \cap Solution)
  BY DEF CountSum
<1>6. reported' = reported
  BY DEF Kept
<1> HIDE DEF s, t, a, b, x, y
<1>7. b + t = a + s
  BY <1>1, <1>2, <1>3
<1>8. QED
  BY <1>4, <1>5, <1>6, <1>7

\* The master receives a message of w.
LEMMA KeptPop ==
  ASSUME TypeOK, NEW w \in Worker, toMaster[w] # <<>>,
         toMaster' = Pop(toMaster, w),
         solutionsCount' = solutionsCount + CountIn(Head(toMaster[w])),
         UNCHANGED workerVars
  PROVE  Kept(w)
<1>1. toMaster \in [Worker -> Seq(Message)]
  BY DEF TypeOK
<1>2. /\ \A v \in Worker \ {w} : toMaster'[v] = toMaster[v]
      /\ Head(toMaster[w]) \in Message /\ toMaster'[w] \in Seq(Message)
  BY <1>1, PopFacts
<1>3. \A v \in Worker : Unsent(v)' = Unsent(v)
  BY DEF Unsent, workerVars
<1>4. \A v \in Worker \ {w} : Uncounted(v)' = Uncounted(v)
  BY <1>2, <1>3, UncountedIs
<1>5. CountOf(toMaster[w])
        = CountIn(Head(toMaster[w])) + CountOf(toMaster'[w])
  BY <1>1, CountPop
<1>6. solutionsCount' + Uncounted(w)' = solutionsCount + Uncounted(w)
  <2> DEFINE h == CountIn(Head(toMaster[w]))
             k == CountOf(toMaster'[w])
             c == CountOf(toMaster[w])
             u == Unsent(w)
             a == solutionsCount
  <2>1. h \in Nat /\ k \in Nat /\ u \in Nat /\ a \in Nat /\ c \in Nat
    BY <1>2, CountInType, CountOfType, UncountedType DEF TypeOK
  <2>2. Uncounted(w) = c + u /\ Uncounted(w)' = k + u
        /\ solutionsCount' = a + h /\ c = h + k
    BY <1>3, <1>5, UncountedIs
  <2> HIDE DEF h, k, c, u
  <2>3. QED
    BY <2>1, <2>2
<1>7. QED
  BY <1>4, <1>6 DEF Kept, workerVars

\* Worker w sends a message.
LEMMA KeptSend ==
  ASSUME TypeOK, NEW w \in Worker, NEW m \in Message,
         toMaster' = Send(toMaster, w, m),
         solutionsCount' = solutionsCount, found' = found, reported' = reported,
         \A v \in Worker \ {w} : wpc'[v] = wpc[v],
         CountIn(m) + Unsent(w)' = Unsent(w)
  PROVE  Kept(w)
<1>1. toMaster \in [Worker -> Seq(Message)]
  BY DEF TypeOK
<1>2. \A v \in Worker \ {w} : toMaster'[v] = toMaster[v]
  BY <1>1, SendFacts
<1>3. \A v \in Worker \ {w} : Unsent(v)' = Unsent(v)
  BY DEF Unsent
<1>4. \A v \in Worker \ {w} : Uncounted(v)' = Uncounted(v)
  BY <1>2, <1>3, UncountedIs
<1>5. CountOf(toMaster'[w]) = CountOf(toMaster[w]) + CountIn(m)
  BY <1>1, CountSend
<1>6. Uncounted(w)' = Uncounted(w)
  <2> DEFINE h == CountIn(m)
             k == CountOf(toMaster'[w])
             c == CountOf(toMaster[w])
             u == Unsent(w)
             v == Unsent(w)'
  <2>1. h \in Nat /\ u \in Nat /\ c \in Nat /\ v \in Nat
    <3>1. h \in Nat /\ u \in Nat /\ c \in Nat
      BY CountInType, UncountedType
    <3>2. v \in {0, found[w]} /\ found[w] \in Nat
      BY DEF Unsent, TypeOK
    <3>3. QED
      BY <3>1, <3>2
  <2>2. Uncounted(w) = c + u /\ Uncounted(w)' = k + v
        /\ k = c + h /\ h + v = u
    BY <1>5, UncountedIs
  <2> HIDE DEF h, k, c, u, v
  <2>3. QED
    BY <2>1, <2>2
<1>7. QED
  BY <1>4, <1>6 DEF Kept

LEMMA MasterKept ==
  ASSUME Inv, Master
  PROVE  \E w \in Worker : Kept(w)
<1>1. TypeOK
  BY Channels
<1>2. ASSUME NEW w \in Worker, ReceiveRequest(w), UNCHANGED workerVars
      PROVE  Kept(w)
  <2>1. /\ toMaster[w] # <<>> /\ toMaster' = Pop(toMaster, w) /\ mpc = "recv"
        /\ solutionsCount' = solutionsCount + Head(toMaster[w]).count
    BY <1>2 DEF ReceiveRequest
  <2>2. Head(toMaster[w]) \in Message
        /\ Head(toMaster[w]).type = "RANGE_REQUEST"
    BY <2>1, Channels, PopFacts, ExpectedFromInv DEF MessagesExpected
  <2>3. Head(toMaster[w]).count = CountIn(Head(toMaster[w]))
    BY <2>2, CountInType
  <2>4. QED
    BY <1>1, <1>2, <2>1, <2>3, KeptPop
<1>3. ASSUME NEW w \in Worker, GiveRange(w) \/ BeginSteal(w) PROVE Kept(w)
  BY <1>2, <1>3 DEF GiveRange, BeginSteal
<1>4. CASE AskVictim \/ Broadcast
  <2>1. UNCHANGED <<toMaster, workerVars, solutionsCount>>
    BY <1>4 DEF AskVictim, Broadcast
  <2>2. \A w \in Worker : Uncounted(w)' = Uncounted(w)
    BY <2>1, UncountedIs DEF Unsent, workerVars
  <2>3. 0 \in Worker
    BY Constants
  <2>4. QED
    BY <2>1, <2>2, <2>3 DEF Kept, workerVars
<1>5. CASE Forward
  <2>1. PICK w \in Worker : w = lastStealVictim
    BY <1>1 DEF TypeOK
  <2>2. /\ toMaster[w] # <<>> /\ toMaster' = Pop(toMaster, w)
        /\ Head(toMaster[w]) \in Message
        /\ Head(toMaster[w]).type = "STEAL_RESPONSE"
        /\ solutionsCount' = solutionsCount /\ UNCHANGED workerVars
    BY <1>1, <1>5, <2>1, VictimAnswersType DEF Forward
  <2>3. CountIn(Head(toMaster[w])) = 0 /\ solutionsCount \in Nat
    BY <1>1, <2>2, CountInType DEF TypeOK
  <2>4. solutionsCount' = solutionsCount + CountIn(Head(toMaster[w]))
    BY <2>2, <2>3
  <2>5. QED
    BY <1>1, <2>2, <2>4, KeptPop
<1>6. CASE VictimIsIdle
  <2>1. PICK w \in Worker : w = lastStealVictim
    BY <1>1 DEF TypeOK
  <2>2. /\ toMaster[w] # <<>> /\ toMaster' = Pop(toMaster, w)
        /\ Head(toMaster[w]) \in Message
        /\ Head(toMaster[w]).type = "RANGE_REQUEST"
        /\ solutionsCount' = solutionsCount + Head(toMaster[w]).count
        /\ UNCHANGED workerVars
    BY <1>1, <1>6, <2>1, VictimAnswersType DEF VictimIsIdle
  <2>3. solutionsCount' = solutionsCount + CountIn(Head(toMaster[w]))
    BY <2>2, CountInType
  <2>4. QED
    BY <1>1, <2>2, <2>3, KeptPop
<1>7. QED
  BY <1>3, <1>4, <1>5, <1>6 DEF Master

\* The worker's steps that send a message or none.
LEMMA WorkerKept ==
  ASSUME Inv, NothingFound, NEW w \in Worker, WorkerStep(w), ~ Enumerate(w)
  PROVE  Kept(w)
<1>1. TypeOK
  BY Channels
<1>2. solutionsCount' = solutionsCount /\ reported' = reported
  BY DEF WorkerStep, RequestFirst, RequestMore, Request, DropSteal,
         ReceiveRange, ReceiveStolen, ReceiveTermination, GiveRoots, GiveNode,
         masterVars, workerVars
<1>3. found[w] \in Nat
  BY <1>1 DEF TypeOK
<1>4. CASE RequestFirst(w)
  <2>1. /\ toMaster' = Send(toMaster, w, RangeRequest(0))
        /\ wpc' = [wpc EXCEPT ![w] = "first"] /\ wpc[w] = "start"
        /\ found' = found
    BY <1>4 DEF RequestFirst, Request
  <2>2. Unsent(w) = 0 /\ Unsent(w)' = 0 /\ \A v \in Worker \ {w} : wpc'[v] = wpc[v]
    BY <1>1, <2>1 DEF NothingFound, Unsent, TypeOK
  <2>3. RangeRequest(0) \in Message /\ CountIn(RangeRequest(0)) = 0
    BY MessageTypes, CountInSent
  <2>4. QED
    BY <1>1, <1>2, <2>1, <2>2, <2>3, KeptSend
<1>5. CASE RequestMore(w)
  <2>1. /\ toMaster' = Send(toMaster, w, RangeRequest(found[w]))
        /\ wpc' = [wpc EXCEPT ![w] = "wait"] /\ wpc[w] \in {"fresh", "work"}
        /\ found' = found
    BY <1>5 DEF RequestMore, Request
  <2>2. /\ Unsent(w) = found[w] /\ Unsent(w)' = 0
        /\ \A v \in Worker \ {w} : wpc'[v] = wpc[v]
    BY <1>1, <2>1 DEF Unsent, TypeOK
  <2>3. RangeRequest(found[w]) \in Message
        /\ CountIn(RangeRequest(found[w])) = found[w]
    BY <1>3, MessageTypes, CountInSent
  <2>4. CountIn(RangeRequest(found[w])) + Unsent(w)' = Unsent(w)
    BY <1>3, <2>2, <2>3
  <2>5. QED
    BY <1>1, <1>2, <2>1, <2>2, <2>3, <2>4, KeptSend
<1>6. ASSUME NEW m \in Message, CountIn(m) = 0, toMaster' = Send(toMaster, w, m),
             wpc' = wpc, found' = found
      PROVE  Kept(w)
  <2>1. Unsent(w)' = Unsent(w) /\ Unsent(w) \in Nat
    BY <1>1, <1>6, UncountedType DEF Unsent
  <2>2. CountIn(m) + Unsent(w)' = Unsent(w)
    BY <1>6, <2>1
  <2>3. QED
    BY <1>1, <1>2, <1>6, <2>2, KeptSend
<1>7. CASE DropSteal(w)
  <2>1. RangeRequest(0) \in Message /\ CountIn(RangeRequest(0)) = 0
    BY MessageTypes, CountInSent
  <2>2. QED
    BY <1>6, <1>7, <2>1 DEF DropSteal, workerVars
<1>8. ASSUME NEW S \in SUBSET Frame, Serve(w, S), wpc' = wpc, found' = found
      PROVE  Kept(w)
  <2>1. Stolen(S) \in Message /\ CountIn(Stolen(S)) = 0
    BY MessageTypes, CountInSent
  <2>2. QED
    BY <1>6, <1>8, <2>1 DEF Serve
<1>9. CASE GiveRoots(w)
  <2>1. PICK S \in SUBSET roots[w] : Serve(w, S)
    BY <1>9 DEF GiveRoots
  <2>2. S \in SUBSET Frame /\ wpc' = wpc /\ found' = found
    BY <1>1, <1>9, Constants DEF GiveRoots, TypeOK
  <2>3. QED
    BY <1>8, <2>1, <2>2
<1>10. CASE GiveNode(w)
  <2>1. PICK x \in nodes[w] : Serve(w, {x})
    BY <1>10 DEF GiveNode
  <2>2. {x} \in SUBSET Frame /\ wpc' = wpc /\ found' = found
    BY <1>1, <1>10, Constants DEF GiveNode, TypeOK
  <2>3. QED
    BY <1>8, <2>1, <2>2
<1>11. CASE ReceiveRange(w) \/ ReceiveStolen(w) \/ ReceiveTermination(w)
  <2>1. /\ wpc[w] \in {"first", "wait"} /\ toMaster' = toMaster
        /\ found' = [found EXCEPT ![w] = 0]
        /\ \E s : wpc' = [wpc EXCEPT ![w] = s]
    BY <1>11 DEF ReceiveRange, ReceiveStolen, ReceiveTermination, Receive
  <2>2. Unsent(w) = 0 /\ Unsent(w)' = 0
    BY <1>1, <2>1 DEF NothingFound, Unsent, TypeOK
  <2>3. \A v \in Worker \ {w} : Unsent(v)' = Unsent(v)
    BY <1>1, <2>1 DEF Unsent, TypeOK
  <2>4. \A v \in Worker : Uncounted(v)' = Uncounted(v)
    BY <2>1, <2>2, <2>3, UncountedIs
  <2>5. QED
    BY <1>2, <2>4 DEF Kept
<1>12. QED
  BY <1>4, <1>5, <1>7, <1>9, <1>10, <1>11 DEF WorkerStep

\* A worker calls back solutions nobody called back before.
LEMMA EnumerateSum ==
  ASSUME Inv, TypeOK', WorkInv, CountSum, NEW w \in Worker, Enumerate(w)
  PROVE  CountSum'
<1>1. TypeOK
  BY Channels
<1>2. PICK f \in roots[w] \cup nodes[w] :
        /\ found' = [found EXCEPT ![w] = @ + Cardinality(Kids[f] \cap Solution)]
        /\ reported' = reported \cup Kids[f]
  BY DEF Enumerate
<1>3. /\ wpc[w] \in {"fresh", "work"} /\ wpc' = [wpc EXCEPT ![w] = "work"]
      /\ toMaster' = toMaster /\ solutionsCount' = solutionsCount
  BY DEF Enumerate, masterVars
<1>4. f \in Frame /\ Kids[f] \cap reported = {}
  <2>1. f \in Held(Mine(w)) /\ Mine(w) \in Place
    BY HeldAt, PlacesApart
  <2>2. QED
    BY <1>1, <2>1, Constants DEF WorkInv, Fresh, TypeOK
<1> DEFINE n == Cardinality(Kids[f] \cap Solution)
           s == SumOver([v \in Worker |-> Uncounted(v)])
           t == s'
           x == Uncounted(w)
           y == Uncounted(w)'
           a == solutionsCount
           c == CountOf(toMaster[w])
           u == found[w]
           r == Cardinality(reported \cap Solution)
<1>5. n \in Nat /\ u \in Nat /\ c \in Nat /\ a \in Nat
  BY <1>1, <1>4, FoundType, UncountedType DEF TypeOK
<1>6. x = c + u /\ y = c + (u + n)
  <2>1. Unsent(w) = u /\ Unsent(w)' = u + n
    BY <1>1, <1>2, <1>3 DEF Unsent, TypeOK
  <2>2. QED
    BY <1>3, <2>1, UncountedIs
<1>7. \A v \in Worker \ {w} : Uncounted(v)' = Uncounted(v)
  <2>1. \A v \in Worker \ {w} : Unsent(v)' = Unsent(v)
    BY <1>1, <1>2, <1>3 DEF Unsent, TypeOK
  <2>2. QED
    BY <1>3, <2>1, UncountedIs
<1>8. s \in Nat /\ t \in Nat /\ t + x = s + y
  BY <1>1, <1>7, SumChange
<1>9. Cardinality(reported' \cap Solution) = r + n
  <2> DEFINE A == reported \cap Solution
             B == Kids[f] \cap Solution
  <2>1. IsFiniteSet(A) /\ IsFiniteSet(B)
    BY <1>1, <1>4, Constants, ForestAssumption, FS_Subset DEF TypeOK
  <2>2. reported' \cap Solution = A \cup B /\ A \cap B = {}
    BY <1>2, <1>4
  <2> HIDE DEF A, B
  <2>3. Cardinality(A \cup B) = Cardinality(A) + Cardinality(B)
          - Cardinality(A \cap B)
    BY <2>1, FS_Union
  <2>4. /\ Cardinality(A) \in Nat /\ Cardinality(B) \in Nat
        /\ Cardinality(A \cap B) = 0
    BY <2>1, <2>2, FS_CardinalityType, FS_EmptySet
  <2> DEFINE p == Cardinality(A)
             q == Cardinality(B)
  <2>5. Cardinality(A \cup B) = p + q
    <3>1. p \in Nat /\ q \in Nat /\ Cardinality(A \cup B) = p + q - 0
      BY <2>3, <2>4
    <3> HIDE DEF p, q
    <3>2. QED
      BY <3>1
  <2>6. QED
    BY <2>2, <2>5 DEF A, B
<1>10. a + s = r
  BY DEF CountSum
<1>11. CountSum' <=> solutionsCount' + t = Cardinality(reported' \cap Solution)
  BY DEF CountSum
<1> HIDE DEF n, s, t, x, y, a, c, u, r
<1>12. a + t = r + n
  BY <1>5, <1>6, <1>8, <1>10
<1>13. solutionsCount' = a
  BY <1>3 DEF a
<1>14. QED
  BY <1>9, <1>11, <1>12, <1>13

LEMMA FoundStep ==
  ASSUME TypeOK, NothingFound, Next
  PROVE  NothingFound'
<1>1. CASE Master
  <2>1. UNCHANGED workerVars
    BY <1>1 DEF Master, GiveRange, BeginSteal, AskVictim, Forward,
                VictimIsIdle, Broadcast
  <2>2. QED
    BY <2>1 DEF NothingFound, workerVars
<1>2. ASSUME NEW w \in Worker, WorkerStep(w) PROVE NothingFound'
  <2>1. CASE RequestFirst(w) \/ RequestMore(w)
    <3>1. /\ found' = found
          /\ \/ wpc[w] = "start" /\ wpc' = [wpc EXCEPT ![w] = "first"]
             \/ wpc' = [wpc EXCEPT ![w] = "wait"]
      BY <2>1 DEF RequestFirst, RequestMore, Request
    <3>2. QED
      BY <3>1 DEF NothingFound, TypeOK
  <2>2. CASE DropSteal(w) \/ GiveRoots(w) \/ GiveNode(w)
    <3>1. wpc' = wpc /\ found' = found
      BY <2>2 DEF DropSteal, GiveRoots, GiveNode, workerVars
    <3>2. QED
      BY <3>1 DEF NothingFound
  <2>3. CASE ReceiveRange(w) \/ ReceiveStolen(w) \/ ReceiveTermination(w)
    <3>1. /\ found' = [found EXCEPT ![w] = 0]
          /\ \E s : wpc' = [wpc EXCEPT ![w] = s]
      BY <2>3 DEF ReceiveRange, ReceiveStolen, ReceiveTermination
    <3>2. QED
      BY <3>1 DEF NothingFound, TypeOK
  <2>4. CASE Enumerate(w)
    <3>1. /\ wpc' = [wpc EXCEPT ![w] = "work"]
          /\ \E n : found' = [found EXCEPT ![w] = n]
      BY <2>4 DEF Enumerate
    <3>2. QED
      BY <3>1 DEF NothingFound, TypeOK
  <2>5. QED
    BY <1>2, <2>1, <2>2, <2>3, <2>4 DEF WorkerStep
<1>3. QED
  BY <1>1, <1>2 DEF Next

LEMMA FirstPop ==
  ASSUME TypeOK, NEW w \in Worker, toMaster[w] # <<>>,
         toMaster' = Pop(toMaster, w),
         \A v \in Worker : CountFirst(v)
  PROVE  /\ \A v \in Worker : CountFirst(v)' /\ (NoCount(v) => NoCount(v)')
         /\ Head(toMaster[w]).type = "RANGE_REQUEST" => NoCount(w)'
<1>1. toMaster \in [Worker -> Seq(Message)]
  BY DEF TypeOK
<1>2. /\ \A v \in Worker \ {w} : toMaster'[v] = toMaster[v]
      /\ Len(toMaster[w]) \in Nat \ {0}
      /\ Len(toMaster'[w]) = Len(toMaster[w]) - 1
      /\ Head(toMaster[w]) = toMaster[w][1]
      /\ \A i \in 1..(Len(toMaster[w]) - 1) :
           toMaster'[w][i] = toMaster[w][i + 1]
  BY <1>1, PopFacts
<1>3. \A v \in Worker \ {w} : CountFirst(v)' /\ (NoCount(v) => NoCount(v)')
  BY <1>2 DEF CountFirst, NoCount, CountIn
<1> DEFINE n == Len(toMaster'[w])
<1>4. /\ n \in Nat /\ Len(toMaster[w]) = n + 1
      /\ \A i \in 1..n : toMaster'[w][i] = toMaster[w][i + 1]
  BY <1>2
<1> HIDE DEF n
<1>5. \A i \in 1..n : i + 1 \in 1..(n + 1) /\ 1 < i + 1
                      /\ \A j \in 1..n : i < j => i + 1 < j + 1
  BY <1>4
<1>6. 1 \in 1..(n + 1)
  BY <1>4
<1>7. /\ \A i, j \in 1..(n + 1) :
           i < j /\ toMaster[w][i].type = "RANGE_REQUEST" =>
             CountIn(toMaster[w][j]) = 0
      /\ NoCount(w) <=> \A i \in 1..(n + 1) : CountIn(toMaster[w][i]) = 0
  BY <1>4 DEF CountFirst, NoCount
<1>8. \A i, j \in 1..n :
        i < j /\ toMaster'[w][i].type = "RANGE_REQUEST" =>
          CountIn(toMaster'[w][j]) = 0
  BY <1>4, <1>5, <1>7
<1>9. NoCount(w) => \A i \in 1..n : CountIn(toMaster'[w][i]) = 0
  BY <1>4, <1>5, <1>7
<1>10. Head(toMaster[w]).type = "RANGE_REQUEST" =>
         \A i \in 1..n : CountIn(toMaster'[w][i]) = 0
  BY <1>2, <1>4, <1>5, <1>6, <1>7
<1>11. /\ CountFirst(w)' <=> \A i, j \in 1..n :
            i < j /\ toMaster'[w][i].type = "RANGE_REQUEST" =>
              CountIn(toMaster'[w][j]) = 0
       /\ NoCount(w)' <=> \A i \in 1..n : CountIn(toMaster'[w][i]) = 0
  BY DEF CountFirst, NoCount, CountIn, n
<1>12. QED
  BY <1>3, <1>8, <1>9, <1>10, <1>11

LEMMA FirstSend ==
  ASSUME TypeOK, NEW w \in Worker, NEW m \in Message,
         toMaster' = Send(toMaster, w, m),
         \A v \in Worker : CountFirst(v),
         \/ CountIn(m) = 0
         \/ \A i \in 1..Len(toMaster[w]) : toMaster[w][i].type # "RANGE_REQUEST"
  PROVE  /\ \A v \in Worker : CountFirst(v)'
         /\ \A v \in Worker \ {w} : NoCount(v) => NoCount(v)'
         /\ CountIn(m) = 0 /\ NoCount(w) => NoCount(w)'
<1>1. toMaster \in [Worker -> Seq(Message)]
  BY DEF TypeOK
<1>2. /\ \A v \in Worker \ {w} : toMaster'[v] = toMaster[v]
      /\ Len(toMaster'[w]) = Len(toMaster[w]) + 1
      /\ \A i \in 1..Len(toMaster[w]) : toMaster'[w][i] = toMaster[w][i]
      /\ toMaster'[w][Len(toMaster[w]) + 1] = m
  BY <1>1, SendFacts
<1>3. \A v \in Worker \ {w} : CountFirst(v)' /\ (NoCount(v) => NoCount(v)')
  BY <1>2 DEF CountFirst, NoCount, CountIn
<1> DEFINE n == Len(toMaster[w])
<1>4. n \in Nat
  BY <1>1
<1> HIDE DEF n
<1>5. \A i \in 1..(n + 1) : i \in 1..n \/ i = n + 1
  BY <1>4
<1>6. \A i, j \in 1..(n + 1) : i < j => i \in 1..n
  BY <1>4
<1>7. /\ \A i, j \in 1..n :
           i < j /\ toMaster[w][i].type = "RANGE_REQUEST" =>
             CountIn(toMaster[w][j]) = 0
      /\ NoCount(w) <=> \A i \in 1..n : CountIn(toMaster[w][i]) = 0
      /\ CountIn(m) = 0
           \/ \A i \in 1..n : toMaster[w][i].type # "RANGE_REQUEST"
  BY DEF CountFirst, NoCount, n
<1>8. /\ \A i \in 1..n : toMaster'[w][i] = toMaster[w][i]
      /\ toMaster'[w][n + 1] = m
  BY <1>2 DEF n
<1>9. \A i, j \in 1..(n + 1) :
        i < j /\ toMaster'[w][i].type = "RANGE_REQUEST" =>
          CountIn(toMaster'[w][j]) = 0
  BY <1>5, <1>6, <1>7, <1>8
<1>10. CountIn(m) = 0 /\ NoCount(w) =>
         \A i \in 1..(n + 1) : CountIn(toMaster'[w][i]) = 0
  BY <1>5, <1>7, <1>8
<1>11. /\ CountFirst(w)' <=> \A i, j \in 1..(n + 1) :
            i < j /\ toMaster'[w][i].type = "RANGE_REQUEST" =>
              CountIn(toMaster'[w][j]) = 0
       /\ NoCount(w)' <=> \A i \in 1..(n + 1) : CountIn(toMaster'[w][i]) = 0
  BY <1>2 DEF CountFirst, NoCount, CountIn, n
<1>12. QED
  BY <1>3, <1>9, <1>10, <1>11

LEMMA MasterFirst ==
  ASSUME Inv, EnoughRoots, CountedFirst, Master
  PROVE  CountedFirst'
<1>1. TypeOK
  BY Channels
<1>2. /\ \A v \in Worker : CountFirst(v) /\ (Waiting(v) => NoCount(v))
      /\ EnoughRoots' <=> EnoughRoots
  BY DEF CountedFirst, EnoughRoots
<1>3. ASSUME NEW w \in Worker, ReceiveRequest(w), mpc' # "done",
             \A v \in Worker \ {w} : Waiting(v)' <=> Waiting(v)
      PROVE  CountedFirst'
  <2>1. toMaster[w] # <<>> /\ toMaster' = Pop(toMaster, w) /\ mpc = "recv"
    BY <1>3 DEF ReceiveRequest
  <2>2. Head(toMaster[w]).type = "RANGE_REQUEST"
    BY <2>1, Channels, PopFacts, ExpectedFromInv DEF MessagesExpected
  <2>3. /\ \A v \in Worker : CountFirst(v)' /\ (NoCount(v) => NoCount(v)')
        /\ NoCount(w)'
    BY <1>1, <1>2, <2>1, <2>2, FirstPop
  <2>4. QED
    BY <1>2, <1>3, <2>3 DEF CountedFirst
<1>4. ASSUME NEW w \in Worker, GiveRange(w) PROVE CountedFirst'
  <2>1. /\ ReceiveRequest(w) /\ mpc' # "done"
        /\ \A v \in Worker \ {w} : Waiting(v)' <=> Waiting(v)
    BY <1>4 DEF GiveRange, Waiting, ReceiveRequest
  <2>2. QED
    BY <1>3, <2>1
<1>5. ASSUME NEW w \in Worker, BeginSteal(w) PROVE CountedFirst'
  <2>1. /\ ReceiveRequest(w) /\ mpc' # "done"
        /\ \A v \in Worker \ {w} : Waiting(v)' <=> Waiting(v)
    BY <1>1, <1>5 DEF BeginSteal, Waiting, TypeOK
  <2>2. QED
    BY <1>3, <2>1
<1>6. CASE AskVictim \/ Broadcast
  <2>1. /\ toMaster' = toMaster /\ workersStates' = workersStates
        /\ mpc' = "done" => terminated
    BY <1>6 DEF AskVictim, Broadcast
  <2>2. QED
    BY <1>2, <2>1 DEF CountedFirst, CountFirst, NoCount, Waiting, terminated,
                      CountIn
<1>7. CASE Forward
  <2>1. PICK w \in Worker : w = lastStealVictim
    BY <1>1 DEF TypeOK
  <2>2. /\ toMaster[w] # <<>> /\ toMaster' = Pop(toMaster, w)
        /\ mpc' # "done"
        /\ \A v \in Worker : Waiting(v)' => Waiting(v)
    BY <1>1, <1>7, <2>1, VictimAnswersType DEF Forward, Waiting, TypeOK
  <2>3. \A v \in Worker : CountFirst(v)' /\ (NoCount(v) => NoCount(v)')
    BY <1>1, <1>2, <2>2, FirstPop
  <2>4. QED
    BY <1>2, <2>2, <2>3 DEF CountedFirst
<1>8. CASE VictimIsIdle
  <2>1. PICK w \in Worker : w = lastStealVictim
    BY <1>1 DEF TypeOK
  <2>2. /\ toMaster[w] # <<>> /\ toMaster' = Pop(toMaster, w)
        /\ Head(toMaster[w]).type = "RANGE_REQUEST"
        /\ mpc' # "done"
        /\ \A v \in Worker \ {w} : Waiting(v)' => Waiting(v)
    BY <1>1, <1>8, <2>1, VictimAnswersType DEF VictimIsIdle, Waiting, TypeOK
  <2>3. /\ \A v \in Worker : CountFirst(v)' /\ (NoCount(v) => NoCount(v)')
        /\ NoCount(w)'
    BY <1>1, <1>2, <2>2, FirstPop
  <2>4. QED
    BY <1>2, <2>2, <2>3 DEF CountedFirst
<1>9. QED
  BY <1>4, <1>5, <1>6, <1>7, <1>8 DEF Master

LEMMA WorkerFirst ==
  ASSUME Inv, EnoughRoots, CountedFirst, NEW w \in Worker, WorkerStep(w)
  PROVE  CountedFirst'
<1>1. TypeOK
  BY Channels
<1>2. /\ \A v \in Worker : CountFirst(v) /\ (Waiting(v) => NoCount(v))
      /\ EnoughRoots' <=> EnoughRoots
  BY DEF CountedFirst, EnoughRoots
<1>3. mpc' = mpc /\ workersStates' = workersStates
  BY DEF WorkerStep, RequestFirst, RequestMore, Request, DropSteal,
         ReceiveRange, ReceiveStolen, ReceiveTermination, Enumerate,
         GiveRoots, GiveNode, masterVars
<1>4. /\ \A v \in Worker : Waiting(v)' <=> Waiting(v)
      /\ mpc' = "done" => terminated'
  BY <1>2, <1>3 DEF Waiting, terminated, CountedFirst
<1>5. ASSUME NEW m \in Message, CountIn(m) = 0, toMaster' = Send(toMaster, w, m)
      PROVE  CountedFirst'
  <2>1. \A v \in Worker : CountFirst(v)' /\ (NoCount(v) => NoCount(v)')
    BY <1>1, <1>2, <1>5, FirstSend
  <2>2. QED
    BY <1>2, <1>4, <2>1 DEF CountedFirst
<1>6. CASE RequestFirst(w) \/ DropSteal(w)
  <2>1. RangeRequest(0) \in Message /\ CountIn(RangeRequest(0)) = 0
    BY MessageTypes, CountInSent
  <2>2. toMaster' = Send(toMaster, w, RangeRequest(0))
    BY <1>6 DEF RequestFirst, Request, DropSteal
  <2>3. QED
    BY <1>5, <2>1, <2>2
<1>7. CASE RequestMore(w)
  <2>1. /\ toMaster' = Send(toMaster, w, RangeRequest(found[w]))
        /\ wpc[w] \in {"fresh", "work"}
    BY <1>7 DEF RequestMore, Request
  <2>2. RangeRequest(found[w]) \in Message
    BY <1>1, MessageTypes DEF TypeOK
  <2>3. Exchange(w) /\ ~ Waits(w)
    BY <2>1 DEF Inv, ExchangeInv, Over, Waits
  <2>4. /\ ~ Waiting(w)
        /\ \A i \in 1..Len(toMaster[w]) : toMaster[w][i].type # "RANGE_REQUEST"
    BY <2>3 DEF Exchange
  <2>5. /\ \A v \in Worker : CountFirst(v)'
        /\ \A v \in Worker \ {w} : NoCount(v) => NoCount(v)'
    BY <1>1, <1>2, <2>1, <2>2, <2>4, FirstSend
  <2>6. QED
    BY <1>2, <1>4, <2>4, <2>5 DEF CountedFirst
<1>8. ASSUME NEW S \in SUBSET Frame, Serve(w, S) PROVE CountedFirst'
  <2>1. Stolen(S) \in Message /\ CountIn(Stolen(S)) = 0
    BY MessageTypes, CountInSent
  <2>2. QED
    BY <1>5, <1>8, <2>1 DEF Serve
<1>9. CASE GiveRoots(w)
  <2>1. PICK S \in SUBSET roots[w] : Serve(w, S)
    BY <1>9 DEF GiveRoots
  <2>2. S \in SUBSET Frame
    BY <1>1, Constants DEF TypeOK
  <2>3. QED
    BY <1>8, <2>1, <2>2
<1>10. CASE GiveNode(w)
  <2>1. PICK x \in nodes[w] : Serve(w, {x})
    BY <1>10 DEF GiveNode
  <2>2. {x} \in SUBSET Frame
    BY <1>1, Constants DEF TypeOK
  <2>3. QED
    BY <1>8, <2>1, <2>2
<1>11. CASE ReceiveRange(w) \/ ReceiveStolen(w) \/ ReceiveTermination(w)
            \/ Enumerate(w)
  <2>1. toMaster' = toMaster
    BY <1>11 DEF ReceiveRange, ReceiveStolen, ReceiveTermination, Enumerate
  <2>2. \A v \in Worker : (CountFirst(v)' <=> CountFirst(v))
                          /\ (NoCount(v)' <=> NoCount(v))
    BY <2>1 DEF CountFirst, NoCount, CountIn
  <2>3. QED
    BY <1>2, <1>4, <2>2 DEF CountedFirst
<1>12. QED
  BY <1>6, <1>7, <1>9, <1>10, <1>11 DEF WorkerStep

LEMMA InitCount == Init => CountInv
<1> SUFFICES ASSUME Init PROVE CountInv
  OBVIOUS
<1>1. \A w \in Worker : Len(toMaster[w]) = 0 /\ found[w] = 0
  BY DEF Init
<1>2. \A w \in Worker : Uncounted(w) = 0
  <2>1. TAKE w \in Worker
  <2>2. CountOf(toMaster[w]) = 0
    <3>1. toMaster[w] \in Seq(Message)
      BY DEF Init
    <3>2. QED
      BY <1>1, <3>1, CountOfType
  <2>3. Unsent(w) = 0
    BY <1>1 DEF Unsent
  <2>4. QED
    BY <2>2, <2>3, UncountedIs
<1>3. SumOver([w \in Worker |-> Uncounted(w)]) = 0
  <2> DEFINE f == [w \in Worker |-> Uncounted(w)]
  <2>1. f \in [Worker -> Nat] /\ \A w \in Worker : f[w] = 0
    BY <1>2
  <2> HIDE DEF f
  <2>2. SumOver(f) = 0
    BY <2>1, SumZero
  <2>3. QED
    BY <2>2 DEF f
<1>4. CountSum
  BY <1>3, FS_EmptySet DEF CountSum, Init
<1>5. NothingFound
  BY <1>1 DEF NothingFound
<1>6. CountedFirst
  BY <1>1 DEF CountedFirst, CountFirst, NoCount, Init, Waiting
<1>7. QED
  BY <1>4, <1>5, <1>6 DEF CountInv

LEMMA CountStep == Inv /\ Inv' /\ WorkInv /\ CountInv /\ [Next]_vars => CountInv'
<1> SUFFICES ASSUME Inv, Inv', WorkInv, CountInv, [Next]_vars PROVE CountInv'
  OBVIOUS
<1>1. TypeOK /\ TypeOK'
  BY DEF Inv
<1>2. CASE UNCHANGED vars
  BY <1>2 DEF vars, masterVars, workerVars, CountInv, CountSum, NothingFound,
              CountedFirst, CountFirst, NoCount, Waiting, terminated,
              Uncounted, CountOnTheWay, CountIn, SumOver, EnoughRoots
<1>3. CASE Next
  <2>1. CountSum'
    <3>1. ASSUME NEW w \in Worker, Kept(w) PROVE CountSum'
      BY <1>1, <3>1, KeptSum DEF CountInv
    <3>2. CASE Master
      BY <3>1, <3>2, MasterKept
    <3>3. ASSUME NEW w \in Worker, WorkerStep(w) PROVE CountSum'
      <4>1. CASE Enumerate(w)
        BY <1>1, <4>1, EnumerateSum DEF CountInv
      <4>2. CASE ~ Enumerate(w)
        BY <3>1, <3>3, <4>2, WorkerKept DEF CountInv
      <4>3. QED
        BY <4>1, <4>2
    <3>4. QED
      BY <1>3, <3>2, <3>3 DEF Next
  <2>2. NothingFound'
    BY <1>1, <1>3, FoundStep DEF CountInv
  <2>3. CountedFirst'
    <3>1. CASE EnoughRoots
      BY <1>3, <3>1, MasterFirst, WorkerFirst DEF CountInv, Next
    <3>2. CASE ~ EnoughRoots
      BY <3>2 DEF CountedFirst, EnoughRoots
    <3>3. QED
      BY <3>1, <3>2
  <2>4. QED
    BY <2>1, <2>2, <2>3 DEF CountInv
<1>4. QED
  BY <1>2, <1>3

\* When the master has ended it has counted everything.
LEMMA CountedAtEnd ==
  ASSUME Inv, CountInv, mpc = "done"
  PROVE  solutionsCount = Cardinality(reported \cap Solution)
<1>1. EnoughRoots /\ \A w \in Worker : Over(w)
  BY DEF Inv, Barren, ExchangeInv
<1>2. \A w \in Worker : NoCount(w)
  BY <1>1 DEF CountInv, CountedFirst, terminated, Waiting
<1>3. \A w \in Worker : Uncounted(w) = 0
  <2>1. TAKE w \in Worker
  <2>2. CountOf(toMaster[w]) = 0
    <3>1. toMaster[w] \in Seq(Message)
      BY Channels
    <3>2. QED
      BY <1>2, <3>1, CountOfType DEF NoCount
  <2>3. Unsent(w) = 0
    BY <1>1 DEF Unsent, Over, CountInv, NothingFound
  <2>4. QED
    BY <2>2, <2>3, UncountedIs
<1>4. SumOver([w \in Worker |-> Uncounted(w)]) = 0
  <2> DEFINE f == [w \in Worker |-> Uncounted(w)]
  <2>1. f \in [Worker -> Nat] /\ \A w \in Worker : f[w] = 0
    BY <1>3
  <2> HIDE DEF f
  <2>2. SumOver(f) = 0
    BY <2>1, SumZero
  <2>3. QED
    BY <2>2 DEF f
<1>5. solutionsCount \in Nat
  BY Channels DEF TypeOK
<1>6. solutionsCount + 0 = Cardinality(reported \cap Solution)
  BY <1>4 DEF CountInv, CountSum
<1>7. QED
  BY <1>5, <1>6

\* What the master has counted, what is in the channels and what the workers
\* still have to send are the solutions called back, each counted once; when
\* the master ends it has counted them all.
THEOREM SolutionsAreCounted == Spec => []CountConserved
<1>1. ASSUME Inv, CountInv PROVE CountConserved
  BY <1>1, CountedAtEnd DEF CountInv, CountSum, CountConserved
<1>2. Inv /\ CountInv => CountConserved
  BY <1>1
<1>3. Spec => []CountInv
  BY InitCount, CountStep, WorkHolds, InvHolds, PTL DEF Spec
<1>4. QED
  BY <1>2, <1>3, InvHolds, PTL
=============================================================================
