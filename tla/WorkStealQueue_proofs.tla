---------------------- MODULE WorkStealQueue_proofs ----------------------
(***************************************************************************)
(* Theorems about the threads and their queue, for any forest, any number  *)
(* of threads and blocks of any size.  However many threads claim elements *)
(* of a stream at once, no claim that is made good is for an element that  *)
(* is not there; a thread that took an index has the slot for itself; a    *)
(* block is in one stream or free and is given back once, when nobody uses *)
(* it any more; and what is in the slots are the nodes shared, each once.  *)
(* So the threads over it do what WorkSteal lets them do, no more.         *)
(***************************************************************************)
EXTENDS WorkStealQueue, WorkSteal_proofs

\* A step of thread t in the queue.
QueueStep(t) ==
  \/ Q!Enqueuing(t) \/ Q!Sizing(t) \/ Q!Dequeuing(t) \/ Q!Failed(t)
  \/ \E x : Q!Publish(t, x) \/ Q!SizeIs(t, x) \/ Q!Dequeued(t, x)

LEMMA StepsOfTheQueue ==
  ASSUME NEW t \in Thread, QStep(t)
  PROVE  QueueStep(t) \/ UNCHANGED queueVars
  BY DEF QStep, Elsewhere, SizeSteps, SizeRead, EnqueueSteps, ShareNode,
         DequeueSteps, GetNode, GetNothing, QueueStep
-----------------------------------------------------------------------
(* The locals of a thread *)

Fields == {"ptr", "nonEmpty", "best", "size", "first", "tail", "overcommit",
           "mine", "index", "item"}

ToStream == Thread \cup {NoNode}

\* The labels at which a thread has a stream, and at which it has claimed.
WithStream == {"sizeHead", "scanHead", "tail", "overcommit", "check", "claim",
               "recheck", "undo", "head"}

Claimed == {"recheck", "undo", "head"}

Shapes ==
  /\ producers \in Seq(Thread)
  /\ tailIndex \in [Thread -> Nat]
  /\ headIndex \in [Thread -> Nat]
  /\ dequeueOptimisticCount \in [Thread -> Nat]
  /\ dequeueOvercommit \in [Thread -> Nat]
  /\ DOMAIN at = Thread
  /\ DOMAIN loc = Thread
  /\ \A t \in Thread : DOMAIN loc[t] = Fields

\* What is in the locals l of a thread that is at a.
Typed(a, l) ==
  /\ l.ptr \in ToStream
  /\ l.best \in ToStream
  /\ l.nonEmpty \in Nat
  /\ l.size \in Nat
  /\ l.tail \in Nat
  /\ l.overcommit \in Nat
  /\ l.mine \in Nat
  /\ a \in WithStream => l.ptr \in Thread
  /\ a \in {"scan", "scanHead"} =>
       /\ l.nonEmpty > 0 => l.size > 0
       /\ l.size > 0 => l.best \in Thread

\* overcommit was read from a counter that only grows.
Covered(a, l) ==
  a \in {"check", "claim", "recheck"} => l.overcommit <= dequeueOvercommit[l.ptr]

LocalsInv ==
  /\ Shapes
  /\ \A t \in Thread : Typed(at[t], loc[t]) /\ Covered(at[t], loc[t])

LEMMA Streams ==
  ASSUME Shapes
  PROVE  Q!FirstProd \in ToStream /\ \A p : Q!next_prod(p) \in ToStream
<1>1. Q!FirstProd \in ToStream
  BY DEF Shapes, Q!FirstProd, ToStream
<1>2. ASSUME NEW p PROVE Q!next_prod(p) \in ToStream
  BY DEF Q!next_prod, ToStream
<1>3. QED  BY <1>1, <1>2

\* A step of Step changes at and loc for its thread only.
LEMMA StepEffect ==
  ASSUME LocalsInv, NEW t \in Thread, NEW l, NEW next, NEW r,
         DOMAIN r = Fields, Q!Step(t, l, next, r)
  PROVE  /\ at[t] = l /\ at'[t] = next /\ loc'[t] = r
         /\ \A u \in Thread \ {t} : at'[u] = at[u] /\ loc'[u] = loc[u]
         /\ DOMAIN at' = Thread /\ DOMAIN loc' = Thread
         /\ \A u \in Thread : DOMAIN loc'[u] = Fields
  BY DEF Q!Step, LocalsInv, Shapes

LEMMA ReadEffect ==
  ASSUME LocalsInv, NEW t \in Thread, NEW l, NEW next, NEW r,
         DOMAIN r = Fields, Q!Read(t, l, next, r)
  PROVE  /\ at[t] = l /\ at'[t] = next /\ loc'[t] = r
         /\ \A u \in Thread \ {t} : at'[u] = at[u] /\ loc'[u] = loc[u]
         /\ UNCHANGED <<tailIndex, headIndex, dequeueOptimisticCount,
                        dequeueOvercommit>>
         /\ Shapes'
<1>1. Q!Step(t, l, next, r) /\ UNCHANGED <<producers, tailIndex, headIndex,
                                 dequeueOptimisticCount, dequeueOvercommit>>
  BY DEF Q!Read, Q!stream
<1>2. QED  BY <1>1, StepEffect DEF LocalsInv, Shapes

LEMMA LocalsKept ==
  ASSUME LocalsInv, NEW t \in Thread, Shapes',
         Typed(at'[t], loc'[t]), Covered(at[t], loc[t])',
         \A u \in Thread \ {t} : at'[u] = at[u] /\ loc'[u] = loc[u],
         \A p \in Thread : dequeueOvercommit'[p] >= dequeueOvercommit[p]
  PROVE  LocalsInv'
<1>1. ASSUME NEW u \in Thread \ {t} PROVE Typed(at[u], loc[u])' /\ Covered(at[u], loc[u])'
  <2>1. at'[u] = at[u] /\ loc'[u] = loc[u]
    BY <1>1
  <2>2. Typed(at[u], loc[u]) /\ Covered(at[u], loc[u])
    BY <1>1 DEF LocalsInv
  <2>3. Typed(at[u], loc[u])'
    BY <2>1, <2>2 DEF Typed
  <2>4. Covered(at[u], loc[u])'
    <3>1. SUFFICES ASSUME at[u] \in {"check", "claim", "recheck"}
                   PROVE  loc[u].overcommit <= dequeueOvercommit'[loc[u].ptr]
      BY <2>1 DEF Covered
    <3>2. loc[u].ptr \in Thread /\ loc[u].overcommit \in Nat
      BY <2>2, <3>1 DEF Typed, WithStream
    <3>3. loc[u].overcommit <= dequeueOvercommit[loc[u].ptr]
      BY <2>2, <3>1 DEF Covered
    <3>4. dequeueOvercommit[loc[u].ptr] \in Nat /\ dequeueOvercommit'[loc[u].ptr] \in Nat
      BY <3>2 DEF LocalsInv, Shapes
    <3>5. QED  BY <3>2, <3>3, <3>4
  <2>5. QED  BY <2>3, <2>4
<1>2. QED  BY <1>1 DEF LocalsInv, Typed

\* A read leaves all but the place and the locals of its thread alone.
LEMMA ReadKeeps ==
  ASSUME LocalsInv, NEW t \in Thread, NEW l, NEW next, NEW r,
         DOMAIN r = Fields, Q!Read(t, l, next, r),
         Typed(next, r), Covered(next, r)
  PROVE  LocalsInv'
<1>1. /\ at'[t] = next /\ loc'[t] = r /\ Shapes'
      /\ \A u \in Thread \ {t} : at'[u] = at[u] /\ loc'[u] = loc[u]
      /\ dequeueOvercommit' = dequeueOvercommit
  BY ReadEffect
<1>2. Covered(at[t], loc[t])'
  BY <1>1 DEF Covered
<1>3. \A p \in Thread : dequeueOvercommit'[p] >= dequeueOvercommit[p]
  BY <1>1 DEF LocalsInv, Shapes
<1>4. QED  BY <1>1, <1>2, <1>3, LocalsKept

LEMMA SizingKeepsLocals ==
  ASSUME LocalsInv, NEW t \in Thread, Q!Sizing(t)
  PROVE  LocalsInv'
<1>0. Typed(at[t], loc[t]) /\ Shapes
  BY DEF LocalsInv
<1>1. CASE Q!StartSize(t)
  <2> DEFINE r == [Q!Blank EXCEPT !.ptr = Q!FirstProd]
  <2>1. Q!Read(t, "idle", "size", r)
    BY <1>1 DEF Q!StartSize
  <2>2. DOMAIN r = Fields
    BY DEF Q!Blank, Fields
  <2>3. Typed("size", r) /\ Covered("size", r)
    BY <1>0, Streams DEF Typed, Covered, Q!Blank, WithStream, ToStream
  <2>4. QED  BY <2>1, <2>2, <2>3, ReadKeeps
<1>2. CASE Q!SizeTail(t)
  <2> DEFINE r == [loc[t] EXCEPT !.tail = tailIndex[loc[t].ptr]]
  <2>1. Q!Read(t, "size", "sizeHead", r) /\ loc[t].ptr # NoNode
    BY <1>2 DEF Q!SizeTail
  <2>2. DOMAIN r = Fields
    BY <1>0 DEF Shapes
  <2>3. Typed("sizeHead", r) /\ Covered("sizeHead", r)
    BY <1>0, <2>1 DEF Typed, Covered, WithStream, ToStream, Shapes, Fields
  <2>4. QED  BY <2>1, <2>2, <2>3, ReadKeeps
<1>3. CASE Q!SizeHead(t)
  <2> DEFINE r == [loc[t] EXCEPT !.size = @ + Q!StreamSize(t),
                                 !.ptr = Q!next_prod(@), !.tail = 0]
  <2>1. Q!Read(t, "sizeHead", "size", r)
    BY <1>3 DEF Q!SizeHead
  <2>2. DOMAIN r = Fields
    BY <1>0 DEF Shapes
  <2>3. at[t] = "sizeHead"
    BY <2>1 DEF Q!Read, Q!Step
  <2>4. Q!StreamSize(t) \in Nat
    BY <1>0, <2>3 DEF Q!StreamSize, Typed, WithStream, Shapes
  <2>5. Typed("size", r) /\ Covered("size", r)
    BY <1>0, <2>4, Streams DEF Typed, Covered, WithStream, Shapes, Fields
  <2>6. QED  BY <2>1, <2>2, <2>5, ReadKeeps
<1>4. QED  BY <1>1, <1>2, <1>3 DEF Q!Sizing

LEMMA EnqueuingKeepsLocals ==
  ASSUME LocalsInv, NEW t \in Thread, NEW x, Q!Enqueuing(t) \/ Q!Publish(t, x)
  PROVE  LocalsInv'
<1>1. UNCHANGED <<headIndex, dequeueOptimisticCount, dequeueOvercommit, at, loc>>
  BY DEF Q!Enqueuing, Q!AddProducer, Q!NewBlock, Q!StartsBlock, Q!Publish, Q!stream
<1>2. producers' \in Seq(Thread)
  <2>1. CASE Q!AddProducer(t)
    BY <2>1 DEF Q!AddProducer, Q!add_producer, LocalsInv, Shapes
  <2>2. CASE ~ Q!AddProducer(t)
    BY <2>2 DEF Q!Enqueuing, Q!NewBlock, Q!StartsBlock, Q!Publish, LocalsInv, Shapes
  <2>3. QED  BY <2>1, <2>2
<1>3. tailIndex' \in [Thread -> Nat]
  <2>1. CASE Q!Publish(t, x)
    BY <2>1 DEF Q!Publish, LocalsInv, Shapes
  <2>2. CASE Q!Enqueuing(t)
    BY <2>2 DEF Q!Enqueuing, Q!AddProducer, Q!NewBlock, Q!StartsBlock, Q!stream,
                LocalsInv, Shapes
  <2>3. QED  BY <2>1, <2>2
<1>4. Shapes'
  BY <1>1, <1>2, <1>3 DEF LocalsInv, Shapes
<1>5. Typed(at'[t], loc'[t]) /\ Covered(at[t], loc[t])'
  BY <1>1 DEF LocalsInv, Covered
<1>6. \A p \in Thread : dequeueOvercommit'[p] >= dequeueOvercommit[p]
  BY <1>1 DEF LocalsInv, Shapes
<1>7. QED  BY <1>1, <1>4, <1>5, <1>6, LocalsKept

LEMMA ScanKeepsLocals ==
  ASSUME LocalsInv, NEW t \in Thread,
         Q!StartScan(t) \/ Q!ScanTail(t) \/ Q!ScanHead(t) \/ Q!ScanEnd(t)
           \/ Q!TryNext(t)
  PROVE  LocalsInv'
<1>0. Typed(at[t], loc[t]) /\ Shapes
  BY DEF LocalsInv
<1>1. CASE Q!StartScan(t)
  <2> DEFINE r == [Q!Blank EXCEPT !.ptr = Q!FirstProd]
  <2>1. Q!Read(t, "idle", "scan", r)
    BY <1>1 DEF Q!StartScan
  <2>2. DOMAIN r = Fields
    BY DEF Q!Blank, Fields
  <2>3. Typed("scan", r) /\ Covered("scan", r)
    BY <1>0, Streams DEF Typed, Covered, Q!Blank, WithStream, ToStream
  <2>4. QED  BY <2>1, <2>2, <2>3, ReadKeeps
<1>2. CASE Q!ScanTail(t)
  <2> DEFINE r == [loc[t] EXCEPT !.tail = tailIndex[loc[t].ptr]]
  <2>1. Q!Read(t, "scan", "scanHead", r) /\ loc[t].ptr # NoNode
    BY <1>2 DEF Q!ScanTail
  <2>2. DOMAIN r = Fields
    BY <1>0 DEF Shapes
  <2>3. at[t] = "scan"
    BY <2>1 DEF Q!Read, Q!Step
  <2>4. Typed("scanHead", r) /\ Covered("scanHead", r)
    BY <1>0, <2>1, <2>3 DEF Typed, Covered, WithStream, ToStream, Shapes, Fields
  <2>5. QED  BY <2>1, <2>2, <2>4, ReadKeeps
<1>3. CASE Q!ScanHead(t)
  <2> DEFINE size == Q!StreamSize(t)
             r == [loc[t] EXCEPT
                     !.nonEmpty = IF size > 0 THEN @ + 1 ELSE @,
                     !.best = IF size > loc[t].size THEN loc[t].ptr ELSE @,
                     !.size = IF size > loc[t].size THEN size ELSE @,
                     !.ptr = Q!next_prod(@), !.tail = 0]
  <2>1. Q!Read(t, "scanHead", "scan", r)
    BY <1>3 DEF Q!ScanHead
  <2>2. DOMAIN r = Fields
    BY <1>0 DEF Shapes
  <2>3. at[t] = "scanHead"
    BY <2>1 DEF Q!Read, Q!Step
  <2>4. size \in Nat
    BY <1>0, <2>3 DEF Q!StreamSize, Typed, WithStream, Shapes
  <2>5. loc[t].ptr \in Thread
    BY <1>0, <2>3 DEF Typed, WithStream
  <2>6. Q!next_prod(loc[t].ptr) \in ToStream
    BY <1>0, Streams
  <2> HIDE DEF size
  <2>7. Typed("scan", r) /\ Covered("scan", r)
    <3>1. /\ r.nonEmpty = IF size > 0 THEN loc[t].nonEmpty + 1 ELSE loc[t].nonEmpty
          /\ r.best = IF size > loc[t].size THEN loc[t].ptr ELSE loc[t].best
          /\ r.size = IF size > loc[t].size THEN size ELSE loc[t].size
          /\ r.ptr = Q!next_prod(loc[t].ptr) /\ r.tail = 0
          /\ r.overcommit = loc[t].overcommit /\ r.mine = loc[t].mine
      BY <1>0 DEF Shapes, Fields
    <3> HIDE DEF r
    <3>2. QED
      BY <1>0, <2>3, <2>4, <2>5, <2>6, <3>1 DEF Typed, Covered, WithStream, ToStream
  <2>8. QED  BY <2>1, <2>2, <2>7, ReadKeeps
<1>4. CASE Q!ScanEnd(t)
  <2> DEFINE next == IF loc[t].nonEmpty > 0 THEN "tail" ELSE "failed"
             r == [loc[t] EXCEPT !.ptr = loc[t].best, !.size = 0, !.nonEmpty = 0]
  <2>1. Q!Read(t, "scan", next, r)
    BY <1>4 DEF Q!ScanEnd
  <2>2. DOMAIN r = Fields
    BY <1>0 DEF Shapes
  <2>3. at[t] = "scan"
    BY <2>1 DEF Q!Read, Q!Step
  <2>4. Typed(next, r) /\ Covered(next, r)
    BY <1>0, <2>3 DEF Typed, Covered, WithStream, Shapes, Fields, ToStream
  <2>5. QED  BY <2>1, <2>2, <2>4, ReadKeeps
<1>5. CASE Q!TryNext(t)
  <2> DEFINE q == IF loc[t].first THEN Q!FirstProd ELSE Q!next_prod(loc[t].ptr)
             other == IF q = loc[t].best THEN Q!next_prod(q) ELSE q
             next == IF other = NoNode THEN "failed" ELSE "tail"
             r == [loc[t] EXCEPT !.ptr = other, !.first = FALSE]
  <2>1. Q!Read(t, "next", next, r)
    BY <1>5 DEF Q!TryNext
  <2>2. DOMAIN r = Fields
    BY <1>0 DEF Shapes
  <2>3. other \in ToStream
    BY <1>0, Streams
  <2> HIDE DEF other
  <2>4. Typed(next, r) /\ Covered(next, r)
    BY <1>0, <2>3 DEF Typed, Covered, WithStream, Shapes, Fields, ToStream
  <2>5. QED  BY <2>1, <2>2, <2>4, ReadKeeps
<1>6. QED  BY <1>1, <1>2, <1>3, <1>4, <1>5

LEMMA Increment ==
  ASSUME NEW f \in [Thread -> Nat], NEW p, NEW g, g = [f EXCEPT ![p] = @ + 1]
  PROVE  g \in [Thread -> Nat] /\ \A q \in Thread : g[q] >= f[q]
<1>1. \A q \in Thread : g[q] = IF q = p THEN f[q] + 1 ELSE f[q]
  OBVIOUS
<1>2. \A q \in Thread : f[q] \in Nat
  OBVIOUS
<1>3. \A q \in Thread : g[q] \in Nat /\ g[q] >= f[q]
  BY <1>1, <1>2
<1>4. g \in [Thread -> Nat]
  BY <1>3
<1>5. QED  BY <1>3, <1>4

\* Covered after a step.
CoveredNext(a, l) ==
  a \in {"check", "claim", "recheck"} => l.overcommit <= dequeueOvercommit'[l.ptr]

\* What the counters may do in a step of the queue.
Counters ==
  /\ producers' = producers /\ tailIndex' = tailIndex
  /\ headIndex' \in [Thread -> Nat]
  /\ dequeueOptimisticCount' \in [Thread -> Nat]
  /\ dequeueOvercommit' \in [Thread -> Nat]
  /\ \A p \in Thread : dequeueOvercommit'[p] >= dequeueOvercommit[p]

LEMMA StepKeeps ==
  ASSUME LocalsInv, NEW t \in Thread, NEW l, NEW next, NEW r,
         DOMAIN r = Fields, Q!Step(t, l, next, r), Counters,
         Typed(next, r), CoveredNext(next, r)
  PROVE  LocalsInv'
<1>1. /\ at'[t] = next /\ loc'[t] = r
      /\ \A u \in Thread \ {t} : at'[u] = at[u] /\ loc'[u] = loc[u]
      /\ DOMAIN at' = Thread /\ DOMAIN loc' = Thread
      /\ \A u \in Thread : DOMAIN loc'[u] = Fields
  BY StepEffect
<1>2. Shapes'
  BY <1>1 DEF LocalsInv, Shapes, Counters
<1>3. Covered(at[t], loc[t])'
  BY <1>1 DEF Covered, CoveredNext
<1>4. QED  BY <1>1, <1>2, <1>3, LocalsKept DEF Counters

LEMMA LoadsKeepLocals ==
  ASSUME LocalsInv, NEW t \in Thread,
         Q!LoadTail(t) \/ Q!LoadOvercommit(t) \/ Q!Check(t) \/ Q!Recheck(t)
  PROVE  LocalsInv'
<1>0. Typed(at[t], loc[t]) /\ Covered(at[t], loc[t]) /\ Shapes
  BY DEF LocalsInv
<1>1. CASE Q!LoadTail(t)
  <2> DEFINE r == [loc[t] EXCEPT !.tail = tailIndex[loc[t].ptr]]
  <2>1. Q!Read(t, "tail", "overcommit", r)
    BY <1>1 DEF Q!LoadTail
  <2>2. DOMAIN r = Fields
    BY <1>0 DEF Shapes
  <2>3. at[t] = "tail"
    BY <2>1 DEF Q!Read, Q!Step
  <2>4. Typed("overcommit", r) /\ Covered("overcommit", r)
    BY <1>0, <2>3 DEF Typed, Covered, WithStream, Shapes, Fields
  <2>5. QED  BY <2>1, <2>2, <2>4, ReadKeeps
<1>2. CASE Q!LoadOvercommit(t)
  <2> DEFINE r == [loc[t] EXCEPT !.overcommit = dequeueOvercommit[loc[t].ptr]]
  <2>1. Q!Read(t, "overcommit", "check", r)
    BY <1>2 DEF Q!LoadOvercommit
  <2>2. DOMAIN r = Fields
    BY <1>0 DEF Shapes
  <2>3. at[t] = "overcommit"
    BY <2>1 DEF Q!Read, Q!Step
  <2>4. Typed("check", r) /\ Covered("check", r)
    BY <1>0, <2>3 DEF Typed, Covered, WithStream, Shapes, Fields
  <2>5. QED  BY <2>1, <2>2, <2>4, ReadKeeps
<1>3. CASE Q!Check(t)
  <2> DEFINE next == IF dequeueOptimisticCount[loc[t].ptr] - loc[t].overcommit
                          < loc[t].tail
                     THEN "claim" ELSE "next"
  <2>1. Q!Read(t, "check", next, loc[t])
    BY <1>3 DEF Q!Check
  <2>2. DOMAIN loc[t] = Fields
    BY <1>0 DEF Shapes
  <2>3. at[t] = "check" /\ next \in {"claim", "next"}
    BY <2>1 DEF Q!Read, Q!Step
  <2> HIDE DEF next
  <2>4. Typed(next, loc[t]) /\ Covered(next, loc[t])
    BY <1>0, <2>3 DEF Typed, Covered, WithStream
  <2>5. QED  BY <2>1, <2>2, <2>4, ReadKeeps
<1>4. CASE Q!Recheck(t)
  <2> DEFINE next == IF loc[t].mine - loc[t].overcommit < tailIndex[loc[t].ptr]
                     THEN "head" ELSE "undo"
  <2>1. Q!Read(t, "recheck", next, loc[t])
    BY <1>4 DEF Q!Recheck
  <2>2. DOMAIN loc[t] = Fields
    BY <1>0 DEF Shapes
  <2>3. at[t] = "recheck" /\ next \in {"head", "undo"}
    BY <2>1 DEF Q!Read, Q!Step
  <2> HIDE DEF next
  <2>4. Typed(next, loc[t]) /\ Covered(next, loc[t])
    BY <1>0, <2>3 DEF Typed, Covered, WithStream
  <2>5. QED  BY <2>1, <2>2, <2>4, ReadKeeps
<1>5. QED  BY <1>1, <1>2, <1>3, <1>4

\* What is left of the locals when an operation returns.
LEMMA ReturnKeepsLocals ==
  ASSUME LocalsInv, NEW t \in Thread, NEW x,
         Q!SizeIs(t, x) \/ Q!Dequeued(t, x) \/ Q!Failed(t)
  PROVE  LocalsInv'
<1>1. PICK l : Q!Read(t, l, "idle", Q!Blank)
  BY DEF Q!SizeIs, Q!Dequeued, Q!Failed
<1>2. DOMAIN Q!Blank = Fields
  BY DEF Q!Blank, Fields
<1>3. Typed("idle", Q!Blank) /\ Covered("idle", Q!Blank)
  BY DEF Typed, Covered, Q!Blank, WithStream, ToStream
<1>4. QED  BY <1>1, <1>2, <1>3, ReadKeeps

LEMMA ClaimsKeepLocals ==
  ASSUME LocalsInv, NEW t \in Thread, Q!Claim(t) \/ Q!Undo(t) \/ Q!TakeIndex(t)
  PROVE  LocalsInv'
<1> DEFINE p == loc[t].ptr
<1>0. Typed(at[t], loc[t]) /\ Covered(at[t], loc[t]) /\ Shapes
  BY DEF LocalsInv
<1>1. DOMAIN loc[t] = Fields
  BY <1>0 DEF Shapes
<1>2. CASE Q!Claim(t)
  <2> DEFINE r == [loc[t] EXCEPT !.mine = dequeueOptimisticCount[p]]
  <2>1. Q!Step(t, "claim", "recheck", r) /\ at[t] = "claim"
    BY <1>2 DEF Q!Claim, Q!Step
  <2>2. DOMAIN r = Fields
    BY <1>0 DEF Shapes
  <2>3. /\ producers' = producers /\ tailIndex' = tailIndex
        /\ headIndex' = headIndex /\ dequeueOvercommit' = dequeueOvercommit
        /\ dequeueOptimisticCount' = [dequeueOptimisticCount EXCEPT ![p] = @ + 1]
    BY <1>2 DEF Q!Claim
  <2>4. Counters
    <3>1. dequeueOptimisticCount \in [Thread -> Nat]
      BY <1>0 DEF Shapes
    <3>2. dequeueOptimisticCount' \in [Thread -> Nat]
      BY <2>3, <3>1, Increment
    <3>3. QED  BY <1>0, <2>3, <3>2 DEF Counters, Shapes
  <2>5. /\ p \in Thread /\ dequeueOptimisticCount[p] \in Nat
        /\ loc[t].overcommit <= dequeueOvercommit[p]
    BY <1>0, <2>1 DEF Typed, Covered, WithStream, Shapes
  <2>6. /\ r.ptr = p /\ r.best = loc[t].best /\ r.nonEmpty = loc[t].nonEmpty
        /\ r.size = loc[t].size /\ r.tail = loc[t].tail
        /\ r.overcommit = loc[t].overcommit /\ r.mine = dequeueOptimisticCount[p]
    BY <1>1 DEF Fields
  <2> HIDE DEF r
  <2>7. Typed("recheck", r) /\ CoveredNext("recheck", r)
    BY <1>0, <2>3, <2>5, <2>6 DEF Typed, CoveredNext, WithStream
  <2>8. QED  BY <2>1, <2>2, <2>4, <2>7, StepKeeps
<1>3. CASE Q!Undo(t)
  <2>1. Q!Step(t, "undo", "next", loc[t]) /\ at[t] = "undo"
    BY <1>3 DEF Q!Undo, Q!Step
  <2>2. /\ producers' = producers /\ tailIndex' = tailIndex
        /\ headIndex' = headIndex
        /\ dequeueOptimisticCount' = dequeueOptimisticCount
        /\ dequeueOvercommit' = [dequeueOvercommit EXCEPT ![p] = @ + 1]
    BY <1>3 DEF Q!Undo
  <2>3. Counters
    BY <1>0, <2>2, Increment DEF Counters, Shapes
  <2>4. Typed("next", loc[t]) /\ CoveredNext("next", loc[t])
    BY <1>0, <2>1 DEF Typed, Covered, CoveredNext, WithStream
  <2>5. QED  BY <1>1, <2>1, <2>3, <2>4, StepKeeps
<1>4. CASE Q!TakeIndex(t)
  <2> DEFINE r == [loc[t] EXCEPT !.index = headIndex[p]]
  <2>1. Q!Step(t, "head", "take", r) /\ at[t] = "head"
    BY <1>4 DEF Q!TakeIndex, Q!Step
  <2>2. DOMAIN r = Fields
    BY <1>0 DEF Shapes
  <2>3. /\ producers' = producers /\ tailIndex' = tailIndex
        /\ dequeueOptimisticCount' = dequeueOptimisticCount
        /\ dequeueOvercommit' = dequeueOvercommit
        /\ headIndex' = [headIndex EXCEPT ![p] = @ + 1]
    BY <1>4 DEF Q!TakeIndex
  <2>4. Counters
    <3>1. headIndex \in [Thread -> Nat]
      BY <1>0 DEF Shapes
    <3>2. headIndex' \in [Thread -> Nat]
      BY <2>3, <3>1, Increment
    <3>3. QED  BY <1>0, <2>3, <3>2 DEF Counters, Shapes
  <2>5. /\ r.ptr = p /\ r.best = loc[t].best /\ r.nonEmpty = loc[t].nonEmpty
        /\ r.size = loc[t].size /\ r.tail = loc[t].tail
        /\ r.overcommit = loc[t].overcommit /\ r.mine = loc[t].mine
    BY <1>1 DEF Fields
  <2> HIDE DEF r
  <2>6. Typed("take", r) /\ CoveredNext("take", r)
    BY <1>0, <2>5 DEF Typed, CoveredNext, WithStream
  <2>7. QED  BY <2>1, <2>2, <2>4, <2>6, StepKeeps
<1>5. QED  BY <1>2, <1>3, <1>4

LEMMA TakingKeepsLocals ==
  ASSUME LocalsInv, NEW t \in Thread, Q!Take(t) \/ Q!SetEmpty(t) \/ Q!GiveBack(t)
  PROVE  LocalsInv'
<1>0. Typed(at[t], loc[t]) /\ Shapes /\ DOMAIN loc[t] = Fields
  BY DEF LocalsInv, Shapes
<1>1. /\ producers' = producers /\ tailIndex' = tailIndex
      /\ headIndex' = headIndex
      /\ dequeueOptimisticCount' = dequeueOptimisticCount
      /\ dequeueOvercommit' = dequeueOvercommit
  BY DEF Q!Take, Q!SetEmpty, Q!Emptied, Q!GiveBack, Q!stream
<1>2. Counters
  BY <1>0, <1>1 DEF Counters, Shapes
<1>3. CASE Q!Take(t)
  <2> DEFINE i == elements[Q!BlockOf(loc[t].ptr, loc[t].index)]
                          [loc[t].index % BlockSize]
             r == [loc[t] EXCEPT !.item = i]
  <2>1. Q!Step(t, "take", "setEmpty", r)
    BY <1>3 DEF Q!Take
  <2> HIDE DEF i
  <2>2. DOMAIN r = Fields /\ Typed("setEmpty", r) /\ CoveredNext("setEmpty", r)
    BY <1>0 DEF Typed, Covered, CoveredNext, WithStream, Fields
  <2> HIDE DEF r
  <2>3. QED  BY <1>2, <2>1, <2>2, StepKeeps
<1>4. CASE Q!SetEmpty(t)
  <2>1. PICK next \in {"giveBack", "done"} : Q!Step(t, "setEmpty", next, loc[t])
    BY <1>4 DEF Q!SetEmpty, Q!Emptied
  <2>2. Typed(next, loc[t]) /\ CoveredNext(next, loc[t])
    BY <1>0 DEF Typed, Covered, CoveredNext, WithStream
  <2>3. QED  BY <1>0, <1>2, <2>1, <2>2, StepKeeps
<1>5. CASE Q!GiveBack(t)
  <2>1. Q!Step(t, "giveBack", "done", loc[t])
    BY <1>5 DEF Q!GiveBack
  <2>2. Typed("done", loc[t]) /\ CoveredNext("done", loc[t])
    BY <1>0 DEF Typed, Covered, CoveredNext, WithStream
  <2>3. QED  BY <1>0, <1>2, <2>1, <2>2, StepKeeps
<1>6. QED  BY <1>3, <1>4, <1>5

LEMMA StepsKeepLocals ==
  ASSUME LocalsInv, NEW t \in Thread, QueueStep(t)
  PROVE  LocalsInv'
<1>1. CASE Q!Dequeuing(t)
  BY <1>1, ScanKeepsLocals, LoadsKeepLocals, ClaimsKeepLocals, TakingKeepsLocals
     DEF Q!Dequeuing
<1>2. CASE Q!Sizing(t)
  BY <1>2, SizingKeepsLocals
<1>3. CASE Q!Enqueuing(t) \/ \E x : Q!Publish(t, x)
  BY <1>3, EnqueuingKeepsLocals
<1>4. CASE Q!Failed(t) \/ \E x : Q!SizeIs(t, x) \/ Q!Dequeued(t, x)
  BY <1>4, ReturnKeepsLocals
<1>5. QED  BY <1>1, <1>2, <1>3, <1>4 DEF QueueStep
-----------------------------------------------------------------------
(* Claims *)

\* The threads that have claimed an element of stream p, and those of them
\* that will go on to take it, also if the tail stays below T.
Claimers(p) == {t \in Thread : at[t] \in Claimed /\ loc[t].ptr = p}

Sure(p, T) ==
  {t \in Claimers(p) :
     at[t] = "head" \/ (at[t] = "recheck" /\ loc[t].mine - loc[t].overcommit < T)}

\* Every claim that is neither undone nor made good is some thread's.
Balance ==
  \A p \in Thread :
    dequeueOptimisticCount[p] - dequeueOvercommit[p]
      = headIndex[p] + Cardinality(Claimers(p))

\* Whatever the tail will be, there are enough elements.
Enough ==
  \A p \in Thread : \A T \in Nat :
    T >= tailIndex[p] => headIndex[p] + Cardinality(Sure(p, T)) <= T

QueueInv == LocalsInv /\ Balance /\ Enough

LEMMA FiniteSets ==
  ASSUME NEW p, NEW T
  PROVE  /\ IsFiniteSet(Claimers(p)) /\ IsFiniteSet(Sure(p, T))
         /\ Cardinality(Claimers(p)) \in Nat /\ Cardinality(Sure(p, T)) \in Nat
         /\ Cardinality(Sure(p, T)) <= Cardinality(Claimers(p))
<1>1. Sure(p, T) \subseteq Claimers(p) /\ Claimers(p) \subseteq Thread
  BY DEF Sure, Claimers
<1>2. IsFiniteSet(Thread)
  BY WorkStealAssumption
<1>3. IsFiniteSet(Claimers(p)) /\ IsFiniteSet(Sure(p, T))
  BY <1>1, <1>2, FS_Subset
<1>4. QED  BY <1>1, <1>3, FS_Subset, FS_CardinalityType

\* A step that takes no claim further.
LEMMA QuietKeepsClaims ==
  ASSUME QueueInv, LocalsInv', NEW t \in Thread,
         at[t] \notin Claimed, at'[t] \notin Claimed,
         \A u \in Thread \ {t} : at'[u] = at[u] /\ loc'[u] = loc[u],
         dequeueOptimisticCount' = dequeueOptimisticCount,
         dequeueOvercommit' = dequeueOvercommit, headIndex' = headIndex,
         \A p \in Thread : tailIndex'[p] >= tailIndex[p]
  PROVE  Balance' /\ Enough'
<1>1. ASSUME NEW p PROVE Claimers(p)' = Claimers(p)
  BY DEF Claimers
<1>2. ASSUME NEW p, NEW T PROVE Sure(p, T)' = Sure(p, T)
  BY <1>1 DEF Sure, Claimers, Claimed
<1>3. Balance'
  BY <1>1 DEF QueueInv, Balance
<1>4. Enough'
  <2>1. SUFFICES ASSUME NEW p \in Thread, NEW T \in Nat, T >= tailIndex'[p]
                 PROVE  headIndex[p] + Cardinality(Sure(p, T)) <= T
    BY <1>2 DEF Enough
  <2>2. T >= tailIndex[p]
    BY <2>1 DEF QueueInv, LocalsInv, Shapes
  <2>3. QED  BY <2>2 DEF QueueInv, Enough
<1>5. QED  BY <1>3, <1>4

\* A step of a thread that stays with its stream.
LEMMA OtherStreams ==
  ASSUME NEW t \in Thread, loc'[t].ptr = loc[t].ptr,
         \A u \in Thread \ {t} : at'[u] = at[u] /\ loc'[u] = loc[u],
         NEW p
  PROVE  /\ \A u \in Thread \ {t} : u \in Claimers(p)' <=> u \in Claimers(p)
         /\ \A T : \A u \in Thread \ {t} : u \in Sure(p, T)' <=> u \in Sure(p, T)
         /\ p # loc[t].ptr => Claimers(p)' = Claimers(p)
         /\ p # loc[t].ptr => \A T : Sure(p, T)' = Sure(p, T)
<1>1. \A u \in Thread \ {t} : u \in Claimers(p)' <=> u \in Claimers(p)
  BY DEF Claimers
<1>2. \A T : \A u \in Thread \ {t} : u \in Sure(p, T)' <=> u \in Sure(p, T)
  BY <1>1 DEF Sure
<1>3. Claimers(p) \subseteq Thread /\ Claimers(p)' \subseteq Thread
  BY DEF Claimers
<1>4. p # loc[t].ptr => t \notin Claimers(p) /\ t \notin Claimers(p)'
  BY DEF Claimers
<1>5. p # loc[t].ptr => Claimers(p)' = Claimers(p)
  BY <1>1, <1>3, <1>4
<1>6. ASSUME p # loc[t].ptr, NEW T PROVE Sure(p, T)' = Sure(p, T)
  <2>1. Sure(p, T) \subseteq Claimers(p) /\ Sure(p, T)' \subseteq Claimers(p)'
    BY DEF Sure
  <2>2. QED  BY <1>2, <1>3, <1>4, <1>6, <2>1
<1>7. QED  BY <1>1, <1>2, <1>5, <1>6

LEMMA ClaimKeepsClaims ==
  ASSUME QueueInv, LocalsInv', NEW t \in Thread, Q!Claim(t)
  PROVE  Balance' /\ Enough'
<1>p. PICK p : p = loc[t].ptr
  OBVIOUS
<1> DEFINE r == [loc[t] EXCEPT !.mine = dequeueOptimisticCount[p]]
<1>0. Shapes /\ Typed(at[t], loc[t]) /\ Covered(at[t], loc[t])
  BY DEF QueueInv, LocalsInv
<1>1. /\ at[t] = "claim" /\ at'[t] = "recheck" /\ loc'[t] = r
      /\ \A u \in Thread \ {t} : at'[u] = at[u] /\ loc'[u] = loc[u]
  <2>1. Q!Step(t, "claim", "recheck", r)
    BY <1>p DEF Q!Claim
  <2>2. DOMAIN r = Fields
    BY <1>0 DEF Shapes
  <2>3. QED  BY <2>1, <2>2, StepEffect DEF QueueInv
<1>2. /\ loc'[t].ptr = p /\ loc'[t].overcommit = loc[t].overcommit
      /\ loc'[t].mine = dequeueOptimisticCount[p]
  BY <1>p, <1>0, <1>1 DEF Shapes, Fields
<1>3. /\ tailIndex' = tailIndex /\ headIndex' = headIndex
      /\ dequeueOvercommit' = dequeueOvercommit
      /\ dequeueOptimisticCount' = [dequeueOptimisticCount EXCEPT ![p] = @ + 1]
  BY <1>p DEF Q!Claim
<1>4. p \in Thread /\ loc[t].overcommit <= dequeueOvercommit[p] /\ loc[t].overcommit \in Nat
  BY <1>p, <1>0, <1>1 DEF Typed, Covered, WithStream
<1> HIDE DEF r
<1>5. t \notin Claimers(p) /\ Claimers(p)' = Claimers(p) \cup {t}
  <2>1. t \notin Claimers(p) /\ t \in Claimers(p)'
    BY <1>p, <1>1, <1>2 DEF Claimers, Claimed
  <2>2. \A u \in Thread \ {t} : u \in Claimers(p)' <=> u \in Claimers(p)
    BY <1>p, <1>1, <1>2, OtherStreams
  <2>3. Claimers(p) \subseteq Thread /\ Claimers(p)' \subseteq Thread
    BY DEF Claimers
  <2>4. QED  BY <2>1, <2>2, <2>3
<1>6. Cardinality(Claimers(p)') = Cardinality(Claimers(p)) + 1
  BY <1>5, FiniteSets, FS_AddElement
<1>7. \A q \in Thread : q # p => Claimers(q)' = Claimers(q) /\ \A T : Sure(q, T)' = Sure(q, T)
  BY <1>p, <1>1, <1>2, OtherStreams
<1>8. Balance'
  <2>1. SUFFICES ASSUME NEW q \in Thread
                 PROVE  dequeueOptimisticCount'[q] - dequeueOvercommit[q]
                          = headIndex[q] + Cardinality(Claimers(q)')
    BY <1>3 DEF Balance
  <2>2. dequeueOptimisticCount[q] - dequeueOvercommit[q]
          = headIndex[q] + Cardinality(Claimers(q))
    BY DEF QueueInv, Balance
  <2>3. /\ dequeueOptimisticCount[q] \in Nat /\ dequeueOvercommit[q] \in Nat
        /\ headIndex[q] \in Nat /\ Cardinality(Claimers(q)) \in Nat
    BY <1>0, FiniteSets DEF Shapes
  <2>4. CASE q = p
    <3>1. dequeueOptimisticCount'[q] = dequeueOptimisticCount[q] + 1
      BY <1>0, <1>3, <2>4 DEF Shapes
    <3>2. QED  BY <1>6, <2>2, <2>3, <2>4, <3>1
  <2>5. CASE q # p
    <3>1. dequeueOptimisticCount'[q] = dequeueOptimisticCount[q]
      BY <1>0, <1>3, <2>5 DEF Shapes
    <3>2. QED  BY <1>7, <2>2, <2>5, <3>1
  <2>6. QED  BY <2>4, <2>5
<1>9. Enough'
  <2>1. SUFFICES ASSUME NEW q \in Thread, NEW T \in Nat, T >= tailIndex[q]
                 PROVE  headIndex[q] + Cardinality(Sure(q, T)') <= T
    BY <1>3 DEF Enough
  <2>2. headIndex[q] + Cardinality(Sure(q, T)) <= T
    BY <2>1 DEF QueueInv, Enough
  <2>3. CASE q # p
    BY <1>7, <2>2, <2>3
  <2>4. CASE q = p
    <3>1. \A u \in Thread \ {t} : u \in Sure(p, T)' <=> u \in Sure(p, T)
      BY <1>p, <1>1, <1>2, OtherStreams
    <3>2. Sure(p, T) \subseteq Claimers(p) /\ Sure(p, T)' \subseteq Claimers(p)'
      BY DEF Sure
    <3>3. t \in Sure(p, T)' <=> dequeueOptimisticCount[p] - loc[t].overcommit < T
      BY <1>1, <1>2, <1>5 DEF Sure
    <3>4. CASE t \notin Sure(p, T)'
      <4>1. Sure(p, T)' = Sure(p, T)
        BY <1>5, <3>1, <3>2, <3>4 DEF Claimers
      <4>2. QED  BY <2>2, <2>4, <4>1
    <3>5. CASE t \in Sure(p, T)'
      <4>1. Sure(p, T)' = Sure(p, T) \cup {t}
        BY <1>5, <3>1, <3>2, <3>5 DEF Claimers
      <4>2. Cardinality(Sure(p, T)') = Cardinality(Sure(p, T)) + 1
        BY <1>5, <3>2, <4>1, FiniteSets, FS_AddElement
      <4>3. /\ dequeueOptimisticCount[p] \in Nat /\ dequeueOvercommit[p] \in Nat
            /\ headIndex[p] \in Nat /\ Cardinality(Claimers(p)) \in Nat
            /\ Cardinality(Sure(p, T)) \in Nat
            /\ Cardinality(Sure(p, T)) <= Cardinality(Claimers(p))
        BY <1>0, <1>4, FiniteSets DEF Shapes
      <4>4. dequeueOptimisticCount[p] - dequeueOvercommit[p]
              = headIndex[p] + Cardinality(Claimers(p))
        BY <1>4 DEF QueueInv, Balance
      <4>5. dequeueOptimisticCount[p] - loc[t].overcommit < T
        BY <3>3, <3>5
      <4>6. QED  BY <1>4, <2>4, <4>2, <4>3, <4>4, <4>5
    <3>6. QED  BY <3>4, <3>5
  <2>5. QED  BY <2>3, <2>4
<1>10. QED  BY <1>8, <1>9

LEMMA RecheckKeepsClaims ==
  ASSUME QueueInv, LocalsInv', NEW t \in Thread, Q!Recheck(t)
  PROVE  Balance' /\ Enough'
<1>p. PICK p : p = loc[t].ptr
  OBVIOUS
<1>n. PICK next : next = IF loc[t].mine - loc[t].overcommit < tailIndex[p]
                         THEN "head" ELSE "undo"
  OBVIOUS
<1>0. Shapes /\ Typed(at[t], loc[t])
  BY DEF QueueInv, LocalsInv
<1>1. /\ at[t] = "recheck" /\ at'[t] = next /\ loc'[t] = loc[t]
      /\ \A u \in Thread \ {t} : at'[u] = at[u] /\ loc'[u] = loc[u]
      /\ UNCHANGED <<tailIndex, headIndex, dequeueOptimisticCount, dequeueOvercommit>>
  <2>1. Q!Read(t, "recheck", next, loc[t])
    BY <1>p, <1>n DEF Q!Recheck
  <2>2. DOMAIN loc[t] = Fields
    BY <1>0 DEF Shapes
  <2>3. QED  BY <2>1, <2>2, ReadEffect DEF QueueInv
<1>2. p \in Thread /\ loc[t].mine \in Nat /\ loc[t].overcommit \in Nat
  BY <1>p, <1>0, <1>1 DEF Typed, WithStream
<1>3. \A q : Claimers(q)' = Claimers(q)
  BY <1>1, <1>n DEF Claimers, Claimed
<1>4. ASSUME NEW q \in Thread, NEW T \in Nat, T >= tailIndex[q]
      PROVE  Sure(q, T)' \subseteq Sure(q, T)
  <2>1. \A u \in Thread \ {t} : u \in Sure(q, T)' <=> u \in Sure(q, T)
    BY <1>1, OtherStreams
  <2>2. Sure(q, T) \subseteq Thread /\ Sure(q, T)' \subseteq Thread
    BY DEF Sure, Claimers
  <2>3. ASSUME t \in Sure(q, T)' PROVE t \in Sure(q, T)
    <3>1. t \in Claimers(q) /\ (next = "head" \/ next = "recheck")
      BY <1>1, <1>3, <2>3 DEF Sure
    <3>2. next = "head" /\ q = p
      BY <1>p, <1>n, <3>1 DEF Claimers
    <3>3. loc[t].mine - loc[t].overcommit < tailIndex[p]
      BY <1>n, <3>2
    <3>4. loc[t].mine - loc[t].overcommit < T
      BY <1>0, <1>2, <1>4, <3>2, <3>3 DEF Shapes
    <3>5. QED  BY <1>1, <3>1, <3>4 DEF Sure
  <2>4. QED  BY <2>1, <2>2, <2>3
<1>5. Balance'
  BY <1>1, <1>3 DEF QueueInv, Balance
<1>6. Enough'
  <2>1. SUFFICES ASSUME NEW q \in Thread, NEW T \in Nat, T >= tailIndex[q]
                 PROVE  headIndex[q] + Cardinality(Sure(q, T)') <= T
    BY <1>1 DEF Enough
  <2>2. headIndex[q] + Cardinality(Sure(q, T)) <= T
    BY <2>1 DEF QueueInv, Enough
  <2>3. /\ Cardinality(Sure(q, T)') <= Cardinality(Sure(q, T))
        /\ Cardinality(Sure(q, T)') \in Nat /\ Cardinality(Sure(q, T)) \in Nat
    BY <1>4, <2>1, FiniteSets, FS_Subset, FS_CardinalityType
  <2>4. headIndex[q] \in Nat
    BY <1>0 DEF Shapes
  <2>5. QED  BY <2>2, <2>3, <2>4
<1>7. QED  BY <1>5, <1>6

\* Undo and TakeIndex: a claim is undone, or made good.
LEMMA LeavingKeepsClaims ==
  ASSUME QueueInv, LocalsInv', NEW t \in Thread, Q!Undo(t) \/ Q!TakeIndex(t)
  PROVE  Balance' /\ Enough'
<1>p. PICK p : p = loc[t].ptr
  OBVIOUS
<1>m. PICK made : made = IF Q!TakeIndex(t) THEN 1 ELSE 0
  OBVIOUS
<1>0. Shapes /\ Typed(at[t], loc[t])
  BY DEF QueueInv, LocalsInv
<1>1. /\ at[t] \in {"undo", "head"} /\ at'[t] \notin Claimed /\ loc'[t].ptr = p
      /\ \A u \in Thread \ {t} : at'[u] = at[u] /\ loc'[u] = loc[u]
      /\ at[t] = "head" <=> Q!TakeIndex(t)
  <2>1. CASE Q!Undo(t)
    <3>1. Q!Step(t, "undo", "next", loc[t])
      BY <2>1 DEF Q!Undo
    <3>2. DOMAIN loc[t] = Fields
      BY <1>0 DEF Shapes
    <3>3. at[t] = "undo" /\ at'[t] = "next" /\ loc'[t] = loc[t]
          /\ \A u \in Thread \ {t} : at'[u] = at[u] /\ loc'[u] = loc[u]
      BY <1>p, <3>1, <3>2, StepEffect DEF QueueInv
    <3>4. ~ Q!TakeIndex(t)
      BY <3>3 DEF Q!TakeIndex, Q!Step
    <3>5. QED  BY <1>p, <3>3, <3>4 DEF Claimed
  <2>2. CASE Q!TakeIndex(t)
    <3> DEFINE r == [loc[t] EXCEPT !.index = headIndex[p]]
    <3>1. Q!Step(t, "head", "take", r)
      BY <1>p, <2>2 DEF Q!TakeIndex
    <3>2. DOMAIN r = Fields /\ r.ptr = p
      BY <1>p, <1>0 DEF Shapes, Fields
    <3> HIDE DEF r
    <3>3. at[t] = "head" /\ at'[t] = "take" /\ loc'[t] = r
          /\ \A u \in Thread \ {t} : at'[u] = at[u] /\ loc'[u] = loc[u]
      BY <3>1, <3>2, StepEffect DEF QueueInv
    <3>4. QED  BY <2>2, <3>2, <3>3 DEF Claimed
  <2>3. QED  BY <2>1, <2>2
<1>2. /\ tailIndex' = tailIndex /\ dequeueOptimisticCount' = dequeueOptimisticCount
      /\ \A q \in Thread :
           /\ headIndex'[q] = IF q = p THEN headIndex[q] + made ELSE headIndex[q]
           /\ dequeueOvercommit'[q] = IF q = p THEN dequeueOvercommit[q] + (1 - made)
                                      ELSE dequeueOvercommit[q]
  <2>1. CASE Q!TakeIndex(t)
    BY <1>p, <1>m, <1>0, <2>1 DEF Q!TakeIndex, Shapes
  <2>2. CASE Q!Undo(t) /\ ~ Q!TakeIndex(t)
    BY <1>p, <1>m, <1>0, <2>2 DEF Q!Undo, Shapes
  <2>3. QED  BY <2>1, <2>2
<1>3. p \in Thread
  BY <1>p, <1>0, <1>1 DEF Typed, WithStream
<1>4. made \in {0, 1} /\ (made = 1 <=> at[t] = "head")
  BY <1>m, <1>1
<1>5. t \in Claimers(p) /\ Claimers(p)' = Claimers(p) \ {t}
  <2>1. t \in Claimers(p) /\ t \notin Claimers(p)'
    BY <1>p, <1>1 DEF Claimers, Claimed
  <2>2. \A u \in Thread \ {t} : u \in Claimers(p)' <=> u \in Claimers(p)
    BY <1>p, <1>1, OtherStreams
  <2>3. Claimers(p) \subseteq Thread /\ Claimers(p)' \subseteq Thread
    BY DEF Claimers
  <2>4. QED  BY <2>1, <2>2, <2>3
<1>6. Cardinality(Claimers(p)') = Cardinality(Claimers(p)) - 1
  BY <1>5, FiniteSets, FS_RemoveElement
<1>7. \A q \in Thread : q # p => Claimers(q)' = Claimers(q) /\ \A T : Sure(q, T)' = Sure(q, T)
  BY <1>p, <1>1, OtherStreams
<1>8. ASSUME NEW q \in Thread
      PROVE  /\ dequeueOptimisticCount[q] \in Nat /\ dequeueOvercommit[q] \in Nat
             /\ headIndex[q] \in Nat /\ Cardinality(Claimers(q)) \in Nat
  BY <1>0, FiniteSets DEF Shapes
<1>9. Balance'
  <2>1. SUFFICES ASSUME NEW q \in Thread
                 PROVE  dequeueOptimisticCount[q] - dequeueOvercommit'[q]
                          = headIndex'[q] + Cardinality(Claimers(q)')
    BY <1>2 DEF Balance
  <2>2. dequeueOptimisticCount[q] - dequeueOvercommit[q]
          = headIndex[q] + Cardinality(Claimers(q))
    BY DEF QueueInv, Balance
  <2>3. CASE q = p
    BY <1>2, <1>4, <1>6, <1>8, <2>2, <2>3
  <2>4. CASE q # p
    BY <1>2, <1>7, <2>2, <2>4
  <2>5. QED  BY <2>3, <2>4
<1>10. Enough'
  <2>1. SUFFICES ASSUME NEW q \in Thread, NEW T \in Nat, T >= tailIndex[q]
                 PROVE  headIndex'[q] + Cardinality(Sure(q, T)') <= T
    BY <1>2 DEF Enough
  <2>2. headIndex[q] + Cardinality(Sure(q, T)) <= T
    BY <2>1 DEF QueueInv, Enough
  <2>3. CASE q # p
    BY <1>2, <1>7, <2>2, <2>3
  <2>4. CASE q = p
    <3>1. \A u \in Thread \ {t} : u \in Sure(p, T)' <=> u \in Sure(p, T)
      BY <1>p, <1>1, OtherStreams
    <3>2. t \notin Sure(p, T)' /\ Sure(p, T) \subseteq Thread /\ Sure(p, T)' \subseteq Thread
      BY <1>5 DEF Sure, Claimers
    <3>3. Sure(p, T)' = Sure(p, T) \ {t}
      BY <3>1, <3>2
    <3>4. t \in Sure(p, T) <=> made = 1
      <4>1. t \in Sure(p, T)
              <=> \/ at[t] = "head"
                  \/ at[t] = "recheck" /\ loc[t].mine - loc[t].overcommit < T
        BY <1>5 DEF Sure
      <4>2. at[t] # "recheck"
        BY <1>1
      <4>3. t \in Sure(p, T) <=> at[t] = "head"
        BY <4>1, <4>2, Zenon
      <4>4. QED  BY <1>4, <4>3
    <3>5. IsFiniteSet(Sure(p, T)) /\ Cardinality(Sure(p, T)) \in Nat
      BY FiniteSets
    <3>6. CASE made = 1
      <4>1. Cardinality(Sure(p, T)') = Cardinality(Sure(p, T)) - 1
        BY <3>3, <3>4, <3>5, <3>6, FS_RemoveElement
      <4>2. headIndex'[p] = headIndex[p] + 1
        BY <1>2, <1>3, <3>6
      <4>3. QED  BY <1>8, <2>2, <2>4, <3>5, <4>1, <4>2
    <3>7. CASE made = 0
      <4>1. Sure(p, T)' = Sure(p, T)
        BY <3>3, <3>4, <3>7
      <4>2. headIndex'[p] = headIndex[p]
        BY <1>2, <1>3, <1>8, <3>7
      <4>3. QED  BY <2>2, <2>4, <4>1, <4>2
    <3>8. QED  BY <1>4, <3>6, <3>7
  <2>5. QED  BY <2>3, <2>4
<1>11. QED  BY <1>9, <1>10

\* A step that leaves the counters alone and claims nothing.
Plain(t) ==
  \E l, next, r :
    /\ Q!Step(t, l, next, r) /\ DOMAIN r = Fields
    /\ l \notin Claimed /\ next \notin Claimed
    /\ UNCHANGED Q!stream

LEMMA PlainReads ==
  ASSUME NEW t \in Thread, NEW l, NEW next, NEW r, Q!Read(t, l, next, r),
         DOMAIN r = Fields, l \notin Claimed, next \notin Claimed
  PROVE  Plain(t)
  BY DEF Plain, Q!Read, Q!stream

LEMMA PlainSteps ==
  ASSUME Shapes, NEW t \in Thread, QueueStep(t),
         ~ (Q!Claim(t) \/ Q!Recheck(t) \/ Q!Undo(t) \/ Q!TakeIndex(t)),
         ~ (Q!Enqueuing(t) \/ \E x : Q!Publish(t, x))
  PROVE  Plain(t)
<1>0. DOMAIN loc[t] = Fields /\ DOMAIN Q!Blank = Fields
  BY DEF Shapes, Q!Blank, Fields
<1>1. \A l \in {"idle", "size", "sizeHead", "scan", "scanHead", "tail",
               "overcommit", "check", "next", "claim", "done", "failed",
               "take", "setEmpty", "giveBack"} : l \notin Claimed
  BY DEF Claimed
<1>2. CASE Q!Sizing(t)
  <2>1. CASE Q!StartSize(t)
    <3>1. Q!Read(t, "idle", "size", [Q!Blank EXCEPT !.ptr = Q!FirstProd])
      BY <2>1 DEF Q!StartSize
    <3>2. QED  BY <1>0, <1>1, <3>1, PlainReads
  <2>2. CASE Q!SizeTail(t)
    <3>1. Q!Read(t, "size", "sizeHead", [loc[t] EXCEPT !.tail = tailIndex[loc[t].ptr]])
      BY <2>2 DEF Q!SizeTail
    <3>2. QED  BY <1>0, <1>1, <3>1, PlainReads
  <2>3. CASE Q!SizeHead(t)
    <3> DEFINE r == [loc[t] EXCEPT !.size = @ + Q!StreamSize(t),
                                   !.ptr = Q!next_prod(@), !.tail = 0]
    <3>1. Q!Read(t, "sizeHead", "size", r)
      BY <2>3 DEF Q!SizeHead
    <3>2. DOMAIN r = Fields
      BY <1>0
    <3> HIDE DEF r
    <3>3. QED  BY <1>1, <3>1, <3>2, PlainReads
  <2>4. QED  BY <1>2, <2>1, <2>2, <2>3 DEF Q!Sizing
<1>3. CASE Q!Failed(t) \/ \E x : Q!SizeIs(t, x) \/ Q!Dequeued(t, x)
  <2>1. PICK l \in {"failed", "size", "done"} : Q!Read(t, l, "idle", Q!Blank)
    BY <1>3 DEF Q!Failed, Q!SizeIs, Q!Dequeued
  <2>2. QED  BY <1>0, <1>1, <2>1, PlainReads
<1>4. CASE Q!StartScan(t) \/ Q!ScanTail(t) \/ Q!ScanHead(t) \/ Q!ScanEnd(t)
  <2>1. CASE Q!StartScan(t)
    <3>1. Q!Read(t, "idle", "scan", [Q!Blank EXCEPT !.ptr = Q!FirstProd])
      BY <2>1 DEF Q!StartScan
    <3>2. QED  BY <1>0, <1>1, <3>1, PlainReads
  <2>2. CASE Q!ScanTail(t)
    <3>1. Q!Read(t, "scan", "scanHead", [loc[t] EXCEPT !.tail = tailIndex[loc[t].ptr]])
      BY <2>2 DEF Q!ScanTail
    <3>2. QED  BY <1>0, <1>1, <3>1, PlainReads
  <2>3. CASE Q!ScanHead(t)
    <3> DEFINE size == Q!StreamSize(t)
               r == [loc[t] EXCEPT
                       !.nonEmpty = IF size > 0 THEN @ + 1 ELSE @,
                       !.best = IF size > loc[t].size THEN loc[t].ptr ELSE @,
                       !.size = IF size > loc[t].size THEN size ELSE @,
                       !.ptr = Q!next_prod(@), !.tail = 0]
    <3>1. Q!Read(t, "scanHead", "scan", r)
      BY <2>3 DEF Q!ScanHead
    <3>2. DOMAIN r = Fields
      BY <1>0
    <3> HIDE DEF r
    <3>3. QED  BY <1>1, <3>1, <3>2, PlainReads
  <2>4. CASE Q!ScanEnd(t)
    <3> DEFINE r == [loc[t] EXCEPT !.ptr = loc[t].best, !.size = 0, !.nonEmpty = 0]
    <3>1. PICK next \in {"tail", "failed"} : Q!Read(t, "scan", next, r)
      BY <2>4 DEF Q!ScanEnd
    <3>2. DOMAIN r = Fields
      BY <1>0
    <3> HIDE DEF r
    <3>3. QED  BY <1>1, <3>1, <3>2, PlainReads
  <2>5. QED  BY <1>4, <2>1, <2>2, <2>3, <2>4
<1>5. CASE Q!TryNext(t)
  <2> DEFINE q == IF loc[t].first THEN Q!FirstProd ELSE Q!next_prod(loc[t].ptr)
             other == IF q = loc[t].best THEN Q!next_prod(q) ELSE q
             next == IF other = NoNode THEN "failed" ELSE "tail"
             r == [loc[t] EXCEPT !.ptr = other, !.first = FALSE]
  <2>1. Q!Read(t, "next", next, r)
    BY <1>5 DEF Q!TryNext
  <2> HIDE DEF other
  <2>2. DOMAIN r = Fields
    BY <1>0
  <2> HIDE DEF r
  <2>3. next \in {"tail", "failed"}
    OBVIOUS
  <2> HIDE DEF next
  <2>4. QED  BY <1>1, <2>1, <2>2, <2>3, PlainReads
<1>6. CASE Q!LoadTail(t) \/ Q!LoadOvercommit(t) \/ Q!Check(t)
  BY <1>0, <1>1, <1>6, PlainReads DEF Q!LoadTail, Q!LoadOvercommit, Q!Check
<1>7. CASE Q!Take(t)
  <2> DEFINE r == [loc[t] EXCEPT !.item =
                     elements[Q!BlockOf(loc[t].ptr, loc[t].index)]
                             [loc[t].index % BlockSize]]
  <2>1. Q!Step(t, "take", "setEmpty", r) /\ UNCHANGED Q!stream
    BY <1>7 DEF Q!Take
  <2>2. DOMAIN r = Fields
    BY <1>0
  <2> HIDE DEF r
  <2>3. QED  BY <1>1, <2>1, <2>2 DEF Plain
<1>8. CASE Q!SetEmpty(t)
  <2>1. PICK next \in {"giveBack", "done"} :
          Q!Step(t, "setEmpty", next, loc[t]) /\ UNCHANGED Q!stream
    BY <1>8 DEF Q!SetEmpty, Q!Emptied
  <2>2. QED  BY <1>0, <1>1, <2>1 DEF Plain
<1>9. CASE Q!GiveBack(t)
  <2>1. Q!Step(t, "giveBack", "done", loc[t]) /\ UNCHANGED Q!stream
    BY <1>9 DEF Q!GiveBack
  <2>2. QED  BY <1>0, <1>1, <2>1 DEF Plain
<1>10. QED
  BY <1>2, <1>3, <1>4, <1>5, <1>6, <1>7, <1>8, <1>9 DEF QueueStep, Q!Dequeuing

LEMMA StepsKeepClaims ==
  ASSUME QueueInv, LocalsInv', NEW t \in Thread, QueueStep(t)
  PROVE  Balance' /\ Enough'
<1>0. Shapes /\ LocalsInv
  BY DEF QueueInv, LocalsInv
<1>1. CASE Q!Claim(t) \/ Q!Recheck(t) \/ Q!Undo(t) \/ Q!TakeIndex(t)
  BY <1>1, ClaimKeepsClaims, RecheckKeepsClaims, LeavingKeepsClaims
<1>2. CASE Q!Enqueuing(t) \/ \E x : Q!Publish(t, x)
  <2>1. /\ at[t] = "idle" /\ at' = at /\ loc' = loc
        /\ dequeueOptimisticCount' = dequeueOptimisticCount
        /\ dequeueOvercommit' = dequeueOvercommit /\ headIndex' = headIndex
    BY <1>2 DEF Q!Enqueuing, Q!AddProducer, Q!NewBlock, Q!StartsBlock, Q!Publish,
                Q!stream
  <2>2. \A p \in Thread : tailIndex'[p] >= tailIndex[p]
    <3>1. CASE Q!Enqueuing(t)
      BY <1>0, <3>1 DEF Q!Enqueuing, Q!AddProducer, Q!NewBlock, Q!StartsBlock,
                        Q!stream, Shapes
    <3>2. CASE \E x : Q!Publish(t, x)
      <4>1. tailIndex' = [tailIndex EXCEPT ![t] = @ + 1]
        BY <3>2 DEF Q!Publish
      <4>2. QED  BY <1>0, <4>1, Increment DEF Shapes
    <3>3. QED  BY <1>2, <3>1, <3>2
  <2>3. at[t] \notin Claimed
    BY <2>1 DEF Claimed
  <2>4. QED  BY <2>1, <2>2, <2>3, QuietKeepsClaims
<1>3. CASE Plain(t)
  <2>1. PICK l, next, r : /\ Q!Step(t, l, next, r) /\ DOMAIN r = Fields
                          /\ l \notin Claimed /\ next \notin Claimed
                          /\ UNCHANGED Q!stream
    BY <1>3 DEF Plain
  <2>2. /\ at[t] \notin Claimed /\ at'[t] \notin Claimed
        /\ \A u \in Thread \ {t} : at'[u] = at[u] /\ loc'[u] = loc[u]
    BY <1>0, <2>1, StepEffect
  <2>3. /\ dequeueOptimisticCount' = dequeueOptimisticCount
        /\ dequeueOvercommit' = dequeueOvercommit /\ headIndex' = headIndex
        /\ tailIndex' = tailIndex
    BY <2>1 DEF Q!stream
  <2>4. \A p \in Thread : tailIndex'[p] >= tailIndex[p]
    BY <1>0, <2>3 DEF Shapes
  <2>5. QED  BY <2>2, <2>3, <2>4, QuietKeepsClaims
<1>4. QED  BY <1>0, <1>1, <1>2, <1>3, PlainSteps DEF QueueStep
-----------------------------------------------------------------------
LEMMA QueueStart == QInit => QueueInv
<1> SUFFICES ASSUME QInit PROVE QueueInv
  OBVIOUS
<1>1. LocalsInv
  <2> USE DEF QInit, Q!Init
  <2>1. Shapes
    BY DEF Shapes, Fields, Q!Blank
  <2>2. ASSUME NEW t \in Thread PROVE Typed(at[t], loc[t]) /\ Covered(at[t], loc[t])
    BY DEF Typed, Covered, WithStream, ToStream, Q!Blank
  <2>3. QED  BY <2>1, <2>2 DEF LocalsInv
<1>2. ASSUME NEW p PROVE Claimers(p) = {} /\ \A T : Sure(p, T) = {}
  BY DEF QInit, Q!Init, Claimers, Claimed, Sure
<1>3. \A p \in Thread : /\ dequeueOptimisticCount[p] = 0 /\ dequeueOvercommit[p] = 0
                        /\ headIndex[p] = 0 /\ tailIndex[p] = 0
  BY DEF QInit, Q!Init
<1>4. ASSUME NEW p, NEW T
      PROVE  Cardinality(Claimers(p)) = 0 /\ Cardinality(Sure(p, T)) = 0
  BY <1>2, FS_EmptySet
<1>5. Balance
  <2>1. SUFFICES ASSUME NEW p \in Thread
                 PROVE  dequeueOptimisticCount[p] - dequeueOvercommit[p]
                          = headIndex[p] + Cardinality(Claimers(p))
    BY DEF Balance
  <2>2. Cardinality(Claimers(p)) = 0
    BY <1>4
  <2>3. QED  BY <1>3, <2>2
<1>6. Enough
  <2>1. SUFFICES ASSUME NEW p \in Thread, NEW T \in Nat
                 PROVE  headIndex[p] + Cardinality(Sure(p, T)) <= T
    BY DEF Enough
  <2>2. Cardinality(Sure(p, T)) = 0
    BY <1>4
  <2>3. QED  BY <1>3, <2>2
<1>7. QED  BY <1>1, <1>5, <1>6 DEF QueueInv

LEMMA QueueKept == QueueInv /\ [QNext]_allVars => QueueInv'
<1> SUFFICES ASSUME QueueInv, [QNext]_allVars PROVE QueueInv'
  OBVIOUS
<1>1. ASSUME NEW t \in Thread, QueueStep(t) PROVE QueueInv'
  BY <1>1, StepsKeepLocals, StepsKeepClaims DEF QueueInv
<1>2. CASE UNCHANGED queueVars
  <2>1. /\ at' = at /\ loc' = loc /\ producers' = producers
        /\ tailIndex' = tailIndex /\ headIndex' = headIndex
        /\ dequeueOptimisticCount' = dequeueOptimisticCount
        /\ dequeueOvercommit' = dequeueOvercommit
    BY <1>2 DEF queueVars
  <2>2. LocalsInv'
    BY <2>1 DEF QueueInv, LocalsInv, Shapes, Typed, Covered
  <2>3. ASSUME NEW p, NEW T
        PROVE  Claimers(p)' = Claimers(p) /\ Sure(p, T)' = Sure(p, T)
    BY <2>1 DEF Claimers, Sure
  <2>4. Balance' /\ Enough'
    BY <2>1, <2>3 DEF QueueInv, Balance, Enough
  <2>5. QED  BY <2>2, <2>4 DEF QueueInv
<1>3. QED  BY <1>1, <1>2, StepsOfTheQueue DEF QNext, allVars

LEMMA SameCardinality == \A S : Q!Cardinality(S) = Cardinality(S)
  BY DEF Q!Cardinality, Cardinality

LEMMA QueueEnough == QueueInv => ClaimsCovered
<1> SUFFICES ASSUME QueueInv, NEW p \in Thread
             PROVE  /\ dequeueOptimisticCount[p] - dequeueOvercommit[p]
                         = headIndex[p] + Cardinality(Q!AtStream({"recheck", "head", "undo"}, p))
                    /\ headIndex[p] + Cardinality(Q!AtStream({"head"}, p)) <= tailIndex[p]
  BY SameCardinality DEF ClaimsCovered, Q!ClaimsCovered
<1>1. Q!AtStream({"recheck", "head", "undo"}, p) = Claimers(p)
  BY DEF Q!AtStream, Claimers, Claimed
<1>2. headIndex[p] \in Nat /\ tailIndex[p] \in Nat
  BY DEF QueueInv, LocalsInv, Shapes
<1>3. Q!AtStream({"head"}, p) \subseteq Sure(p, tailIndex[p])
  BY DEF Q!AtStream, Sure, Claimers, Claimed
<1>4. /\ Cardinality(Q!AtStream({"head"}, p)) <= Cardinality(Sure(p, tailIndex[p]))
      /\ Cardinality(Q!AtStream({"head"}, p)) \in Nat
      /\ Cardinality(Sure(p, tailIndex[p])) \in Nat
  BY <1>3, FiniteSets, FS_Subset, FS_CardinalityType
<1>5. headIndex[p] + Cardinality(Sure(p, tailIndex[p])) <= tailIndex[p]
  BY <1>2 DEF QueueInv, Enough
<1>6. QED  BY <1>1, <1>2, <1>4, <1>5 DEF QueueInv, Balance

\* ClaimsCovered for any number of threads, any forest, blocks of any size:
\* each claim is made good or undone, and what is made good is there.
THEOREM ClaimsAreCovered == QSpec => []ClaimsCovered
<1>1. QInit => QueueInv
  BY QueueStart
<1>2. QueueInv /\ [QNext]_allVars => QueueInv'
  BY QueueKept
<1>3. QueueInv => ClaimsCovered
  BY QueueEnough
<1>4. QED  BY <1>1, <1>2, <1>3, PTL DEF QSpec
-----------------------------------------------------------------------
(* Blocks and slots                                                        *)

\* The positions in a block, and the index of the element at position j of
\* the k-th block of a stream.
Slot == 0..(BlockSize - 1)

Index(k, j) == (k - 1) * BlockSize + j

\* The block and the position that thread t took.
BlockAt(t) == (loc[t].index \div BlockSize) + 1

SlotAt(t) == loc[t].index % BlockSize

\* Thread t has taken the element i of stream p and has not yet counted it
\* as emptied.
Holds(t, p, i) ==
  at[t] \in {"take", "setEmpty"} /\ loc[t].ptr = p /\ loc[t].index = i

\* The element was there, and set_empty has counted it.
Gone(p, i) == i < headIndex[p] /\ \A t \in Thread : ~ Holds(t, p, i)

\* The element is there.
There(p, i) ==
  \/ headIndex[p] <= i /\ i < tailIndex[p]
  \/ \E t \in Thread : at[t] = "take" /\ Holds(t, p, i)

\* The positions of the k-th block that set_empty has counted.
GoneSlots(p, k) == {j \in Slot : Gone(p, Index(k, j))}

\* The types of the blocks and of the free list.
BlockTypes ==
  /\ blockIndex \in [Thread -> Seq(Q!Block \cup {0})]
  /\ elements \in [Q!Block -> [Slot -> Node \cup {NoNode}]]
  /\ elementsCompletelyDequeued \in [Q!Block -> 0..BlockSize]
  /\ blocksMade \in 0..MaxBlocks
  /\ freeList \subseteq Q!Block

Labels ==
  {"idle", "size", "sizeHead", "scan", "scanHead", "tail", "overcommit",
   "check", "claim", "recheck", "undo", "head", "take", "setEmpty",
   "giveBack", "next", "done", "failed"}

\* Where a thread has an index of its own.
Indexed == {"take", "setEmpty", "giveBack"}

\* A thread that has an index has one that was taken; who gives a block back
\* finds all of it emptied.
Takers(t) ==
  /\ at[t] \in Labels
  /\ at[t] \in Indexed =>
       /\ loc[t].ptr \in Thread /\ loc[t].index \in Nat
       /\ loc[t].index < headIndex[loc[t].ptr]
  /\ at[t] = "giveBack" =>
       /\ blockIndex[loc[t].ptr][BlockAt(t)] # 0
       /\ \A j \in Slot : Gone(loc[t].ptr, Index(BlockAt(t), j))

\* No two threads have the same index.
OneTaker ==
  \A t, u \in Thread :
    t # u /\ at[t] \in {"take", "setEmpty"} /\ at[u] \in {"take", "setEmpty"}
      => loc[t].ptr # loc[u].ptr \/ loc[t].index # loc[u].index

\* No two threads give the same block back.
OneGiver ==
  \A t, u \in Thread :
    t # u /\ at[t] = "giveBack" /\ at[u] = "giveBack"
      => loc[t].ptr # loc[u].ptr \/ BlockAt(t) # BlockAt(u)

\* A stream has blocks for all that was written.
Room == \A p \in Thread : tailIndex[p] <= Len(blockIndex[p]) * BlockSize

\* set_empty counted what is gone of each block; one that is no longer in
\* the index of its stream was emptied.
Emptying ==
  \A p \in Thread : \A k \in DOMAIN blockIndex[p] :
    LET b == blockIndex[p][k]
    IN  IF b = 0 THEN GoneSlots(p, k) = Slot
                 ELSE elementsCompletelyDequeued[b] = Cardinality(GoneSlots(p, k))

\* A slot holds an element just when that was written and not yet moved out.
Filled ==
  /\ \A p \in Thread : \A k \in DOMAIN blockIndex[p] : \A j \in Slot :
       LET b == blockIndex[p][k]
       IN  b # 0 => (elements[b][j] # NoNode <=> There(p, Index(k, j)))
  /\ \A b \in Q!Block :
       (\A p \in Thread : \A k \in DOMAIN blockIndex[p] : blockIndex[p][k] # b)
         => \A j \in Slot : elements[b][j] = NoNode

\* A block is in one stream, once, or free; and those are made.
InOnePlace ==
  /\ \A p, q \in Thread : \A k \in DOMAIN blockIndex[p], l \in DOMAIN blockIndex[q] :
       blockIndex[p][k] = blockIndex[q][l] /\ blockIndex[p][k] # 0 => p = q /\ k = l
  /\ \A p \in Thread : \A k \in DOMAIN blockIndex[p] :
       blockIndex[p][k] \notin freeList /\ blockIndex[p][k] <= blocksMade
  /\ \A b \in freeList : b <= blocksMade

\* Inductive with QueueInv: that a slot is free to be used needs the count of
\* its block, and the count needs that no index is taken twice.
BlockInv ==
  /\ BlockTypes
  /\ \A t \in Thread : Takers(t)
  /\ OneTaker /\ OneGiver /\ Room /\ Emptying /\ Filled /\ InOnePlace

\* No node is in the queue twice.
Contents ==
  /\ \A b, c \in Q!Block : \A i, j \in Slot :
       elements[b][i] = elements[c][j] /\ elements[b][i] # NoNode => b = c /\ i = j
  /\ \A t \in Thread : loc[t].item # NoNode =>
       /\ at[t] \in {"setEmpty", "giveBack", "done"}
       /\ \A b \in Q!Block : \A i \in Slot : elements[b][i] # loc[t].item
       /\ \A u \in Thread : u # t => loc[u].item # loc[t].item
-----------------------------------------------------------------------
(* Indices, blocks and positions *)

LEMMA Sizes ==
  /\ BlockSize \in Nat /\ BlockSize > 1
  /\ MaxBlocks \in Nat
  /\ NoNode \notin Node /\ NoNode \notin Thread
  BY LocalAssumption, WorkStealAssumption, ForestAssumption DEF Q!QueueAssumption, Frame

\* The index i is at a position of a block.
LEMMA Divided ==
  ASSUME NEW i \in Nat
  PROVE  /\ i \div BlockSize \in Nat /\ i % BlockSize \in Slot
         /\ Index((i \div BlockSize) + 1, i % BlockSize) = i
<1> DEFINE B == BlockSize
<1>1. B \in Nat /\ B > 0
  BY Sizes
<1> HIDE DEF B
<1>2. i \div B \in Int /\ i % B \in 0..(B-1) /\ i = B * (i \div B) + (i % B)
  BY <1>1
<1>3. PICK q \in Int, r \in 0..(B-1) : q = i \div B /\ r = i % B /\ i = B * q + r
  BY <1>2
<1>4. q >= 0
  <2>1. SUFFICES ASSUME q <= -1 PROVE FALSE
    BY <1>3
  <2>2. B * q <= B * (-1)
    BY <1>1, <2>1
  <2>3. QED BY <1>1, <1>3, <2>2
<1>5. ((q + 1) - 1) * B + r = B * q + r
  BY <1>1, <1>3
<1>6. QED  BY <1>3, <1>4, <1>5 DEF Index, Slot, B

\* And the position of a block has one index.
LEMMA Placed ==
  ASSUME NEW k \in Nat \ {0}, NEW j \in Slot
  PROVE  /\ Index(k, j) \in Nat
         /\ (Index(k, j) \div BlockSize) + 1 = k
         /\ Index(k, j) % BlockSize = j
<1> DEFINE B == BlockSize
           i == Index(k, j)
<1>1. B \in Nat /\ B > 0
  BY Sizes
<1>2. i = (k - 1) * B + j
  BY DEF Index
<1>3. (k - 1) * B \in Nat
  BY <1>1
<1>4. i \in Nat
  BY <1>1, <1>2, <1>3 DEF Slot
<1> DEFINE q == i \div B
           r == i % B
<1>5. q \in Nat /\ r \in Slot /\ Index(q + 1, r) = i
  BY <1>4, Divided
<1>6. q * B + r = (k - 1) * B + j
  BY <1>2, <1>5, <1>1 DEF Index
<1>7. j \in 0..(B-1) /\ r \in 0..(B-1)
  BY <1>5 DEF Slot
<1> HIDE DEF B, i, q, r
<1>8. PICK d \in Int : d = q - (k - 1)
  BY <1>5
<1>9. d * B = j - r
  BY <1>1, <1>5, <1>6, <1>7, <1>8
<1>10. d = 0
  <2>1. CASE d >= 1
    <3>1. d * B >= B
      BY <1>1, <1>8, <2>1
    <3>2. QED BY <1>1, <1>7, <1>9, <3>1
  <2>2. CASE d <= -1
    <3>1. d * B <= -B
      BY <1>1, <1>8, <2>2
    <3>2. QED BY <1>1, <1>7, <1>9, <3>1
  <2>3. QED BY <1>8, <2>1, <2>2
<1>11. q = k - 1 /\ r = j
  BY <1>1, <1>5, <1>7, <1>8, <1>9, <1>10
<1>12. QED BY <1>4, <1>11 DEF i, q, r, B

\* The room of L blocks.
LEMMA Within ==
  ASSUME NEW i \in Nat, NEW L \in Nat
  PROVE  i < L * BlockSize <=> i \div BlockSize < L
<1> DEFINE B == BlockSize
           q == i \div B
           r == i % B
<1>1. B \in Nat /\ B > 0
  BY Sizes
<1>2. q \in Nat /\ r \in 0..(B - 1) /\ q * B + r = i
  <2>1. q \in Nat /\ r \in Slot /\ Index(q + 1, r) = i
    BY Divided
  <2>2. QED BY <1>1, <2>1 DEF Index, Slot
<1> HIDE DEF B, q, r
<1>3. CASE q < L
  <2>1. (q + 1) * B <= L * B
    BY <1>1, <1>2, <1>3
  <2>2. (q + 1) * B = q * B + B /\ q * B \in Nat /\ L * B \in Nat
    BY <1>1, <1>2
  <2>3. QED BY <1>1, <1>2, <1>3, <2>1, <2>2 DEF B, q
<1>4. CASE q >= L
  <2>1. q * B >= L * B /\ q * B \in Nat /\ L * B \in Nat
    BY <1>1, <1>2, <1>4
  <2>2. QED BY <1>1, <1>2, <1>4, <2>1 DEF B, q
<1>5. QED BY <1>2, <1>3, <1>4
-----------------------------------------------------------------------
(* Where a taken element is                                           *)

\* Elements are taken in order, and only those that are there.
LEMMA HeadBelowTail ==
  ASSUME QueueInv, NEW p \in Thread
  PROVE  /\ headIndex[p] \in Nat /\ tailIndex[p] \in Nat
         /\ headIndex[p] <= tailIndex[p]
         /\ \A t \in Thread :
              at[t] = "head" /\ loc[t].ptr = p => headIndex[p] < tailIndex[p]
<1> DEFINE Heads == Q!AtStream({"head"}, p)
<1>1. headIndex[p] \in Nat /\ tailIndex[p] \in Nat
  BY DEF QueueInv, LocalsInv, Shapes
<1>2. IsFiniteSet(Heads)
  <2>1. Heads \subseteq Thread
    BY DEF Q!AtStream
  <2>2. QED  BY <2>1, WorkStealAssumption, FS_Subset
<1>3. Cardinality(Heads) \in Nat
  BY <1>2, FS_CardinalityType
<1>4. headIndex[p] + Cardinality(Heads) <= tailIndex[p]
  BY QueueEnough, SameCardinality DEF ClaimsCovered, Q!ClaimsCovered
<1>5. ASSUME NEW t \in Thread, at[t] = "head", loc[t].ptr = p
      PROVE  Cardinality(Heads) # 0
  <2>1. t \in Heads
    BY <1>5 DEF Q!AtStream
  <2>2. QED  BY <1>2, <2>1, FS_EmptySet
<1> HIDE DEF Heads
<1>6. QED  BY <1>1, <1>3, <1>4, <1>5

\* The blocks of a stream are numbered from 1.
LEMMA Positions ==
  ASSUME BlockTypes, NEW p \in Thread
  PROVE  /\ Len(blockIndex[p]) \in Nat
         /\ DOMAIN blockIndex[p] = 1..Len(blockIndex[p])
         /\ \A k \in DOMAIN blockIndex[p] :
              k \in Nat \ {0} /\ blockIndex[p][k] \in Q!Block \cup {0}
<1>1. blockIndex[p] \in Seq(Q!Block \cup {0})
  BY DEF BlockTypes
<1>2. QED  BY <1>1

\* What is below the room of a stream is in one of its blocks.
LEMMA InIndex ==
  ASSUME BlockTypes, NEW p \in Thread, NEW i \in Nat,
         i < Len(blockIndex[p]) * BlockSize
  PROVE  /\ (i \div BlockSize) + 1 \in DOMAIN blockIndex[p]
         /\ i % BlockSize \in Slot
         /\ Index((i \div BlockSize) + 1, i % BlockSize) = i
         /\ Q!BlockOf(p, i) = blockIndex[p][(i \div BlockSize) + 1]
<1>1. Len(blockIndex[p]) \in Nat /\ DOMAIN blockIndex[p] = 1..Len(blockIndex[p])
  BY Positions
<1>2. i \div BlockSize < Len(blockIndex[p])
  BY <1>1, Within
<1>3. i \div BlockSize \in Nat
  BY Divided
<1>4. (i \div BlockSize) + 1 \in 1..Len(blockIndex[p])
  BY <1>1, <1>2, <1>3
<1>5. QED  BY <1>1, <1>4, Divided DEF Q!BlockOf

\* The slot of a thread that has an index is in a block that was not given
\* back.
LEMMA TakerPlace ==
  ASSUME QueueInv, BlockInv, NEW t \in Thread, at[t] \in Indexed
  PROVE  LET p == loc[t].ptr
             k == BlockAt(t)
         IN  /\ p \in Thread /\ loc[t].index \in Nat
             /\ loc[t].index < headIndex[p] /\ headIndex[p] \in Nat
             /\ k \in DOMAIN blockIndex[p] /\ k \in Nat \ {0}
             /\ SlotAt(t) \in Slot
             /\ Index(k, SlotAt(t)) = loc[t].index
             /\ Q!BlockOf(p, loc[t].index) = blockIndex[p][k]
             /\ blockIndex[p][k] \in Q!Block
<1> DEFINE p == loc[t].ptr
           k == BlockAt(t)
           i == loc[t].index
           L == Len(blockIndex[p])
<1>0. BlockTypes /\ Takers(t)
  BY DEF BlockInv
<1>1. p \in Thread /\ i \in Nat /\ i < headIndex[p]
  BY <1>0 DEF Takers
<1>2. headIndex[p] \in Nat /\ tailIndex[p] \in Nat /\ headIndex[p] <= tailIndex[p]
  BY <1>1, HeadBelowTail
<1>3. tailIndex[p] <= L * BlockSize
  BY <1>1 DEF BlockInv, Room
<1>4. L \in Nat /\ L * BlockSize \in Nat
  BY <1>0, <1>1, Positions, Sizes
<1>5. i < L * BlockSize
  <2> HIDE DEF i, p, L
  <2>1. QED  BY <1>1, <1>2, <1>3, <1>4
<1>6. /\ k \in DOMAIN blockIndex[p] /\ SlotAt(t) \in Slot
      /\ Index(k, SlotAt(t)) = i /\ Q!BlockOf(p, i) = blockIndex[p][k]
  BY <1>0, <1>1, <1>5, InIndex DEF BlockAt, SlotAt
<1>7. k \in Nat \ {0} /\ blockIndex[p][k] \in Q!Block \cup {0}
  BY <1>0, <1>1, <1>6, Positions
<1>8. blockIndex[p][k] # 0
  <2>1. CASE at[t] = "giveBack"
    BY <1>0, <2>1 DEF Takers
  <2>2. CASE at[t] # "giveBack"
    <3>1. SUFFICES ASSUME blockIndex[p][k] = 0 PROVE FALSE
      OBVIOUS
    <3>2. GoneSlots(p, k) = Slot
      BY <1>1, <1>6, <3>1 DEF BlockInv, Emptying
    <3>3. Gone(p, i)
      BY <1>6, <3>2 DEF GoneSlots
    <3>4. Holds(t, p, i)
      BY <2>2 DEF Holds, Indexed
    <3>5. QED  BY <3>3, <3>4 DEF Gone
  <2>3. QED  BY <2>1, <2>2
<1>9. QED  BY <1>1, <1>2, <1>6, <1>7, <1>8

\* A step that leaves the blocks and who has what of them alone.
QuietHere(t) ==
  /\ at[t] \notin Indexed /\ at'[t] \in Labels \ Indexed
  /\ \A u \in Thread \ {t} : at'[u] = at[u] /\ loc'[u] = loc[u]
  /\ UNCHANGED <<headIndex, tailIndex, Q!blocks>>
  /\ \/ loc'[t].item = NoNode
     \/ loc'[t].item = loc[t].item /\ at[t] # "done"

LEMMA QuietKeepsBlocks ==
  ASSUME BlockInv, NEW t \in Thread, QuietHere(t)
  PROVE  BlockInv'
<1> USE DEF QuietHere, Indexed, Q!blocks
<1>1. \A u, p, i : u \in Thread => (Holds(u, p, i)' <=> Holds(u, p, i))
  BY DEF Holds
<1>2. \A p, i : Gone(p, i)' <=> Gone(p, i)
  BY <1>1 DEF Gone
<1>3. \A p, i : There(p, i)' <=> There(p, i)
  BY <1>1 DEF There
<1>4. BlockTypes'
  BY DEF BlockInv, BlockTypes
<1>5. ASSUME NEW u \in Thread PROVE Takers(u)'
  <2>1. Takers(u)
    BY DEF BlockInv
  <2>2. CASE u = t
    BY <2>2 DEF Takers, Labels
  <2>3. CASE u # t
    BY <1>2, <2>1, <2>3 DEF Takers, BlockAt
  <2>4. QED  BY <2>2, <2>3
<1>6. OneTaker' /\ OneGiver'
  BY DEF BlockInv, OneTaker, OneGiver, BlockAt
<1>7. Room'
  BY DEF BlockInv, Room
<1>8. Emptying'
  <2>1. \A p, k : GoneSlots(p, k)' = GoneSlots(p, k)
    BY <1>2 DEF GoneSlots
  <2>2. QED  BY <2>1 DEF BlockInv, Emptying
<1>9. Filled'
  BY <1>3 DEF BlockInv, Filled
<1>10. InOnePlace'
  BY DEF BlockInv, InOnePlace
<1>11. QED  BY <1>4, <1>5, <1>6, <1>7, <1>8, <1>9, <1>10 DEF BlockInv
-----------------------------------------------------------------------
(* What the steps of a taker do; the next index                       *)

\* A step of thread t that leaves the indices in its locals alone.
Stays(t, l, next) ==
  /\ at[t] = l /\ at'[t] = next
  /\ loc'[t].ptr = loc[t].ptr /\ loc'[t].index = loc[t].index
  /\ \A u \in Thread \ {t} : at'[u] = at[u] /\ loc'[u] = loc[u]

LEMMA TakeEffect ==
  ASSUME QueueInv, NEW t \in Thread, Q!Take(t)
  PROVE  LET b == Q!BlockOf(loc[t].ptr, loc[t].index)
         IN  /\ Stays(t, "take", "setEmpty")
             /\ loc'[t].item = elements[b][SlotAt(t)]
             /\ elements' = [elements EXCEPT ![b][SlotAt(t)] = NoNode]
             /\ UNCHANGED <<headIndex, tailIndex, blockIndex,
                            elementsCompletelyDequeued, blocksMade, freeList>>
<1> DEFINE i == elements[Q!BlockOf(loc[t].ptr, loc[t].index)][SlotAt(t)]
           r == [loc[t] EXCEPT !.item = i]
<1>1. Q!Step(t, "take", "setEmpty", r)
  BY DEF Q!Take, SlotAt
<1> HIDE DEF i
<1>2. DOMAIN loc[t] = Fields
  BY DEF QueueInv, LocalsInv, Shapes
<1>3. DOMAIN r = Fields /\ r.item = i /\ r.ptr = loc[t].ptr /\ r.index = loc[t].index
  BY <1>2 DEF Fields
<1> HIDE DEF r
<1>4. Stays(t, "take", "setEmpty") /\ loc'[t].item = i
  BY <1>1, <1>3, StepEffect DEF QueueInv, Stays
<1>5. QED  BY <1>4 DEF Q!Take, Q!stream, SlotAt, i

LEMMA SetEmptyEffect ==
  ASSUME QueueInv, NEW t \in Thread, Q!SetEmpty(t)
  PROVE  LET b == Q!BlockOf(loc[t].ptr, loc[t].index)
         IN  /\ Stays(t, "setEmpty",
                      IF elementsCompletelyDequeued[b] = BlockSize - 1
                      THEN "giveBack" ELSE "done")
             /\ loc'[t].item = loc[t].item
             /\ elementsCompletelyDequeued' =
                  [elementsCompletelyDequeued EXCEPT ![b] = @ + 1]
             /\ UNCHANGED <<headIndex, tailIndex, blockIndex, elements,
                            blocksMade, freeList>>
<1> DEFINE b == Q!BlockOf(loc[t].ptr, loc[t].index)
           next == IF elementsCompletelyDequeued[b] = BlockSize - 1
                   THEN "giveBack" ELSE "done"
<1>1. Q!Step(t, "setEmpty", next, loc[t])
  BY DEF Q!SetEmpty, Q!Emptied
<1>2. DOMAIN loc[t] = Fields
  BY DEF QueueInv, LocalsInv, Shapes
<1>3. Stays(t, "setEmpty", next) /\ loc'[t].item = loc[t].item
  <2> HIDE DEF next
  <2>1. QED  BY <1>1, <1>2, StepEffect DEF QueueInv, Stays
<1>4. QED  BY <1>3 DEF Q!SetEmpty, Q!Emptied, Q!stream

LEMMA GiveBackEffect ==
  ASSUME QueueInv, NEW t \in Thread, Q!GiveBack(t)
  PROVE  LET p == loc[t].ptr
         IN  /\ Stays(t, "giveBack", "done")
             /\ loc'[t].item = loc[t].item
             /\ blockIndex' = [blockIndex EXCEPT ![p][BlockAt(t)] = 0]
             /\ freeList' = freeList \cup {Q!BlockOf(p, loc[t].index)}
             /\ UNCHANGED <<headIndex, tailIndex, elements,
                            elementsCompletelyDequeued, blocksMade>>
<1>1. Q!Step(t, "giveBack", "done", loc[t])
  BY DEF Q!GiveBack
<1>2. DOMAIN loc[t] = Fields
  BY DEF QueueInv, LocalsInv, Shapes
<1>3. Stays(t, "giveBack", "done") /\ loc'[t].item = loc[t].item
  BY <1>1, <1>2, StepEffect DEF QueueInv, Stays
<1>4. QED
  BY <1>3 DEF Q!GiveBack, Q!stream, Q!add_block_to_free_list, BlockAt

\* The new index is that of headIndex.
LEMMA TakeIndexEffect ==
  ASSUME QueueInv, NEW t \in Thread, Q!TakeIndex(t)
  PROVE  LET p == loc[t].ptr
         IN  /\ at[t] = "head" /\ at'[t] = "take"
             /\ loc'[t].ptr = p /\ loc'[t].index = headIndex[p]
             /\ loc'[t].item = loc[t].item
             /\ \A u \in Thread \ {t} : at'[u] = at[u] /\ loc'[u] = loc[u]
             /\ headIndex' = [headIndex EXCEPT ![p] = @ + 1]
             /\ UNCHANGED <<tailIndex, Q!blocks>>
<1> DEFINE p == loc[t].ptr
           r == [loc[t] EXCEPT !.index = headIndex[p]]
<1>1. Q!Step(t, "head", "take", r)
  BY DEF Q!TakeIndex
<1>2. DOMAIN loc[t] = Fields
  BY DEF QueueInv, LocalsInv, Shapes
<1>3. DOMAIN r = Fields /\ r.ptr = p /\ r.index = headIndex[p] /\ r.item = loc[t].item
  BY <1>2 DEF Fields
<1> HIDE DEF r
<1>4. /\ at[t] = "head" /\ at'[t] = "take"
      /\ loc'[t].ptr = p /\ loc'[t].index = headIndex[p]
      /\ loc'[t].item = loc[t].item
      /\ \A u \in Thread \ {t} : at'[u] = at[u] /\ loc'[u] = loc[u]
  BY <1>1, <1>3, StepEffect DEF QueueInv
<1>5. QED  BY <1>4 DEF Q!TakeIndex

\* A thread takes the next element: it is there as long as it is not moved out.
LEMMA TakeIndexKeepsBlocks ==
  ASSUME QueueInv, BlockInv, NEW t \in Thread, Q!TakeIndex(t)
  PROVE  BlockInv'
<1> DEFINE p == loc[t].ptr
           h == headIndex[p]
<1>1. /\ at[t] = "head" /\ at'[t] = "take"
      /\ loc'[t].ptr = p /\ loc'[t].index = h
      /\ \A u \in Thread \ {t} : at'[u] = at[u] /\ loc'[u] = loc[u]
      /\ headIndex' = [headIndex EXCEPT ![p] = @ + 1]
      /\ UNCHANGED <<tailIndex, blockIndex, elements, elementsCompletelyDequeued,
                     blocksMade, freeList>>
  BY TakeIndexEffect DEF Q!blocks
<1>2. p \in Thread
  BY <1>1 DEF QueueInv, LocalsInv, Typed, WithStream
<1>3. h \in Nat /\ tailIndex[p] \in Nat /\ h < tailIndex[p]
  BY <1>1, <1>2, HeadBelowTail
<1>4. headIndex' \in [Thread -> Nat] /\ headIndex'[p] = h + 1
      /\ \A q \in Thread : q # p => headIndex'[q] = headIndex[q]
  <2>1. headIndex \in [Thread -> Nat]
    BY DEF QueueInv, LocalsInv, Shapes
  <2>2. QED  BY <1>1, <1>2, <2>1
<1>5. ASSUME NEW u \in Thread, u # t, at[u] \in Indexed
      PROVE  loc[u].ptr # p \/ (loc[u].index \in Nat /\ loc[u].index < h)
  BY <1>5 DEF BlockInv, Takers
<1> HIDE DEF p, h
<1>6. ASSUME NEW u \in Thread, NEW q, NEW i
      PROVE  Holds(u, q, i)' <=> Holds(u, q, i) \/ (u = t /\ q = p /\ i = h)
  BY <1>1 DEF Holds, p
<1>7. ASSUME NEW q \in Thread, NEW i \in Nat
      PROVE  Gone(q, i)' <=> Gone(q, i)
  <2>1. CASE q = p /\ i = h
    <3>1. ~ Gone(q, i)' 
      BY <1>6, <2>1 DEF Gone
    <3>2. ~ Gone(q, i)
      BY <1>3, <2>1 DEF Gone, h, p
    <3>3. QED  BY <3>1, <3>2
  <2>2. CASE q = p /\ i # h
    <3>1. i < headIndex'[q] <=> i < headIndex[q]
      BY <1>3, <1>4, <2>2 DEF h
    <3>2. QED  BY <1>6, <2>2, <3>1 DEF Gone
  <2>3. CASE q # p
    BY <1>4, <1>6, <2>3 DEF Gone
  <2>4. QED  BY <2>1, <2>2, <2>3
<1>8. ASSUME NEW q \in Thread, NEW i \in Nat
      PROVE  There(q, i)' <=> There(q, i)
  <2>1. \A u \in Thread : at'[u] = "take" /\ Holds(u, q, i)'
          <=> (at[u] = "take" /\ Holds(u, q, i)) \/ (u = t /\ q = p /\ i = h)
    <3>1. ASSUME NEW u \in Thread, u # t
          PROVE  at'[u] = "take" /\ Holds(u, q, i)' <=> at[u] = "take" /\ Holds(u, q, i)
      BY <1>1, <3>1 DEF Holds
    <3>2. at'[t] = "take" /\ Holds(t, q, i)' <=> q = p /\ i = h
      BY <1>1 DEF Holds, p
    <3>3. ~ (at[t] = "take")
      BY <1>1
    <3>4. QED  BY <3>1, <3>2, <3>3
  <2>2. CASE q = p /\ i = h
    <3>1. There(q, i)
      BY <1>3, <2>2 DEF There, h, p
    <3>2. There(q, i)'
      BY <2>1, <2>2 DEF There
    <3>3. QED  BY <3>1, <3>2
  <2>3. CASE q = p /\ i # h
    <3>1. headIndex'[q] <= i <=> headIndex[q] <= i
      BY <1>3, <1>4, <2>3 DEF h
    <3>2. QED  BY <1>1, <2>1, <2>3, <3>1 DEF There
  <2>4. CASE q # p
    BY <1>1, <1>4, <2>1, <2>4 DEF There
  <2>5. QED  BY <2>2, <2>3, <2>4
<1>9. BlockTypes'
  BY <1>1 DEF BlockInv, BlockTypes
<1>10. ASSUME NEW q \in Thread, NEW k \in DOMAIN blockIndex[q], NEW j \in Slot
       PROVE  Index(k, j) \in Nat
  BY Positions, Placed DEF BlockInv
<1>11. ASSUME NEW u \in Thread PROVE Takers(u)'
  <2>1. CASE u = t
    BY <1>1, <1>2, <1>3, <1>4, <2>1 DEF Takers, Labels, p, h
  <2>2. CASE u # t
    <3>1. Takers(u) /\ at'[u] = at[u] /\ loc'[u] = loc[u] /\ blockIndex' = blockIndex
      BY <1>1, <2>2 DEF BlockInv
    <3>2. at[u] \in Indexed => loc[u].index < headIndex'[loc[u].ptr]
      BY <1>3, <1>4, <3>1 DEF Takers, h, p
    <3>3. at[u] = "giveBack" => \A j \in Slot : Gone(loc[u].ptr, Index(BlockAt(u), j))'
      <4>1. SUFFICES ASSUME at[u] = "giveBack", NEW j \in Slot
                     PROVE  Gone(loc[u].ptr, Index(BlockAt(u), j))'
        OBVIOUS
      <4>2. loc[u].ptr \in Thread /\ loc[u].index \in Nat /\ Gone(loc[u].ptr, Index(BlockAt(u), j))
        BY <3>1, <4>1 DEF Takers, Indexed
      <4>3. BlockAt(u) \in Nat \ {0}
        BY <4>2, Divided DEF BlockAt
      <4>4. Index(BlockAt(u), j) \in Nat
        BY <4>3, Placed
      <4>5. BlockAt(u)' = BlockAt(u)
        BY <3>1 DEF BlockAt
      <4>6. QED  BY <1>7, <3>1, <4>2, <4>4, <4>5
    <3>4. QED  BY <3>1, <3>2, <3>3 DEF Takers, BlockAt
  <2>3. QED  BY <2>1, <2>2
<1>12. OneTaker'
  <2>1. SUFFICES ASSUME NEW u \in Thread, NEW v \in Thread, u # v,
                        at'[u] \in {"take", "setEmpty"}, at'[v] \in {"take", "setEmpty"},
                        loc'[u].ptr = loc'[v].ptr, loc'[u].index = loc'[v].index
                 PROVE  FALSE
    BY DEF OneTaker
  <2>2. CASE u = t
    BY <1>1, <1>3, <1>5, <2>1, <2>2 DEF Indexed, p, h
  <2>3. CASE v = t
    BY <1>1, <1>3, <1>5, <2>1, <2>3 DEF Indexed, p, h
  <2>4. CASE u # t /\ v # t
    BY <1>1, <2>1, <2>4 DEF BlockInv, OneTaker
  <2>5. QED  BY <2>2, <2>3, <2>4
<1>13. OneGiver'
  BY <1>1 DEF BlockInv, OneGiver, BlockAt
<1>14. Room'
  BY <1>1 DEF BlockInv, Room
<1>15. Emptying'
  <2>1. \A q \in Thread : \A k \in DOMAIN blockIndex[q] : GoneSlots(q, k)' = GoneSlots(q, k)
    BY <1>7, <1>10 DEF GoneSlots
  <2>2. QED  BY <1>1, <2>1 DEF BlockInv, Emptying
<1>16. Filled'
  BY <1>1, <1>8, <1>10 DEF BlockInv, Filled
<1>17. InOnePlace'
  BY <1>1 DEF BlockInv, InOnePlace
<1>18. QED
  BY <1>9, <1>11, <1>12, <1>13, <1>14, <1>15, <1>16, <1>17 DEF BlockInv
-----------------------------------------------------------------------
(* The element is moved out                                           *)

LEMMA IndexType ==
  ASSUME BlockTypes, NEW p \in Thread, NEW k \in DOMAIN blockIndex[p], NEW j \in Slot
  PROVE  k \in Nat \ {0} /\ Index(k, j) \in Nat
  BY Positions, Placed

\* A block and a position in it tell the stream and the index.
LEMMA SameSlot ==
  ASSUME BlockTypes, InOnePlace,
         NEW p \in Thread, NEW k \in DOMAIN blockIndex[p], NEW i \in Slot,
         NEW q \in Thread, NEW l \in DOMAIN blockIndex[q], NEW j \in Slot
  PROVE  /\ blockIndex[p][k] = blockIndex[q][l] /\ blockIndex[p][k] # 0
              => p = q /\ k = l
         /\ Index(k, i) = Index(l, j) => k = l /\ i = j
<1>1. blockIndex[p][k] = blockIndex[q][l] /\ blockIndex[p][k] # 0 => p = q /\ k = l
  BY DEF InOnePlace
<1>2. k \in Nat \ {0} /\ l \in Nat \ {0}
  BY IndexType
<1>3. Index(k, i) = Index(l, j) => k = l /\ i = j
  BY <1>2, Placed
<1>4. QED  BY <1>1, <1>3

\* The element is moved out of its slot.
LEMMA TakeKeepsBlocks ==
  ASSUME QueueInv, BlockInv, NEW t \in Thread, Q!Take(t)
  PROVE  BlockInv'
<1> DEFINE p == loc[t].ptr
           i == loc[t].index
           k == BlockAt(t)
           j == SlotAt(t)
           b == blockIndex[p][k]
<1>1. Stays(t, "take", "setEmpty")
      /\ UNCHANGED <<headIndex, tailIndex, blockIndex, elementsCompletelyDequeued,
                     blocksMade, freeList>>
  BY TakeEffect
<1>2. /\ p \in Thread /\ i \in Nat /\ i < headIndex[p] /\ headIndex[p] \in Nat
      /\ k \in DOMAIN blockIndex[p] /\ k \in Nat \ {0} /\ j \in Slot
      /\ Index(k, j) = i /\ Q!BlockOf(p, i) = b /\ b \in Q!Block
  <2>1. at[t] \in Indexed
    BY <1>1 DEF Stays, Indexed
  <2>2. QED  BY <2>1, TakerPlace
<1>3. elements' = [elements EXCEPT ![b][j] = NoNode]
  BY <1>2, TakeEffect
<1>4. BlockTypes /\ InOnePlace
  BY DEF BlockInv
<1>5. \A u, q, n : u \in Thread => (Holds(u, q, n)' <=> Holds(u, q, n))
  BY <1>1 DEF Stays, Holds
<1>6. \A q, n : Gone(q, n)' <=> Gone(q, n)
  BY <1>1, <1>5 DEF Gone
<1>7. Holds(t, p, i)
  BY <1>1 DEF Stays, Holds
<1> HIDE DEF p, i, k, j, b
<1>8. \A u \in Thread : u # t => ~ Holds(u, p, i)
  BY <1>1, <1>7 DEF BlockInv, OneTaker, Holds
<1>9. ASSUME NEW q \in Thread, NEW n \in Nat
      PROVE  There(q, n)' <=> There(q, n) /\ ~ (q = p /\ n = i)
  <2>1. CASE q = p /\ n = i
    <3>1. ~ (headIndex[q] <= n)
      BY <1>2, <2>1
    <3>2. \A u \in Thread : ~ (at'[u] = "take" /\ Holds(u, q, n)')
      BY <1>1, <1>5, <1>8, <2>1 DEF Stays
    <3>3. QED  BY <1>1, <2>1, <3>1, <3>2 DEF There
  <2>2. CASE ~ (q = p /\ n = i)
    <3>1. \A u \in Thread : at'[u] = "take" /\ Holds(u, q, n)' <=> at[u] = "take" /\ Holds(u, q, n)
      <4>1. ~ Holds(t, q, n)
        BY <2>2 DEF Holds, p, i
      <4>2. QED  BY <1>1, <1>5, <4>1 DEF Stays
    <3>2. QED  BY <1>1, <2>2, <3>1 DEF There
  <2>3. QED  BY <2>1, <2>2
<1>10. BlockTypes'
  <2>1. elements' \in [Q!Block -> [Slot -> Node \cup {NoNode}]]
    BY <1>2, <1>3, <1>4 DEF BlockTypes
  <2>2. QED  BY <1>1, <1>4, <2>1 DEF BlockTypes
<1>11. ASSUME NEW u \in Thread PROVE Takers(u)'
  <2>1. Takers(u) /\ BlockAt(u)' = BlockAt(u) /\ loc'[u].ptr = loc[u].ptr
        /\ loc'[u].index = loc[u].index
    BY <1>1 DEF BlockInv, Stays, BlockAt
  <2>2. at'[u] = at[u] \/ (at[u] = "take" /\ at'[u] = "setEmpty")
    BY <1>1 DEF Stays
  <2>3. QED  BY <1>1, <1>6, <2>1, <2>2 DEF Takers, Labels, Indexed
<1>12. OneTaker' /\ OneGiver'
  <2>1. \A u \in Thread : /\ BlockAt(u)' = BlockAt(u)
                          /\ loc'[u].ptr = loc[u].ptr /\ loc'[u].index = loc[u].index
                          /\ at'[u] \in {"take", "setEmpty"} <=> at[u] \in {"take", "setEmpty"}
                          /\ at'[u] = "giveBack" <=> at[u] = "giveBack"
    BY <1>1 DEF Stays, BlockAt
  <2>2. QED  BY <2>1 DEF BlockInv, OneTaker, OneGiver
<1>13. Room'
  BY <1>1 DEF BlockInv, Room
<1>14. Emptying'
  <2>1. \A q, l : GoneSlots(q, l)' = GoneSlots(q, l)
    BY <1>6 DEF GoneSlots
  <2>2. QED  BY <1>1, <2>1 DEF BlockInv, Emptying
<1>15. Filled'
  <2>1. ASSUME NEW c \in Q!Block, NEW m \in Slot
        PROVE  elements'[c][m] = IF c = b /\ m = j THEN NoNode ELSE elements[c][m]
    BY <1>2, <1>3, <1>4 DEF BlockTypes
  <2>2. ASSUME NEW q \in Thread, NEW l \in DOMAIN blockIndex[q], NEW m \in Slot,
               blockIndex[q][l] # 0
        PROVE  elements'[blockIndex[q][l]][m] # NoNode <=> There(q, Index(l, m))'
    <3>1. blockIndex[q][l] \in Q!Block
      BY <1>4, <2>2, Positions
    <3>2. elements[blockIndex[q][l]][m] # NoNode <=> There(q, Index(l, m))
      BY <2>2 DEF BlockInv, Filled
    <3>3. There(q, Index(l, m))' <=> There(q, Index(l, m)) /\ ~ (q = p /\ Index(l, m) = i)
      BY <1>4, <1>9, IndexType
    <3>4. blockIndex[q][l] = b /\ m = j <=> q = p /\ Index(l, m) = i
      BY <1>2, <1>4, <2>2, SameSlot DEF b
    <3>5. QED  BY <2>1, <3>1, <3>2, <3>3, <3>4
  <2>3. ASSUME NEW c \in Q!Block, NEW m \in Slot,
               \A q \in Thread : \A l \in DOMAIN blockIndex[q] : blockIndex[q][l] # c
        PROVE  elements'[c][m] = NoNode
    BY <2>1, <2>3 DEF BlockInv, Filled
  <2>4. QED  BY <1>1, <2>2, <2>3 DEF Filled
<1>16. InOnePlace'
  BY <1>1 DEF BlockInv, InOnePlace
<1>17. QED
  BY <1>10, <1>11, <1>12, <1>13, <1>14, <1>15, <1>16 DEF BlockInv

LEMMA SlotCount == IsFiniteSet(Slot) /\ Cardinality(Slot) = BlockSize
<1>1. BlockSize - 1 \in Int /\ 0 \in Int
  BY Sizes
<1>2. IsFiniteSet(0..(BlockSize - 1))
      /\ Cardinality(0..(BlockSize - 1)) = IF 0 > BlockSize - 1 THEN 0 ELSE (BlockSize - 1) - 0 + 1
  BY <1>1, FS_Interval
<1>3. QED  BY <1>2, Sizes DEF Slot

\* No more of a block is gone than it has slots, and all of it when as much.
LEMMA SlotsCounted ==
  ASSUME NEW p, NEW k
  PROVE  /\ IsFiniteSet(GoneSlots(p, k)) /\ GoneSlots(p, k) \subseteq Slot
         /\ Cardinality(GoneSlots(p, k)) \in 0..BlockSize
         /\ Cardinality(GoneSlots(p, k)) = BlockSize => GoneSlots(p, k) = Slot
<1>1. GoneSlots(p, k) \subseteq Slot
  BY DEF GoneSlots
<1>2. /\ IsFiniteSet(GoneSlots(p, k)) /\ Cardinality(GoneSlots(p, k)) <= BlockSize
      /\ Cardinality(GoneSlots(p, k)) = BlockSize => GoneSlots(p, k) = Slot
  BY <1>1, SlotCount, FS_Subset
<1>3. Cardinality(GoneSlots(p, k)) \in Nat
  BY <1>2, FS_CardinalityType
<1>4. QED  BY <1>1, <1>2, <1>3, Sizes
-----------------------------------------------------------------------
(* The slot is counted as empty                                       *)

\* The block and the position of an element that thread t has taken.
LEMMA SetEmptyKeepsBlocks ==
  ASSUME QueueInv, BlockInv, NEW t \in Thread, Q!SetEmpty(t)
  PROVE  BlockInv'
<1> DEFINE p == loc[t].ptr
           i == loc[t].index
           k == BlockAt(t)
           j == SlotAt(t)
           b == blockIndex[p][k]
           n == elementsCompletelyDequeued[b]
           next == IF n = BlockSize - 1 THEN "giveBack" ELSE "done"
<1>1. at[t] = "setEmpty"
      /\ UNCHANGED <<headIndex, tailIndex, blockIndex, elements, blocksMade, freeList>>
  BY SetEmptyEffect DEF Stays
<1>2. /\ p \in Thread /\ i \in Nat /\ i < headIndex[p] /\ headIndex[p] \in Nat
      /\ k \in DOMAIN blockIndex[p] /\ k \in Nat \ {0} /\ j \in Slot
      /\ Index(k, j) = i /\ Q!BlockOf(p, i) = b /\ b \in Q!Block
  <2>1. at[t] \in Indexed
    BY <1>1 DEF Indexed
  <2>2. QED  BY <2>1, TakerPlace
<1>3. /\ Stays(t, "setEmpty", next)
      /\ elementsCompletelyDequeued' = [elementsCompletelyDequeued EXCEPT ![b] = n + 1]
  BY <1>2, SetEmptyEffect
<1>4. BlockTypes /\ InOnePlace
  BY DEF BlockInv
<1>5. Holds(t, p, i)
  BY <1>1 DEF Holds
<1>n. next \in {"giveBack", "done"} /\ (next = "giveBack" <=> n = BlockSize - 1)
  OBVIOUS
<1>q. p' = p /\ k' = k
  BY <1>3 DEF Stays, BlockAt
<1> HIDE DEF p, i, k, j, b, n, next
<1>6. \A u \in Thread : u # t => ~ Holds(u, p, i)
  BY <1>1, <1>5 DEF BlockInv, OneTaker, Holds
<1>7. ASSUME NEW u \in Thread, NEW q, NEW m
      PROVE  Holds(u, q, m)' <=> Holds(u, q, m) /\ u # t
  BY <1>3, <1>n DEF Stays, Holds
<1>8. \A m : Holds(t, p, m) => m = i
  BY DEF Holds, i
<1>9. \A q, m : Holds(t, q, m) => q = p
  BY DEF Holds, p
<1>10. ASSUME NEW q, NEW m
       PROVE  Gone(q, m)' <=> Gone(q, m) \/ (q = p /\ m = i)
  <2>1. CASE q = p /\ m = i
    BY <1>1, <1>2, <1>6, <1>7, <2>1 DEF Gone
  <2>2. CASE ~ (q = p /\ m = i)
    <3>1. ~ Holds(t, q, m)
      BY <1>8, <1>9, <2>2
    <3>2. QED  BY <1>1, <1>7, <2>2, <3>1 DEF Gone
  <2>3. QED  BY <2>1, <2>2
<1>11. ASSUME NEW q, NEW m
       PROVE  There(q, m)' <=> There(q, m)
  <2>1. \A u \in Thread : at'[u] = "take" /\ Holds(u, q, m)' <=> at[u] = "take" /\ Holds(u, q, m)
    BY <1>1, <1>3, <1>7, <1>n DEF Stays
  <2>2. QED  BY <1>1, <2>1 DEF There
<1>12. j \notin GoneSlots(p, k) /\ GoneSlots(p, k)' = GoneSlots(p, k) \cup {j}
  <2>1. ~ Gone(p, i)
    BY <1>5 DEF Gone
  <2>2. \A m \in Slot : Index(k, m) = i => m = j
    BY <1>2, <1>4, SameSlot
  <2>3. \A m : m \in GoneSlots(p, k)' <=> m \in Slot /\ (Gone(p, Index(k, m)) \/ m = j)
    BY <1>q, <1>2, <1>10, <2>2 DEF GoneSlots
  <2>4. \A m : m \in GoneSlots(p, k) <=> m \in Slot /\ Gone(p, Index(k, m))
    BY DEF GoneSlots
  <2>5. QED  BY <1>2, <2>1, <2>3, <2>4
<1>13. ASSUME NEW q \in Thread, NEW l \in DOMAIN blockIndex[q], ~ (q = p /\ l = k)
       PROVE  GoneSlots(q, l)' = GoneSlots(q, l)
  <2>1. \A m \in Slot : ~ (q = p /\ Index(l, m) = i)
    BY <1>2, <1>4, <1>13, SameSlot
  <2>2. QED  BY <1>10, <2>1 DEF GoneSlots
<1>14. n = Cardinality(GoneSlots(p, k)) /\ n \in Nat /\ n < BlockSize
       /\ Cardinality(GoneSlots(p, k)') = n + 1
  <2>1. n = Cardinality(GoneSlots(p, k))
    BY <1>2, Sizes DEF BlockInv, Emptying, Q!Block, b, n
  <2>2. Cardinality(GoneSlots(p, k)') = Cardinality(GoneSlots(p, k)) + 1
    BY <1>12, SlotsCounted, FS_AddElement
  <2>3. n \in 0..BlockSize /\ n # BlockSize
    BY <1>2, <1>12, <2>1, SlotsCounted
  <2>4. QED  BY <2>1, <2>2, <2>3, Sizes
<1>15. next = "giveBack" => GoneSlots(p, k)' = Slot
  <2>1. SUFFICES ASSUME next = "giveBack" PROVE GoneSlots(p, k)' = Slot
    OBVIOUS
  <2>2. Cardinality(GoneSlots(p, k)') = BlockSize
    BY <1>14, <1>n, <2>1, Sizes
  <2>3. GoneSlots(p, k)' \subseteq Slot
    BY <1>2, <1>12, SlotsCounted
  <2>4. QED  BY <2>2, <2>3, SlotCount, FS_Subset
<1>16. BlockTypes'
  <2>1. elementsCompletelyDequeued' \in [Q!Block -> 0..BlockSize]
    <3>1. n + 1 \in 0..BlockSize
      BY <1>14, Sizes
    <3>2. QED  BY <1>2, <1>3, <1>4, <3>1 DEF BlockTypes
  <2>2. QED  BY <1>1, <1>4, <2>1 DEF BlockTypes
<1>17. ASSUME NEW u \in Thread PROVE Takers(u)'
  <2>1. Takers(u) /\ BlockAt(u)' = BlockAt(u) /\ loc'[u].ptr = loc[u].ptr
        /\ loc'[u].index = loc[u].index
    BY <1>3 DEF BlockInv, Stays, BlockAt
  <2>2. CASE u = t
    <3>1. at'[u] = next /\ at[u] = "setEmpty"
      BY <1>1, <1>3, <2>2 DEF Stays
    <3>2. at'[u] = "giveBack" =>
            blockIndex[p][k] # 0 /\ \A m \in Slot : Gone(p, Index(k, m))'
      BY <1>q, <1>2, <1>15, <3>1, Sizes DEF GoneSlots, b, Q!Block
    <3>3. QED  BY <1>1, <1>n, <2>1, <2>2, <3>1, <3>2 DEF Takers, Labels, Indexed, p, k
  <2>3. CASE u # t
    <3>1. at'[u] = at[u]
      BY <1>3, <2>3 DEF Stays
    <3>2. QED  BY <1>1, <1>10, <2>1, <3>1 DEF Takers
  <2>4. QED  BY <2>2, <2>3
<1>18. OneTaker'
  <2>1. \A u \in Thread : /\ loc'[u].ptr = loc[u].ptr /\ loc'[u].index = loc[u].index
                          /\ at'[u] \in {"take", "setEmpty"} => at[u] \in {"take", "setEmpty"}
    BY <1>3, <1>n DEF Stays
  <2>2. QED  BY <2>1 DEF BlockInv, OneTaker
<1>19. OneGiver'
  <2>1. \A u \in Thread : /\ loc'[u].ptr = loc[u].ptr /\ BlockAt(u)' = BlockAt(u)
                          /\ u # t => at'[u] = at[u]
    BY <1>3 DEF Stays, BlockAt
  <2>2. ASSUME NEW u \in Thread, at[u] = "giveBack"
        PROVE  loc[u].ptr # p \/ BlockAt(u) # k
    <3>1. \A m \in Slot : Gone(loc[u].ptr, Index(BlockAt(u), m))
      BY <2>2 DEF BlockInv, Takers
    <3>2. ~ Gone(p, i)
      BY <1>5 DEF Gone
    <3>3. QED  BY <1>2, <3>1, <3>2
  <2>3. QED  BY <2>1, <2>2 DEF BlockInv, OneGiver, p, k
<1>20. Room'
  BY <1>1 DEF BlockInv, Room
<1>21. Emptying'
  <2>1. SUFFICES ASSUME NEW q \in Thread, NEW l \in DOMAIN blockIndex[q]
                 PROVE  IF blockIndex[q][l] = 0 THEN GoneSlots(q, l)' = Slot
                        ELSE elementsCompletelyDequeued'[blockIndex[q][l]]
                               = Cardinality(GoneSlots(q, l)')
    BY <1>1 DEF Emptying
  <2>2. CASE q = p /\ l = k
    <3>1. elementsCompletelyDequeued'[b] = n + 1
      BY <1>2, <1>3, <1>4 DEF BlockTypes
    <3>2. b # 0 /\ blockIndex[q][l] = b
      BY <1>2, <2>2, Sizes DEF Q!Block, b
    <3>3. QED  BY <1>q, <1>14, <2>2, <3>1, <3>2
  <2>3. CASE ~ (q = p /\ l = k)
    <3>1. GoneSlots(q, l)' = GoneSlots(q, l)
      BY <1>13, <2>3
    <3>2. blockIndex[q][l] # 0 => blockIndex[q][l] # b
      BY <1>2, <1>4, <2>3 DEF InOnePlace, b
    <3>3. blockIndex[q][l] \in Q!Block \cup {0}
      BY <1>4, Positions
    <3>4. blockIndex[q][l] # 0 =>
            elementsCompletelyDequeued'[blockIndex[q][l]]
              = elementsCompletelyDequeued[blockIndex[q][l]]
      BY <1>3, <1>4, <3>2, <3>3 DEF BlockTypes
    <3>5. IF blockIndex[q][l] = 0 THEN GoneSlots(q, l) = Slot
          ELSE elementsCompletelyDequeued[blockIndex[q][l]]
                 = Cardinality(GoneSlots(q, l))
      BY DEF BlockInv, Emptying
    <3>6. QED  BY <3>1, <3>4, <3>5
  <2>4. QED  BY <2>2, <2>3
<1>22. Filled'
  BY <1>1, <1>11 DEF BlockInv, Filled
<1>23. InOnePlace'
  BY <1>1 DEF BlockInv, InOnePlace
<1>24. QED
  BY <1>16, <1>17, <1>18, <1>19, <1>20, <1>21, <1>22, <1>23 DEF BlockInv
-----------------------------------------------------------------------
(* The block is given back                                            *)

\* An emptied block leaves the index of its stream.
LEMMA GiveBackKeepsBlocks ==
  ASSUME QueueInv, BlockInv, NEW t \in Thread, Q!GiveBack(t)
  PROVE  BlockInv'
<1> DEFINE p == loc[t].ptr
           i == loc[t].index
           k == BlockAt(t)
           b == blockIndex[p][k]
<1>1. Stays(t, "giveBack", "done")
      /\ blockIndex' = [blockIndex EXCEPT ![p][k] = 0]
      /\ UNCHANGED <<headIndex, tailIndex, elements, elementsCompletelyDequeued,
                     blocksMade>>
  BY GiveBackEffect
<1>2. /\ p \in Thread /\ i \in Nat
      /\ k \in DOMAIN blockIndex[p] /\ k \in Nat \ {0}
      /\ Q!BlockOf(p, i) = b /\ b \in Q!Block
  <2>1. at[t] \in Indexed
    BY <1>1 DEF Stays, Indexed
  <2>2. QED  BY <2>1, TakerPlace
<1>3. freeList' = freeList \cup {b}
  BY <1>2, GiveBackEffect
<1>4. BlockTypes /\ InOnePlace
  BY DEF BlockInv
<1>5. \A j \in Slot : Gone(p, Index(k, j))
  BY <1>1 DEF BlockInv, Takers, Stays
<1> HIDE DEF p, i, k, b
<1>6. \A u, q, n : u \in Thread => (Holds(u, q, n)' <=> Holds(u, q, n))
  BY <1>1 DEF Stays, Holds
<1>7. \A q, n : Gone(q, n)' <=> Gone(q, n)
  BY <1>1, <1>6 DEF Gone
<1>8. ASSUME NEW q, NEW n
      PROVE  There(q, n)' <=> There(q, n)
  <2>1. \A u \in Thread : at'[u] = "take" /\ Holds(u, q, n)' <=> at[u] = "take" /\ Holds(u, q, n)
    BY <1>1, <1>6 DEF Stays
  <2>2. QED  BY <1>1, <2>1 DEF There
<1>9. ASSUME NEW q \in Thread
      PROVE  /\ DOMAIN blockIndex'[q] = DOMAIN blockIndex[q]
             /\ Len(blockIndex'[q]) = Len(blockIndex[q])
             /\ blockIndex'[q] \in Seq(Q!Block \cup {0})
             /\ \A l \in DOMAIN blockIndex[q] :
                  blockIndex'[q][l] = IF q = p /\ l = k THEN 0 ELSE blockIndex[q][l]
  <2>1. blockIndex[q] \in Seq(Q!Block \cup {0}) /\ blockIndex \in [Thread -> Seq(Q!Block \cup {0})]
    BY <1>4 DEF BlockTypes
  <2>2. CASE q = p
    <3>1. blockIndex'[q] = [blockIndex[q] EXCEPT ![k] = 0]
      BY <1>1, <2>1, <2>2
    <3>2. QED  BY <1>2, <2>1, <2>2, <3>1
  <2>3. CASE q # p
    BY <1>1, <2>1, <2>3
  <2>4. QED  BY <2>2, <2>3
<1>10. b # 0
  BY <1>2, Sizes DEF Q!Block
<1>11. ASSUME NEW q \in Thread, NEW l \in DOMAIN blockIndex[q]
       PROVE  blockIndex'[q][l] # b
  BY <1>2, <1>4, <1>9, <1>10, <1>11 DEF InOnePlace, b
<1>12. BlockTypes'
  <2>1. DOMAIN blockIndex' = Thread /\ blockIndex' = [q \in Thread |-> blockIndex'[q]]
    BY <1>1, <1>4 DEF BlockTypes
  <2>2. blockIndex' \in [Thread -> Seq(Q!Block \cup {0})]
    BY <1>9, <2>1
  <2>3. freeList' \subseteq Q!Block
    BY <1>2, <1>3, <1>4 DEF BlockTypes
  <2>4. QED  BY <1>1, <1>4, <2>2, <2>3 DEF BlockTypes
<1>13. ASSUME NEW u \in Thread PROVE Takers(u)'
  <2>1. Takers(u) /\ BlockAt(u)' = BlockAt(u) /\ loc'[u].ptr = loc[u].ptr
        /\ loc'[u].index = loc[u].index
    BY <1>1 DEF BlockInv, Stays, BlockAt
  <2>2. CASE u = t
    BY <1>1, <2>2 DEF Stays, Takers, Labels, Indexed
  <2>3. CASE u # t
    <3>1. at'[u] = at[u]
      BY <1>1, <2>3 DEF Stays
    <3>2. at[u] = "giveBack" => blockIndex'[loc[u].ptr][BlockAt(u)] # 0
      <4>1. SUFFICES ASSUME at[u] = "giveBack"
                     PROVE  blockIndex'[loc[u].ptr][BlockAt(u)] # 0
        OBVIOUS
      <4>2. at[u] \in Indexed
        BY <4>1 DEF Indexed
      <4>3. loc[u].ptr \in Thread /\ BlockAt(u) \in DOMAIN blockIndex[loc[u].ptr]
        BY <4>2, TakerPlace
      <4>4. ~ (loc[u].ptr = p /\ BlockAt(u) = k)
        BY <1>1, <2>3, <4>1 DEF BlockInv, OneGiver, Stays, p, k
      <4>5. blockIndex[loc[u].ptr][BlockAt(u)] # 0
        BY <2>1, <4>1 DEF Takers
      <4>6. QED  BY <1>9, <4>3, <4>4, <4>5
    <3>3. QED  BY <1>1, <1>7, <2>1, <3>1, <3>2 DEF Takers
  <2>4. QED  BY <2>2, <2>3
<1>14. OneTaker' /\ OneGiver'
  <2>1. \A u \in Thread : /\ BlockAt(u)' = BlockAt(u)
                          /\ loc'[u].ptr = loc[u].ptr /\ loc'[u].index = loc[u].index
                          /\ at'[u] \in {"take", "setEmpty"} <=> at[u] \in {"take", "setEmpty"}
                          /\ at'[u] = "giveBack" => at[u] = "giveBack"
    BY <1>1 DEF Stays, BlockAt
  <2>2. QED  BY <2>1 DEF BlockInv, OneTaker, OneGiver
<1>15. Room'
  BY <1>1, <1>9 DEF BlockInv, Room
<1>16. Emptying'
  <2>1. \A q, l : GoneSlots(q, l)' = GoneSlots(q, l)
    BY <1>7 DEF GoneSlots
  <2>2. GoneSlots(p, k) = Slot
    BY <1>5 DEF GoneSlots
  <2>3. SUFFICES ASSUME NEW q \in Thread, NEW l \in DOMAIN blockIndex[q]
                 PROVE  IF blockIndex'[q][l] = 0 THEN GoneSlots(q, l) = Slot
                        ELSE elementsCompletelyDequeued[blockIndex'[q][l]]
                               = Cardinality(GoneSlots(q, l))
    BY <1>1, <1>9, <2>1 DEF Emptying
  <2>4. CASE q = p /\ l = k
    BY <1>9, <2>2, <2>4
  <2>5. CASE ~ (q = p /\ l = k)
    <3>1. blockIndex'[q][l] = blockIndex[q][l]
      BY <1>9, <2>5
    <3>2. QED  BY <3>1 DEF BlockInv, Emptying
  <2>6. QED  BY <2>4, <2>5
<1>17. Filled'
  <2>1. ASSUME NEW q \in Thread, NEW l \in DOMAIN blockIndex[q], NEW m \in Slot,
               blockIndex'[q][l] # 0
        PROVE  elements[blockIndex'[q][l]][m] # NoNode <=> There(q, Index(l, m))
    BY <1>9, <2>1 DEF BlockInv, Filled
  <2>2. ASSUME NEW m \in Slot PROVE elements[b][m] = NoNode
    <3>1. Gone(p, Index(k, m))
      BY <1>5
    <3>2. headIndex[p] \in Nat /\ Index(k, m) \in Nat
      BY <1>2, HeadBelowTail, Placed
    <3>3. ~ There(p, Index(k, m))
      BY <3>1, <3>2 DEF There, Gone
    <3>4. QED  BY <1>2, <1>10, <3>3 DEF BlockInv, Filled, b
  <2>3. ASSUME NEW c \in Q!Block, NEW m \in Slot,
               \A q \in Thread : \A l \in DOMAIN blockIndex[q] : blockIndex'[q][l] # c
        PROVE  elements[c][m] = NoNode
    <3>1. CASE c = b
      BY <2>2, <3>1
    <3>2. CASE c # b
      <4>1. \A q \in Thread : \A l \in DOMAIN blockIndex[q] : blockIndex[q][l] # c
        BY <1>9, <2>3, <3>2 DEF b
      <4>2. QED  BY <4>1 DEF BlockInv, Filled
    <3>3. QED  BY <3>1, <3>2
  <2>4. QED  BY <1>1, <1>8, <1>9, <2>1, <2>3 DEF Filled
<1>18. InOnePlace'
  <2>1. ASSUME NEW q \in Thread, NEW l \in DOMAIN blockIndex[q]
        PROVE  blockIndex'[q][l] \notin freeList' /\ blockIndex'[q][l] <= blocksMade
    <3>1. blockIndex[q][l] \notin freeList /\ blockIndex[q][l] <= blocksMade
      BY <1>4 DEF InOnePlace
    <3>2. blockIndex'[q][l] = 0 \/ blockIndex'[q][l] = blockIndex[q][l]
      BY <1>9
    <3>3. 0 \notin freeList /\ 0 <= blocksMade
      BY <1>4, Sizes DEF BlockTypes, Q!Block
    <3>4. blockIndex'[q][l] # b
      BY <1>11
    <3>5. QED  BY <1>3, <3>1, <3>2, <3>3, <3>4
  <2>2. \A c \in freeList' : c <= blocksMade
    BY <1>2, <1>3, <1>4 DEF InOnePlace, b
  <2>3. \A q, r \in Thread : \A l \in DOMAIN blockIndex[q], m \in DOMAIN blockIndex[r] :
          blockIndex'[q][l] = blockIndex'[r][m] /\ blockIndex'[q][l] # 0 => q = r /\ l = m
    <3>1. SUFFICES ASSUME NEW q \in Thread, NEW r \in Thread,
                          NEW l \in DOMAIN blockIndex[q], NEW m \in DOMAIN blockIndex[r],
                          blockIndex'[q][l] = blockIndex'[r][m], blockIndex'[q][l] # 0
                   PROVE  q = r /\ l = m
      OBVIOUS
    <3>2. blockIndex'[q][l] = blockIndex[q][l] /\ blockIndex'[r][m] = blockIndex[r][m]
      BY <1>9, <3>1
    <3>3. blockIndex[q][l] = blockIndex[r][m] /\ blockIndex[q][l] # 0
      BY <3>1, <3>2
    <3>4. \A k1 \in DOMAIN blockIndex[q], l1 \in DOMAIN blockIndex[r] :
            blockIndex[q][k1] = blockIndex[r][l1] /\ blockIndex[q][k1] # 0
              => q = r /\ k1 = l1
      BY <1>4 DEF InOnePlace
    <3>5. QED  BY <3>3, <3>4
  <2>4. QED  BY <1>1, <1>9, <2>1, <2>2, <2>3 DEF InOnePlace
<1>19. QED
  BY <1>12, <1>13, <1>14, <1>15, <1>16, <1>17, <1>18 DEF BlockInv
-----------------------------------------------------------------------
(* A stream gets a block                                              *)

\* The next element of a stream is in none of its blocks yet: there is no
\* block whose elements are gone that it could be in.
LEMMA BeyondTail ==
  ASSUME QueueInv, BlockInv, NEW p \in Thread, NEW i \in Nat, i >= tailIndex[p]
  PROVE  ~ Gone(p, i) /\ ~ There(p, i)
<1>1. /\ headIndex[p] \in Nat /\ tailIndex[p] \in Nat /\ headIndex[p] <= tailIndex[p]
  BY HeadBelowTail
<1>2. ASSUME NEW t \in Thread, Holds(t, p, i) PROVE FALSE
  <2>1. loc[t].index < headIndex[p] /\ loc[t].index = i
    BY <1>2 DEF BlockInv, Takers, Holds, Indexed
  <2>2. QED  BY <1>1, <2>1
<1>3. QED  BY <1>1, <1>2 DEF Gone, There

\* A block that is in no stream gets into one.
LEMMA NewBlockKeepsBlocks ==
  ASSUME QueueInv, BlockInv, NEW t \in Thread, Q!NewBlock(t)
  PROVE  BlockInv'
<1> DEFINE L == Len(blockIndex[t])
<1>1. PICK b \in Q!Block :
        /\ Q!UnusedBlock(b) \/ Q!FreedBlock(b)
        /\ blockIndex' = [blockIndex EXCEPT ![t] = Append(@, b)]
        /\ elementsCompletelyDequeued' = [elementsCompletelyDequeued EXCEPT ![b] = 0]
  BY DEF Q!NewBlock, Q!StartsBlock, Q!insert_block_index_entry
<1>2. UNCHANGED <<headIndex, tailIndex, elements, at, loc>>
  BY DEF Q!NewBlock, Q!StartsBlock, Q!stream
<1>3. BlockTypes /\ InOnePlace
  BY DEF BlockInv
<1>4. L \in Nat /\ DOMAIN blockIndex[t] = 1..L
  BY <1>3, Positions
<1>5. tailIndex[t] = L * BlockSize
  <2>1. ~ (tailIndex[t] < L * BlockSize)
    BY DEF Q!NewBlock, Q!HasRoom
  <2>2. tailIndex[t] <= L * BlockSize
    BY DEF BlockInv, Room
  <2>3. tailIndex[t] \in Nat /\ L * BlockSize \in Nat
    BY <1>4, HeadBelowTail, Sizes
  <2> HIDE DEF L
  <2>4. QED  BY <2>1, <2>2, <2>3
<1>6. blocksMade \in 0..MaxBlocks /\ b # 0 /\ b \in Nat
  BY <1>3, Sizes DEF BlockTypes, Q!Block
<1>7. /\ blocksMade' \in 0..MaxBlocks /\ blocksMade <= blocksMade'
      /\ b <= blocksMade' /\ freeList' = freeList \ {b}
      /\ \A q \in Thread : \A l \in DOMAIN blockIndex[q] : blockIndex[q][l] # b
  <2>1. CASE Q!UnusedBlock(b)
    <3>1. b = blocksMade + 1 /\ blocksMade' = b /\ freeList' = freeList /\ blocksMade < MaxBlocks
      BY <2>1 DEF Q!UnusedBlock
    <3>2. b \notin freeList
      BY <1>3, <1>6, <3>1 DEF InOnePlace
    <3>3. \A q \in Thread : \A l \in DOMAIN blockIndex[q] : blockIndex[q][l] # b
      BY <1>3, <1>6, <3>1 DEF InOnePlace
    <3>4. QED  BY <1>6, <3>1, <3>2, <3>3, Sizes
  <2>2. CASE Q!FreedBlock(b)
    <3>1. b \in freeList /\ freeList' = freeList \ {b} /\ blocksMade' = blocksMade
      BY <2>2 DEF Q!FreedBlock
    <3>2. b <= blocksMade
      BY <1>3, <3>1 DEF InOnePlace
    <3>3. QED  BY <1>3, <1>6, <3>1, <3>2 DEF InOnePlace
  <2>3. QED  BY <1>1, <2>1, <2>2
<1>8. ASSUME NEW q \in Thread
      PROVE  /\ blockIndex'[q] \in Seq(Q!Block \cup {0})
             /\ q # t => blockIndex'[q] = blockIndex[q]
             /\ DOMAIN blockIndex'[q] = IF q = t THEN 1..(L + 1) ELSE DOMAIN blockIndex[q]
             /\ Len(blockIndex'[q]) = IF q = t THEN L + 1 ELSE Len(blockIndex[q])
             /\ \A l \in DOMAIN blockIndex[q] :
                  l \in DOMAIN blockIndex'[q] /\ blockIndex'[q][l] = blockIndex[q][l]
  <2>1. blockIndex[q] \in Seq(Q!Block \cup {0}) /\ blockIndex \in [Thread -> Seq(Q!Block \cup {0})]
    BY <1>3 DEF BlockTypes
  <2>2. CASE q = t
    <3>1. blockIndex'[q] = Append(blockIndex[q], b)
      BY <1>1, <2>1, <2>2
    <3>2. QED  BY <1>1, <1>4, <2>1, <2>2, <3>1
  <2>3. CASE q # t
    BY <1>1, <2>1, <2>3
  <2>4. QED  BY <2>2, <2>3
<1>9. L + 1 \in DOMAIN blockIndex'[t] /\ blockIndex'[t][L + 1] = b
  <2>1. blockIndex'[t] = Append(blockIndex[t], b) /\ blockIndex[t] \in Seq(Q!Block \cup {0})
    BY <1>1, <1>3 DEF BlockTypes
  <2>2. QED  BY <1>1, <1>4, <2>1
<1>10. ASSUME NEW q \in Thread, NEW l \in DOMAIN blockIndex'[q]
       PROVE  \/ l \in DOMAIN blockIndex[q] /\ blockIndex'[q][l] = blockIndex[q][l]
              \/ q = t /\ l = L + 1 /\ blockIndex'[q][l] = b
  <2>1. CASE l \in DOMAIN blockIndex[q]
    BY <1>8, <2>1
  <2>2. CASE l \notin DOMAIN blockIndex[q]
    <3>1. q = t
      BY <1>8, <2>2
    <3>2. l \in 1..(L + 1) /\ l \notin 1..L
      BY <1>4, <1>8, <2>2, <3>1
    <3>3. l = L + 1
      BY <1>4, <3>2
    <3>4. QED  BY <1>9, <3>1, <3>3
  <2>3. QED  BY <2>1, <2>2
<1>11. \A j \in Slot : Index(L + 1, j) \in Nat /\ Index(L + 1, j) >= tailIndex[t]
  <2>1. SUFFICES ASSUME NEW j \in Slot
                 PROVE  Index(L + 1, j) \in Nat /\ Index(L + 1, j) >= tailIndex[t]
    OBVIOUS
  <2>2. j \in Nat
    BY Sizes DEF Slot
  <2>3. Index(L + 1, j) = L * BlockSize + j
    BY <1>4 DEF Index
  <2>4. L * BlockSize \in Nat
    BY <1>4, Sizes
  <2>5. QED  BY <1>5, <2>2, <2>3, <2>4
<1> HIDE DEF L
<1>12. \A u, q, n : Holds(u, q, n)' <=> Holds(u, q, n)
  BY <1>2 DEF Holds
<1>13. \A q, n : (Gone(q, n)' <=> Gone(q, n)) /\ (There(q, n)' <=> There(q, n))
  BY <1>2, <1>12 DEF Gone, There
<1>14. \A q, l : GoneSlots(q, l)' = GoneSlots(q, l)
  BY <1>13 DEF GoneSlots
<1>15. BlockTypes'
  <2>1. DOMAIN blockIndex' = Thread /\ blockIndex' = [q \in Thread |-> blockIndex'[q]]
    BY <1>1, <1>3 DEF BlockTypes
  <2>2. blockIndex' \in [Thread -> Seq(Q!Block \cup {0})]
    BY <1>8, <2>1
  <2>3. elementsCompletelyDequeued' \in [Q!Block -> 0..BlockSize]
    BY <1>1, <1>3, Sizes DEF BlockTypes
  <2>4. freeList' \subseteq Q!Block
    BY <1>3, <1>7 DEF BlockTypes
  <2>5. QED  BY <1>2, <1>3, <1>7, <2>2, <2>3, <2>4 DEF BlockTypes
<1>16. ASSUME NEW u \in Thread PROVE Takers(u)'
  <2>1. Takers(u) /\ BlockAt(u)' = BlockAt(u)
    BY <1>2 DEF BlockInv, BlockAt
  <2>2. at[u] = "giveBack" => blockIndex'[loc[u].ptr][BlockAt(u)] # 0
    <3>1. SUFFICES ASSUME at[u] = "giveBack"
                   PROVE  blockIndex'[loc[u].ptr][BlockAt(u)] # 0
      OBVIOUS
    <3>2. loc[u].ptr \in Thread /\ BlockAt(u) \in DOMAIN blockIndex[loc[u].ptr]
      BY <3>1, TakerPlace DEF Indexed
    <3>3. QED  BY <1>8, <2>1, <3>1, <3>2 DEF Takers
  <2>3. QED  BY <1>2, <1>13, <2>1, <2>2 DEF Takers
<1>17. OneTaker' /\ OneGiver'
  BY <1>2 DEF BlockInv, OneTaker, OneGiver, BlockAt
<1>18. Room'
  <2>1. SUFFICES ASSUME NEW q \in Thread
                 PROVE  tailIndex[q] <= Len(blockIndex'[q]) * BlockSize
    BY <1>2 DEF Room
  <2>2. CASE q = t
    <3>1. (L + 1) * BlockSize = L * BlockSize + BlockSize /\ L * BlockSize \in Nat
      BY <1>4, Sizes
    <3>2. QED  BY <1>5, <1>8, <2>2, <3>1, Sizes
  <2>3. CASE q # t
    BY <1>8, <2>3 DEF BlockInv, Room
  <2>4. QED  BY <2>2, <2>3
<1>19. Emptying'
  <2>1. SUFFICES ASSUME NEW q \in Thread, NEW l \in DOMAIN blockIndex'[q]
                 PROVE  IF blockIndex'[q][l] = 0 THEN GoneSlots(q, l) = Slot
                        ELSE elementsCompletelyDequeued'[blockIndex'[q][l]]
                               = Cardinality(GoneSlots(q, l))
    BY <1>14 DEF Emptying
  <2>2. CASE q = t /\ l = L + 1 /\ blockIndex'[q][l] = b
    <3>1. GoneSlots(t, L + 1) = {}
      BY <1>11, BeyondTail DEF GoneSlots
    <3>2. elementsCompletelyDequeued'[b] = 0
      BY <1>1, <1>3 DEF BlockTypes
    <3>3. QED  BY <1>6, <2>2, <3>1, <3>2, FS_EmptySet
  <2>3. CASE l \in DOMAIN blockIndex[q] /\ blockIndex'[q][l] = blockIndex[q][l]
    <3>1. blockIndex[q][l] # b /\ blockIndex[q][l] \in Q!Block \cup {0}
      BY <1>3, <1>7, <2>3, Positions
    <3>2. blockIndex[q][l] # 0 =>
            elementsCompletelyDequeued'[blockIndex[q][l]]
              = elementsCompletelyDequeued[blockIndex[q][l]]
      BY <1>1, <1>3, <3>1 DEF BlockTypes
    <3>3. IF blockIndex[q][l] = 0 THEN GoneSlots(q, l) = Slot
          ELSE elementsCompletelyDequeued[blockIndex[q][l]]
                 = Cardinality(GoneSlots(q, l))
      BY <2>3 DEF BlockInv, Emptying
    <3>4. QED  BY <2>3, <3>2, <3>3
  <2>4. QED  BY <1>10, <2>2, <2>3
<1>20. Filled'
  <2>1. ASSUME NEW q \in Thread, NEW l \in DOMAIN blockIndex'[q], NEW m \in Slot,
               blockIndex'[q][l] # 0
        PROVE  elements[blockIndex'[q][l]][m] # NoNode <=> There(q, Index(l, m))
    <3>1. CASE q = t /\ l = L + 1 /\ blockIndex'[q][l] = b
      <4>1. elements[b][m] = NoNode
        BY <1>7 DEF BlockInv, Filled
      <4>2. ~ There(t, Index(L + 1, m))
        BY <1>11, BeyondTail
      <4>3. QED  BY <3>1, <4>1, <4>2
    <3>2. CASE l \in DOMAIN blockIndex[q] /\ blockIndex'[q][l] = blockIndex[q][l]
      <4>1. elements[blockIndex[q][l]][m] # NoNode <=> There(q, Index(l, m))
        BY <2>1, <3>2 DEF BlockInv, Filled
      <4>2. QED  BY <3>2, <4>1
    <3>3. QED  BY <1>10, <3>1, <3>2
  <2>2. ASSUME NEW c \in Q!Block, NEW m \in Slot,
               \A q \in Thread : \A l \in DOMAIN blockIndex'[q] : blockIndex'[q][l] # c
        PROVE  elements[c][m] = NoNode
    <3>1. \A q \in Thread : \A l \in DOMAIN blockIndex[q] : blockIndex[q][l] # c
      BY <1>8, <2>2
    <3>2. QED  BY <3>1 DEF BlockInv, Filled
  <2>3. QED  BY <1>2, <1>13, <2>1, <2>2 DEF Filled
<1>21. InOnePlace'
  <2>1. ASSUME NEW q \in Thread, NEW l \in DOMAIN blockIndex'[q]
        PROVE  blockIndex'[q][l] \notin freeList' /\ blockIndex'[q][l] <= blocksMade'
    <3>1. CASE blockIndex'[q][l] = b
      BY <1>7, <3>1
    <3>2. CASE l \in DOMAIN blockIndex[q] /\ blockIndex'[q][l] = blockIndex[q][l]
      <4>1. blockIndex[q][l] \notin freeList /\ blockIndex[q][l] <= blocksMade
        BY <1>3, <3>2 DEF InOnePlace
      <4>2. blockIndex[q][l] \in Q!Block \cup {0}
        BY <1>3, <3>2, Positions
      <4>3. blockIndex[q][l] \in Nat
        BY <4>2, Sizes DEF Q!Block
      <4>4. QED  BY <1>6, <1>7, <3>2, <4>1, <4>3
    <3>3. QED  BY <1>10, <3>1, <3>2
  <2>2. \A c \in freeList' : c <= blocksMade'
    <3>1. SUFFICES ASSUME NEW c \in freeList' PROVE c <= blocksMade'
      OBVIOUS
    <3>2. c \in Nat /\ c <= blocksMade
      BY <1>3, <1>7, <3>1, Sizes DEF InOnePlace, BlockTypes, Q!Block
    <3>3. QED  BY <1>6, <1>7, <3>2
  <2>3. ASSUME NEW q \in Thread, NEW r \in Thread,
               NEW l \in DOMAIN blockIndex'[q], NEW m \in DOMAIN blockIndex'[r],
               blockIndex'[q][l] = blockIndex'[r][m], blockIndex'[q][l] # 0
        PROVE  q = r /\ l = m
    <3>1. CASE blockIndex'[q][l] = b
      <4>1. q = t /\ l = L + 1
        BY <1>7, <1>10, <3>1
      <4>2. blockIndex'[r][m] = b
        BY <2>3, <3>1
      <4>3. r = t /\ m = L + 1
        BY <1>7, <1>10, <4>2
      <4>4. QED  BY <4>1, <4>3
    <3>2. CASE blockIndex'[q][l] # b
      <4>1. /\ l \in DOMAIN blockIndex[q] /\ m \in DOMAIN blockIndex[r]
            /\ blockIndex[q][l] = blockIndex[r][m] /\ blockIndex[q][l] # 0
        BY <1>10, <2>3, <3>2
      <4>2. \A k1 \in DOMAIN blockIndex[q], l1 \in DOMAIN blockIndex[r] :
              blockIndex[q][k1] = blockIndex[r][l1] /\ blockIndex[q][k1] # 0
                => q = r /\ k1 = l1
        BY <1>3 DEF InOnePlace
      <4>3. QED  BY <4>1, <4>2
    <3>3. QED  BY <3>1, <3>2
  <2>4. QED  BY <2>1, <2>2, <2>3 DEF InOnePlace
<1>22. QED
  BY <1>15, <1>16, <1>17, <1>18, <1>19, <1>20, <1>21 DEF BlockInv
-----------------------------------------------------------------------
(* An element is written                                              *)

LEMMA PublishEffect ==
  ASSUME QueueInv, BlockInv, NEW t \in Thread, NEW x \in Node, Q!Publish(t, x)
  PROVE  LET i == tailIndex[t]
             k == (i \div BlockSize) + 1
             j == i % BlockSize
             b == blockIndex[t][k]
         IN  /\ i \in Nat /\ k \in DOMAIN blockIndex[t] /\ k \in Nat \ {0}
             /\ j \in Slot /\ Index(k, j) = i /\ b \in Q!Block
             /\ at[t] = "idle"
             /\ elements' = [elements EXCEPT ![b][j] = x]
             /\ elements[b][j] = NoNode
             /\ tailIndex' \in [Thread -> Nat]
             /\ tailIndex'[t] = i + 1
             /\ \A q \in Thread : q # t => tailIndex'[q] = tailIndex[q]
             /\ tailIndex'[t] <= Len(blockIndex[t]) * BlockSize
             /\ UNCHANGED <<headIndex, blockIndex, elementsCompletelyDequeued,
                            blocksMade, freeList, at, loc>>
<1> DEFINE i == tailIndex[t]
           k == (i \div BlockSize) + 1
           j == i % BlockSize
           b == blockIndex[t][k]
           L == Len(blockIndex[t])
<1>1. /\ at[t] = "idle" /\ i < L * BlockSize
      /\ elements' = [elements EXCEPT ![Q!BlockOf(t, i)][j] = x]
      /\ tailIndex' = [tailIndex EXCEPT ![t] = @ + 1]
      /\ UNCHANGED <<headIndex, blockIndex, elementsCompletelyDequeued,
                     blocksMade, freeList, at, loc>>
  BY DEF Q!Publish, Q!HasRoom
<1>2. i \in Nat /\ tailIndex \in [Thread -> Nat] /\ BlockTypes
  BY DEF QueueInv, LocalsInv, Shapes, BlockInv
<1>3. k \in DOMAIN blockIndex[t] /\ j \in Slot /\ Index(k, j) = i /\ Q!BlockOf(t, i) = b
  BY <1>1, <1>2, InIndex
<1>4. k \in Nat \ {0} /\ b \in Q!Block \cup {0}
  BY <1>2, <1>3, Positions
<1>5. ~ Gone(t, i) /\ ~ There(t, i)
  BY <1>2, BeyondTail
<1>6. b # 0
  <2>1. b = 0 => GoneSlots(t, k) = Slot
    BY <1>3 DEF BlockInv, Emptying
  <2>2. QED  BY <1>3, <1>5, <2>1 DEF GoneSlots
<1>7. elements[b][j] = NoNode
  BY <1>3, <1>5, <1>6 DEF BlockInv, Filled
<1>8. tailIndex' \in [Thread -> Nat] /\ tailIndex'[t] = i + 1
      /\ \A q \in Thread : q # t => tailIndex'[q] = tailIndex[q]
  <2>1. i + 1 \in Nat
    BY <1>2
  <2>2. tailIndex' = [tailIndex EXCEPT ![t] = i + 1]
    BY <1>1
  <2> HIDE DEF i
  <2>3. QED  BY <1>2, <2>1, <2>2
<1>9. i + 1 <= L * BlockSize
  <2>1. L * BlockSize \in Nat
    BY <1>2, Positions, Sizes
  <2> HIDE DEF i, L
  <2>2. QED  BY <1>1, <1>2, <2>1
<1>10. elements' = [elements EXCEPT ![b][j] = x]
  BY <1>1, <1>3
<1> HIDE DEF i, k, j, b, L
<1>11. QED
  <2>1. /\ i \in Nat /\ k \in DOMAIN blockIndex[t] /\ k \in Nat \ {0}
        /\ j \in Slot /\ Index(k, j) = i /\ b \in Q!Block
        /\ at[t] = "idle"
        /\ elements' = [elements EXCEPT ![b][j] = x]
        /\ elements[b][j] = NoNode
        /\ tailIndex' \in [Thread -> Nat]
        /\ tailIndex'[t] = i + 1
        /\ \A q \in Thread : q # t => tailIndex'[q] = tailIndex[q]
        /\ tailIndex'[t] <= L * BlockSize
        /\ UNCHANGED <<headIndex, blockIndex, elementsCompletelyDequeued,
                       blocksMade, freeList, at, loc>>
    BY <1>1, <1>2, <1>3, <1>4, <1>6, <1>7, <1>8, <1>9, <1>10
  <2>2. QED  BY <2>1 DEF i, k, j, b, L

\* The element gets its slot in the last block.
LEMMA PublishKeepsBlocks ==
  ASSUME QueueInv, BlockInv, NEW t \in Thread, NEW x \in Node, Q!Publish(t, x)
  PROVE  BlockInv'
<1>p. PICK i, k, j, b : /\ i = tailIndex[t] /\ k = (i \div BlockSize) + 1
                        /\ j = i % BlockSize /\ b = blockIndex[t][k]
  OBVIOUS
<1>1. /\ i \in Nat /\ k \in DOMAIN blockIndex[t] /\ k \in Nat \ {0}
      /\ j \in Slot /\ Index(k, j) = i /\ b \in Q!Block
      /\ elements' = [elements EXCEPT ![b][j] = x]
      /\ tailIndex'[t] = i + 1 /\ tailIndex[t] = i
      /\ \A q \in Thread : q # t => tailIndex'[q] = tailIndex[q]
      /\ tailIndex'[t] <= Len(blockIndex[t]) * BlockSize
      /\ UNCHANGED <<headIndex, blockIndex, elementsCompletelyDequeued,
                     blocksMade, freeList, at, loc>>
  BY <1>p, PublishEffect
<1>2. BlockTypes /\ InOnePlace
  BY DEF BlockInv
<1>3. headIndex[t] \in Nat /\ headIndex[t] <= i
  BY <1>1, HeadBelowTail
<1>4. \A u, q, n : Holds(u, q, n)' <=> Holds(u, q, n)
  BY <1>1 DEF Holds
<1>5. \A q, n : Gone(q, n)' <=> Gone(q, n)
  BY <1>1, <1>4 DEF Gone
<1>6. ASSUME NEW q \in Thread, NEW n \in Nat
      PROVE  There(q, n)' <=> There(q, n) \/ (q = t /\ n = i)
  <2>1. CASE q = t
    <3>1. n < tailIndex'[q] <=> n < tailIndex[q] \/ n = i
      BY <1>1, <2>1
    <3>2. n = i => headIndex[q] <= n
      BY <1>3, <2>1
    <3>3. QED  BY <1>1, <1>4, <2>1, <3>1, <3>2 DEF There
  <2>2. CASE q # t
    BY <1>1, <1>4, <2>2 DEF There
  <2>3. QED  BY <2>1, <2>2
<1>7. BlockTypes'
  <2>1. elements' \in [Q!Block -> [Slot -> Node \cup {NoNode}]]
    BY <1>1, <1>2 DEF BlockTypes
  <2>2. QED  BY <1>1, <1>2, <2>1 DEF BlockTypes
<1>8. ASSUME NEW u \in Thread PROVE Takers(u)'
  BY <1>1, <1>5 DEF BlockInv, Takers, BlockAt
<1>9. OneTaker' /\ OneGiver'
  BY <1>1 DEF BlockInv, OneTaker, OneGiver, BlockAt
<1>10. Room'
  BY <1>1 DEF BlockInv, Room
<1>11. Emptying'
  <2>1. \A q, l : GoneSlots(q, l)' = GoneSlots(q, l)
    BY <1>5 DEF GoneSlots
  <2>2. QED  BY <1>1, <2>1 DEF BlockInv, Emptying
<1>12. Filled'
  <2>1. ASSUME NEW c \in Q!Block, NEW m \in Slot
        PROVE  elements'[c][m] = IF c = b /\ m = j THEN x ELSE elements[c][m]
    BY <1>1, <1>2 DEF BlockTypes
  <2>2. ASSUME NEW q \in Thread, NEW l \in DOMAIN blockIndex[q], NEW m \in Slot,
               blockIndex[q][l] # 0
        PROVE  elements'[blockIndex[q][l]][m] # NoNode <=> There(q, Index(l, m))'
    <3>1. blockIndex[q][l] \in Q!Block
      BY <1>2, <2>2, Positions
    <3>2. elements[blockIndex[q][l]][m] # NoNode <=> There(q, Index(l, m))
      BY <2>2 DEF BlockInv, Filled
    <3>3. There(q, Index(l, m))' <=> There(q, Index(l, m)) \/ (q = t /\ Index(l, m) = i)
      BY <1>2, <1>6, IndexType
    <3>4. blockIndex[q][l] = b /\ m = j <=> q = t /\ Index(l, m) = i
      BY <1>p, <1>1, <1>2, <2>2, SameSlot
    <3>5. x # NoNode
      BY Sizes
    <3>6. QED  BY <2>1, <3>1, <3>2, <3>3, <3>4, <3>5
  <2>3. ASSUME NEW c \in Q!Block, NEW m \in Slot,
               \A q \in Thread : \A l \in DOMAIN blockIndex[q] : blockIndex[q][l] # c
        PROVE  elements'[c][m] = NoNode
    <3>1. c # b
      BY <1>p, <1>1, <2>3
    <3>2. QED  BY <2>1, <2>3, <3>1 DEF BlockInv, Filled
  <2>4. QED  BY <1>1, <2>2, <2>3 DEF Filled
<1>13. InOnePlace'
  BY <1>1 DEF BlockInv, InOnePlace
<1>14. QED
  BY <1>7, <1>8, <1>9, <1>10, <1>11, <1>12, <1>13 DEF BlockInv
-----------------------------------------------------------------------
(* The other steps of the queue                                       *)

LEMMA PlainStepIsQuiet ==
  ASSUME LocalsInv, NEW t \in Thread, NEW l, NEW next, NEW r,
         Q!Step(t, l, next, r), DOMAIN r = Fields,
         l \notin Indexed, next \in Labels \ Indexed,
         r.item = NoNode \/ (r.item = loc[t].item /\ l # "done"),
         UNCHANGED <<headIndex, tailIndex, Q!blocks>>
  PROVE  QuietHere(t)
  BY StepEffect DEF QuietHere

LEMMA ReadIsQuiet ==
  ASSUME LocalsInv, NEW t \in Thread, NEW l, NEW next, NEW r,
         Q!Read(t, l, next, r), DOMAIN r = Fields,
         l \notin Indexed, next \in Labels \ Indexed,
         r.item = NoNode \/ (r.item = loc[t].item /\ l # "done")
  PROVE  QuietHere(t)
  BY PlainStepIsQuiet DEF Q!Read, Q!stream

\* The steps inside an operation, and the steps that return from one that is
\* not enqueue, other than Dequeued.
Inner(t) ==
  \/ Q!Enqueuing(t) \/ Q!Sizing(t) \/ Q!Dequeuing(t) \/ Q!Failed(t)
  \/ \E x : Q!SizeIs(t, x)

\* The steps of these that have to do with the blocks.
AtBlocks(t) ==
  \/ Q!NewBlock(t) \/ Q!TakeIndex(t) \/ Q!Take(t) \/ Q!SetEmpty(t)
  \/ Q!GiveBack(t)

\* Every other step leaves the blocks alone.
LEMMA OtherStepsAreQuiet ==
  ASSUME LocalsInv, NEW t \in Thread, ~ AtBlocks(t),
         Inner(t) \/ \E x : Q!Dequeued(t, x)
  PROVE  QuietHere(t)
<1>0. /\ DOMAIN loc[t] = Fields /\ DOMAIN Q!Blank = Fields
      /\ Q!Blank.item = NoNode
      /\ \A v : [Q!Blank EXCEPT !.ptr = v].item = NoNode
      /\ \A v : DOMAIN [Q!Blank EXCEPT !.ptr = v] = Fields
  BY DEF LocalsInv, Shapes, Q!Blank, Fields
<1>1. \A l \in {"idle", "size", "sizeHead", "scan", "scanHead", "tail",
               "overcommit", "check", "next", "claim", "recheck", "undo", "head",
               "failed", "done"} : l \in Labels \ Indexed
  BY DEF Labels, Indexed
<1>2. CASE Q!Sizing(t)
  <2>1. CASE Q!StartSize(t)
    BY <1>0, <1>1, <2>1, ReadIsQuiet DEF Q!StartSize
  <2>2. CASE Q!SizeTail(t)
    <3> DEFINE r == [loc[t] EXCEPT !.tail = tailIndex[loc[t].ptr]]
    <3>1. Q!Read(t, "size", "sizeHead", r)
      BY <2>2 DEF Q!SizeTail
    <3>2. DOMAIN r = Fields /\ r.item = loc[t].item
      BY <1>0 DEF Fields
    <3> HIDE DEF r
    <3>3. QED  BY <1>1, <3>1, <3>2, ReadIsQuiet
  <2>3. CASE Q!SizeHead(t)
    <3> DEFINE r == [loc[t] EXCEPT !.size = @ + Q!StreamSize(t),
                                   !.ptr = Q!next_prod(@), !.tail = 0]
    <3>1. Q!Read(t, "sizeHead", "size", r)
      BY <2>3 DEF Q!SizeHead
    <3>2. DOMAIN r = Fields /\ r.item = loc[t].item
      BY <1>0 DEF Fields
    <3> HIDE DEF r
    <3>3. QED  BY <1>1, <3>1, <3>2, ReadIsQuiet
  <2>4. QED  BY <1>2, <2>1, <2>2, <2>3 DEF Q!Sizing
<1>3. CASE Q!Failed(t) \/ \E x : Q!SizeIs(t, x) \/ Q!Dequeued(t, x)
  <2>1. PICK l \in {"failed", "size", "done"} : Q!Read(t, l, "idle", Q!Blank)
    BY <1>3 DEF Q!Failed, Q!SizeIs, Q!Dequeued
  <2>2. QED  BY <1>0, <1>1, <2>1, ReadIsQuiet
<1>4. CASE Q!StartScan(t) \/ Q!ScanTail(t) \/ Q!ScanHead(t) \/ Q!ScanEnd(t)
  <2>1. CASE Q!StartScan(t)
    BY <1>0, <1>1, <2>1, ReadIsQuiet DEF Q!StartScan
  <2>2. CASE Q!ScanTail(t)
    <3> DEFINE r == [loc[t] EXCEPT !.tail = tailIndex[loc[t].ptr]]
    <3>1. Q!Read(t, "scan", "scanHead", r)
      BY <2>2 DEF Q!ScanTail
    <3>2. DOMAIN r = Fields /\ r.item = loc[t].item
      BY <1>0 DEF Fields
    <3> HIDE DEF r
    <3>3. QED  BY <1>1, <3>1, <3>2, ReadIsQuiet
  <2>3. CASE Q!ScanHead(t)
    <3> DEFINE size == Q!StreamSize(t)
               r == [loc[t] EXCEPT
                       !.nonEmpty = IF size > 0 THEN @ + 1 ELSE @,
                       !.best = IF size > loc[t].size THEN loc[t].ptr ELSE @,
                       !.size = IF size > loc[t].size THEN size ELSE @,
                       !.ptr = Q!next_prod(@), !.tail = 0]
    <3>1. Q!Read(t, "scanHead", "scan", r)
      BY <2>3 DEF Q!ScanHead
    <3> HIDE DEF size
    <3>2. DOMAIN r = Fields /\ r.item = loc[t].item
      BY <1>0 DEF Fields
    <3> HIDE DEF r
    <3>3. QED  BY <1>1, <3>1, <3>2, ReadIsQuiet
  <2>4. CASE Q!ScanEnd(t)
    <3> DEFINE r == [loc[t] EXCEPT !.ptr = loc[t].best, !.size = 0, !.nonEmpty = 0]
    <3>1. PICK next \in {"tail", "failed"} : Q!Read(t, "scan", next, r)
      BY <2>4 DEF Q!ScanEnd
    <3>2. DOMAIN r = Fields /\ r.item = loc[t].item
      BY <1>0 DEF Fields
    <3> HIDE DEF r
    <3>3. QED  BY <1>1, <3>1, <3>2, ReadIsQuiet
  <2>5. QED  BY <1>4, <2>1, <2>2, <2>3, <2>4
<1>5. CASE Q!TryNext(t)
  <2> DEFINE q == IF loc[t].first THEN Q!FirstProd ELSE Q!next_prod(loc[t].ptr)
             other == IF q = loc[t].best THEN Q!next_prod(q) ELSE q
             next == IF other = NoNode THEN "failed" ELSE "tail"
             r == [loc[t] EXCEPT !.ptr = other, !.first = FALSE]
  <2>1. Q!Read(t, "next", next, r)
    BY <1>5 DEF Q!TryNext
  <2> HIDE DEF other
  <2>2. DOMAIN r = Fields /\ r.item = loc[t].item
    BY <1>0 DEF Fields
  <2> HIDE DEF r
  <2>3. next \in {"tail", "failed"}
    OBVIOUS
  <2> HIDE DEF next
  <2>4. QED  BY <1>1, <2>1, <2>2, <2>3, ReadIsQuiet
<1>6. CASE Q!Check(t) \/ Q!Recheck(t)
  <2>1. \/ \E next \in {"claim", "next"} : Q!Read(t, "check", next, loc[t])
        \/ \E next \in {"head", "undo"} : Q!Read(t, "recheck", next, loc[t])
    BY <1>6 DEF Q!Check, Q!Recheck
  <2>2. QED  BY <1>0, <1>1, <2>1, ReadIsQuiet
<1>7. CASE Q!LoadTail(t) \/ Q!LoadOvercommit(t)
  <2>1. PICK v : \/ Q!Read(t, "tail", "overcommit", [loc[t] EXCEPT !.tail = v])
                 \/ Q!Read(t, "overcommit", "check", [loc[t] EXCEPT !.overcommit = v])
    BY <1>7 DEF Q!LoadTail, Q!LoadOvercommit
  <2>2. /\ DOMAIN [loc[t] EXCEPT !.tail = v] = Fields
        /\ [loc[t] EXCEPT !.tail = v].item = loc[t].item
        /\ DOMAIN [loc[t] EXCEPT !.overcommit = v] = Fields
        /\ [loc[t] EXCEPT !.overcommit = v].item = loc[t].item
    BY <1>0 DEF Fields
  <2>3. QED  BY <1>1, <2>1, <2>2, ReadIsQuiet
<1>8. CASE Q!Claim(t)
  <2> DEFINE r == [loc[t] EXCEPT !.mine = dequeueOptimisticCount[loc[t].ptr]]
  <2>1. Q!Step(t, "claim", "recheck", r) /\ UNCHANGED <<headIndex, tailIndex, Q!blocks>>
    BY <1>8 DEF Q!Claim
  <2>2. DOMAIN r = Fields /\ r.item = loc[t].item
    BY <1>0 DEF Fields
  <2> HIDE DEF r
  <2>3. QED  BY <1>1, <2>1, <2>2, PlainStepIsQuiet
<1>9. CASE Q!Undo(t)
  <2>1. Q!Step(t, "undo", "next", loc[t]) /\ UNCHANGED <<headIndex, tailIndex, Q!blocks>>
    BY <1>9 DEF Q!Undo
  <2>2. QED  BY <1>0, <1>1, <2>1, PlainStepIsQuiet
<1>10. CASE Q!AddProducer(t)
  BY <1>1, <1>10 DEF Q!AddProducer, Q!stream, QuietHere
<1>11. QED
  BY <1>2, <1>3, <1>4, <1>5, <1>6, <1>7, <1>8, <1>9, <1>10
     DEF Inner, Q!Dequeuing, Q!Enqueuing, AtBlocks

\* BlockInv is inductive, but for Publish.
LEMMA StepsKeepBlocks ==
  ASSUME QueueInv, BlockInv, NEW t \in Thread,
         Inner(t) \/ \E x : Q!Dequeued(t, x)
  PROVE  BlockInv'
<1>1. CASE AtBlocks(t)
  BY <1>1, NewBlockKeepsBlocks, TakeIndexKeepsBlocks, TakeKeepsBlocks,
     SetEmptyKeepsBlocks, GiveBackKeepsBlocks DEF AtBlocks
<1>2. CASE ~ AtBlocks(t)
  BY <1>2, OtherStepsAreQuiet, QuietKeepsBlocks DEF QueueInv
<1>3. QED  BY <1>1, <1>2

LEMMA BlocksStart == QInit => BlockInv
<1> SUFFICES ASSUME QInit PROVE BlockInv
  OBVIOUS
<1> USE DEF QInit, Q!Init
<1>1. BlockTypes
  BY Sizes DEF BlockTypes, Slot
<1>2. \A t \in Thread : Takers(t)
  BY DEF Takers, Labels, Indexed
<1>3. OneTaker /\ OneGiver
  BY DEF OneTaker, OneGiver
<1>4. \A p \in Thread : DOMAIN blockIndex[p] = {} /\ Len(blockIndex[p]) = 0
  OBVIOUS
<1>5. Room
  BY <1>4, Sizes DEF Room
<1>6. Emptying /\ Filled /\ InOnePlace
  BY <1>4 DEF Emptying, Filled, InOnePlace, Slot
<1>7. QED  BY <1>1, <1>2, <1>3, <1>5, <1>6 DEF BlockInv
-----------------------------------------------------------------------
(* The threads, with the steps the queue has of its own               *)

\* Over the queue the threads take the steps of WorkSteal, or none: there too
\* a size is an estimate and try_dequeue may find nothing although there is.
LEMMA QueuedSteps ==
  ASSUME [QNext]_allVars
  PROVE  [Next]_vars
<1>1. ASSUME NEW t \in Thread, QStep(t) PROVE Step(t) \/ UNCHANGED vars
  <2>1. CASE Elsewhere(t)
    BY <2>1 DEF Elsewhere, Step, RunLoop, SolutionCb, Wait
  <2>2. CASE SizeSteps(t) \/ EnqueueSteps(t) \/ DequeueSteps(t)
    BY <2>2 DEF SizeSteps, EnqueueSteps, DequeueSteps
  <2>3. CASE SizeRead(t) \/ ShareNode(t)
    BY <2>3 DEF SizeRead, ShareNode, Step, SolutionCb
  <2>4. CASE GetNode(t) \/ GetNothing(t)
    BY <2>4 DEF GetNode, GetNothing, Step, Wait
  <2>5. QED  BY <1>1, <2>1, <2>2, <2>3, <2>4 DEF QStep
<1>2. QED  BY <1>1 DEF QNext, Joined, Next, allVars

ThreadsInv == IInv /\ PlaceInv /\ ReportInv

LEMMA QueuedStepsKeepThreads ==
  ASSUME ThreadsInv, [QNext]_allVars
  PROVE  ThreadsInv'
BY QueuedSteps, Inductive, InductivePlaces, InductiveReports DEF ThreadsInv

\* The queue, step by step, does for the threads what WorkSteal asks of it.
THEOREM QueueImplements == QSpec => Spec
<1>1. QInit => Init
  BY DEF QInit
<1>2. QED  BY <1>1, QueuedSteps, PTL DEF QSpec, Spec
-----------------------------------------------------------------------
(* The nodes in the queue                                             *)

\* x is in a slot, or on its way out of the queue.
InQueue(x) ==
  \/ \E b \in Q!Block : \E i \in Slot : elements[b][i] = x
  \/ \E t \in Thread : loc[t].item = x

Accounted == \A x : x \in gnodes <=> x # NoNode /\ InQueue(x)

LEMMA InTheQueue == NodesInQueue <=> Accounted
<1> DEFINE held == {elements[b][i] : b \in Q!Block, i \in Slot}
           out == {loc[t].item : t \in Thread}
<1>1. NodesInQueue <=> gnodes = (held \cup out) \ {NoNode}
  BY DEF NodesInQueue, Slot
<1>2. \A x : x \in held \cup out <=> InQueue(x)
  BY DEF InQueue
<1> HIDE DEF held, out
<1>3. QED  BY <1>1, <1>2 DEF Accounted

ContentsInv == Contents /\ NodesInQueue

\* A step that leaves the slots and the items alone.
LEMMA ValuesKept ==
  ASSUME ContentsInv, elements' = elements, gnodes' = gnodes,
         \A u \in Thread : /\ loc'[u].item = loc[u].item
                           /\ loc[u].item # NoNode => at'[u] \in {"setEmpty", "giveBack", "done"}
  PROVE  ContentsInv'
<1>1. Contents'
  BY DEF ContentsInv, Contents
<1>2. \A x : InQueue(x)' <=> InQueue(x)
  BY DEF InQueue
<1>3. Accounted
  BY InTheQueue DEF ContentsInv
<1>4. Accounted'
  BY <1>2, <1>3 DEF Accounted
<1>5. NodesInQueue'
  BY <1>4, InTheQueue, PTL
<1>6. QED  BY <1>1, <1>5 DEF ContentsInv

\* An item is taken out by the thread in whose slot it was.
LEMMA TakeKeepsContents ==
  ASSUME QueueInv, BlockInv, ContentsInv, NEW t \in Thread, Q!Take(t), gnodes' = gnodes
  PROVE  ContentsInv'
<1>p. PICK b, j, v : /\ b = Q!BlockOf(loc[t].ptr, loc[t].index) /\ j = SlotAt(t)
                     /\ v = elements[b][j]
  OBVIOUS
<1>1. /\ Stays(t, "take", "setEmpty") /\ loc'[t].item = v
      /\ elements' = [elements EXCEPT ![b][j] = NoNode]
      /\ b \in Q!Block /\ j \in Slot
      /\ elements \in [Q!Block -> [Slot -> Node \cup {NoNode}]]
  <2>1. Stays(t, "take", "setEmpty") /\ loc'[t].item = v
        /\ elements' = [elements EXCEPT ![b][j] = NoNode]
    BY <1>p, TakeEffect
  <2>2. at[t] \in Indexed
    BY <2>1 DEF Stays, Indexed
  <2>3. b \in Q!Block /\ j \in Slot
    BY <1>p, <2>2, TakerPlace
  <2>4. QED  BY <2>1, <2>3 DEF BlockInv, BlockTypes
<1>2. ASSUME NEW c \in Q!Block, NEW m \in Slot
      PROVE  elements'[c][m] = IF c = b /\ m = j THEN NoNode ELSE elements[c][m]
  BY <1>1
<1>3. Contents
  BY DEF ContentsInv
<1>4. loc[t].item = NoNode
  BY <1>1, <1>3 DEF Contents, Stays
<1>5. \A u \in Thread \ {t} : loc'[u] = loc[u] /\ at'[u] = at[u]
  BY <1>1 DEF Stays
<1>6. ASSUME NEW u \in Thread \ {t}, loc[u].item # NoNode PROVE loc[u].item # v
  BY <1>p, <1>1, <1>3, <1>6 DEF Contents
<1>7. Contents'
  <2>1. \A c, d \in Q!Block : \A i, m \in Slot :
          elements'[c][i] = elements'[d][m] /\ elements'[c][i] # NoNode => c = d /\ i = m
    BY <1>2, <1>3 DEF Contents
  <2>2. ASSUME NEW u \in Thread, loc'[u].item # NoNode
        PROVE  /\ at'[u] \in {"setEmpty", "giveBack", "done"}
               /\ \A c \in Q!Block : \A m \in Slot : elements'[c][m] # loc'[u].item
               /\ \A w \in Thread : w # u => loc'[w].item # loc'[u].item
    <3>1. CASE u = t
      <4>1. \A c \in Q!Block : \A m \in Slot : elements'[c][m] # v
        BY <1>p, <1>1, <1>2, <1>3, <2>2, <3>1 DEF Contents
      <4>2. \A w \in Thread : w # t => loc'[w].item # v
        BY <1>1, <1>5, <1>6, <2>2, <3>1
      <4>3. QED  BY <1>1, <3>1, <4>1, <4>2 DEF Stays
    <3>2. CASE u # t
      <4>1. /\ at[u] \in {"setEmpty", "giveBack", "done"}
            /\ \A c \in Q!Block : \A m \in Slot : elements[c][m] # loc[u].item
            /\ \A w \in Thread : w # u => loc[w].item # loc[u].item
        BY <1>3, <1>5, <2>2, <3>2 DEF Contents
      <4>2. \A c \in Q!Block : \A m \in Slot : elements'[c][m] # loc[u].item
        BY <1>2, <1>5, <2>2, <3>2, <4>1
      <4>3. \A w \in Thread : w # u => loc'[w].item # loc[u].item
        BY <1>1, <1>5, <1>6, <2>2, <3>2, <4>1
      <4>4. QED  BY <1>5, <3>2, <4>1, <4>2, <4>3
    <3>3. QED  BY <3>1, <3>2
  <2>3. QED  BY <2>1, <2>2 DEF Contents
<1>8. ASSUME NEW x, x # NoNode PROVE InQueue(x)' <=> InQueue(x)
  <2>1. ASSUME InQueue(x) PROVE InQueue(x)'
    <3>1. CASE \E u \in Thread : loc[u].item = x
      BY <1>4, <1>5, <1>8, <3>1 DEF InQueue
    <3>2. CASE \E c \in Q!Block : \E m \in Slot : elements[c][m] = x
      <4>1. PICK c \in Q!Block, m \in Slot : elements[c][m] = x
        BY <3>2
      <4>2. CASE c = b /\ m = j
        BY <1>p, <1>1, <4>1, <4>2 DEF InQueue
      <4>3. CASE ~ (c = b /\ m = j)
        BY <1>2, <4>1, <4>3 DEF InQueue
      <4>4. QED  BY <4>2, <4>3
    <3>3. QED  BY <2>1, <3>1, <3>2 DEF InQueue
  <2>2. ASSUME InQueue(x)' PROVE InQueue(x)
    <3>1. CASE \E u \in Thread : loc'[u].item = x
      BY <1>p, <1>1, <1>5, <3>1 DEF InQueue
    <3>2. CASE \E c \in Q!Block : \E m \in Slot : elements'[c][m] = x
      BY <1>2, <1>8, <3>2 DEF InQueue
    <3>3. QED  BY <2>2, <3>1, <3>2 DEF InQueue
  <2>3. QED  BY <2>1, <2>2
<1>9. Accounted
  BY InTheQueue DEF ContentsInv
<1>10. Accounted'
  BY <1>8, <1>9 DEF Accounted
<1>11. NodesInQueue'
  BY <1>10, InTheQueue, PTL
<1>12. QED  BY <1>7, <1>11 DEF ContentsInv

\* A node that is not in the queue gets a slot of its own.
LEMMA PublishKeepsContents ==
  ASSUME QueueInv, BlockInv, ContentsInv, NEW t \in Thread, NEW x \in Node,
         x \notin gnodes, Q!Publish(t, x), gnodes' = gnodes \cup {x}
  PROVE  ContentsInv'
<1>p. PICK i, k, j, b : /\ i = tailIndex[t] /\ k = (i \div BlockSize) + 1
                        /\ j = i % BlockSize /\ b = blockIndex[t][k]
  OBVIOUS
<1>1. /\ j \in Slot /\ b \in Q!Block /\ elements[b][j] = NoNode
      /\ elements' = [elements EXCEPT ![b][j] = x] /\ UNCHANGED <<at, loc>>
  BY <1>p, PublishEffect
<1>2. ASSUME NEW c \in Q!Block, NEW m \in Slot
      PROVE  elements'[c][m] = IF c = b /\ m = j THEN x ELSE elements[c][m]
  BY <1>1 DEF BlockInv, BlockTypes
<1>3. Contents /\ Accounted /\ x # NoNode
  BY InTheQueue, Sizes DEF ContentsInv
<1>4. ~ InQueue(x)
  BY <1>3 DEF Accounted
<1>5. Contents'
  <2>1. \A c, d \in Q!Block : \A l, m \in Slot :
          elements'[c][l] = elements'[d][m] /\ elements'[c][l] # NoNode => c = d /\ l = m
    BY <1>2, <1>3, <1>4 DEF Contents, InQueue
  <2>2. \A u \in Thread : loc[u].item # NoNode =>
          \A c \in Q!Block : \A m \in Slot : elements'[c][m] # loc[u].item
    BY <1>2, <1>3, <1>4 DEF Contents, InQueue
  <2>3. QED  BY <1>1, <1>3, <2>1, <2>2 DEF Contents
<1>6. ASSUME NEW y, y # NoNode PROVE InQueue(y)' <=> InQueue(y) \/ y = x
  <2>1. (\E c \in Q!Block : \E m \in Slot : elements'[c][m] = y)
          <=> (\E c \in Q!Block : \E m \in Slot : elements[c][m] = y) \/ y = x
    BY <1>1, <1>2, <1>6
  <2>2. QED  BY <1>1, <2>1 DEF InQueue
<1>7. Accounted'
  BY <1>3, <1>6 DEF Accounted
<1>8. NodesInQueue'
  BY <1>7, InTheQueue, PTL
<1>9. QED  BY <1>5, <1>8 DEF ContentsInv

\* try_dequeue returns the item, which is then nowhere in the queue.
LEMMA DequeuedKeepsContents ==
  ASSUME QueueInv, ContentsInv, NEW t \in Thread, NEW x,
         Q!Dequeued(t, x), gnodes' = gnodes \ {x}
  PROVE  ContentsInv'
<1>1. x = loc[t].item /\ Q!Read(t, "done", "idle", Q!Blank)
  BY DEF Q!Dequeued
<1>2. /\ loc'[t].item = NoNode /\ elements' = elements
      /\ \A u \in Thread \ {t} : at'[u] = at[u] /\ loc'[u] = loc[u]
  <2>1. DOMAIN Q!Blank = Fields /\ Q!Blank.item = NoNode
    BY DEF Q!Blank, Fields
  <2>2. QED  BY <1>1, <2>1, ReadEffect DEF QueueInv, Q!Read, Q!blocks
<1>3. Contents /\ Accounted
  BY InTheQueue DEF ContentsInv
<1>4. Contents'
  BY <1>2, <1>3 DEF Contents
<1>5. ASSUME NEW y, y # NoNode PROVE InQueue(y)' <=> InQueue(y) /\ y # x
  <2>1. (\E u \in Thread : loc'[u].item = y)
          <=> (\E u \in Thread \ {t} : loc[u].item = y)
    BY <1>2, <1>5
  <2>2. ASSUME y = x
        PROVE  /\ \A u \in Thread \ {t} : loc[u].item # y
               /\ \A b \in Q!Block : \A i \in Slot : elements[b][i] # y
    BY <1>1, <1>3, <1>5, <2>2 DEF Contents
  <2>3. QED  BY <1>1, <1>2, <2>1, <2>2 DEF InQueue
<1>6. Accounted'
  BY <1>3, <1>5 DEF Accounted
<1>7. NodesInQueue'
  BY <1>6, InTheQueue, PTL
<1>8. QED  BY <1>4, <1>7 DEF ContentsInv

LEMMA InnerNotDone ==
  ASSUME NEW t \in Thread, Inner(t)
  PROVE  at[t] # "done"
<1>1. CASE Q!Enqueuing(t)
  BY <1>1 DEF Q!Enqueuing, Q!AddProducer, Q!NewBlock
<1> DEFINE Named == \E l, next, r : Q!Step(t, l, next, r) /\ l # "done"
<1>2. ASSUME Q!Sizing(t) PROVE Named
  BY <1>2 DEF Q!Sizing, Q!StartSize, Q!SizeTail, Q!SizeHead, Q!Read
<1>3. ASSUME NEW x, Q!SizeIs(t, x) PROVE Named
  BY <1>3 DEF Q!SizeIs, Q!Read
<1>4. ASSUME Q!Failed(t) PROVE Named
  BY <1>4 DEF Q!Failed, Q!Read
<1>5. ASSUME Q!Dequeuing(t) PROVE Named
  <2>1. ASSUME Q!StartScan(t) \/ Q!ScanTail(t) \/ Q!ScanHead(t) PROVE Named
    BY <2>1 DEF Q!StartScan, Q!ScanTail, Q!ScanHead, Q!Read
  <2>2. ASSUME Q!ScanEnd(t) \/ Q!TryNext(t) \/ Q!LoadTail(t) PROVE Named
    BY <2>2 DEF Q!ScanEnd, Q!TryNext, Q!LoadTail, Q!Read
  <2>3. ASSUME Q!LoadOvercommit(t) \/ Q!Check(t) \/ Q!Claim(t) PROVE Named
    BY <2>3 DEF Q!LoadOvercommit, Q!Check, Q!Claim, Q!Read
  <2>4. ASSUME Q!Recheck(t) \/ Q!Undo(t) \/ Q!TakeIndex(t) PROVE Named
    BY <2>4 DEF Q!Recheck, Q!Undo, Q!TakeIndex, Q!Read
  <2>5. ASSUME Q!Take(t) \/ Q!SetEmpty(t) \/ Q!GiveBack(t) PROVE Named
    BY <2>5 DEF Q!Take, Q!SetEmpty, Q!Emptied, Q!GiveBack
  <2>6. QED  BY <1>5, <2>1, <2>2, <2>3, <2>4, <2>5 DEF Q!Dequeuing
<1>6. CASE ~ Q!Enqueuing(t)
  <2> HIDE DEF Named
  <2>1. Named
    BY <1>2, <1>3, <1>4, <1>5, <1>6 DEF Inner
  <2>2. QED  BY <2>1 DEF Named, Q!Step
<1>7. QED  BY <1>1, <1>6

\* The other steps move no item.
LEMMA OthersKeepContents ==
  ASSUME QueueInv, BlockInv, ContentsInv, NEW t \in Thread, Inner(t),
         gnodes' = gnodes
  PROVE  ContentsInv'
<1>0. LocalsInv /\ Contents
  BY DEF QueueInv, ContentsInv
<1>1. CASE Q!Take(t)
  BY <1>1, TakeKeepsContents
<1>2. CASE Q!SetEmpty(t)
  <2>1. Stays(t, "setEmpty", at'[t]) /\ at'[t] \in {"giveBack", "done"}
        /\ loc'[t].item = loc[t].item /\ elements' = elements
    BY <1>2, SetEmptyEffect DEF Stays
  <2>2. QED  BY <1>0, <2>1, ValuesKept DEF Stays, Contents
<1>3. CASE Q!GiveBack(t)
  <2>1. Stays(t, "giveBack", "done")
        /\ loc'[t].item = loc[t].item /\ elements' = elements
    BY <1>3, GiveBackEffect
  <2>2. QED  BY <1>0, <2>1, ValuesKept DEF Stays, Contents
<1>4. CASE Q!TakeIndex(t)
  <2>1. /\ at[t] = "head" /\ loc'[t].item = loc[t].item /\ elements' = elements
        /\ \A u \in Thread \ {t} : at'[u] = at[u] /\ loc'[u] = loc[u]
    BY <1>4, TakeIndexEffect DEF Q!blocks
  <2>2. loc[t].item = NoNode
    BY <1>0, <2>1 DEF Contents
  <2>3. QED  BY <1>0, <2>1, <2>2, ValuesKept DEF Contents
<1>5. CASE Q!NewBlock(t)
  <2>1. UNCHANGED <<elements, at, loc>>
    BY <1>5 DEF Q!NewBlock, Q!StartsBlock
  <2>2. QED  BY <1>0, <2>1, ValuesKept DEF Contents
<1>6. CASE ~ AtBlocks(t)
  <2>1. QuietHere(t) /\ at[t] # "done"
    BY <1>0, <1>6, OtherStepsAreQuiet, InnerNotDone
  <2>2. loc[t].item = NoNode
    BY <1>0, <2>1 DEF Contents, QuietHere, Indexed
  <2>3. loc'[t].item = NoNode /\ elements' = elements
    BY <2>1, <2>2 DEF QuietHere, Q!blocks
  <2>4. QED  BY <1>0, <2>1, <2>2, <2>3, ValuesKept DEF Contents, QuietHere
<1>7. QED  BY <1>1, <1>2, <1>3, <1>4, <1>5, <1>6 DEF AtBlocks
-----------------------------------------------------------------------
(* Threads and queue together                                         *)

\* Where the threads are in the queue is a function of the threads.
Located == at = [t \in Thread |-> at[t]]

\* Everything that is proved of the threads and their queue at once.
SystemInv == QueueInv /\ ThreadsInv /\ BlockInv /\ ContentsInv /\ Located

LEMMA StaysLocated ==
  ASSUME Located, NEW t \in Thread, QStep(t)
  PROVE  Located'
<1>1. at' = at \/ \E l, next, r : Q!Step(t, l, next, r)
  <2>1. CASE UNCHANGED queueVars
    BY <2>1 DEF queueVars
  <2>2. CASE Q!Enqueuing(t) \/ \E x : Q!Publish(t, x)
    BY <2>2 DEF Q!Enqueuing, Q!AddProducer, Q!NewBlock, Q!StartsBlock, Q!Publish
  <2>3. CASE Q!Sizing(t) \/ Q!Failed(t) \/ \E x : Q!SizeIs(t, x) \/ Q!Dequeued(t, x)
    BY <2>3 DEF Q!Sizing, Q!StartSize, Q!SizeTail, Q!SizeHead, Q!SizeIs,
                Q!Dequeued, Q!Failed, Q!Read
  <2>4. CASE Q!Dequeuing(t)
    BY <2>4 DEF Q!Dequeuing, Q!StartScan, Q!ScanTail, Q!ScanHead, Q!ScanEnd,
                Q!TryNext, Q!LoadTail, Q!LoadOvercommit, Q!Check, Q!Claim,
                Q!Recheck, Q!Undo, Q!TakeIndex, Q!Take, Q!SetEmpty, Q!Emptied,
                Q!GiveBack, Q!Read
  <2>5. QED  BY <2>1, <2>2, <2>3, <2>4, StepsOfTheQueue DEF QueueStep
<1>2. QED  BY <1>1 DEF Q!Step, Located

\* The steps without the queue share nothing.
LEMMA ElsewhereShares ==
  ASSUME NEW t \in Thread, Elsewhere(t)
  PROVE  gnodes' = gnodes
  BY DEF Elsewhere, RunLoop, Outer, PickLocal, DequeueRoot, GetRoot, NoOwnData,
         CallBack, Return, DecideShare, KeepLocal, Recurse, ReportSolution,
         StartWaiting, ReadTerminate, ReadWaiting, LeaveWithNode, ListShared,
         LeaveIdle, Quit, Move, Count, data, queues

LEMMA QueueUnchanged ==
  ASSUME BlockInv, ContentsInv, UNCHANGED queueVars
  PROVE  BlockInv' /\ (gnodes' = gnodes => ContentsInv')
<1>1. UNCHANGED <<headIndex, tailIndex, blockIndex, elements, at, loc,
                  elementsCompletelyDequeued, blocksMade, freeList>>
  BY DEF queueVars
<1>2. \A t, p, i : t \in Thread => (Holds(t, p, i)' <=> Holds(t, p, i))
  BY <1>1 DEF Holds
<1>3. \A p, i : (Gone(p, i)' <=> Gone(p, i)) /\ (There(p, i)' <=> There(p, i))
  BY <1>1, <1>2 DEF Gone, There
<1>4. \A p, k : GoneSlots(p, k)' = GoneSlots(p, k)
  BY <1>3 DEF GoneSlots
<1>5. BlockTypes' /\ OneTaker' /\ OneGiver' /\ Room' /\ InOnePlace'
  BY <1>1 DEF BlockInv, BlockTypes, OneTaker, OneGiver, Room, InOnePlace, BlockAt
<1>6. \A t \in Thread : Takers(t)'
  BY <1>1, <1>3 DEF BlockInv, Takers, BlockAt
<1>7. Emptying'
  BY <1>1, <1>4 DEF BlockInv, Emptying
<1>8. Filled'
  BY <1>1, <1>3 DEF BlockInv, Filled
<1>9. gnodes' = gnodes => ContentsInv'
  BY <1>1, ValuesKept DEF ContentsInv, Contents
<1>10. QED  BY <1>5, <1>6, <1>7, <1>8, <1>9 DEF BlockInv

\* The nodes shared and the slots change together.
LEMMA StepsKeepSystem ==
  ASSUME SystemInv, NEW t \in Thread, QStep(t)
  PROVE  BlockInv' /\ ContentsInv'
<1>0. QueueInv /\ BlockInv /\ ContentsInv /\ TypeOK /\ Control(t) /\ Apart
  BY DEF SystemInv, ThreadsInv, IInv, TypeInv, PlaceInv
<1>1. CASE Elsewhere(t)
  BY <1>0, <1>1, ElsewhereShares, QueueUnchanged DEF Elsewhere
<1>2. CASE SizeSteps(t) \/ SizeRead(t) \/ EnqueueSteps(t) \/ DequeueSteps(t) \/ GetNothing(t)
  <2>1. Inner(t) /\ gnodes' = gnodes
    BY <1>2 DEF Inner, SizeSteps, SizeRead, ReadSize, EnqueueSteps, DequeueSteps,
                GetNothing, DequeueFails, vars, data, queues
  <2>2. QED  BY <1>0, <2>1, StepsKeepBlocks, OthersKeepContents
<1>3. CASE ShareNode(t)
  <2>1. At(t, "share") /\ Q!Publish(t, node[t]) /\ gnodes' = gnodes \cup {node[t]}
    BY <1>3 DEF ShareNode, Share, Enqueue
  <2>2. node[t] \in Node
    BY <1>0, <2>1 DEF Control, InCallback, At
  <2>3. node[t] \notin gnodes
    <3>1. node[t] \in Mine(t)
      BY <2>1, <2>2, Sizes DEF Mine, InHand, At
    <3>2. QED  BY <1>0, <3>1 DEF Apart
  <2>4. QED  BY <1>0, <2>1, <2>2, <2>3, PublishKeepsBlocks, PublishKeepsContents
<1>4. CASE GetNode(t)
  <2>1. PICK x \in gnodes : gnodes' = gnodes \ {x} /\ node' = [node EXCEPT ![t] = x]
    BY <1>4 DEF GetNode, DequeueNode
  <2>2. node'[t] = x
    BY <1>0, <2>1 DEF TypeOK
  <2>3. Q!Dequeued(t, x)
    BY <1>4, <2>2 DEF GetNode
  <2>4. QED  BY <1>0, <2>1, <2>3, StepsKeepBlocks, DequeuedKeepsContents
<1>5. QED  BY <1>1, <1>2, <1>3, <1>4 DEF QStep

LEMMA SystemStart == QInit => SystemInv
<1> SUFFICES ASSUME QInit PROVE SystemInv
  OBVIOUS
<1>1. QueueInv /\ BlockInv
  BY QueueStart, BlocksStart
<1>2. ThreadsInv
  BY InitInv, InitPlaces, InitReports DEF QInit, ThreadsInv
<1>3. /\ gnodes = {}
      /\ \A t \in Thread : loc[t].item = NoNode
      /\ \A b \in Q!Block : \A i \in Slot : elements[b][i] = NoNode
  BY DEF QInit, Init, Q!Init, Q!Blank, Slot
<1>4. Contents
  BY <1>3 DEF Contents
<1>5. Accounted
  BY <1>3 DEF Accounted, InQueue
<1>6. Located
  BY DEF QInit, Q!Init, Located
<1>7. QED  BY <1>1, <1>2, <1>4, <1>5, <1>6, InTheQueue DEF SystemInv, ContentsInv

LEMMA SystemKept == SystemInv /\ [QNext]_allVars => SystemInv'
<1> SUFFICES ASSUME SystemInv, [QNext]_allVars PROVE SystemInv'
  OBVIOUS
<1>1. QueueInv' /\ ThreadsInv'
  BY QueueKept, QueuedStepsKeepThreads DEF SystemInv
<1>2. BlockInv' /\ ContentsInv' /\ Located'
  <2>1. CASE \E t \in Thread : QStep(t)
    BY <2>1, StepsKeepSystem, StaysLocated DEF SystemInv
  <2>2. CASE UNCHANGED queueVars /\ gnodes' = gnodes
    BY <2>2, QueueUnchanged DEF SystemInv, Located, queueVars
  <2>3. QED
    BY <2>1, <2>2 DEF QNext, allVars, Joined, vars, data, queues
<1>3. QED  BY <1>1, <1>2 DEF SystemInv

LEMMA SystemInvariant == QSpec => []SystemInv
  BY SystemStart, SystemKept, PTL DEF QSpec
-----------------------------------------------------------------------
\* Every variable of the queue keeps its type, for blocks of any size: no
\* block is emptied more often than it has slots, as set_empty asserts.
THEOREM QueueTypesKept == QSpec => []QueueTypeOK
<1>1. SystemInv => QueueTypeOK
  <2> SUFFICES ASSUME SystemInv PROVE Q!TypeOK
    BY DEF QueueTypeOK
  <2>1. Shapes /\ BlockTypes /\ \A t \in Thread : at[t] \in Labels
    BY DEF SystemInv, QueueInv, LocalsInv, BlockInv, Takers
  <2>2. at \in [Thread -> Labels]
    <3>1. at = [t \in Thread |-> at[t]]
      BY DEF SystemInv, Located
    <3>2. QED  BY <2>1, <3>1
  <2>3. QED  BY <2>1, <2>2 DEF Q!TypeOK, Shapes, BlockTypes, Labels, Slot
<1>2. QED  BY <1>1, SystemInvariant, PTL

\* A thread that took an index finds its element in the slot, and alone.
THEOREM SlotsAreClaimedOnce == QSpec => []SlotsClaimedOnce
<1>1. SystemInv => SlotsClaimedOnce
  <2> DEFINE slot(t) == <<Q!BlockOf(loc[t].ptr, loc[t].index), loc[t].index % BlockSize>>
  <2> SUFFICES ASSUME SystemInv, NEW t \in Thread, at[t] = "take"
               PROVE  /\ slot(t)[1] # 0
                      /\ elements[slot(t)[1]][slot(t)[2]] # NoNode
                      /\ \A u \in Thread : u # t /\ at[u] = "take" => slot(t) # slot(u)
    BY DEF SlotsClaimedOnce, Q!SlotsClaimedOnce
  <2>0. QueueInv /\ BlockInv
    BY DEF SystemInv
  <2>1. ASSUME NEW u \in Thread, at[u] = "take"
        PROVE  /\ loc[u].ptr \in Thread /\ BlockAt(u) \in DOMAIN blockIndex[loc[u].ptr]
               /\ Index(BlockAt(u), SlotAt(u)) = loc[u].index
               /\ slot(u) = <<blockIndex[loc[u].ptr][BlockAt(u)], SlotAt(u)>>
               /\ blockIndex[loc[u].ptr][BlockAt(u)] \in Q!Block
               /\ SlotAt(u) \in Slot
    BY <2>0, <2>1, TakerPlace DEF Indexed, SlotAt
  <2>2. There(loc[t].ptr, loc[t].index)
    BY DEF There, Holds
  <2>3. blockIndex[loc[t].ptr][BlockAt(t)] # 0
    BY <2>1, Sizes DEF Q!Block
  <2>4. elements[blockIndex[loc[t].ptr][BlockAt(t)]][SlotAt(t)] # NoNode
    BY <2>0, <2>1, <2>2, <2>3 DEF BlockInv, Filled
  <2>5. ASSUME NEW u \in Thread, u # t, at[u] = "take", slot(t) = slot(u)
        PROVE  FALSE
    <3>1. /\ blockIndex[loc[t].ptr][BlockAt(t)] = blockIndex[loc[u].ptr][BlockAt(u)]
          /\ SlotAt(t) = SlotAt(u)
      BY <2>1, <2>5
    <3>2. loc[t].ptr = loc[u].ptr /\ BlockAt(t) = BlockAt(u)
      BY <2>0, <2>1, <2>3, <2>5, <3>1 DEF BlockInv, InOnePlace
    <3>3. loc[t].index = loc[u].index
      BY <2>1, <2>5, <3>1, <3>2
    <3>4. QED  BY <2>0, <2>5, <3>2, <3>3 DEF BlockInv, OneTaker
  <2> HIDE DEF slot
  <2>6. slot(t)[1] # 0 /\ elements[slot(t)[1]][slot(t)[2]] # NoNode
    BY <2>1, <2>3, <2>4
  <2>7. QED  BY <2>5, <2>6
<1>2. QED  BY <1>1, SystemInvariant, PTL

\* A block is in one stream, once, or free, and a free one holds no element.
THEOREM BlocksStayApart == QSpec => []BlocksApart
<1>1. SystemInv => BlocksApart
  <2> SUFFICES ASSUME SystemInv PROVE Q!BlocksApart
    BY DEF BlocksApart
  <2>1. InOnePlace /\ Filled /\ freeList \subseteq Q!Block
    BY DEF SystemInv, BlockInv, BlockTypes
  <2>2. ASSUME NEW b \in freeList PROVE \A i \in Slot : elements[b][i] = NoNode
    BY <2>1 DEF InOnePlace, Filled
  <2>3. QED  BY <2>1, <2>2 DEF Q!BlocksApart, InOnePlace, Slot
<1>2. QED  BY <1>1, SystemInvariant, PTL

\* The nodes shared are those in the queue, so that one try_dequeue returns
\* a node that was enqueued, and no other.
THEOREM NodesStayInQueue == QSpec => []NodesInQueue
<1>1. SystemInv => NodesInQueue
  BY DEF SystemInv, ContentsInv
<1>2. QED  BY <1>1, SystemInvariant, PTL

\* Also over the queue as it is, step by step, no root is opened and no node
\* is listed twice.
THEOREM QueuedNothingTwice == QSpec => []NothingTwice
BY QueueImplements, NothingIsDoneTwice, PTL

\* And no node is reported twice.
THEOREM QueuedReportsOnce == QSpec => []ReportedOnce
BY QueueImplements, ReportsHappenOnce, PTL

\* Over it too, the threads stop with nothing left but nodes that a failing
\* try_dequeue missed, and only what is below those was not reported.
THEOREM QueuedNothingIsLeft == QSpec => []NothingLeftBehind
BY QueueImplements, NothingIsLeft, PTL

\* And when they have stopped with no node left in the queue, everything below
\* the roots was reported.
THEOREM QueuedEnumerates == QSpec => Enumerates
BY QueueImplements, ThreadsEnumerate, PTL
=======================================================================
