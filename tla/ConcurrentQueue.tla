------------------------ MODULE ConcurrentQueue ------------------------
(***************************************************************************)
(* moodycamel::ConcurrentQueue (util/concurrentqueue.hpp) as the program   *)
(* uses it: enqueue and try_dequeue without tokens, and size_approx.  Each *)
(* thread that enqueues has a stream of its own, an ImplicitProducer; the  *)
(* streams are in a list that only grows.  Each action is one access to    *)
(* shared state, and accesses take effect in the order of the code; that   *)
(* indices wrap around after 2^64 elements is left out, and the list of    *)
(* free blocks and the index of a stream's blocks are one step each.       *)
(***************************************************************************)
EXTENDS Integers, Sequences, FiniteSets

CONSTANTS
  Thread,
  Value,
  Null,           \* the null pointer, and an empty slot
  BlockSize,      \* BLOCK_SIZE
  InitialBlocks,  \* initialBlockPoolSize
  MaxBlocks       \* bound: blocks in the pool and allocated

\* What a module that uses the queue assumes of its constants.
QueueAssumption ==
  /\ IsFiniteSet(Thread)
  /\ Null \notin Thread \cup Value
  /\ BlockSize \in Nat \ {0, 1}
  /\ InitialBlocks \in 0..MaxBlocks
  /\ MaxBlocks \in Nat

VARIABLES
  producers,    \* the list that begins at producerListTail
  tailIndex, headIndex, dequeueOptimisticCount, dequeueOvercommit,
  blockIndex,   \* the blocks of each stream, 0 for one that was given back
  elements, elementsCompletelyDequeued,
  blocksMade,   \* blocks taken from the pool or allocated
  freeList,
  at,           \* where a thread is in try_dequeue or size_approx
  loc           \* its local variables there

stream == <<tailIndex, headIndex, dequeueOptimisticCount, dequeueOvercommit>>
blocks == <<blockIndex, elements, elementsCompletelyDequeued, blocksMade,
            freeList>>
vars == <<producers, stream, blocks, at, loc>>

Block == 1..MaxBlocks

\* ptr is the stream a loop is at, and item what dequeue moved out.
Blank == [ptr |-> Null, nonEmpty |-> 0, best |-> Null, size |-> 0,
          first |-> TRUE, tail |-> 0, overcommit |-> 0, mine |-> 0,
          index |-> 0, item |-> Null]

Init ==
  /\ producers = <<>>
  /\ tailIndex = [p \in Thread |-> 0]
  /\ headIndex = [p \in Thread |-> 0]
  /\ dequeueOptimisticCount = [p \in Thread |-> 0]
  /\ dequeueOvercommit = [p \in Thread |-> 0]
  /\ blockIndex = [p \in Thread |-> <<>>]
  /\ elements = [b \in Block |-> [i \in 0..(BlockSize - 1) |-> Null]]
  /\ elementsCompletelyDequeued = [b \in Block |-> 0]
  /\ blocksMade = 0
  /\ freeList = {}
  /\ at = [t \in Thread |-> "idle"]
  /\ loc = [t \in Thread |-> Blank]
-----------------------------------------------------------------------
\* Thread t goes from l to next; its locals are then r.
Step(t, l, next, r) ==
  /\ at[t] = l
  /\ at' = [at EXCEPT ![t] = next]
  /\ loc' = [loc EXCEPT ![t] = r]

\* The same, and nothing shared changes.
Read(t, l, next, r) == Step(t, l, next, r) /\ UNCHANGED <<producers, stream, blocks>>

FirstProd == IF producers = <<>> THEN Null ELSE Head(producers)

next_prod(p) ==
  LET after == {q \in Thread : \E i \in 1..(Len(producers) - 1) :
                                 producers[i] = p /\ producers[i + 1] = q}
  IN  IF after = {} THEN Null ELSE CHOOSE q \in after : TRUE

HasProducer(t) == \E i \in DOMAIN producers : producers[i] = t

BlockOf(p, index) == blockIndex[p][(index \div BlockSize) + 1]
-----------------------------------------------------------------------
(* enqueue by thread t, to its own stream *)

\* The stream of t is put before the others.
add_producer(t) == producers' = <<t>> \o producers

\* get_or_add_implicit_producer finds no stream of t and adds one.
AddProducer(t) ==
  /\ at[t] = "idle"
  /\ ~ HasProducer(t)
  /\ add_producer(t)
  /\ UNCHANGED <<stream, blocks, at, loc>>

HasRoom(t) == tailIndex[t] < Len(blockIndex[t]) * BlockSize

insert_block_index_entry(t, b) ==
  blockIndex' = [blockIndex EXCEPT ![t] = Append(@, b)]

\* Mutant of StartsBlock: reset_empty is missing.
StartsUsedBlock(t, b) ==
  /\ insert_block_index_entry(t, b)
  /\ UNCHANGED <<producers, stream, elements, elementsCompletelyDequeued, at,
                 loc>>

\* Block b is the new last block of t's stream.
StartsBlock(t, b) ==
  /\ insert_block_index_entry(t, b)
  /\ elementsCompletelyDequeued' = [elementsCompletelyDequeued EXCEPT ![b] = 0]
  /\ UNCHANGED <<producers, stream, elements, at, loc>>

\* A block of the pool, or one allocated, that no stream has had.
UnusedBlock(b) ==
  /\ blocksMade < MaxBlocks
  /\ b = blocksMade + 1
  /\ blocksMade' = b
  /\ UNCHANGED freeList

\* The free list is looked at when the pool is used up.
FreedBlock(b) ==
  /\ blocksMade >= InitialBlocks
  /\ b \in freeList
  /\ freeList' = freeList \ {b}
  /\ UNCHANGED blocksMade

\* requisition_block: one may be allocated although there is a free one, as
\* a block that is just being given back may not be on the list yet.
NewBlock(t) ==
  /\ at[t] = "idle"
  /\ HasProducer(t)
  /\ ~ HasRoom(t)
  /\ \E b \in Block : (UnusedBlock(b) \/ FreedBlock(b)) /\ StartsBlock(t, b)

\* Mutant of Publish: every element is written to the first slot.
PublishAtStart(t, x) ==
  /\ at[t] = "idle"
  /\ HasProducer(t)
  /\ HasRoom(t)
  /\ elements' = [elements EXCEPT ![BlockOf(t, tailIndex[t])][0] = x]
  /\ tailIndex' = [tailIndex EXCEPT ![t] = @ + 1]
  /\ UNCHANGED <<producers, headIndex, dequeueOptimisticCount,
                 dequeueOvercommit, blockIndex, elementsCompletelyDequeued,
                 blocksMade, freeList, at, loc>>

\* The element is written, and tailIndex moved past it.
Publish(t, x) ==
  /\ at[t] = "idle"
  /\ HasProducer(t)
  /\ HasRoom(t)
  /\ elements' = [elements EXCEPT
                    ![BlockOf(t, tailIndex[t])][tailIndex[t] % BlockSize] = x]
  /\ tailIndex' = [tailIndex EXCEPT ![t] = @ + 1]
  /\ UNCHANGED <<producers, headIndex, dequeueOptimisticCount,
                 dequeueOvercommit, blockIndex, elementsCompletelyDequeued,
                 blocksMade, freeList, at, loc>>
-----------------------------------------------------------------------
(* size_approx *)

\* size_approx of one stream, whose tailIndex was read before.
StreamSize(t) ==
  LET head == headIndex[loc[t].ptr]
  IN  IF head < loc[t].tail THEN loc[t].tail - head ELSE 0

StartSize(t) == Read(t, "idle", "size", [Blank EXCEPT !.ptr = FirstProd])

SizeTail(t) ==
  /\ loc[t].ptr # Null
  /\ Read(t, "size", "sizeHead", [loc[t] EXCEPT !.tail = tailIndex[loc[t].ptr]])

SizeHead(t) ==
  Read(t, "sizeHead", "size",
       [loc[t] EXCEPT !.size = @ + StreamSize(t), !.ptr = next_prod(@), !.tail = 0])

\* size_approx returns n.
SizeIs(t, n) ==
  loc[t].ptr = Null /\ n = loc[t].size /\ Read(t, "size", "idle", Blank)
-----------------------------------------------------------------------
(* try_dequeue: first, a look at the sizes of the streams *)

StartScan(t) == Read(t, "idle", "scan", [Blank EXCEPT !.ptr = FirstProd])

ScanTail(t) ==
  /\ loc[t].ptr # Null
  /\ loc[t].nonEmpty < 3
  /\ Read(t, "scan", "scanHead", [loc[t] EXCEPT !.tail = tailIndex[loc[t].ptr]])

ScanHead(t) ==
  LET size == StreamSize(t)
      better == size > loc[t].size
  IN  Read(t, "scanHead", "scan",
           [loc[t] EXCEPT !.nonEmpty = IF size > 0 THEN @ + 1 ELSE @,
                          !.best = IF better THEN loc[t].ptr ELSE @,
                          !.size = IF better THEN size ELSE @,
                          !.ptr = next_prod(@),
                          !.tail = 0])

\* Dequeues from the largest stream, or returns false if all seem empty.
ScanEnd(t) ==
  /\ loc[t].ptr = Null \/ loc[t].nonEmpty = 3
  /\ Read(t, "scan", IF loc[t].nonEmpty > 0 THEN "tail" ELSE "failed",
          [loc[t] EXCEPT !.ptr = loc[t].best, !.size = 0, !.nonEmpty = 0])

\* The stream was empty: the loop over the list, which begins anew after the
\* largest one and passes over that.
TryNext(t) ==
  LET q == IF loc[t].first THEN FirstProd ELSE next_prod(loc[t].ptr)
      other == IF q = loc[t].best THEN next_prod(q) ELSE q
  IN  Read(t, "next", IF other = Null THEN "failed" ELSE "tail",
           [loc[t] EXCEPT !.ptr = other, !.first = FALSE])
-----------------------------------------------------------------------
(* ImplicitProducer::dequeue, from the stream loc[t].ptr *)

LoadTail(t) ==
  Read(t, "tail", "overcommit", [loc[t] EXCEPT !.tail = tailIndex[loc[t].ptr]])

LoadOvercommit(t) ==
  Read(t, "overcommit", "check",
       [loc[t] EXCEPT !.overcommit = dequeueOvercommit[loc[t].ptr]])

Check(t) ==
  Read(t, "check",
       IF dequeueOptimisticCount[loc[t].ptr] - loc[t].overcommit < loc[t].tail
       THEN "claim" ELSE "next", loc[t])

\* dequeueOptimisticCount.fetch_add
Claim(t) ==
  LET p == loc[t].ptr
  IN  /\ Step(t, "claim", "recheck",
              [loc[t] EXCEPT !.mine = dequeueOptimisticCount[p]])
      /\ dequeueOptimisticCount' = [dequeueOptimisticCount EXCEPT ![p] = @ + 1]
      /\ UNCHANGED <<producers, tailIndex, headIndex, dequeueOvercommit, blocks>>

\* Mutant of Recheck: the claim is taken for granted.
RecheckSkipped(t) == Read(t, "recheck", "head", loc[t])

Recheck(t) ==
  Read(t, "recheck",
       IF loc[t].mine - loc[t].overcommit < tailIndex[loc[t].ptr]
       THEN "head" ELSE "undo", loc[t])

\* Mutant of Undo: the claim stays.
UndoForgotten(t) == Read(t, "undo", "next", loc[t])

\* The claim came too late: dequeueOvercommit makes up for it.
Undo(t) ==
  /\ Step(t, "undo", "next", loc[t])
  /\ dequeueOvercommit' = [dequeueOvercommit EXCEPT ![loc[t].ptr] = @ + 1]
  /\ UNCHANGED <<producers, tailIndex, headIndex, dequeueOptimisticCount, blocks>>

\* headIndex.fetch_add
TakeIndex(t) ==
  LET p == loc[t].ptr
  IN  /\ Step(t, "head", "take", [loc[t] EXCEPT !.index = headIndex[p]])
      /\ headIndex' = [headIndex EXCEPT ![p] = @ + 1]
      /\ UNCHANGED <<producers, tailIndex, dequeueOptimisticCount,
                     dequeueOvercommit, blocks>>

\* The element is moved out of its slot and destroyed.
Take(t) ==
  LET b == BlockOf(loc[t].ptr, loc[t].index)
      i == loc[t].index % BlockSize
  IN  /\ Step(t, "take", "setEmpty", [loc[t] EXCEPT !.item = elements[b][i]])
      /\ elements' = [elements EXCEPT ![b][i] = Null]
      /\ UNCHANGED <<producers, stream, blockIndex, elementsCompletelyDequeued,
                     blocksMade, freeList>>

\* Thread t was the n-th to empty a slot of block b.
Emptied(t, n) ==
  LET b == BlockOf(loc[t].ptr, loc[t].index)
  IN  /\ Step(t, "setEmpty",
              IF elementsCompletelyDequeued[b] = n - 1 THEN "giveBack"
              ELSE "done", loc[t])
      /\ elementsCompletelyDequeued' =
           [elementsCompletelyDequeued EXCEPT ![b] = @ + 1]
      /\ UNCHANGED <<producers, stream, blockIndex, elements, blocksMade, freeList>>

\* Mutant of SetEmpty: one slot too early.
SetEmptyEarly(t) == Emptied(t, BlockSize - 1)

SetEmpty(t) == Emptied(t, BlockSize)

add_block_to_free_list(b) == freeList' = freeList \cup {b}

\* The block leaves the index of its stream and goes to the free list.
GiveBack(t) ==
  LET p == loc[t].ptr
  IN  /\ Step(t, "giveBack", "done", loc[t])
      /\ blockIndex' =
           [blockIndex EXCEPT ![p][(loc[t].index \div BlockSize) + 1] = 0]
      /\ add_block_to_free_list(BlockOf(p, loc[t].index))
      /\ UNCHANGED <<producers, stream, elements, elementsCompletelyDequeued,
                     blocksMade>>

\* try_dequeue returns true, with the element x, or false.
Dequeued(t, x) == x = loc[t].item /\ Read(t, "done", "idle", Blank)

Failed(t) == Read(t, "failed", "idle", Blank)

Enqueuing(t) == AddProducer(t) \/ NewBlock(t)

Sizing(t) == StartSize(t) \/ SizeTail(t) \/ SizeHead(t)

Dequeuing(t) ==
  \/ StartScan(t) \/ ScanTail(t) \/ ScanHead(t) \/ ScanEnd(t) \/ TryNext(t)
  \/ LoadTail(t) \/ LoadOvercommit(t) \/ Check(t) \/ Claim(t) \/ Recheck(t)
  \/ Undo(t) \/ TakeIndex(t) \/ Take(t) \/ SetEmpty(t) \/ GiveBack(t)
-----------------------------------------------------------------------
\* Every variable keeps its type.  In particular no block is emptied more
\* often than it has slots, which set_empty asserts.
TypeOK ==
  /\ producers \in Seq(Thread)
  /\ \A f \in {tailIndex, headIndex, dequeueOptimisticCount, dequeueOvercommit} :
       f \in [Thread -> Nat]
  /\ blockIndex \in [Thread -> Seq(Block \cup {0})]
  /\ elements \in [Block -> [0..(BlockSize - 1) -> Value \cup {Null}]]
  /\ elementsCompletelyDequeued \in [Block -> 0..BlockSize]
  /\ blocksMade \in 0..MaxBlocks
  /\ freeList \subseteq Block
  /\ at \in [Thread -> {"idle", "size", "sizeHead", "scan", "scanHead", "tail",
                        "overcommit", "check", "claim", "recheck", "undo",
                        "head", "take", "setEmpty", "giveBack", "next", "done",
                        "failed"}]

\* The threads that are at one of the labels in L for stream p.
AtStream(L, p) == {t \in Thread : at[t] \in L /\ loc[t].ptr = p}

\* Claims are either made good or undone, and what is made good is there:
\* however many threads claim at once, no index beyond the tail is taken.
ClaimsCovered ==
  \A p \in Thread :
    /\ dequeueOptimisticCount[p] - dequeueOvercommit[p]
         = headIndex[p] + Cardinality(AtStream({"recheck", "head", "undo"}, p))
    /\ headIndex[p] + Cardinality(AtStream({"head"}, p)) <= tailIndex[p]

\* A thread that has an index finds its element in the slot, and finds it
\* alone: the slot is in a block that nobody has given back or filled anew.
SlotsClaimedOnce ==
  LET slot(t) == <<BlockOf(loc[t].ptr, loc[t].index), loc[t].index % BlockSize>>
  IN  \A t \in Thread : at[t] = "take" =>
        /\ slot(t)[1] # 0
        /\ elements[slot(t)[1]][slot(t)[2]] # Null
        /\ \A u \in Thread : u # t /\ at[u] = "take" => slot(t) # slot(u)

\* A block is in one stream, once, or free, and a free one holds no element.
BlocksApart ==
  /\ \A p, q \in Thread : \A i \in DOMAIN blockIndex[p], j \in DOMAIN blockIndex[q] :
       blockIndex[p][i] = blockIndex[q][j] /\ blockIndex[p][i] # 0
         => p = q /\ i = j
  /\ \A p \in Thread : \A i \in DOMAIN blockIndex[p] : blockIndex[p][i] \notin freeList
  /\ \A b \in freeList : \A i \in 0..(BlockSize - 1) : elements[b][i] = Null
=======================================================================
