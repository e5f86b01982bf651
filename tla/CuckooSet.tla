--------------------------- MODULE CuckooSet ---------------------------
(***************************************************************************)
(* cuckoo_hash_set (util/cuckoo.hpp): a table of mask+1 buckets, in which  *)
(* an element lies in the bucket of one of two hashes.  The private insert *)
(* moves elements between the two, and rehash calls it again for each slot *)
(* of the old table; a step is one turn of one of their loops.  What the   *)
(* calls on the stack have still to insert is the sequence todo: its head  *)
(* is the element k in hand, and below it lie the slots of the old table   *)
(* and the elements that callers have in hand.                             *)
(***************************************************************************)
EXTENDS Integers, Sequences, FiniteSets

CONSTANTS
  Elem,         \* the elements that are used; not all that T has
  Missing,      \* T(-1), which marks a free slot
  BucketSize,
  MaxSize,      \* bound: no insertion when sz is MaxSize
  Reservations  \* arguments of reserve

ASSUME ElemAssumption == Elem \subseteq Nat /\ Missing \notin Nat
ASSUME BucketSizeAssumption == BucketSize \in Nat \ {0}
ASSUME MaxSizeAssumption == MaxSize \in Nat
ASSUME ReservationsAssumption == Reservations \subseteq Nat

VARIABLES
  ht,          \* the table being written, slot by slot, counted from 1
  mask,        \* one less than a power of 2
  sz,
  todo,
  moves,       \* turns of the eviction loop for the element in hand
  use_hash_1

vars == <<ht, mask, sz, todo, moves, use_hash_1>>
-----------------------------------------------------------------------
capacity == (mask + 1) * BucketSize

\* k & mask and ~k & mask: mask is all ones.
hash_1(k) == k % (mask + 1)

hash_2(k) == mask - (k % (mask + 1))

Bucket(h) == (h * BucketSize + 1)..(h * BucketSize + BucketSize)

FreeSlots(h) == {i \in Bucket(h) : ht[i] = Missing}

\* The least element, as a set.
First(S) == {i \in S : \A j \in S : i <= j}

EmptyTable(m) == [i \in 1..((m + 1) * BucketSize) |-> Missing]

count(k) ==
  \E i \in Bucket(hash_1(k)) \cup Bucket(hash_2(k)) : ht[i] = k

Idle == todo = <<>>
-----------------------------------------------------------------------
Init ==
  /\ mask = 0
  /\ sz = 0
  /\ ht = EmptyTable(0)
  /\ todo = <<>>
  /\ moves = 0
  /\ use_hash_1 = TRUE

\* Mutant of Insert: the element may be there already.
InsertAgain(k) ==
  /\ Idle
  /\ sz < MaxSize
  /\ todo' = <<k>>
  /\ moves' = 0
  /\ use_hash_1' = TRUE
  /\ UNCHANGED <<ht, mask, sz>>

\* insert(k): returns at once if the element is there.
Insert(k) ==
  /\ Idle
  /\ sz < MaxSize
  /\ ~ count(k)
  /\ todo' = <<k>>
  /\ moves' = 0
  /\ use_hash_1' = TRUE
  /\ UNCHANGED <<ht, mask, sz>>

\* The element in hand is in the table; sz counts when the first call ends.
Placed(i) ==
  /\ ht' = [ht EXCEPT ![i] = Head(todo)]
  /\ todo' = Tail(todo)
  /\ sz' = IF Len(todo) = 1 THEN sz + 1 ELSE sz
  /\ moves' = 0
  /\ use_hash_1' = TRUE
  /\ UNCHANGED mask

\* rehash skips free slots of the old table.
SkipMissing ==
  /\ ~ Idle
  /\ Head(todo) = Missing
  /\ todo' = Tail(todo)
  /\ UNCHANGED <<ht, mask, sz, moves, use_hash_1>>

InHand == ~ Idle /\ Head(todo) # Missing

\* insert looks for a free slot in both buckets once, before it evicts.
PlaceFirst ==
  /\ InHand
  /\ moves = 0
  /\ FreeSlots(hash_1(Head(todo))) # {}
  /\ \E i \in First(FreeSlots(hash_1(Head(todo)))) : Placed(i)

PlaceSecond ==
  /\ InHand
  /\ moves = 0
  /\ FreeSlots(hash_1(Head(todo))) = {}
  /\ FreeSlots(hash_2(Head(todo))) # {}
  /\ \E i \in First(FreeSlots(hash_2(Head(todo)))) : Placed(i)

NoRoom ==
  moves = 0 => /\ FreeSlots(hash_1(Head(todo))) = {}
               /\ FreeSlots(hash_2(Head(todo))) = {}

\* Mutant of Shifted: k goes in the last slot and the others stay.
ShiftedOver(h, k) ==
  [i \in DOMAIN ht |->
     IF i \in Bucket(h) /\ i + 1 \notin Bucket(h) THEN k ELSE ht[i]]

\* The slots of a bucket move up by one: k goes in the last, and the one that
\* was in the first is in hand.
Shifted(h, k) ==
  [i \in DOMAIN ht |->
     IF i \notin Bucket(h) THEN ht[i]
     ELSE IF i + 1 \in Bucket(h) THEN ht[i + 1] ELSE k]

\* Mutant of Evict: a loop that does not count its turns.
EvictForever ==
  /\ InHand
  /\ NoRoom
  /\ moves < mask
  /\ LET k == Head(todo)
         hash == IF use_hash_1 THEN hash_1(k) ELSE hash_2(k)
         cuckooed == ht[hash * BucketSize + 1]
     IN  /\ ht' = Shifted(hash, k)
         /\ todo' = <<cuckooed>> \o Tail(todo)
         /\ use_hash_1' = (hash = hash_2(cuckooed))
         /\ UNCHANGED <<mask, sz, moves>>

\* A turn of the eviction loop.
Evict ==
  /\ InHand
  /\ NoRoom
  /\ moves < mask
  /\ LET k == Head(todo)
         hash == IF use_hash_1 THEN hash_1(k) ELSE hash_2(k)
         cuckooed == ht[hash * BucketSize + 1]
     IN  IF FreeSlots(hash) # {}
         THEN \E i \in First(FreeSlots(hash)) : Placed(i)
         ELSE /\ ht' = Shifted(hash, k)
              /\ todo' = <<cuckooed>> \o Tail(todo)
              /\ use_hash_1' = (hash = hash_2(cuckooed))
              /\ moves' = moves + 1
              /\ UNCHANGED <<mask, sz>>

\* Mutants of Rehash: the element in hand is inserted first; the old slots
\* are copied to where they were.
RehashFirst ==
  /\ InHand
  /\ NoRoom
  /\ moves >= mask
  /\ mask' = 2 * mask + 1
  /\ ht' = EmptyTable(mask')
  /\ todo' = todo \o ht
  /\ moves' = 0
  /\ use_hash_1' = TRUE
  /\ UNCHANGED sz

RehashInPlace ==
  /\ InHand
  /\ NoRoom
  /\ moves >= mask
  /\ mask' = 2 * mask + 1
  /\ ht' = ht \o EmptyTable(mask)
  /\ moves' = 0
  /\ use_hash_1' = TRUE
  /\ UNCHANGED <<sz, todo>>

\* rehash, up to its loop: the slots of the table, in order, are to be
\* inserted in a new one, and the element in hand after them.
Rehash ==
  /\ InHand
  /\ NoRoom
  /\ moves >= mask
  /\ mask' = IF mask = 0 THEN 1 ELSE 2 * mask + 1
  /\ ht' = EmptyTable(mask')
  /\ todo' = ht \o todo
  /\ moves' = 0
  /\ use_hash_1' = TRUE
  /\ UNCHANGED sz

\* erase(k): the slot of k in its first bucket, or else in its second.
Erase(k) ==
  /\ Idle
  /\ count(k)
  /\ LET One == {i \in Bucket(hash_1(k)) : ht[i] = k}
         Two == {i \in Bucket(hash_2(k)) : ht[i] = k}
     IN  \E i \in First(IF One # {} THEN One ELSE Two) :
           ht' = [ht EXCEPT ![i] = Missing]
  /\ sz' = sz - 1
  /\ UNCHANGED <<mask, todo, moves, use_hash_1>>

\* sz stays as it is.
clear ==
  /\ Idle
  /\ ht' = EmptyTable(mask)
  /\ UNCHANGED <<mask, sz, todo, moves, use_hash_1>>

\* reserve(n): the new table is m buckets, mask + 1 doubled as often as it
\* takes; it is empty, and the member sz stays as it is.
reserve(n) ==
  /\ Idle
  /\ n > capacity
  /\ \E m \in (mask + 1)..(mask + 1 + 2 * n) :
       /\ \E j \in 0..n : m = (mask + 1) * 2^j
       /\ m > n \div BucketSize
       /\ m = mask + 1 \/ m \div 2 <= n \div BucketSize
       /\ mask' = m - 1
       /\ ht' = EmptyTable(m - 1)
  /\ UNCHANGED <<sz, todo, moves, use_hash_1>>

\* The private insert and rehash.
Inserting == SkipMissing \/ PlaceFirst \/ PlaceSecond \/ Evict \/ Rehash

Next ==
  \/ \E k \in Elem : Insert(k) \/ Erase(k)
  \/ Inserting
  \/ clear
  \/ \E n \in Reservations : reserve(n)

\* The code runs on: insert is not left in the middle.
Spec == Init /\ [][Next]_vars /\ WF_vars(Inserting)
-----------------------------------------------------------------------
Slots == Elem \cup {Missing}

TypeOK ==
  /\ mask \in Nat
  /\ sz \in Nat
  /\ ht \in [1..capacity -> Slots]
  /\ todo \in Seq(Slots)
  /\ moves \in Nat
  /\ use_hash_1 \in BOOLEAN

\* What the set holds, in the middle of an insertion as well.
Stored == {ht[i] : i \in DOMAIN ht} \cup {todo[j] : j \in DOMAIN todo}

Set == INSTANCE VertexSet WITH elems <- Stored \ {Missing}, busy <- ~ Idle

\* Evictions and rehashes lose no element and make up none, and the calls do
\* to the elements what they do to a set.
ImplementsSet == Set!Spec

\* Between calls count is exact: an element was moved only to a bucket that
\* one of its hashes names, under the mask that counts now.
CountExact == Idle => \A k \in Elem : count(k) <=> k \in Stored

\* No element is stored twice: erase takes one slot only.
StoredOnce ==
  /\ \A i, j \in DOMAIN ht : ht[i] = ht[j] /\ ht[i] # Missing => i = j
  /\ \A i, j \in DOMAIN todo : todo[i] = todo[j] /\ todo[i] # Missing => i = j
  /\ \A i \in DOMAIN ht, j \in DOMAIN todo : ht[i] = todo[j] => ht[i] = Missing

\* What rehash inserts again finds a free slot at once, so that the recursion
\* of insert and rehash is no deeper than one call of each: the two buckets
\* of an element hold no more than its two buckets of the smaller table did.
NoNestedRehash ==
  Len(todo) > 1 /\ InHand =>
    moves = 0 /\ FreeSlots(hash_1(Head(todo))) \cup FreeSlots(hash_2(Head(todo))) # {}

\* Every insertion ends, whatever the elements have in common.
InsertReturns == ~ Idle ~> Idle
=======================================================================
