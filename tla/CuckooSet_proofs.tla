------------------------ MODULE CuckooSet_proofs ------------------------
(***************************************************************************)
(* Proofs about CuckooSet, for every set of elements and bucket size.      *)
(***************************************************************************)
EXTENDS CuckooSet, FiniteSetTheorems, SequenceTheorems, TLAPS

\* The hashes of an element name a bucket of the table.
LEMMA HashRange ==
  ASSUME NEW k \in Nat, NEW m \in Nat
  PROVE  k % (m + 1) \in 0..m /\ m - (k % (m + 1)) \in 0..m
  OBVIOUS

\* Every bucket lies in the table.
LEMMA BucketInTable ==
  ASSUME NEW m \in Nat, NEW h \in 0..m
  PROVE  /\ h * BucketSize \in Nat
         /\ h * BucketSize + BucketSize <= (m + 1) * BucketSize
         /\ Bucket(h) \subseteq 1..((m + 1) * BucketSize)
<1>1. h \in Nat /\ BucketSize \in Nat
  BY BucketSizeAssumption
<1>2. h * BucketSize \in Nat
  BY <1>1
<1>3. PICK d \in Nat : m = h + d
  <2>1. m = h + (m - h) /\ m - h \in Nat
    OBVIOUS
  <2> QED BY <2>1
<1>4. (m + 1) * BucketSize = h * BucketSize + BucketSize + d * BucketSize
  BY <1>1, <1>3
<1>5. d * BucketSize \in Nat
  BY <1>1, <1>3
<1>6. h * BucketSize + BucketSize <= (m + 1) * BucketSize
  BY <1>1, <1>2, <1>4, <1>5
<1>7. Bucket(h) \subseteq 1..((m + 1) * BucketSize)
  BY <1>1, <1>2, <1>4, <1>5 DEF Bucket
<1> QED BY <1>2, <1>6, <1>7

\* Two buckets share no slot.
LEMMA BucketsApart ==
  ASSUME NEW g \in Nat, NEW h \in Nat, NEW i \in Bucket(g) \cap Bucket(h)
  PROVE  g = h
<1>1. ASSUME NEW a \in Nat, NEW b \in Nat, a < b
      PROVE  a * BucketSize + BucketSize <= b * BucketSize
  <2>1. PICK d \in Nat : b = a + 1 + d
    <3>1. b = a + 1 + (b - a - 1) /\ b - a - 1 \in Nat
      BY <1>1
    <3> QED BY <3>1
  <2>2. b * BucketSize = a * BucketSize + BucketSize + d * BucketSize
    BY <2>1, BucketSizeAssumption
  <2>3. d * BucketSize \in Nat /\ a * BucketSize \in Nat
    BY BucketSizeAssumption
  <2> QED BY <2>2, <2>3, BucketSizeAssumption
<1>2. g * BucketSize \in Nat /\ h * BucketSize \in Nat
  BY BucketSizeAssumption
<1>3. /\ i \in Int
      /\ g * BucketSize < i /\ i <= g * BucketSize + BucketSize
      /\ h * BucketSize < i /\ i <= h * BucketSize + BucketSize
  BY <1>2, BucketSizeAssumption DEF Bucket
<1>4. ~ (g < h)
  BY <1>1, <1>2, <1>3, BucketSizeAssumption
<1>5. ~ (h < g)
  BY <1>1, <1>2, <1>3, BucketSizeAssumption
<1> QED BY <1>4, <1>5

-----------------------------------------------------------------------
(* The inductive invariant *)

\* An element in the table lies in one of its two buckets.
PlacedRight ==
  \A i \in DOMAIN ht : ht[i] # Missing =>
    i \in Bucket(hash_1(ht[i])) \cup Bucket(hash_2(ht[i]))

Elements == Stored \ {Missing}

\* sz is never behind: erase finds it greater than 0.
SizeCovers ==
  /\ IsFiniteSet(Elements)
  /\ Cardinality(Elements) <= sz + 1
  /\ Idle => Cardinality(Elements) <= sz

Layout == TypeOK /\ PlacedRight /\ StoredOnce

\* The last that is to be inserted is an element, the one of the first call.
EndInHand == ~ Idle => todo[Len(todo)] # Missing

\* Where an element in hand may go.
LEMMA HandBuckets ==
  ASSUME TypeOK, InHand
  PROVE  /\ Head(todo) \in Elem
         /\ hash_1(Head(todo)) \in 0..mask
         /\ hash_2(Head(todo)) \in 0..mask
         /\ Len(todo) \in Nat \ {0}
         /\ Tail(todo) \in Seq(Slots)
         /\ Len(Tail(todo)) = Len(todo) - 1
         /\ \A j \in DOMAIN Tail(todo) : Tail(todo)[j] = todo[j + 1]
         /\ 1 \in DOMAIN todo /\ todo[1] = Head(todo)
<1>1. todo # <<>> /\ Head(todo) # Missing /\ todo \in Seq(Slots)
  BY DEF InHand, Idle, TypeOK
<1>2. Head(todo) \in Elem
  BY <1>1 DEF Slots
<1>3. Head(todo) \in Nat /\ mask \in Nat
  BY <1>2, ElemAssumption DEF TypeOK
<1>4. hash_1(Head(todo)) \in 0..mask /\ hash_2(Head(todo)) \in 0..mask
  BY <1>3, HashRange DEF hash_1, hash_2
<1> QED BY <1>1, <1>2, <1>4

\* The element in hand goes into a free slot of one of its buckets.
LEMMA PlacedKeeps ==
  ASSUME Layout, InHand,
         NEW i \in DOMAIN ht, ht[i] = Missing,
         i \in Bucket(hash_1(Head(todo))) \cup Bucket(hash_2(Head(todo))),
         Placed(i)
  PROVE  Layout' /\ Elements' = Elements
<1> DEFINE k == Head(todo)
<1>1. /\ k \in Elem /\ k # Missing /\ Len(todo) \in Nat \ {0}
      /\ Tail(todo) \in Seq(Slots) /\ Len(Tail(todo)) = Len(todo) - 1
      /\ \A j \in DOMAIN Tail(todo) : Tail(todo)[j] = todo[j + 1]
      /\ 1 \in DOMAIN todo /\ todo[1] = k
  BY HandBuckets DEF Layout, InHand
<1>2. /\ ht' = [ht EXCEPT ![i] = k] /\ todo' = Tail(todo) /\ mask' = mask
      /\ sz' \in {sz, sz + 1} /\ moves' = 0 /\ use_hash_1' = TRUE
  BY DEF Placed
<1>3. ht \in [1..capacity -> Slots] /\ todo \in Seq(Slots)
  BY DEF Layout, TypeOK
<1>4. capacity' = capacity
  BY <1>2 DEF capacity
<1>5. DOMAIN ht' = DOMAIN ht /\ ht'[i] = k /\ \A j \in DOMAIN ht \ {i} : ht'[j] = ht[j]
  BY <1>2, <1>3
<1>6. DOMAIN todo' = 1..(Len(todo) - 1) /\ \A j \in DOMAIN todo' : todo'[j] = todo[j + 1]
  BY <1>1, <1>2
<1>7. TypeOK'
  BY <1>1, <1>2, <1>3, <1>4 DEF Layout, TypeOK, Slots
<1>8. PlacedRight'
  BY <1>2, <1>5 DEF Layout, PlacedRight, hash_1, hash_2, Bucket
<1>9. StoredOnce'
  <2>1. \A j \in DOMAIN ht : ht[j] # k
    BY <1>1 DEF Layout, StoredOnce
  <2>2. \A j \in DOMAIN todo' : todo'[j] # k
    BY <1>1, <1>3, <1>6 DEF Layout, StoredOnce
  <2>3. \A a, b \in DOMAIN ht' : ht'[a] = ht'[b] /\ ht'[a] # Missing => a = b
    BY <2>1, <1>5 DEF Layout, StoredOnce
  <2>4. \A a, b \in DOMAIN todo' : todo'[a] = todo'[b] /\ todo'[a] # Missing => a = b
    BY <1>1, <1>3, <1>6 DEF Layout, StoredOnce
  <2>5. \A a \in DOMAIN ht', b \in DOMAIN todo' : ht'[a] = todo'[b] => ht'[a] = Missing
    BY <2>2, <1>1, <1>3, <1>5, <1>6 DEF Layout, StoredOnce
  <2> QED BY <2>3, <2>4, <2>5 DEF StoredOnce
<1>10. Elements' = Elements
  <2>1. Elements' \subseteq Elements
    BY <1>1, <1>3, <1>5, <1>6 DEF Elements, Stored
  <2>2. ASSUME NEW x \in Elements PROVE x \in Elements'
    <3>1. CASE \E a \in DOMAIN ht : x = ht[a]
      BY <3>1, <1>5 DEF Elements, Stored
    <3>2. CASE \E b \in DOMAIN todo : x = todo[b]
      <4>1. PICK b \in DOMAIN todo : x = todo[b]
        BY <3>2
      <4>2. CASE b = 1
        BY <4>1, <4>2, <1>1, <1>5 DEF Elements, Stored
      <4>3. CASE b # 1
        <5>1. b - 1 \in DOMAIN todo' /\ todo'[b - 1] = x
          BY <4>1, <4>3, <1>1, <1>3, <1>6
        <5> QED BY <5>1 DEF Elements, Stored
      <4> QED BY <4>2, <4>3
    <3> QED BY <3>1, <3>2 DEF Elements, Stored
  <2> QED BY <2>1, <2>2
<1> QED BY <1>7, <1>8, <1>9, <1>10 DEF Layout

\* A free slot of the table that is skipped holds nothing.
LEMMA SkipKeeps ==
  ASSUME Layout, SkipMissing
  PROVE  Layout' /\ Elements' = Elements
<1>1. /\ todo \in Seq(Slots) /\ todo # <<>> /\ todo[1] = Missing
      /\ todo' = Tail(todo)
      /\ UNCHANGED <<ht, mask, sz, moves, use_hash_1>>
  BY DEF Layout, TypeOK, SkipMissing, Idle
<1>2. /\ todo' \in Seq(Slots) /\ DOMAIN todo' = 1..(Len(todo) - 1)
      /\ \A j \in DOMAIN todo' : todo'[j] = todo[j + 1] /\ j + 1 \in DOMAIN todo
      /\ \A j \in DOMAIN todo \ {1} : j - 1 \in DOMAIN todo'
  BY <1>1
<1>3. TypeOK' /\ PlacedRight'
  BY <1>1, <1>2 DEF Layout, TypeOK, PlacedRight, capacity, hash_1, hash_2, Bucket
<1>4. StoredOnce'
  BY <1>1, <1>2 DEF Layout, StoredOnce
<1>5. Elements' = Elements
  <2>1. Elements' \subseteq Elements
    BY <1>1, <1>2 DEF Elements, Stored
  <2>2. ASSUME NEW b \in DOMAIN todo, todo[b] # Missing PROVE todo[b] \in Elements'
    <3>1. b # 1 /\ todo'[b - 1] = todo[b] /\ b - 1 \in DOMAIN todo'
      BY <1>1, <1>2, <2>2
    <3> QED BY <3>1, <2>2 DEF Elements, Stored
  <2> QED BY <2>1, <2>2, <1>1 DEF Elements, Stored
<1> QED BY <1>3, <1>4, <1>5 DEF Layout

\* The element in hand changes places with the first of a full bucket.
LEMMA ShiftKeeps ==
  ASSUME Layout, InHand,
         NEW h \in {hash_1(Head(todo)), hash_2(Head(todo))},
         FreeSlots(h) = {},
         ht' = Shifted(h, Head(todo)),
         todo' = <<ht[h * BucketSize + 1]>> \o Tail(todo),
         use_hash_1' \in BOOLEAN, moves' = moves + 1,
         UNCHANGED <<mask, sz>>
  PROVE  Layout' /\ Elements' = Elements
<1> DEFINE k == Head(todo)
           c == h * BucketSize
           old == ht[c + 1]
<1>1. /\ k \in Elem /\ k # Missing /\ Len(todo) \in Nat \ {0}
      /\ Tail(todo) \in Seq(Slots) /\ Len(Tail(todo)) = Len(todo) - 1
      /\ \A j \in DOMAIN Tail(todo) : Tail(todo)[j] = todo[j + 1]
      /\ 1 \in DOMAIN todo /\ todo[1] = k
      /\ h \in 0..mask
  BY HandBuckets DEF Layout, InHand
<1>2. /\ ht \in [1..capacity -> Slots] /\ todo \in Seq(Slots) /\ mask \in Nat
      /\ moves \in Nat /\ sz \in Nat
      /\ DOMAIN todo = 1..Len(todo)
  BY DEF Layout, TypeOK
<1>3. c \in Nat /\ c + BucketSize <= capacity /\ capacity \in Nat /\ BucketSize \in Nat \ {0}
  BY <1>1, <1>2, BucketInTable, BucketSizeAssumption DEF capacity
<1>4. Bucket(h) = (c + 1)..(c + BucketSize)
  BY DEF Bucket
<1> HIDE DEF c
<1>5. Bucket(h) \subseteq DOMAIN ht /\ c + 1 \in Bucket(h) /\ c + BucketSize \in Bucket(h)
  BY <1>2, <1>3, <1>4
<1>6. \A i \in Bucket(h) : ht[i] # Missing
  BY DEF FreeSlots
<1>7. old \in Elem /\ old # Missing
  BY <1>2, <1>5, <1>6, ElemAssumption DEF Slots
<1>8. capacity' = capacity
  BY DEF capacity
<1>9. /\ DOMAIN ht' = DOMAIN ht
      /\ \A i \in DOMAIN ht \ Bucket(h) : ht'[i] = ht[i]
      /\ \A i \in (c + 1)..(c + BucketSize - 1) : ht'[i] = ht[i + 1] /\ i + 1 \in Bucket(h)
      /\ ht'[c + BucketSize] = k
  BY <1>3, <1>4, <1>5 DEF Shifted
<1>10. \A i \in Bucket(h) : i = c + BucketSize \/ i \in (c + 1)..(c + BucketSize - 1)
  BY <1>3, <1>4
<1>11. /\ todo' \in Seq(Slots) /\ DOMAIN todo' = DOMAIN todo /\ todo'[1] = old
       /\ \A j \in DOMAIN todo \ {1} : todo'[j] = todo[j]
  <2>1. <<old>> \in Seq(Slots) /\ Len(<<old>>) = 1
    BY <1>7 DEF Slots
  <2>2. todo' = <<old>> \o Tail(todo)
    BY DEF c
  <2>3. todo' \in Seq(Slots) /\ Len(todo') = Len(todo)
    BY <2>1, <2>2, <1>1
  <2>4. todo'[1] = old
    BY <2>1, <2>2, <1>1
  <2>5. ASSUME NEW j \in DOMAIN todo \ {1} PROVE todo'[j] = todo[j]
    <3>1. todo'[j] = Tail(todo)[j - 1] /\ j - 1 \in DOMAIN Tail(todo)
      BY <2>1, <2>2, <1>1, <1>2
    <3> QED BY <3>1, <1>1, <1>2
  <2> QED BY <2>3, <2>4, <2>5, <1>2
<1> HIDE DEF old
<1>12. TypeOK'
  <2>1. ASSUME NEW i \in DOMAIN ht PROVE ht'[i] \in Slots
    BY <2>1, <1>1, <1>2, <1>5, <1>9, <1>10 DEF Slots
  <2>2. ht' \in [1..capacity' -> Slots]
    BY <2>1, <1>2, <1>8, <1>9 DEF Shifted
  <2> QED BY <2>2, <1>2, <1>11 DEF TypeOK
<1>13. PlacedRight'
  <2> SUFFICES ASSUME NEW i \in DOMAIN ht', ht'[i] # Missing
               PROVE  i \in Bucket(ht'[i] % (mask + 1)) \cup Bucket(mask - (ht'[i] % (mask + 1)))
    BY DEF PlacedRight, hash_1, hash_2, Bucket
  <2>2. CASE i \notin Bucket(h)
    BY <2>2, <1>9 DEF Layout, PlacedRight, hash_1, hash_2
  <2>3. CASE i = c + BucketSize
    BY <2>3, <1>5, <1>9 DEF hash_1, hash_2
  <2>4. CASE i \in (c + 1)..(c + BucketSize - 1)
    <3> DEFINE x == ht[i + 1]
    <3>1. i + 1 \in DOMAIN ht /\ i + 1 \in Bucket(h) /\ ht'[i] = x /\ x # Missing
      BY <2>4, <1>5, <1>6, <1>9
    <3>2. x \in Elem /\ x \in Nat
      BY <3>1, <1>2, ElemAssumption DEF Slots
    <3>3. i + 1 \in Bucket(hash_1(x)) \cup Bucket(hash_2(x))
      BY <3>1 DEF Layout, PlacedRight
    <3>4. hash_1(x) \in 0..mask /\ hash_2(x) \in 0..mask
      BY <3>2, <1>2, HashRange DEF hash_1, hash_2
    <3>5. h = hash_1(x) \/ h = hash_2(x)
      BY <3>1, <3>3, <3>4, <1>1, <1>2, BucketsApart
    <3>6. i \in Bucket(h)
      BY <2>4, <1>3, <1>4
    <3> QED BY <3>1, <3>5, <3>6 DEF hash_1, hash_2
  <2> QED BY <2>2, <2>3, <2>4, <1>10
<1>14. StoredOnce'
  \* Where the content of a slot came from.
  <2> DEFINE From(i) == IF i \in (c + 1)..(c + BucketSize - 1) THEN i + 1 ELSE i
  <2>1. ASSUME NEW i \in DOMAIN ht, i # c + BucketSize
        PROVE  From(i) \in DOMAIN ht /\ ht'[i] = ht[From(i)] /\ From(i) # c + 1
    <3>1. CASE i \in (c + 1)..(c + BucketSize - 1)
      BY <3>1, <1>3, <1>5, <1>9
    <3>2. CASE i \notin Bucket(h)
      BY <3>2, <2>1, <1>3, <1>4, <1>9, <1>10
    <3> QED BY <3>1, <3>2, <2>1, <1>10
  <2>2. ASSUME NEW i \in DOMAIN ht \ {c + BucketSize}, NEW j \in DOMAIN ht \ {c + BucketSize},
               From(i) = From(j)
        PROVE  i = j
    BY <2>2, <1>2, <1>3
  <2> HIDE DEF From
  <2>3. \A i \in DOMAIN ht : ht[i] # k
    BY <1>1 DEF Layout, StoredOnce
  <2>4. \A i, j \in DOMAIN ht' : ht'[i] = ht'[j] /\ ht'[i] # Missing => i = j
    BY <2>1, <2>2, <2>3, <1>9 DEF Layout, StoredOnce
  <2>5. \A j \in DOMAIN todo : todo[j] # old
    BY <1>5, <1>7 DEF Layout, StoredOnce, old
  <2>6. \A i, j \in DOMAIN todo' : todo'[i] = todo'[j] /\ todo'[i] # Missing => i = j
    BY <2>5, <1>7, <1>11 DEF Layout, StoredOnce
  <2>7. \A i \in DOMAIN ht \ {c + BucketSize} : ht'[i] # old
    BY <2>1, <1>5, <1>7 DEF Layout, StoredOnce, old
  <2>8. k # old
    BY <2>3, <1>5 DEF old
  <2>9. \A j \in DOMAIN todo \ {1} : todo[j] # k
    BY <1>1 DEF Layout, StoredOnce
  <2>10. \A i \in DOMAIN ht', j \in DOMAIN todo' : ht'[i] = todo'[j] => ht'[i] = Missing
    BY <2>1, <2>7, <2>8, <2>9, <1>9, <1>11 DEF Layout, StoredOnce
  <2> QED BY <2>4, <2>6, <2>10 DEF StoredOnce
<1>15. Elements' = Elements
  <2>1. ASSUME NEW x \in Elements' PROVE x \in Elements
    <3>1. CASE \E i \in DOMAIN ht' : x = ht'[i]
      BY <3>1, <2>1, <1>1, <1>5, <1>9, <1>10 DEF Elements, Stored
    <3>2. CASE \E j \in DOMAIN todo' : x = todo'[j]
      BY <3>2, <2>1, <1>5, <1>11 DEF Elements, Stored, old
    <3> QED BY <3>1, <3>2, <2>1 DEF Elements, Stored
  <2>2. ASSUME NEW x \in Elements PROVE x \in Elements'
    <3>1. CASE \E i \in DOMAIN ht : x = ht[i]
      <4>1. PICK i \in DOMAIN ht : x = ht[i]
        BY <3>1
      <4>2. CASE i \notin Bucket(h)
        BY <4>1, <4>2, <2>2, <1>9 DEF Elements, Stored
      <4>3. CASE i = c + 1
        BY <4>1, <4>3, <2>2, <1>1, <1>11 DEF Elements, Stored, old
      <4>4. CASE i \in Bucket(h) /\ i # c + 1
        <5>1. i - 1 \in (c + 1)..(c + BucketSize - 1) /\ i - 1 \in DOMAIN ht
          BY <4>4, <1>3, <1>4, <1>5
        <5>2. ht'[i - 1] = x
          BY <5>1, <4>1, <4>4, <1>3, <1>4, <1>9
        <5> QED BY <5>1, <5>2, <2>2, <1>9 DEF Elements, Stored
      <4> QED BY <4>2, <4>3, <4>4
    <3>2. CASE \E j \in DOMAIN todo : x = todo[j]
      <4>1. PICK j \in DOMAIN todo : x = todo[j]
        BY <3>2
      <4>2. CASE j = 1
        <5>1. c + BucketSize \in DOMAIN ht' /\ ht'[c + BucketSize] = x
          BY <4>1, <4>2, <1>1, <1>5, <1>9
        <5> QED BY <5>1, <2>2 DEF Elements, Stored
      <4>3. CASE j # 1
        BY <4>1, <4>3, <2>2, <1>11 DEF Elements, Stored
      <4> QED BY <4>2, <4>3
    <3> QED BY <3>1, <3>2, <2>2 DEF Elements, Stored
  <2> QED BY <2>1, <2>2
<1> QED BY <1>12, <1>13, <1>14, <1>15 DEF Layout

\* rehash: an empty table, and all slots of the old one are to be inserted.
LEMMA RehashKeeps ==
  ASSUME Layout, Rehash
  PROVE  Layout' /\ Elements' = Elements
<1>1. /\ ht \in [1..capacity -> Slots] /\ todo \in Seq(Slots) /\ mask \in Nat
      /\ moves \in Nat /\ sz \in Nat
  BY DEF Layout, TypeOK
<1>2. capacity \in Nat
  BY <1>1, BucketSizeAssumption DEF capacity
<1>3. ht \in Seq(Slots) /\ Len(ht) = capacity
  BY <1>1, <1>2
<1>4. /\ mask' \in Nat /\ moves' = 0 /\ use_hash_1' = TRUE /\ sz' = sz
      /\ ht' = EmptyTable(mask') /\ todo' = ht \o todo
  BY <1>1 DEF Rehash
<1>5. ht' = [i \in 1..capacity' |-> Missing]
  BY <1>4 DEF EmptyTable, capacity
<1>6. /\ todo' \in Seq(Slots) /\ DOMAIN todo' = 1..(capacity + Len(todo))
      /\ \A j \in 1..capacity : todo'[j] = ht[j]
      /\ \A j \in DOMAIN todo' \ (1..capacity) :
           todo'[j] = todo[j - capacity] /\ j - capacity \in DOMAIN todo
  <2>1. DOMAIN todo = 1..Len(todo) /\ Len(todo) \in Nat
    BY <1>1
  <2>2. todo' \in Seq(Slots) /\ Len(todo') = capacity + Len(todo)
    BY <1>1, <1>3, <1>4, ConcatProperties
  <2>3. DOMAIN todo' = 1..(capacity + Len(todo))
    BY <2>2
  <2>4. \A j \in 1..capacity : todo'[j] = ht[j]
    BY <2>1, <1>1, <1>2, <1>3, <1>4
  <2>5. ASSUME NEW j \in DOMAIN todo' \ (1..capacity)
        PROVE  todo'[j] = todo[j - capacity] /\ j - capacity \in DOMAIN todo
    <3>1. j \in (capacity + 1)..(capacity + Len(todo))
      BY <2>1, <2>3, <1>2
    <3>2. j - capacity \in 1..Len(todo)
      BY <3>1, <2>1, <1>2
    <3>3. todo'[j] = todo[j - capacity]
      BY <3>1, <2>1, <1>1, <1>2, <1>3, <1>4
    <3> QED BY <3>2, <3>3, <2>1
  <2> QED BY <2>2, <2>3, <2>4, <2>5
<1>7. TypeOK'
  BY <1>1, <1>4, <1>5, <1>6 DEF TypeOK, Slots
<1>8. PlacedRight'
  BY <1>5 DEF PlacedRight
<1>9. StoredOnce'
  <2>1. \A i \in DOMAIN ht' : ht'[i] = Missing
    BY <1>5
  <2> SUFFICES ASSUME NEW i \in DOMAIN todo', NEW j \in DOMAIN todo',
                      todo'[i] = todo'[j], todo'[i] # Missing
               PROVE  i = j
    BY <2>1 DEF StoredOnce
  <2>2. CASE i \in 1..capacity /\ j \in 1..capacity
    BY <2>2, <1>1, <1>6 DEF Layout, StoredOnce
  <2>3. CASE i \in 1..capacity /\ j \notin 1..capacity
    BY <2>3, <1>1, <1>6 DEF Layout, StoredOnce
  <2>4. CASE i \notin 1..capacity /\ j \in 1..capacity
    BY <2>4, <1>1, <1>6 DEF Layout, StoredOnce
  <2>5. CASE i \notin 1..capacity /\ j \notin 1..capacity
    <3>1. i - capacity = j - capacity
      BY <2>5, <1>6 DEF Layout, StoredOnce
    <3> QED BY <3>1, <1>2, <1>6
  <2> QED BY <2>2, <2>3, <2>4, <2>5
<1>10. Elements' = Elements
  <2>1. ASSUME NEW x \in Elements' PROVE x \in Elements
    <3>1. PICK j \in DOMAIN todo' : x = todo'[j]
      BY <1>5 DEF Elements, Stored
    <3>2. CASE j \in 1..capacity
      BY <3>1, <3>2, <2>1, <1>1, <1>6 DEF Elements, Stored
    <3>3. CASE j \notin 1..capacity
      BY <3>1, <3>3, <2>1, <1>6 DEF Elements, Stored
    <3> QED BY <3>2, <3>3
  <2>2. ASSUME NEW x \in Elements PROVE x \in Elements'
    <3>1. CASE \E i \in DOMAIN ht : x = ht[i]
      <4>1. PICK i \in DOMAIN ht : x = ht[i]
        BY <3>1
      <4>2. i \in DOMAIN todo' /\ todo'[i] = x
        BY <4>1, <1>1, <1>2, <1>6
      <4> QED BY <4>2, <2>2 DEF Elements, Stored
    <3>2. CASE \E j \in DOMAIN todo : x = todo[j]
      <4>1. PICK j \in DOMAIN todo : x = todo[j]
        BY <3>2
      <4> DEFINE m == capacity + j
      <4>2. m \in DOMAIN todo' \ (1..capacity) /\ m - capacity = j
        <5>1. j \in 1..Len(todo) /\ Len(todo) \in Nat
          BY <4>1, <1>1
        <5> QED BY <5>1, <1>2, <1>6
      <4> HIDE DEF m
      <4>3. todo'[m] = x
        BY <4>1, <4>2, <1>6
      <4> QED BY <4>2, <4>3, <2>2 DEF Elements, Stored
    <3> QED BY <3>1, <3>2, <2>2 DEF Elements, Stored
  <2> QED BY <2>1, <2>2
<1> QED BY <1>7, <1>8, <1>9, <1>10 DEF Layout

\* A call of insert has a new element in hand.
LEMMA InsertAdds ==
  ASSUME Layout, NEW k \in Elem, Insert(k)
  PROVE  Layout' /\ Elements' = Elements \cup {k}
<1>1. /\ todo = <<>> /\ todo' = <<k>> /\ ~ count(k)
      /\ UNCHANGED <<ht, mask, sz>> /\ moves' = 0 /\ use_hash_1' = TRUE
  BY DEF Insert, Idle
<1>2. k # Missing /\ k \in Slots
  BY ElemAssumption DEF Slots
<1>3. TypeOK' /\ PlacedRight'
  BY <1>1, <1>2 DEF Layout, TypeOK, PlacedRight, capacity, hash_1, hash_2, Bucket
<1>4. \A i \in DOMAIN ht : ht[i] # k
  BY <1>1, <1>2 DEF Layout, PlacedRight, count
<1>5. DOMAIN todo' = {1} /\ todo'[1] = k /\ DOMAIN todo = {}
  BY <1>1
<1>6. StoredOnce'
  BY <1>1, <1>4, <1>5 DEF Layout, StoredOnce
<1>7. Elements' = Elements \cup {k}
  BY <1>1, <1>2, <1>5 DEF Elements, Stored
<1> QED BY <1>3, <1>6, <1>7 DEF Layout

\* erase takes the one slot of an element.
LEMMA EraseRemoves ==
  ASSUME Layout, NEW k \in Elem, Erase(k)
  PROVE  /\ (sz \in Nat \ {0} => Layout')
         /\ Elements' = Elements \ {k}
         /\ k \in Elements
<1>1. k # Missing
  BY ElemAssumption
<1>2. PICK i : /\ i \in Bucket(hash_1(k)) \cup Bucket(hash_2(k))
               /\ ht[i] = k
               /\ ht' = [ht EXCEPT ![i] = Missing]
  BY DEF Erase, First
<1>3. /\ UNCHANGED <<mask, todo, moves, use_hash_1>> /\ sz' = sz - 1
      /\ todo = <<>>
  BY DEF Erase, Idle
<1>4. ht \in [1..capacity -> Slots] /\ mask \in Nat /\ k \in Nat
  BY ElemAssumption DEF Layout, TypeOK
<1>5. hash_1(k) \in 0..mask /\ hash_2(k) \in 0..mask
  BY <1>4, HashRange DEF hash_1, hash_2
<1>6. i \in DOMAIN ht
  BY <1>2, <1>4, <1>5, BucketInTable DEF capacity
<1>7. /\ DOMAIN ht' = DOMAIN ht /\ ht'[i] = Missing
      /\ \A j \in DOMAIN ht \ {i} : ht'[j] = ht[j]
  BY <1>2, <1>4, <1>6
<1>8. \A j \in DOMAIN ht \ {i} : ht[j] # k
  BY <1>1, <1>2, <1>6 DEF Layout, StoredOnce
<1>9. DOMAIN todo = {} /\ DOMAIN todo' = {}
  BY <1>3
<1>10. Elements' = Elements \ {k} /\ k \in Elements
  BY <1>1, <1>2, <1>6, <1>7, <1>8, <1>9 DEF Elements, Stored
<1>11. ASSUME sz \in Nat \ {0} PROVE Layout'
  <2>1. ht' \in [1..capacity' -> Slots]
    BY <1>2, <1>3, <1>4 DEF capacity, Slots
  <2>2. TypeOK'
    BY <2>1, <1>3, <1>11 DEF Layout, TypeOK
  <2>3. PlacedRight'
    BY <1>3, <1>7 DEF Layout, PlacedRight, hash_1, hash_2, Bucket
  <2>4. StoredOnce'
    BY <1>7, <1>9 DEF Layout, StoredOnce
  <2> QED BY <2>2, <2>3, <2>4 DEF Layout
<1> QED BY <1>10, <1>11

\* A new table is empty.
LEMMA EmptyKeeps ==
  ASSUME Layout, Idle, mask' \in Nat, ht' = EmptyTable(mask'),
         UNCHANGED <<sz, todo, moves, use_hash_1>>
  PROVE  Layout' /\ Elements' = {}
<1>1. ht' = [i \in 1..capacity' |-> Missing]
  BY DEF EmptyTable, capacity
<1>2. DOMAIN todo' = {} /\ todo' = todo
  BY DEF Idle
<1>3. TypeOK'
  BY <1>1, <1>2 DEF Layout, TypeOK, Slots
<1>4. PlacedRight' /\ StoredOnce' /\ Elements' = {}
  BY <1>1, <1>2 DEF PlacedRight, StoredOnce, Elements, Stored
<1> QED BY <1>3, <1>4 DEF Layout

-----------------------------------------------------------------------
(* Every step *)

IInv == Layout /\ EndInHand /\ SizeCovers

LEMMA InitHolds ==
  ASSUME Init
  PROVE  IInv /\ Elements = {}
<1>1. ht = [i \in 1..capacity |-> Missing] /\ mask = 0 /\ sz = 0 /\ todo = <<>>
  BY DEF Init, EmptyTable, capacity
<1>2. DOMAIN todo = {}
  BY <1>1
<1>3. TypeOK
  BY <1>1 DEF Init, TypeOK, Slots
<1>4. PlacedRight /\ StoredOnce /\ Elements = {}
  BY <1>1, <1>2 DEF PlacedRight, StoredOnce, Elements, Stored
<1>5. SizeCovers /\ EndInHand
  BY <1>1, <1>4, FS_EmptySet DEF SizeCovers, EndInHand, Idle
<1> QED BY <1>3, <1>4, <1>5 DEF IInv, Layout

\* An insertion ends with an element that was placed.
LEMMA EndKept ==
  ASSUME Layout, EndInHand, Inserting
  PROVE  EndInHand'
<1>1. /\ todo \in Seq(Slots) /\ todo # <<>> /\ ht \in [1..capacity -> Slots]
      /\ capacity \in Nat
  BY BucketSizeAssumption DEF Layout, TypeOK, capacity, Inserting, SkipMissing, PlaceFirst,
       PlaceSecond, Evict, Rehash, InHand, Idle
<1>2. todo[Len(todo)] # Missing /\ Len(todo) \in Nat \ {0}
  BY <1>1 DEF EndInHand, Idle
<1>3. CASE todo' = Tail(todo)
  BY <1>1, <1>2, <1>3 DEF EndInHand, Idle
<1>4. CASE \E h \in {hash_1(Head(todo)), hash_2(Head(todo))} :
             /\ InHand
             /\ FreeSlots(h) = {}
             /\ todo' = <<ht[h * BucketSize + 1]>> \o Tail(todo)
  <2>1. PICK h \in {hash_1(Head(todo)), hash_2(Head(todo))} :
          FreeSlots(h) = {} /\ todo' = <<ht[h * BucketSize + 1]>> \o Tail(todo)
    BY <1>4
  <2> DEFINE c == h * BucketSize
             old == ht[c + 1]
  <2>2. h \in 0..mask /\ mask \in Nat
    BY <1>4, HandBuckets DEF Layout, TypeOK
  <2>3. c + 1 \in Bucket(h) /\ c + 1 \in DOMAIN ht
    <3>1. c \in Nat /\ c + BucketSize <= capacity
      BY <2>2, BucketInTable DEF capacity
    <3> HIDE DEF c
    <3>2. c + 1 \in (c + 1)..(c + BucketSize) /\ c + 1 \in 1..capacity
      BY <3>1, <1>1, BucketSizeAssumption
    <3> QED BY <3>2, <1>1 DEF Bucket, c
  <2>4. old # Missing /\ old \in Slots
    BY <1>1, <2>1, <2>3 DEF FreeSlots
  <2>5. todo' = <<old>> \o Tail(todo)
    BY <2>1
  <2> HIDE DEF old
  <2>6. /\ Tail(todo) \in Seq(Slots) /\ Len(Tail(todo)) = Len(todo) - 1
        /\ \A j \in DOMAIN Tail(todo) : Tail(todo)[j] = todo[j + 1]
    BY <1>4, HandBuckets DEF Layout
  <2>7. <<old>> \in Seq(Slots) /\ Len(<<old>>) = 1 /\ <<old>>[1] = old
    BY <2>4
  <2>8. Len(todo') = Len(todo)
    BY <1>2, <2>5, <2>6, <2>7, ConcatProperties
  <2>9. todo'[Len(todo)] = IF Len(todo) = 1 THEN old ELSE Tail(todo)[Len(todo) - 1]
    BY <1>2, <2>5, <2>6, <2>7, ConcatProperties
  <2>10. Len(todo) # 1 => Tail(todo)[Len(todo) - 1] = todo[Len(todo)]
    BY <1>1, <1>2, <2>6
  <2> QED BY <1>2, <2>4, <2>8, <2>9, <2>10 DEF EndInHand
<1>5. CASE Rehash
  <2>1. ht \in Seq(Slots) /\ Len(ht) = capacity /\ todo' = ht \o todo
    BY <1>1, <1>5 DEF Rehash
  <2>2. Len(todo') = capacity + Len(todo)
    BY <1>1, <2>1, ConcatProperties
  <2> DEFINE e == capacity + Len(todo)
  <2>3. e \in 1..(capacity + Len(todo)) /\ ~ (e <= capacity) /\ e - capacity = Len(todo)
    BY <1>1, <1>2
  <2> HIDE DEF e
  <2>4. todo'[e] = todo[e - capacity]
    BY <1>1, <2>1, <2>3, ConcatProperties
  <2> QED BY <1>2, <2>2, <2>3, <2>4 DEF EndInHand, e
<1>6. CASE Evict
  <2> DEFINE h == IF use_hash_1 THEN hash_1(Head(todo)) ELSE hash_2(Head(todo))
  <2>1. h \in {hash_1(Head(todo)), hash_2(Head(todo))} /\ InHand
    BY <1>6 DEF Evict
  <2>2. CASE FreeSlots(h) # {}
    BY <1>3, <1>6, <2>2 DEF Evict, Placed
  <2>3. CASE FreeSlots(h) = {}
    BY <1>4, <1>6, <2>1, <2>3 DEF Evict
  <2> QED BY <2>2, <2>3
<1>7. CASE SkipMissing \/ PlaceFirst \/ PlaceSecond
  BY <1>3, <1>7 DEF SkipMissing, PlaceFirst, PlaceSecond, Placed
<1> QED BY <1>5, <1>6, <1>7 DEF Inserting

\* The steps of an insertion leave the set alone.
LEMMA InsertingKeeps ==
  ASSUME IInv, Inserting
  PROVE  IInv' /\ Elements' = Elements
<1> USE DEF IInv
<1>1. mask \in Nat /\ sz \in Nat /\ todo \in Seq(Slots) /\ ht \in [1..capacity -> Slots]
  BY DEF Layout, TypeOK
<1>2. ASSUME NEW h \in {hash_1(Head(todo)), hash_2(Head(todo))}, InHand,
             \E i \in First(FreeSlots(h)) : Placed(i)
      PROVE  Layout' /\ Elements' = Elements
  <2>1. PICK i : i \in Bucket(h) /\ ht[i] = Missing /\ Placed(i)
    BY <1>2 DEF First, FreeSlots
  <2>2. h \in 0..mask
    BY <1>2, HandBuckets DEF Layout
  <2>3. i \in DOMAIN ht
    BY <1>1, <2>1, <2>2, BucketInTable DEF capacity
  <2> QED BY <1>2, <2>1, <2>3, PlacedKeeps
<1>3. ASSUME SkipMissing PROVE Layout' /\ Elements' = Elements
  BY <1>3, SkipKeeps
<1>4. ASSUME PlaceFirst PROVE Layout' /\ Elements' = Elements
  BY <1>2, <1>4 DEF PlaceFirst
<1>5. ASSUME PlaceSecond PROVE Layout' /\ Elements' = Elements
  BY <1>2, <1>5 DEF PlaceSecond
<1>6. ASSUME Evict PROVE Layout' /\ Elements' = Elements
  <2> DEFINE h == IF use_hash_1 THEN hash_1(Head(todo)) ELSE hash_2(Head(todo))
  <2>1. h \in {hash_1(Head(todo)), hash_2(Head(todo))} /\ InHand
    BY <1>6 DEF Evict
  <2>2. CASE FreeSlots(h) # {}
    BY <1>2, <1>6, <2>1, <2>2 DEF Evict
  <2>3. CASE FreeSlots(h) = {}
    <3>1. /\ ht' = Shifted(h, Head(todo))
          /\ todo' = <<ht[h * BucketSize + 1]>> \o Tail(todo)
          /\ use_hash_1' \in BOOLEAN /\ moves' = moves + 1
          /\ UNCHANGED <<mask, sz>>
      BY <1>6, <2>3 DEF Evict
    <3> HIDE DEF h
    <3> QED BY <2>1, <2>3, <3>1, ShiftKeeps
  <2> QED BY <2>2, <2>3
<1>7. ASSUME Rehash PROVE Layout' /\ Elements' = Elements
  BY <1>7, RehashKeeps
<1>8. Layout' /\ Elements' = Elements
  BY <1>3, <1>4, <1>5, <1>6, <1>7 DEF Inserting
\* sz changes when the last element in hand is placed.
<1>9. sz' \in Nat /\ sz' >= sz /\ (Idle' => sz' >= sz + 1)
  <2>1. sz' \in Nat
    BY <1>8 DEF Layout, TypeOK
  <2>2. CASE \E i : InHand /\ Placed(i)
    <3>1. Len(todo) \in Nat \ {0} /\ Len(Tail(todo)) = Len(todo) - 1 /\ todo' = Tail(todo)
      BY <2>2, <1>1 DEF InHand, Idle, Placed
    <3>2. CASE Len(todo) = 1
      BY <2>2, <3>2, <1>1, <2>1 DEF Placed
    <3>3. CASE Len(todo) # 1
      <4>1. Len(todo') # 0
        BY <3>1, <3>3
      <4>2. ~ Idle'
        BY <4>1 DEF Idle
      <4> QED BY <2>2, <3>3, <4>2, <1>1 DEF Placed
    <3> QED BY <3>2, <3>3
  <2>4. CASE SkipMissing
    <3>1. todo' = Tail(todo) /\ Head(todo) = Missing /\ ~ Idle /\ sz' = sz
      BY <2>4 DEF SkipMissing
    <3>2. Len(todo) # 1
      BY <3>1, <1>1 DEF EndInHand, Idle
    <3>3. Len(todo') # 0
      BY <3>1, <3>2, <1>1 DEF Idle
    <3>4. ~ Idle'
      BY <3>3 DEF Idle
    <3> QED BY <3>1, <3>4, <1>1
  <2>5. CASE Evict /\ ~ \E i : Placed(i)
    <3>1. Len(todo) \in Nat \ {0} /\ Tail(todo) \in Seq(Slots)
      BY <2>5, HandBuckets DEF Layout, Evict
    <3>2. PICK x : todo' = <<x>> \o Tail(todo) /\ sz' = sz
      BY <2>5 DEF Evict
    <3>3. ~ Idle'
      BY <3>1, <3>2 DEF Idle
    <3> QED BY <3>2, <3>3, <1>1
  <2>6. CASE Rehash
    <3>1. todo # <<>> /\ sz' = sz /\ todo' = ht \o todo
      BY <2>6 DEF Rehash, InHand, Idle
    <3>2. capacity \in Nat
      BY <1>1, BucketSizeAssumption DEF capacity
    <3>3. ht \in Seq(Slots) /\ Len(todo) \in Nat \ {0} /\ Len(ht) \in Nat
      BY <1>1, <3>1, <3>2
    <3>4. Len(todo') # 0
      BY <1>1, <3>1, <3>3, ConcatProperties
    <3> QED BY <3>1, <3>4, <1>1 DEF Idle
  <2>7. InHand /\ (PlaceFirst \/ PlaceSecond) => \E i : Placed(i)
    BY DEF PlaceFirst, PlaceSecond, First
  <2> QED BY <2>2, <2>4, <2>5, <2>6, <2>7 DEF Inserting, PlaceFirst, PlaceSecond, Evict
<1>10. SizeCovers'
  <2>1. ~ Idle
    BY DEF Inserting, SkipMissing, PlaceFirst, PlaceSecond, Evict, Rehash, InHand
  <2>2. Cardinality(Elements) \in Nat
    BY FS_CardinalityType DEF SizeCovers
  <2>3. sz + 1 >= Cardinality(Elements) /\ IsFiniteSet(Elements')
    BY <1>8, <2>1 DEF SizeCovers
  <2>4. Cardinality(Elements') = Cardinality(Elements)
    BY <1>8
  <2>5. Cardinality(Elements') <= sz' + 1 /\ (Idle' => Cardinality(Elements') <= sz')
    BY <1>1, <1>9, <2>2, <2>3, <2>4
  <2> QED BY <2>3, <2>5 DEF SizeCovers
<1>11. EndInHand'
  BY EndKept
<1> QED BY <1>8, <1>10, <1>11

\* What each step does to the set.
LEMMA StepKeeps ==
  ASSUME IInv, [Next]_vars
  PROVE  /\ IInv'
         /\ \/ UNCHANGED <<Elements, ~ Idle>>
            \/ ~ Idle /\ Idle' /\ UNCHANGED Elements
            \/ \E k \in Elem :
                 Idle /\ ~ Idle' /\ Elements' = Elements \cup {k}
            \/ \E k \in Elem :
                 Idle /\ Idle' /\ k \in Elements /\ Elements' = Elements \ {k}
            \/ Idle /\ Idle' /\ Elements' = {}
<1> USE DEF IInv
<1>1. mask \in Nat /\ sz \in Nat
  BY DEF Layout, TypeOK
<1>2. IsFiniteSet(Elements) /\ Cardinality(Elements) \in Nat
  BY FS_CardinalityType DEF SizeCovers
<1>3. ASSUME NEW k \in Elem, Insert(k)
      PROVE  IInv' /\ Idle /\ ~ Idle' /\ Elements' = Elements \cup {k}
  <2>1. Layout' /\ Elements' = Elements \cup {k} /\ Idle /\ todo' = <<k>> /\ sz' = sz
    BY <1>3, InsertAdds DEF Insert
  <2>2. /\ IsFiniteSet(Elements \cup {k})
        /\ Cardinality(Elements \cup {k}) <= Cardinality(Elements) + 1
        /\ Cardinality(Elements \cup {k}) \in Nat
    BY <1>2, FS_AddElement, FS_CardinalityType
  <2>3. ~ Idle' /\ EndInHand'
    BY <2>1, ElemAssumption DEF Idle, EndInHand
  <2>4. SizeCovers'
    BY <1>1, <1>2, <2>1, <2>2, <2>3 DEF SizeCovers
  <2> QED BY <2>1, <2>3, <2>4
<1>4. ASSUME NEW k \in Elem, Erase(k)
      PROVE  IInv' /\ Idle /\ Idle' /\ k \in Elements /\ Elements' = Elements \ {k}
  <2>1. Elements' = Elements \ {k} /\ k \in Elements /\ (sz \in Nat \ {0} => Layout')
    BY <1>4, EraseRemoves
  <2>2. Idle /\ Idle' /\ sz' = sz - 1
    BY <1>4 DEF Erase, Idle
  <2>3. IsFiniteSet(Elements \ {k}) /\ Cardinality(Elements \ {k}) = Cardinality(Elements) - 1
    BY <1>2, <2>1, FS_RemoveElement
  <2>4. Cardinality(Elements) # 0
    BY <1>2, <2>1, FS_EmptySet
  <2>5. sz \in Nat \ {0}
    BY <1>1, <1>2, <2>2, <2>4 DEF SizeCovers
  <2>6. SizeCovers' /\ EndInHand'
    BY <1>1, <1>2, <2>1, <2>2, <2>3 DEF SizeCovers, EndInHand
  <2> QED BY <2>1, <2>2, <2>5, <2>6
<1>5. ASSUME Idle, mask' \in Nat, ht' = EmptyTable(mask'),
             UNCHANGED <<sz, todo, moves, use_hash_1>>
      PROVE  IInv' /\ Idle' /\ Elements' = {}
  <2>1. Layout' /\ Elements' = {}
    BY <1>5, EmptyKeeps
  <2>2. SizeCovers' /\ EndInHand'
    BY <1>1, <1>5, <2>1, FS_EmptySet DEF SizeCovers, EndInHand, Idle
  <2> QED BY <1>5, <2>1, <2>2 DEF Idle
<1>6. CASE \E k \in Elem : Insert(k)
  BY <1>3, <1>6
<1>7. CASE \E k \in Elem : Erase(k)
  BY <1>4, <1>7
<1>8. CASE Inserting
  <2>1. ~ Idle
    BY <1>8 DEF Inserting, SkipMissing, PlaceFirst, PlaceSecond, Evict, Rehash, InHand
  <2> QED BY <1>8, <2>1, InsertingKeeps
<1>9. CASE clear
  BY <1>1, <1>5, <1>9 DEF clear
<1>10. ASSUME NEW n \in Reservations, reserve(n)
       PROVE  IInv' /\ Idle /\ Idle' /\ Elements' = {}
  <2>1. PICK m \in (mask + 1)..(mask + 1 + 2 * n) : mask' = m - 1 /\ ht' = EmptyTable(m - 1)
    BY <1>10 DEF reserve
  <2>2. n \in Nat
    BY ReservationsAssumption
  <2>3. mask' \in Nat
    BY <1>1, <2>1, <2>2
  <2> QED BY <1>5, <1>10, <2>1, <2>3 DEF reserve
<1>11. CASE UNCHANGED vars
  BY <1>11 DEF vars, Layout, TypeOK, PlacedRight, StoredOnce, EndInHand, SizeCovers, Elements,
       Stored, Idle, capacity, hash_1, hash_2, Bucket
<1> QED BY <1>6, <1>7, <1>8, <1>9, <1>10, <1>11 DEF Next
-----------------------------------------------------------------------
\* Whatever the elements have in common: the table, the slots that are to be
\* inserted and sz are well formed, and no element is stored twice.
THEOREM CuckooStoredOnce == Spec => [](TypeOK /\ StoredOnce)
<1>1. IInv => TypeOK /\ StoredOnce
  BY DEF IInv, Layout
<1>2. Init => IInv
  BY InitHolds
<1>3. IInv /\ [Next]_vars => IInv'
  BY StepKeeps
<1> QED BY <1>1, <1>2, <1>3, PTL DEF Spec

\* Between calls, count answers for every element whether it is in the set.
THEOREM CuckooCountExact == Spec => []CountExact
<1>1. ASSUME IInv PROVE CountExact
  <2> SUFFICES ASSUME Idle, NEW k \in Elem PROVE count(k) <=> k \in Stored
    BY DEF CountExact
  <2>1. k \in Nat /\ k # Missing /\ mask \in Nat /\ DOMAIN ht = 1..capacity
    BY <1>1, ElemAssumption DEF IInv, Layout, TypeOK
  <2>2. hash_1(k) \in 0..mask /\ hash_2(k) \in 0..mask
    BY <2>1, HashRange DEF hash_1, hash_2
  <2>3. Bucket(hash_1(k)) \cup Bucket(hash_2(k)) \subseteq DOMAIN ht
    BY <2>1, <2>2, BucketInTable DEF capacity
  <2>4. DOMAIN todo = {}
    BY DEF Idle
  <2>5. ASSUME count(k) PROVE k \in Stored
    BY <2>3, <2>5 DEF count, Stored
  <2>6. ASSUME k \in Stored PROVE count(k)
    BY <1>1, <2>1, <2>4, <2>6 DEF count, Stored, IInv, Layout, PlacedRight
  <2> QED BY <2>5, <2>6
<1>2. Init => IInv
  BY InitHolds
<1>3. IInv /\ [Next]_vars => IInv'
  BY StepKeeps
<1> QED BY <1>1, <1>2, <1>3, PTL DEF Spec

\* cuckoo_hash_set implements a set: an insertion adds its element with its
\* call and all its evictions and rehashes change nothing, erase takes one
\* element out, clear and reserve take all.
THEOREM CuckooIsASet == Spec => ImplementsSet
<1>1. Init => Set!Init
  BY InitHolds DEF Set!Init, Elements, Init, Idle
<1>2. IInv /\ [Next]_vars => [Set!Next]_<<Stored \ {Missing}, ~ Idle>>
  BY StepKeeps
     DEF Set!Next, Set!Insert, Set!Return, Set!Erase, Set!Empty, Elements
<1>3. Init => IInv
  BY InitHolds
<1>4. IInv /\ [Next]_vars => IInv'
  BY StepKeeps
<1> QED BY <1>1, <1>2, <1>3, <1>4, PTL DEF Spec, ImplementsSet, Set!Spec
------------------------------------------------------------------------
\* The two buckets of the elements whose first is a.
Pair(a) == Bucket(a) \cup Bucket(mask - a)

\* What rehash has put there or will put there, but for the element with
\* which insert called it.
Due(a) ==
  {x \in Elem : /\ hash_1(x) \in {a, mask - a}
                /\ \/ \E i \in DOMAIN ht : ht[i] = x
                   \/ \E j \in DOMAIN todo : j < Len(todo) /\ todo[j] = x}

\* While rehash runs all of it fits, for each pair of buckets.
RehashFits ==
  Len(todo) > 1 =>
    /\ moves = 0
    /\ \E n \in Nat : mask = 2 * n + 1
    /\ \A a \in 0..mask : Cardinality(Due(a)) <= 2 * BucketSize

\* The buckets of an element have no slot in common when there are two.
LEMMA PairSize ==
  ASSUME NEW m \in Nat, NEW a \in 0..m
  PROVE  LET P == Bucket(a) \cup Bucket(m - a)
         IN  /\ IsFiniteSet(P) /\ Cardinality(P) <= 2 * BucketSize
             /\ a # m - a => Cardinality(P) = 2 * BucketSize
<1>1. \A h \in Nat : IsFiniteSet(Bucket(h)) /\ Cardinality(Bucket(h)) = BucketSize
  <2>1. SUFFICES ASSUME NEW h \in Nat
                 PROVE  IsFiniteSet(Bucket(h)) /\ Cardinality(Bucket(h)) = BucketSize
    OBVIOUS
  <2>2. h * BucketSize \in Nat /\ BucketSize \in Nat \ {0}
    BY BucketSizeAssumption
  <2> DEFINE s == h * BucketSize + 1
             e == h * BucketSize + BucketSize
  <2>3. s \in Int /\ e \in Int /\ ~ (s > e) /\ e - s + 1 = BucketSize
    BY <2>2
  <2>4. Bucket(h) = s..e
    BY DEF Bucket
  <2> HIDE DEF s, e
  <2>5. QED  BY <2>3, <2>4, FS_Interval
<1>2. a \in Nat /\ m - a \in Nat
  OBVIOUS
<1> DEFINE A == Bucket(a)
           B == Bucket(m - a)
<1>3. IsFiniteSet(A) /\ IsFiniteSet(B) /\ Cardinality(A) = BucketSize /\ Cardinality(B) = BucketSize
  BY <1>1, <1>2
<1>4. a # m - a => A \cap B = {}
  BY <1>2, BucketsApart
<1> HIDE DEF A, B
<1>5. /\ IsFiniteSet(A \cup B) /\ IsFiniteSet(A \cap B)
      /\ Cardinality(A \cup B) = Cardinality(A) + Cardinality(B) - Cardinality(A \cap B)
  BY <1>3, FS_Union, FS_Intersection
<1>6. Cardinality(A \cap B) \in Nat /\ (A \cap B = {} => Cardinality(A \cap B) = 0)
  BY <1>5, FS_CardinalityType, FS_EmptySet
<1>7. QED  BY <1>3, <1>4, <1>5, <1>6, BucketSizeAssumption DEF A, B

\* What is due is among the elements that the set holds.
LEMMA DueFinite == ASSUME IInv, NEW a PROVE IsFiniteSet(Due(a))
<1>1. Due(a) \subseteq Elements
  BY ElemAssumption DEF Due, Elements, Stored
<1>2. QED  BY <1>1, FS_Subset DEF IInv, SizeCovers

\* The element in hand is due, and has a free slot: the elements in its
\* buckets are all due, and different.
LEMMA RoomLeft == IInv /\ RehashFits => NoNestedRehash
<1> SUFFICES ASSUME IInv, RehashFits, Len(todo) > 1, InHand,
                    FreeSlots(hash_1(Head(todo))) \cup FreeSlots(hash_2(Head(todo))) = {}
             PROVE  FALSE
  BY DEF NoNestedRehash, RehashFits
<1>p. PICK k, a : k = Head(todo) /\ a = hash_1(k)
  OBVIOUS
<1>1. /\ TypeOK /\ PlacedRight /\ StoredOnce
      /\ mask \in Nat /\ DOMAIN ht = 1..capacity /\ ht \in [1..capacity -> Slots]
  BY DEF IInv, Layout, TypeOK
<1>2. /\ k \in Elem /\ a \in 0..mask /\ mask - a \in 0..mask
      /\ 1 \in DOMAIN todo /\ todo[1] = k
  BY <1>p, <1>1, HandBuckets
<1>3. hash_2(k) = mask - a
  BY <1>p DEF hash_1, hash_2
<1>4. Pair(a) \subseteq DOMAIN ht
  BY <1>1, <1>2, BucketInTable DEF Pair, capacity
<1>5. \A i \in Pair(a) : ht[i] # Missing
  BY <1>p, <1>3 DEF FreeSlots, Pair
<1>6. k \in Due(a)
  BY <1>p, <1>2 DEF Due
<1>7. ASSUME NEW i \in Pair(a) PROVE ht[i] \in Due(a) \ {k}
  <2>1. i \in DOMAIN ht /\ ht[i] \in Elem /\ ht[i] # Missing
    BY <1>1, <1>4, <1>5 DEF Slots
  <2>2. ht[i] # k
    BY <1>1, <1>2, <2>1 DEF StoredOnce
  <2> DEFINE h == hash_1(ht[i])
  <2>3. h \in 0..mask /\ hash_2(ht[i]) = mask - h
    BY <1>1, <2>1, ElemAssumption, HashRange DEF hash_1, hash_2
  <2>4. i \in Bucket(h) \cup Bucket(mask - h)
    BY <1>1, <2>1, <2>3 DEF PlacedRight
  <2>5. h \in {a, mask - a}
    <3> HIDE DEF h
    <3>1. \E g \in {a, mask - a} : i \in Bucket(g) /\ g \in Nat
      BY <1>2 DEF Pair
    <3>2. \E g \in {h, mask - h} : i \in Bucket(g) /\ g \in Nat
      BY <1>1, <2>3, <2>4
    <3>3. PICK g \in {a, mask - a} : g \in {h, mask - h}
      BY <3>1, <3>2, BucketsApart
    <3>4. QED  BY <1>1, <1>2, <2>3, <3>3
  <2>6. QED  BY <2>1, <2>2, <2>5 DEF Due
<1>8. Cardinality(Pair(a)) = 2 * BucketSize /\ IsFiniteSet(Pair(a))
  <2>1. PICK n \in Nat : mask = 2 * n + 1
    BY DEF RehashFits
  <2>2. a # mask - a
    BY <1>2, <2>1
  <2>3. QED  BY <1>1, <1>2, <2>2, PairSize DEF Pair
<1>9. /\ IsFiniteSet(Due(a) \ {k})
      /\ Cardinality(Due(a) \ {k}) < Cardinality(Pair(a))
  <2>1. IsFiniteSet(Due(a)) /\ Cardinality(Due(a)) \in Nat
    BY DueFinite, FS_CardinalityType
  <2>2. IsFiniteSet(Due(a) \ {k}) /\ Cardinality(Due(a) \ {k}) = Cardinality(Due(a)) - 1
    BY <1>6, <2>1, FS_RemoveElement
  <2>3. Cardinality(Due(a)) <= 2 * BucketSize
    BY <1>2 DEF RehashFits
  <2>4. QED  BY <1>8, <2>1, <2>2, <2>3, BucketSizeAssumption
<1> DEFINE f == [i \in Pair(a) |-> ht[i]]
<1>10. f \in [Pair(a) -> Due(a) \ {k}]
  BY <1>7
<1>11. PICK i, j \in Pair(a) : i # j /\ f[i] = f[j]
  <2> HIDE DEF f
  <2>1. QED  BY <1>8, <1>9, <1>10, FS_PigeonHole
<1>12. QED  BY <1>1, <1>4, <1>5, <1>11 DEF StoredOnce

\* The first hash under twice the mask is the old one or a whole table on.
LEMMA Doubled ==
  ASSUME NEW k \in Nat, NEW M \in Nat \ {0}
  PROVE  k % (2 * M) \in {k % M, (k % M) + M}
<1>1. PICK q \in Nat, r \in 0..(2 * M - 1) : r = k % (2 * M) /\ k = (2 * M) * q + r
  <2> DEFINE N == 2 * M
  <2>1. N \in Nat \ {0}
    OBVIOUS
  <2> HIDE DEF N
  <2>2. k \div N \in Nat /\ k % N \in 0..(N - 1) /\ k = N * (k \div N) + (k % N)
    BY <2>1
  <2>3. QED  BY <2>2 DEF N
<1>2. PICK p \in Nat, s \in 0..(M - 1) : s = k % M /\ k = M * p + s
  <2>1. k \div M \in Nat /\ k % M \in 0..(M - 1) /\ k = M * (k \div M) + (k % M)
    OBVIOUS
  <2>2. QED  BY <2>1
<1>3. PICK d \in Int : d = p - 2 * q
  OBVIOUS
<1>4. M * d = r - s
  <2>1. M * d = M * p - M * (2 * q)
    BY <1>3
  <2>2. (2 * M) * q = M * (2 * q)
    OBVIOUS
  <2> DEFINE x == M * p
             y == (2 * M) * q
             z == M * d
  <2>3. z = x - y
    BY <2>1, <2>2
  <2>4. x \in Int /\ y \in Int
    OBVIOUS
  <2>5. k = y + r
    BY <1>1
  <2>6. k = x + s
    BY <1>2
  <2>7. r \in Int /\ s \in Int
    OBVIOUS
  <2> HIDE DEF x, y, z
  <2>8. z = r - s
    BY <2>3, <2>4, <2>5, <2>6, <2>7
  <2>9. QED  BY <2>8 DEF z
<1>5. d \in {0, 1}
  <2>1. CASE d <= -1
    <3>1. M * d <= - M
      BY <2>1
    <3>2. QED  BY <1>4, <3>1
  <2>2. CASE d >= 2
    <3>1. M * d >= 2 * M
      BY <2>2
    <3>2. QED  BY <1>4, <3>1
  <2>3. QED  BY <2>1, <2>2
<1>6. M * d \in {0, M}
  BY <1>5
<1>7. r = s \/ r = s + M
  <2> DEFINE x == M * d
  <2>1. x = r - s /\ x \in {0, M}
    BY <1>4, <1>6
  <2> HIDE DEF x
  <2>2. QED  BY <1>1, <1>2, <2>1
<1>8. QED  BY <1>1, <1>2, <1>7

\* A slot of the old table is inserted or skipped, and less is due.
LEMMA FitsOn ==
  ASSUME IInv, RehashFits, Len(todo) > 1, todo' = Tail(todo), mask' = mask, moves' = 0,
         \A i \in DOMAIN ht' : \/ ht'[i] \in {Missing, Head(todo)}
                               \/ \E j \in DOMAIN ht : ht[j] = ht'[i]
  PROVE  RehashFits'
<1>1. todo \in Seq(Slots) /\ mask \in Nat
  BY DEF IInv, Layout, TypeOK
<1>2. /\ Len(todo) \in Nat /\ DOMAIN todo = 1..Len(todo) /\ Head(todo) = todo[1]
      /\ DOMAIN todo' = 1..(Len(todo) - 1) /\ Len(todo') = Len(todo) - 1
      /\ \A j \in DOMAIN todo' : todo'[j] = todo[j + 1]
  BY <1>1
<1>3. ASSUME NEW a PROVE Due(a)' \subseteq Due(a)
  <2>1. SUFFICES ASSUME NEW x \in Elem, hash_1(x) \in {a, mask - a},
                        \/ \E i \in DOMAIN ht' : ht'[i] = x
                        \/ \E j \in DOMAIN todo' : j < Len(todo') /\ todo'[j] = x
                 PROVE  x \in Due(a)
    BY DEF Due, hash_1
  <2>2. CASE \E i \in DOMAIN ht' : ht'[i] = x
    <3>1. x = Head(todo) \/ \E j \in DOMAIN ht : ht[j] = x
      BY <2>2, ElemAssumption
    <3>2. 1 \in DOMAIN todo /\ 1 < Len(todo)
      BY <1>2
    <3>3. QED  BY <1>2, <2>1, <3>1, <3>2 DEF Due
  <2>3. CASE \E j \in DOMAIN todo' : j < Len(todo') /\ todo'[j] = x
    <3>1. PICK j \in DOMAIN todo' : j < Len(todo') /\ todo'[j] = x
      BY <2>3
    <3>2. j + 1 \in DOMAIN todo /\ j + 1 < Len(todo) /\ todo[j + 1] = x
      BY <1>2, <3>1
    <3>3. QED  BY <2>1, <3>2 DEF Due
  <2>4. QED  BY <2>1, <2>2, <2>3
<1>4. ASSUME NEW a \in 0..mask PROVE Cardinality(Due(a)') <= 2 * BucketSize
  <2>1. IsFiniteSet(Due(a)) /\ Cardinality(Due(a)) <= 2 * BucketSize
    BY <1>4, DueFinite DEF RehashFits
  <2>2. /\ IsFiniteSet(Due(a)') /\ Cardinality(Due(a)') <= Cardinality(Due(a))
    BY <1>3, <2>1, FS_Subset
  <2>3. Cardinality(Due(a)) \in Nat /\ Cardinality(Due(a)') \in Nat
    BY <2>1, <2>2, FS_CardinalityType
  <2>4. QED  BY <2>1, <2>2, <2>3, BucketSizeAssumption
<1>5. QED  BY <1>4 DEF RehashFits

\* The elements of two buckets of the new table come from two of the old.
LEMMA FitsAnew ==
  ASSUME IInv, Rehash, Len(todo) = 1
  PROVE  RehashFits'
<1> DEFINE M == mask + 1
<1>1. /\ PlacedRight /\ mask \in Nat /\ DOMAIN ht = 1..capacity
      /\ ht \in [1..capacity -> Slots] /\ todo \in Seq(Slots)
      /\ capacity \in Nat
  <2>1. mask \in Nat
    BY DEF IInv, Layout, TypeOK
  <2>2. capacity \in Nat
    BY <2>1, BucketSizeAssumption DEF capacity
  <2>3. QED  BY <2>1, <2>2 DEF IInv, Layout, TypeOK
<1>2. /\ mask' = 2 * mask + 1 /\ moves' = 0 /\ todo' = ht \o todo
      /\ ht' = EmptyTable(mask')
  BY <1>1 DEF Rehash
<1>3. \A i \in DOMAIN ht' : ht'[i] = Missing
  BY <1>2 DEF EmptyTable
<1>4. ASSUME NEW j \in DOMAIN todo', j < Len(todo')
      PROVE  j \in DOMAIN ht /\ todo'[j] = ht[j]
  <2>1. ht \in Seq(Slots) /\ Len(ht) = capacity
    BY <1>1
  <2>2. todo' \in Seq(Slots) /\ Len(todo') = Len(ht) + Len(todo)
    BY <1>1, <1>2, <2>1, ConcatProperties
  <2>3. j \in 1..capacity
    <3>1. Len(todo') = capacity + 1
      BY <2>1, <2>2
    <3>2. DOMAIN todo' = 1..Len(todo')
      BY <2>2
    <3>3. QED  BY <1>1, <1>4, <3>1, <3>2
  <2>4. QED  BY <1>1, <1>2, <2>1, <2>3
<1>5. ASSUME NEW a \in 0..mask' PROVE Cardinality(Due(a)') <= 2 * BucketSize
  <2> DEFINE b == IF a < M THEN a ELSE a - M
             P == Bucket(b) \cup Bucket(mask - b)
             T == Due(a)'
             S == {j \in P : j \in DOMAIN ht /\ ht[j] \in T}
             f == [j \in S |-> ht[j]]
  <2>1. b \in 0..mask /\ mask - b \in 0..mask
    BY <1>1, <1>2, <1>5
  <2>2. ASSUME NEW x \in T PROVE \E j \in S : f[j] = x
    <3>1. x \in Elem /\ x \in Nat /\ x # Missing
      BY <2>2, ElemAssumption DEF Due
    <3>2. x % (2 * M) \in {a, mask' - a}
      <4>1. hash_1(x)' = x % (mask' + 1)
        BY DEF hash_1
      <4>2. mask' + 1 = 2 * M
        BY <1>1, <1>2
      <4>3. hash_1(x)' \in {a, mask' - a}
        BY <2>2 DEF Due
      <4>4. QED  BY <4>1, <4>2, <4>3
    <3>3. PICK j \in DOMAIN ht : ht[j] = x
      BY <1>3, <1>4, <2>2, <3>1 DEF Due
    <3>4. x % M \in {b, mask - b}
      <4> DEFINE r == x % M
                 s == x % (2 * M)
      <4>1. r \in 0..mask
        BY <1>1, <3>1, HashRange
      <4>2. s \in {r, r + M}
        <5>1. M \in Nat \ {0}
          BY <1>1
        <5> HIDE DEF M
        <5>2. QED  BY <3>1, <5>1, Doubled
      <4>3. s \in {a, mask' - a}
        BY <3>2
      <4> HIDE DEF r, s
      <4>4. r \in {b, mask - b}
        BY <1>1, <1>2, <1>5, <4>1, <4>2, <4>3
      <4>5. QED  BY <4>4 DEF r
    <3>5. hash_1(x) \in {b, mask - b} /\ hash_2(x) = mask - hash_1(x)
      BY <3>4 DEF hash_1, hash_2
    <3>6. j \in Bucket(hash_1(x)) \cup Bucket(hash_2(x))
      BY <1>1, <3>1, <3>3 DEF PlacedRight
    <3>7. mask - (mask - b) = b
      BY <1>1, <2>1
    <3> HIDE DEF b
    <3>8. j \in P
      BY <3>5, <3>6, <3>7
    <3>9. QED  BY <2>2, <3>3, <3>8
  <2>3. IsFiniteSet(P) /\ Cardinality(P) <= 2 * BucketSize
    BY <1>1, <2>1, PairSize
  <2>4. f \in Surjection(S, T)
    <3> HIDE DEF T, P
    <3>1. f \in [S -> T]
      OBVIOUS
    <3>2. QED  BY <2>2, <3>1 DEF Surjection
  <2> HIDE DEF f, T, P
  <2>5. IsFiniteSet(S) /\ Cardinality(S) <= Cardinality(P)
    BY <2>3, FS_Subset
  <2> HIDE DEF S
  <2>6. IsFiniteSet(T) /\ Cardinality(T) <= Cardinality(S)
    BY <2>4, <2>5, FS_Surjection
  <2>7. Cardinality(P) \in Nat /\ Cardinality(S) \in Nat /\ Cardinality(T) \in Nat
    BY <2>3, <2>5, <2>6, FS_CardinalityType
  <2>8. Cardinality(T) <= 2 * BucketSize
    BY <2>3, <2>5, <2>6, <2>7, BucketSizeAssumption
  <2>9. QED  BY <2>8 DEF T
<1>6. QED  BY <1>1, <1>2, <1>5 DEF RehashFits

\* Every step keeps the bound: an eviction or a rehash is never due before the
\* last element, the one with which insert called rehash.
LEMMA FitsKept == IInv /\ RehashFits /\ [Next]_vars => RehashFits'
<1> SUFFICES ASSUME IInv, RehashFits, [Next]_vars PROVE RehashFits'
  OBVIOUS
<1>1. /\ todo \in Seq(Slots) /\ Len(todo) \in Nat /\ (Len(todo) = 0 <=> Idle)
      /\ mask \in Nat /\ ht \in [1..capacity -> Slots]
  BY DEF IInv, Layout, TypeOK, Idle
<1>2. ASSUME Idle, todo' = todo \/ \E k : todo' = <<k>> PROVE RehashFits'
  <2>1. CASE todo' = todo
    BY <1>1, <1>2, <2>1 DEF RehashFits
  <2>2. CASE \E k : todo' = <<k>>
    <3>1. Len(todo') = 1
      BY <2>2
    <3>2. QED  BY <3>1 DEF RehashFits
  <2>3. QED  BY <1>2, <2>1, <2>2
<1>3. CASE Inserting /\ Len(todo) > 1
  <2>1. InHand => moves = 0 /\ ~ NoRoom
    BY <1>3, RoomLeft DEF NoNestedRehash, NoRoom
  <2>2. CASE SkipMissing
    <3>1. todo' = Tail(todo) /\ ht' = ht /\ mask' = mask /\ moves' = 0
      BY <1>3, <2>2 DEF SkipMissing, RehashFits
    <3>2. QED  BY <1>3, <3>1, FitsOn
  <2>3. CASE PlaceFirst \/ PlaceSecond
    <3>1. PICK i : Placed(i)
      BY <2>3 DEF PlaceFirst, PlaceSecond
    <3>2. /\ todo' = Tail(todo) /\ mask' = mask /\ moves' = 0
          /\ ht' = [ht EXCEPT ![i] = Head(todo)]
      BY <3>1 DEF Placed
    <3>3. \A m \in DOMAIN ht' : \/ ht'[m] \in {Missing, Head(todo)}
                                \/ \E j \in DOMAIN ht : ht[j] = ht'[m]
      BY <1>1, <3>2
    <3>4. QED  BY <1>3, <3>2, <3>3, FitsOn
  <2>4. ~ Evict /\ ~ Rehash
    BY <2>1 DEF Evict, Rehash
  <2>5. QED  BY <1>3, <2>2, <2>3, <2>4 DEF Inserting
<1>4. CASE Inserting /\ Len(todo) = 1
  <2>1. CASE Rehash
    BY <1>4, <2>1, FitsAnew
  <2>2. CASE ~ Rehash
    <3>1. todo' = Tail(todo) \/ \E x : todo' = <<x>> \o Tail(todo)
      BY <1>4, <2>2 DEF Inserting, SkipMissing, PlaceFirst, PlaceSecond, Evict, Placed
    <3>2. Tail(todo) \in Seq(Slots) /\ Len(Tail(todo)) = 0
      <4>1. todo \in Seq(Slots) /\ todo # <<>> /\ Len(todo) = 1
        BY <1>1, <1>4 DEF Idle
      <4>2. QED  BY <4>1, HeadTailProperties
    <3>3. Tail(todo) = <<>>
      BY <3>2, EmptySeq
    <3>4. ~ (Len(todo') > 1)
      <4>1. CASE todo' = Tail(todo)
        BY <3>2, <4>1
      <4>2. CASE \E x : todo' = <<x>> \o Tail(todo)
        <5>1. PICK x : todo' = <<x>> \o <<>>
          BY <3>3, <4>2
        <5>2. <<x>> \in Seq({x}) /\ Len(<<x>>) = 1 /\ <<>> \in Seq({x}) /\ Len(<<>>) = 0
          OBVIOUS
        <5>3. Len(<<x>> \o <<>>) = 1
          BY <5>2, ConcatProperties
        <5>4. QED  BY <5>1, <5>3
      <4>3. QED  BY <3>1, <4>1, <4>2
    <3>5. QED  BY <3>4 DEF RehashFits
  <2>3. QED  BY <2>1, <2>2
<1>5. Inserting => Len(todo) > 1 \/ Len(todo) = 1
  BY <1>1 DEF Inserting, SkipMissing, PlaceFirst, PlaceSecond, Evict, Rehash, InHand
<1>6. CASE \E k \in Elem : Insert(k) \/ Erase(k)
  BY <1>2, <1>6 DEF Insert, Erase
<1>7. CASE clear \/ \E n \in Reservations : reserve(n)
  BY <1>2, <1>7 DEF clear, reserve
<1>8. CASE UNCHANGED vars
  BY <1>8 DEF vars, RehashFits, Due, hash_1
<1>9. QED  BY <1>3, <1>4, <1>5, <1>6, <1>7, <1>8 DEF Next

\* The recursion of insert and rehash is no deeper than one call of each: an
\* element that rehash inserts again finds a free slot at once, as the two
\* buckets of a table twice the size take no more than two of the old held.
THEOREM CuckooRehashOnce == Spec => []NoNestedRehash
<1>1. Init => IInv /\ RehashFits
  BY InitHolds DEF Init, RehashFits
<1>2. IInv /\ [Next]_vars => IInv'
  BY StepKeeps
<1> QED BY <1>1, <1>2, FitsKept, RoomLeft, PTL DEF Spec
=======================================================================
