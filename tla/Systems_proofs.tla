------------------------- MODULE Systems_proofs -------------------------
(***************************************************************************)
(* Proofs about the graphs of FastGraph and the two searches over them.    *)
(* Clique, for every graph that is not directed and has no loops: the      *)
(* nodes of the reverse search form a forest, and each maximal clique is   *)
(* that of one node.  Diam2Kplex, for every such graph, every k and q, with *)
(* and without pivots: what a root and a node list are nodes whose counters *)
(* count and whose candidates and excluded vertices are what can be added, *)
(* no two of them are below one another, and each k-plex of diameter 2 to  *)
(* which nothing can be added is below exactly one of what was to be       *)
(* visited or is that of a node.  What is written of the nodes of both is  *)
(* what is read of it.                                                     *)
(***************************************************************************)
EXTENDS Clique, Serialization, Stats, FiniteSetTheorems, SequenceTheorems,
        WellFoundedInduction, TLAPS

(* Natural numbers and loops *)

LEMMA LeastNat ==
  ASSUME NEW P \in SUBSET Nat, P # {}
  PROVE  \E n \in P : \A m \in P : n <= m
<1> DEFINE R == {p \in Nat \X Nat : p[1] < p[2]}
<1>1. R = OpToRel(<, Nat)
  BY DEF OpToRel
<1>2. IsWellFoundedOn(R, Nat)
  BY <1>1, NatLessThanWellFounded
<1> HIDE DEF R
<1>3. PICK n \in P : \A m \in P : ~ (<<m, n>> \in R)
  BY <1>2, WFMin
<1>4. ASSUME NEW m \in P PROVE n <= m
  <2>1. m \in Nat /\ n \in Nat /\ (m < n => <<m, n>> \in R)
    BY <1>4 DEF R
  <2>2. QED  BY <2>1, <1>3, <1>4
<1>5. QED  BY <1>4

\* Induction up to a bound, for the numbers of a set.
LEMMA Induct ==
  ASSUME NEW n \in Nat, NEW P, 0 \in P,
         \A m \in 0..(n - 1) : m \in P => m + 1 \in P
  PROVE  \A m \in 0..n : m \in P
<1> SUFFICES ASSUME {m \in 0..n : m \notin P} # {} PROVE FALSE
  OBVIOUS
<1>1. PICK k \in {m \in 0..n : m \notin P} : \A m \in {m \in 0..n : m \notin P} : k <= m
  <2> DEFINE Q == {m \in 0..n : m \notin P}
  <2>1. Q \in SUBSET Nat /\ Q # {}
    OBVIOUS
  <2> HIDE DEF Q
  <2>2. \E x \in Q : \A m \in Q : x <= m
    BY <2>1, LeastNat
  <2>3. QED  BY <2>2 DEF Q
<1>2. k # 0 /\ k \in 0..n /\ k \notin P
  BY <1>1
<1>3. k - 1 \in 0..(n - 1) /\ k - 1 \in 0..n /\ k - 1 < k
  BY <1>2
<1>4. k - 1 \in P
  BY <1>1, <1>3
<1>5. (k - 1) + 1 = k
  BY <1>2
<1>6. QED  BY <1>2, <1>3, <1>4, <1>5

\* A loop of n turns, each of which makes a value of X of the one before.
LoopOf(f, n, X, x, G) ==
  f \in [0..n -> X] /\ f[0] = x /\ \A m \in 1..n : f[m] = G[m][f[m - 1]]

LEMMA LoopExists ==
  ASSUME NEW n \in Nat, NEW X, NEW x \in X, NEW G \in [1..n -> [X -> X]]
  PROVE  \E f : LoopOf(f, n, X, x, G)
<1> DEFINE Loop(f, k) == f[0] = x /\ \A m \in 1..k : f[m] = G[m][f[m - 1]]
           P == {k \in 0..n : \E f \in [0..k -> X] : Loop(f, k)}
<1>1. 0 \in P
  <2> DEFINE f == [m \in 0..0 |-> x]
  <2>1. f \in [0..0 -> X] /\ Loop(f, 0)
    OBVIOUS
  <2>2. \E h \in [0..0 -> X] : Loop(h, 0)
    BY <2>1
  <2>3. QED  BY <2>2
<1>2. ASSUME NEW k \in 0..(n - 1), k \in P PROVE k + 1 \in P
  <2>1. PICK f \in [0..k -> X] : Loop(f, k)
    BY <1>2
  <2>2. k \in Nat /\ k + 1 \in 1..n /\ k + 1 \in 0..n
    BY <1>2
  <2> DEFINE h == [m \in 0..(k + 1) |-> IF m = k + 1 THEN G[k + 1][f[k]] ELSE f[m]]
  <2>3. G[k + 1][f[k]] \in X
    <3>1. f[k] \in X
      BY <2>1, <2>2
    <3>2. QED  BY <3>1, <2>2
  <2>4. h \in [0..(k + 1) -> X]
    BY <2>2, <2>3
  <2>5. ASSUME NEW m \in 1..(k + 1)
        PROVE  h[m] = G[m][h[m - 1]]
    <3>1. CASE m = k + 1
      <4>1. h[m] = G[k + 1][f[k]] /\ h[m - 1] = f[k] /\ m - 1 = k
        BY <2>2, <3>1
      <4>2. QED  BY <3>1, <4>1
    <3>2. CASE m # k + 1
      <4>1. m \in 1..k /\ h[m] = f[m]
        BY <2>2, <3>2
      <4>2. m - 1 \in 0..k /\ h[m - 1] = f[m - 1]
        BY <2>2, <4>1
      <4>3. f[m] = G[m][f[m - 1]]
        BY <2>1, <4>1
      <4>4. QED  BY <4>1, <4>2, <4>3
    <3>3. QED  BY <3>1, <3>2
  <2>6. h[0] = x
    BY <2>1, <2>2
  <2>7. QED  BY <2>2, <2>4, <2>5, <2>6
<1>3. n \in P
  <2> HIDE DEF P
  <2>1. \A m \in 0..n : m \in P
    BY <1>1, <1>2, Induct
  <2>2. QED  BY <2>1
<1>4. QED  BY <1>3 DEF LoopOf
-----------------------------------------------------------------------
(* Sequences *)

Increasing(s) == \A a, b \in DOMAIN s : a < b => s[a] < s[b]

LEMMA SeqFacts ==
  ASSUME NEW T, NEW s \in Seq(T)
  PROVE  /\ Len(s) \in Nat /\ DOMAIN s = 1..Len(s)
         /\ ToSet(s) = {s[m] : m \in 1..Len(s)}
         /\ ToSet(s) \subseteq T
         /\ \A m \in 1..Len(s) : s[m] \in T /\ s[m] \in ToSet(s)
         /\ (s = <<>> <=> ToSet(s) = {})
<1>1. Len(s) \in Nat /\ DOMAIN s = 1..Len(s) /\ \A m \in 1..Len(s) : s[m] \in T
  OBVIOUS
<1>2. ToSet(s) = {s[m] : m \in 1..Len(s)}
  BY <1>1 DEF ToSet
<1>3. s = <<>> <=> ToSet(s) = {}
  <2>1. s = <<>> <=> Len(s) = 0
    OBVIOUS
  <2>2. Len(s) # 0 => s[1] \in ToSet(s)
    BY <1>1, <1>2
  <2>3. Len(s) = 0 => ToSet(s) = {}
    BY <1>1, <1>2
  <2>4. QED  BY <2>1, <2>2, <2>3
<1>4. ToSet(s) \subseteq T
  BY <1>1, <1>2
<1>5. \A m \in 1..Len(s) : s[m] \in T /\ s[m] \in ToSet(s)
  BY <1>1, <1>2
<1>6. QED  BY <1>1, <1>2, <1>3, <1>4, <1>5

LEMMA AppendFacts ==
  ASSUME NEW T, NEW s \in Seq(T), NEW w \in T
  PROVE  /\ Append(s, w) \in Seq(T)
         /\ ToSet(Append(s, w)) = ToSet(s) \cup {w}
         /\ IsInjective(s) /\ w \notin ToSet(s) => IsInjective(Append(s, w))
         /\ T \subseteq Int /\ Increasing(s) /\ (\A v \in ToSet(s) : v < w)
              => Increasing(Append(s, w))
<1> DEFINE t == Append(s, w)
           n == Len(s)
<1>1. /\ n \in Nat /\ DOMAIN s = 1..n /\ DOMAIN t = 1..(n + 1) /\ t \in Seq(T)
      /\ t[n + 1] = w /\ \A m \in 1..n : t[m] = s[m] /\ s[m] \in T
  OBVIOUS
<1> HIDE DEF t, n
<1>2. \A m \in 1..(n + 1) : m \in 1..n \/ m = n + 1
  BY <1>1
<1>3. ToSet(t) = ToSet(s) \cup {w}
  <2>1. ToSet(t) \subseteq ToSet(s) \cup {w}
    BY <1>1, <1>2 DEF ToSet
  <2>2. ToSet(s) \subseteq ToSet(t) /\ w \in ToSet(t)
    BY <1>1 DEF ToSet
  <2>3. QED  BY <2>1, <2>2
<1>4. ASSUME IsInjective(s), w \notin ToSet(s) PROVE IsInjective(t)
  <2>1. \A m \in 1..n : s[m] # w
    BY <1>1, <1>4 DEF ToSet
  <2>2. \A a, b \in 1..n : s[a] = s[b] => a = b
    BY <1>1, <1>4 DEF IsInjective
  <2>3. \A a, b \in 1..(n + 1) : t[a] = t[b] => a = b
    BY <1>1, <1>2, <2>1, <2>2
  <2>4. QED  BY <1>1, <2>3 DEF IsInjective
<1>5. ASSUME T \subseteq Int, Increasing(s), \A v \in ToSet(s) : v < w
      PROVE  Increasing(t)
  <2>1. \A m \in 1..n : s[m] < w
    BY <1>1, <1>5 DEF ToSet
  <2>2. \A a, b \in 1..n : a < b => s[a] < s[b]
    BY <1>1, <1>5 DEF Increasing
  <2>3. \A a, b \in 1..(n + 1) : a < b => t[a] < t[b]
    BY <1>1, <1>2, <2>1, <2>2
  <2>4. QED  BY <1>1, <2>3 DEF Increasing
<1>6. QED  BY <1>1, <1>3, <1>4, <1>5 DEF t

LEMMA ConcatFacts ==
  ASSUME NEW T, NEW s \in Seq(T), NEW t \in Seq(T)
  PROVE  /\ s \o t \in Seq(T)
         /\ ToSet(s \o t) = ToSet(s) \cup ToSet(t)
         /\ IsInjective(s) /\ IsInjective(t) /\ ToSet(s) \cap ToSet(t) = {}
              => IsInjective(s \o t)
<1> DEFINE m == Len(s)
           n == Len(t)
           st == s \o t
<1>1. /\ m \in Nat /\ n \in Nat /\ DOMAIN s = 1..m /\ DOMAIN t = 1..n
      /\ DOMAIN st = 1..(m + n) /\ st \in Seq(T)
      /\ \A k \in 1..(m + n) : st[k] = IF k <= m THEN s[k] ELSE t[k - m]
  OBVIOUS
<1>2. \A k \in 1..(m + n) : k \in 1..m \/ (k > m /\ k - m \in 1..n)
  BY <1>1
<1>3. \A k \in 1..m : k \in 1..(m + n) /\ st[k] = s[k]
  BY <1>1
<1>4. ASSUME NEW k \in 1..n PROVE k + m \in 1..(m + n) /\ st[k + m] = t[k]
  BY <1>1
<1> HIDE DEF m, n, st
<1>5. \A k \in 1..(m + n) : (k <= m => st[k] = s[k]) /\ (k > m => st[k] = t[k - m])
  BY <1>1
<1>6. ToSet(st) \subseteq ToSet(s) \cup ToSet(t)
  BY <1>1, <1>2, <1>3, <1>5 DEF ToSet
<1>7. ToSet(s) \subseteq ToSet(st) /\ ToSet(t) \subseteq ToSet(st)
  <2>1. ToSet(s) \subseteq ToSet(st)
    BY <1>1, <1>3 DEF ToSet
  <2>2. ToSet(t) \subseteq ToSet(st)
    BY <1>1, <1>4, ZenonT(30) DEF ToSet
  <2>3. QED  BY <2>1, <2>2
<1>8. ASSUME IsInjective(s), IsInjective(t), ToSet(s) \cap ToSet(t) = {}
      PROVE  IsInjective(st)
  <2>1. SUFFICES ASSUME NEW a \in 1..(m + n), NEW b \in 1..(m + n), st[a] = st[b]
                 PROVE  a = b
    BY <1>1 DEF IsInjective
  <2>2. \A x \in 1..m, y \in 1..n : s[x] # t[y]
    BY <1>1, <1>8 DEF ToSet
  <2>3. CASE a \in 1..m /\ b \in 1..m
    BY <1>1, <1>3, <1>8, <2>1, <2>3 DEF IsInjective
  <2>4. CASE a > m /\ a - m \in 1..n /\ b > m /\ b - m \in 1..n
    <3>1. t[a - m] = t[b - m]
      BY <1>5, <2>1, <2>4
    <3>2. a - m = b - m
      BY <1>1, <1>8, <2>4, <3>1 DEF IsInjective
    <3>3. QED  BY <1>1, <3>2
  <2>5. CASE a \in 1..m /\ b > m /\ b - m \in 1..n
    BY <1>3, <1>5, <2>1, <2>2, <2>5
  <2>6. CASE b \in 1..m /\ a > m /\ a - m \in 1..n
    BY <1>3, <1>5, <2>1, <2>2, <2>6
  <2>7. QED  BY <1>2, <2>3, <2>4, <2>5, <2>6
<1>9. QED  BY <1>1, <1>6, <1>7, <1>8 DEF st

LEMMA IncreasingOnce ==
  ASSUME NEW T, T \subseteq Int, NEW s \in Seq(T), Increasing(s)
  PROVE  IsInjective(s)
<1>1. SUFFICES ASSUME NEW a \in DOMAIN s, NEW b \in DOMAIN s, s[a] = s[b] PROVE a = b
  BY DEF IsInjective
<1>2. a \in Int /\ b \in Int /\ s[a] \in Int
  <2>1. DOMAIN s = 1..Len(s) /\ Len(s) \in Nat /\ \A m \in 1..Len(s) : s[m] \in T
    OBVIOUS
  <2>2. a \in Int /\ b \in Int /\ s[a] \in T
    BY <2>1
  <2>3. QED  BY <2>2
<1>3. ~ (a < b) /\ ~ (b < a)
  BY <1>1, <1>2 DEF Increasing
<1>4. QED  BY <1>2, <1>3

\* A set has one increasing sequence.
LEMMA IncreasingUnique ==
  ASSUME NEW T, T \subseteq Int, NEW s \in Seq(T), NEW t \in Seq(T),
         Increasing(s), Increasing(t), ToSet(s) = ToSet(t)
  PROVE  s = t
<1>1. ASSUME NEW x \in Seq(T), NEW y \in Seq(T), Increasing(x), Increasing(y),
             ToSet(x) = ToSet(y), NEW k \in 1..Len(x),
             \A m \in 1..(k - 1) : m \in 1..Len(y) /\ x[m] = y[m]
      PROVE  k \in 1..Len(y) /\ y[k] <= x[k]
  <2>1. /\ DOMAIN x = 1..Len(x) /\ DOMAIN y = 1..Len(y) /\ Len(y) \in Nat /\ Len(x) \in Nat
        /\ x[k] \in ToSet(y) /\ \A m \in 1..Len(y) : y[m] \in Int
    BY <1>1, SeqFacts
  <2>2. PICK m \in 1..Len(y) : y[m] = x[k]
    BY <2>1 DEF ToSet
  <2>3. ~ (m < k)
    <3>1. SUFFICES ASSUME m < k PROVE FALSE
      OBVIOUS
    <3>2. m \in 1..(k - 1) /\ m \in 1..Len(x)
      BY <1>1, <2>1, <3>1
    <3>3. x[m] = x[k]
      BY <1>1, <2>2, <3>2
    <3>4. IsInjective(x)
      BY <1>1, IncreasingOnce
    <3>5. QED  BY <2>1, <3>1, <3>2, <3>3, <3>4 DEF IsInjective
  <2>4. k \in 1..Len(y)
    BY <2>1, <2>2, <2>3
  <2>5. m = k \/ y[k] < y[m]
    <3>1. m \in Int /\ k \in Int
      BY <2>4
    <3>2. m = k \/ k < m
      BY <2>3, <3>1
    <3>3. \A a, b \in 1..Len(y) : a < b => y[a] < y[b]
      BY <1>1, <2>1 DEF Increasing
    <3>4. k < m => y[k] < y[m]
      BY <2>2, <2>4, <3>3
    <3>5. QED  BY <3>2, <3>4
  <2>6. QED  BY <2>1, <2>2, <2>4, <2>5
<1>2. ASSUME NEW x \in Seq(T), NEW y \in Seq(T), Increasing(x), Increasing(y),
             ToSet(x) = ToSet(y)
      PROVE  \A k \in 0..Len(x) : \A m \in 1..k : m \in 1..Len(y) /\ x[m] = y[m]
  <2> DEFINE P == {k \in 0..Len(x) : \A m \in 1..k : m \in 1..Len(y) /\ x[m] = y[m]}
  <2>1. Len(x) \in Nat /\ Len(y) \in Nat
    OBVIOUS
  <2>2. 0 \in P
    BY <2>1
  <2>3. ASSUME NEW j \in 0..(Len(x) - 1), j \in P PROVE j + 1 \in P
    <3> DEFINE k == j + 1
    <3>1. k \in 1..Len(x) /\ k \in 0..Len(x) /\ k - 1 = j
      BY <2>1, <2>3
    <3>2. \A m \in 1..(k - 1) : m \in 1..Len(y) /\ x[m] = y[m]
      BY <2>3, <3>1
    <3> HIDE DEF k
    <3>3. k \in 1..Len(y) /\ y[k] <= x[k]
      BY <1>1, <1>2, <3>1, <3>2
    <3>4. \A m \in 1..(k - 1) : m \in 1..Len(x) /\ y[m] = x[m]
      BY <3>1, <3>2
    <3>5. k \in 1..Len(x) /\ x[k] <= y[k]
      BY <1>1, <1>2, <3>3, <3>4
    <3>6. x[k] = y[k]
      <4>1. x[k] \in T /\ y[k] \in T
        BY <1>2, <3>1, <3>3, SeqFacts
      <4>2. x[k] \in Int /\ y[k] \in Int
        BY <4>1
      <4>3. QED  BY <3>3, <3>5, <4>2
    <3>7. \A m \in 1..k : m \in 1..(k - 1) \/ m = k
      BY <3>1
    <3>8. \A m \in 1..k : m \in 1..Len(y) /\ x[m] = y[m]
      BY <3>2, <3>3, <3>6, <3>7
    <3>9. QED  BY <3>1, <3>8 DEF k
  <2> HIDE DEF P
  <2>4. \A k \in 0..Len(x) : k \in P
    BY <2>1, <2>2, <2>3, Induct
  <2>5. QED  BY <2>4 DEF P
<1>3. Len(s) \in Nat /\ Len(t) \in Nat
  OBVIOUS
<1>4. \A m \in 1..Len(s) : m \in 1..Len(t) /\ s[m] = t[m]
  BY <1>2, <1>3
<1>5. \A m \in 1..Len(t) : m \in 1..Len(s)
  BY <1>2, <1>3
<1>6. Len(s) = Len(t)
  <2>1. Len(s) # 0 => Len(s) \in 1..Len(t)
    BY <1>3, <1>4
  <2>2. Len(t) # 0 => Len(t) \in 1..Len(s)
    BY <1>3, <1>5
  <2>3. QED  BY <1>3, <2>1, <2>2
<1>7. QED  BY <1>4, <1>6

LEMMA KeptLoop ==
  ASSUME NEW T, NEW s \in Seq(T), NEW S
  PROVE  \E f :
           /\ f[0] = <<>>
           /\ \A m \in 1..Len(s) :
                f[m] = IF s[m] \in S THEN Append(f[m - 1], s[m]) ELSE f[m - 1]
           /\ Kept(s, S) = f[Len(s)]
<1> DEFINE n == Len(s)
           X == Seq(T)
           G == [m \in 1..n |-> [r \in X |-> IF s[m] \in S THEN Append(r, s[m]) ELSE r]]
           Loop(f) == f = [m \in 0..Len(s) |->
                             IF m = 0 THEN <<>>
                             ELSE IF s[m] \in S THEN Append(f[m - 1], s[m]) ELSE f[m - 1]]
           F == CHOOSE f : Loop(f)
<1>1. n \in Nat /\ \A m \in 1..n : s[m] \in T
  OBVIOUS
<1>2. G \in [1..n -> [X -> X]]
  BY <1>1
<1>3. PICK f : LoopOf(f, n, X, <<>>, G)
  <2>1. <<>> \in X
    OBVIOUS
  <2> HIDE DEF G, X, n
  <2>2. QED  BY <1>1, <1>2, <2>1, LoopExists
<1>4. f \in [0..n -> X] /\ f[0] = <<>> /\ \A m \in 1..n : f[m] = G[m][f[m - 1]]
  BY <1>3 DEF LoopOf
<1>5. ASSUME NEW m \in 1..n
      PROVE  f[m] = IF s[m] \in S THEN Append(f[m - 1], s[m]) ELSE f[m - 1]
  <2>1. m - 1 \in 0..n
    BY <1>1, <1>5
  <2>2. f[m - 1] \in X
    BY <1>4, <2>1
  <2>3. G[m] = [r \in X |-> IF s[m] \in S THEN Append(r, s[m]) ELSE r]
    BY <1>5
  <2>4. G[m][f[m - 1]] = IF s[m] \in S THEN Append(f[m - 1], s[m]) ELSE f[m - 1]
    BY <2>2, <2>3
  <2>5. QED  BY <1>4, <1>5, <2>4
<1>6. Loop(f)
  <2>1. ASSUME NEW m \in 0..n
        PROVE  f[m] = IF m = 0 THEN <<>>
                      ELSE IF s[m] \in S THEN Append(f[m - 1], s[m]) ELSE f[m - 1]
    <3>1. m = 0 \/ m \in 1..n
      BY <1>1, <2>1
    <3>2. QED  BY <1>4, <1>5, <3>1
  <2>2. QED  BY <1>4, <2>1
<1>7. Loop(F)
  BY <1>6
<1>8. Kept(s, S) = F[Len(s)]
  BY DEF Kept
<1> HIDE DEF F
<1>9. F[0] = <<>>
  BY <1>1, <1>7
<1>10. ASSUME NEW m \in 1..n
       PROVE  F[m] = IF s[m] \in S THEN Append(F[m - 1], s[m]) ELSE F[m - 1]
  <2>1. m \in 0..Len(s) /\ m # 0
    BY <1>1, <1>10
  <2>2. QED  BY <1>7, <2>1
<1>11. QED  BY <1>8, <1>9, <1>10

LEMMA KeptFacts ==
  ASSUME NEW T, NEW s \in Seq(T), NEW S
  PROVE  /\ Kept(s, S) \in Seq(T)
         /\ ToSet(Kept(s, S)) = ToSet(s) \cap S
         /\ IsInjective(s) => IsInjective(Kept(s, S))
         /\ T \subseteq Int /\ Increasing(s) => Increasing(Kept(s, S))
<1> DEFINE n == Len(s)
           Upto(m) == {s[k] : k \in 1..m}
<1>1. PICK f : /\ f[0] = <<>>
               /\ \A m \in 1..n :
                    f[m] = IF s[m] \in S THEN Append(f[m - 1], s[m]) ELSE f[m - 1]
               /\ Kept(s, S) = f[n]
  BY KeptLoop
<1> DEFINE P == {m \in 0..n :
                   /\ f[m] \in Seq(T)
                   /\ ToSet(f[m]) = Upto(m) \cap S
                   /\ IsInjective(s) => IsInjective(f[m])
                   /\ T \subseteq Int /\ Increasing(s) => Increasing(f[m])}
<1>2. n \in Nat /\ DOMAIN s = 1..n /\ \A m \in 1..n : s[m] \in T
  OBVIOUS
<1>3. 0 \in P
  <2>1. Upto(0) = {}
    OBVIOUS
  <2>2. <<>> \in Seq(T) /\ ToSet(<<>>) = {}
    BY DEF ToSet
  <2>3. IsInjective(<<>>) /\ Increasing(<<>>)
    BY DEF IsInjective, Increasing
  <2> HIDE DEF Upto
  <2>4. 0 \in 0..n /\ f[0] = <<>>
    BY <1>1, <1>2
  <2>5. QED  BY <2>1, <2>2, <2>3, <2>4
<1>4. ASSUME NEW k \in 0..(n - 1), k \in P PROVE k + 1 \in P
  <2> DEFINE m == k + 1
  <2>1. m \in 1..n /\ m \in 0..n /\ m - 1 = k /\ k \in 0..n
    BY <1>2, <1>4
  <2>2. f[m] = IF s[m] \in S THEN Append(f[k], s[m]) ELSE f[k]
    BY <1>1, <2>1
  <2>3. Upto(m) = Upto(k) \cup {s[m]}
    <3>1. \A x \in 1..m : x \in 1..k \/ x = m
      BY <2>1
    <3>2. m \in 1..m /\ \A x \in 1..k : x \in 1..m
      BY <2>1
    <3>3. QED  BY <3>1, <3>2
  <2>4. /\ f[k] \in Seq(T) /\ ToSet(f[k]) = Upto(k) \cap S
        /\ IsInjective(s) => IsInjective(f[k])
        /\ T \subseteq Int /\ Increasing(s) => Increasing(f[k])
    BY <1>4
  <2>5. IsInjective(s) => s[m] \notin Upto(k)
    <3>1. SUFFICES ASSUME IsInjective(s), NEW x \in 1..k, s[m] = s[x] PROVE FALSE
      OBVIOUS
    <3>2. x \in 1..n /\ x # m
      BY <2>1
    <3>3. QED  BY <1>2, <2>1, <3>1, <3>2 DEF IsInjective
  <2>6. Increasing(s) => \A v \in Upto(k) : v < s[m]
    <3>1. SUFFICES ASSUME Increasing(s), NEW x \in 1..k PROVE s[x] < s[m]
      OBVIOUS
    <3>2. x \in 1..n /\ x < m
      BY <2>1
    <3>3. QED  BY <1>2, <2>1, <3>1, <3>2 DEF Increasing
  <2> HIDE DEF Upto, m
  <2>7. CASE s[m] \in S
    <3>1. f[m] = Append(f[k], s[m])
      BY <2>2, <2>7
    <3>2. s[m] \in T
      BY <1>2, <2>1
    <3>3. /\ Append(f[k], s[m]) \in Seq(T)
          /\ ToSet(Append(f[k], s[m])) = ToSet(f[k]) \cup {s[m]}
          /\ IsInjective(f[k]) /\ s[m] \notin ToSet(f[k]) => IsInjective(Append(f[k], s[m]))
          /\ T \subseteq Int /\ Increasing(f[k]) /\ (\A v \in ToSet(f[k]) : v < s[m])
              => Increasing(Append(f[k], s[m]))
      BY <2>4, <3>2, AppendFacts
    <3>4. f[m] \in Seq(T) /\ ToSet(f[m]) = Upto(m) \cap S
      BY <2>3, <2>4, <2>7, <3>1, <3>3
    <3>5. IsInjective(s) => IsInjective(f[m])
      BY <2>4, <2>5, <3>1, <3>3
    <3>6. T \subseteq Int /\ Increasing(s) => Increasing(f[m])
      BY <2>4, <2>6, <3>1, <3>3
    <3>7. QED  BY <2>1, <3>4, <3>5, <3>6 DEF m
  <2>8. CASE s[m] \notin S
    <3>1. f[m] = f[k] /\ Upto(m) \cap S = Upto(k) \cap S
      BY <2>2, <2>3, <2>8
    <3>2. QED  BY <2>1, <2>4, <3>1 DEF m
  <2>9. QED  BY <2>7, <2>8
<1>5. n \in P
  <2> HIDE DEF P, n
  <2>1. \A m \in 0..n : m \in P
    BY <1>2, <1>3, <1>4, Induct
  <2>2. QED  BY <1>2, <2>1
<1>6. Upto(n) = ToSet(s)
  BY <1>2 DEF ToSet
<1>7. QED  BY <1>1, <1>5, <1>6
-----------------------------------------------------------------------
(* Greedy completion *)

AdjacentTo(g, w, S) == \A u \in S : are_neighs(g, w, u)

IsClique(g, S) ==
  S \subseteq DOMAIN g /\ \A a, b \in S : a # b => are_neighs(g, a, b)

IsMaximalClique(g, S) ==
  IsClique(g, S) /\ S # {} /\ \A w \in DOMAIN g \ S : ~ AdjacentTo(g, w, S)

\* D is what K becomes when the vertices are tried in ascending order: one
\* that is left out is not adjacent to K or to a smaller vertex of D.
Greedy(g, K, D) ==
  /\ K # {} /\ K \subseteq D /\ IsClique(g, D)
  /\ \A w \in DOMAIN g \ D :
       AdjacentTo(g, w, K) => \E u \in D : u < w /\ ~ are_neighs(g, w, u)

UpTo(S, c) == {v \in S : v <= c}

Below(S, c) == {v \in S : v < c}

\* The least c up to which C determines C.
IsCand(g, C, c) ==
  c \in C /\ Greedy(g, UpTo(C, c), C) /\ ~ Greedy(g, Below(C, c), C)

LEMMA Symmetry ==
  ASSUME NEW g, SimpleGraph(g)
  PROVE  /\ size(g) \in Nat /\ DOMAIN g = 0..(size(g) - 1) /\ DOMAIN g \subseteq Nat
         /\ \A v, w \in DOMAIN g : are_neighs(g, v, w) <=> are_neighs(g, w, v)
         /\ \A v \in DOMAIN g : ~ are_neighs(g, v, v)
<1>1. size(g) \in Nat /\ DOMAIN g = 0..(size(g) - 1)
  BY DEF SimpleGraph
<1>2. DOMAIN g \subseteq Nat
  BY <1>1
<1>3. QED  BY <1>1, <1>2 DEF SimpleGraph

LEMMA GreedyWithin ==
  ASSUME NEW g, SimpleGraph(g), NEW K, NEW C, NEW D, Greedy(g, K, C), Greedy(g, K, D),
         NEW x \in C \ D, \A y \in (C \ D) \cup (D \ C) : x <= y
  PROVE  FALSE
<1>1. x \in DOMAIN g /\ C \subseteq DOMAIN g /\ D \subseteq DOMAIN g /\ DOMAIN g \subseteq Nat
  BY Symmetry DEF Greedy, IsClique
<1>2. AdjacentTo(g, x, K)
  <2>1. \A u \in K : u \in C /\ u # x
    BY DEF Greedy
  <2>2. QED  BY <2>1 DEF Greedy, IsClique, AdjacentTo
<1>3. PICK u \in D : u < x /\ ~ are_neighs(g, x, u)
  BY <1>1, <1>2 DEF Greedy
<1>4. u \in C /\ u # x
  BY <1>1, <1>3
<1>5. QED  BY <1>3, <1>4 DEF Greedy, IsClique

LEMMA GreedyUnique ==
  ASSUME NEW g, SimpleGraph(g), NEW K, NEW C, NEW D, Greedy(g, K, C), Greedy(g, K, D)
  PROVE  C = D
<1> DEFINE P == (C \ D) \cup (D \ C)
<1>1. SUFFICES ASSUME P # {} PROVE FALSE
  OBVIOUS
<1>2. P \in SUBSET Nat
  BY Symmetry DEF Greedy, IsClique
<1>3. PICK x \in P : \A y \in P : x <= y
  <2> HIDE DEF P
  <2>1. QED  BY <1>1, <1>2, LeastNat
<1>4. CASE x \in C \ D
  BY <1>3, <1>4, GreedyWithin
<1>5. CASE x \in D \ C
  <2>1. \A y \in (D \ C) \cup (C \ D) : x <= y
    BY <1>3
  <2>2. QED  BY <1>5, <2>1, GreedyWithin
<1>6. QED  BY <1>3, <1>4, <1>5

LEMMA GreedyMore ==
  ASSUME NEW g, NEW K, NEW L, NEW D, Greedy(g, K, D), K \subseteq L, L \subseteq D
  PROVE  Greedy(g, L, D)
  BY DEF Greedy, AdjacentTo

LEMMA GreedyIsMaximal ==
  ASSUME NEW g, SimpleGraph(g), NEW K, NEW D, Greedy(g, K, D)
  PROVE  IsMaximalClique(g, D)
<1>1. ASSUME NEW w \in DOMAIN g \ D, AdjacentTo(g, w, D) PROVE FALSE
  <2>1. AdjacentTo(g, w, K)
    BY <1>1 DEF Greedy, AdjacentTo
  <2>2. PICK u \in D : ~ are_neighs(g, w, u)
    BY <1>1, <2>1 DEF Greedy
  <2>3. QED  BY <1>1, <2>2 DEF AdjacentTo
<1>2. QED  BY <1>1 DEF Greedy, IsMaximalClique

\* Every clique has a greedy completion.
LEMMA GreedyExists ==
  ASSUME NEW g, SimpleGraph(g), NEW K, IsClique(g, K), K # {}
  PROVE  \E D : Greedy(g, K, D)
<1> DEFINE n == size(g)
           Tried(D, m) == /\ K \subseteq D /\ IsClique(g, D)
                          /\ \A u \in D \ K : u < m
                          /\ \A w \in DOMAIN g \ D :
                               w < m /\ AdjacentTo(g, w, K)
                                 => \E u \in D : u < w /\ ~ are_neighs(g, w, u)
           P == {m \in 0..n : \E D : Tried(D, m)}
<1>1. n \in Nat /\ DOMAIN g = 0..(n - 1) /\ DOMAIN g \subseteq Nat
  BY Symmetry
<1> HIDE DEF n
<1>2. 0 \in P
  <2>1. Tried(K, 0)
    BY <1>1
  <2>2. QED  BY <1>1, <2>1
<1>3. ASSUME NEW m \in 0..(n - 1), m \in P PROVE m + 1 \in P
  <2>1. PICK D : Tried(D, m)
    BY <1>3
  <2>2. m \in DOMAIN g /\ m + 1 \in 0..n /\ m \in Nat /\ D \subseteq DOMAIN g
    BY <1>1, <1>3, <2>1 DEF IsClique
  <2>3. \A w \in DOMAIN g : w < m + 1 => w < m \/ w = m
    BY <1>1, <2>2
  <2>4. CASE m \notin D /\ AdjacentTo(g, m, D)
    <3> DEFINE E == D \cup {m}
    <3>1. K \subseteq E
      BY <2>1
    <3>2. IsClique(g, E)
      BY <2>1, <2>2, <2>4, Symmetry DEF IsClique, AdjacentTo
    <3>3. \A u \in E \ K : u < m + 1
      BY <1>1, <2>1, <2>2
    <3>4. ASSUME NEW w \in DOMAIN g \ E, w < m + 1, AdjacentTo(g, w, K)
          PROVE  \E u \in E : u < w /\ ~ are_neighs(g, w, u)
      BY <2>1, <2>3, <3>4
    <3>5. Tried(E, m + 1)
      BY <3>1, <3>2, <3>3, <3>4
    <3>6. QED  BY <2>2, <3>5
  <2>5. CASE m \in D \/ ~ AdjacentTo(g, m, D)
    <3>1. \A u \in D \ K : u < m + 1
      BY <1>1, <2>1, <2>2
    <3>2. ASSUME NEW w \in DOMAIN g \ D, w < m + 1, AdjacentTo(g, w, K)
          PROVE  \E u \in D : u < w /\ ~ are_neighs(g, w, u)
      <4>1. CASE w < m
        BY <2>1, <3>2, <4>1
      <4>2. CASE w = m
        <5>1. PICK u \in D : ~ are_neighs(g, m, u)
          BY <2>5, <3>2, <4>2 DEF AdjacentTo
        <5>2. u \notin K
          BY <3>2, <4>2, <5>1 DEF AdjacentTo
        <5>3. u < m
          BY <2>1, <5>1, <5>2
        <5>4. QED  BY <4>2, <5>1, <5>3
      <4>3. QED  BY <2>3, <3>2, <4>1, <4>2
    <3>3. Tried(D, m + 1)
      BY <2>1, <3>1, <3>2
    <3>4. QED  BY <2>2, <3>3
  <2>6. QED  BY <2>4, <2>5
<1>4. n \in P
  <2> HIDE DEF P
  <2>1. \A m \in 0..n : m \in P
    BY <1>1, <1>2, <1>3, Induct
  <2>2. QED  BY <1>1, <2>1
<1>5. PICK D : Tried(D, n)
  BY <1>4
<1>6. \A w \in DOMAIN g : w < n
  BY <1>1
<1>7. QED  BY <1>5, <1>6 DEF Greedy

LEMMA BelowFacts ==
  ASSUME NEW C, C \subseteq Nat, NEW m \in Nat
  PROVE  /\ Below(C, 0) = {}
         /\ Below(C, m + 1) = UpTo(C, m)
         /\ UpTo(C, m) = Below(C, m) \cup (C \cap {m})
         /\ \A x \in Nat : m < x => UpTo(C, m) \subseteq Below(C, x)
         /\ Below(C, m) \subseteq C /\ UpTo(C, m) \subseteq C
<1>1. \A v : v \in C => v \in Nat
  OBVIOUS
<1>2. \A v \in C : ~ (v < 0)
  BY <1>1
<1>3. \A v \in C : v < m + 1 <=> v <= m
  BY <1>1
<1>4. \A v \in C : v <= m <=> v < m \/ v = m
  BY <1>1
<1>5. \A x \in Nat : m < x => \A v \in C : v <= m => v < x
  BY <1>1
<1>6. Below(C, 0) = {}
  BY <1>2 DEF Below
<1>7. Below(C, m + 1) = UpTo(C, m)
  BY <1>3 DEF Below, UpTo
<1>8. UpTo(C, m) = Below(C, m) \cup (C \cap {m})
  <2>1. \A v : v \in UpTo(C, m) => v \in Below(C, m) \cup (C \cap {m})
    BY <1>4 DEF Below, UpTo
  <2>2. \A v : v \in Below(C, m) \cup (C \cap {m}) => v \in UpTo(C, m)
    BY <1>4 DEF Below, UpTo
  <2>3. QED  BY <2>1, <2>2
<1>9. QED  BY <1>5, <1>6, <1>7, <1>8 DEF Below, UpTo

\* A maximal clique has one such vertex.
LEMMA CandExists ==
  ASSUME NEW g, SimpleGraph(g), NEW C, IsMaximalClique(g, C),
         NEW b \in Nat, Greedy(g, Below(C, b), C)
  PROVE  \E c \in C : c < b /\ IsCand(g, C, c)
<1> DEFINE P == {m \in Nat : Greedy(g, Below(C, m), C)}
<1>1. C \subseteq Nat
  BY Symmetry DEF IsMaximalClique, IsClique
<1>2. PICK m \in P : \A x \in P : m <= x
  <2>1. P \in SUBSET Nat /\ P # {}
    OBVIOUS
  <2> HIDE DEF P
  <2>2. QED  BY <2>1, LeastNat
<1>3. m # 0
  <2>1. Below(C, 0) = {}
    BY <1>1, BelowFacts
  <2>2. QED  BY <1>2, <2>1 DEF Greedy
<1> DEFINE c == m - 1
<1>4. c \in Nat /\ c < m /\ m <= b /\ c \notin P /\ m = c + 1
  BY <1>2, <1>3
<1> HIDE DEF c
<1>5. Below(C, m) = UpTo(C, c)
  BY <1>1, <1>4, BelowFacts
<1>6. Greedy(g, UpTo(C, c), C) /\ ~ Greedy(g, Below(C, c), C)
  BY <1>2, <1>4, <1>5
<1>7. c \in C
  <2>1. SUFFICES ASSUME c \notin C PROVE UpTo(C, c) = Below(C, c)
    BY <1>6
  <2>2. UpTo(C, c) = Below(C, c) \cup (C \cap {c})
    BY <1>1, <1>4, BelowFacts
  <2>3. QED  BY <2>1, <2>2
<1>8. QED  BY <1>4, <1>6, <1>7 DEF IsCand

LEMMA MaximalHasCand ==
  ASSUME NEW g, SimpleGraph(g), NEW C, IsMaximalClique(g, C)
  PROVE  \E c \in C : IsCand(g, C, c)
<1>1. size(g) \in Nat /\ C \subseteq 0..(size(g) - 1)
  BY Symmetry DEF IsMaximalClique, IsClique
<1>2. Below(C, size(g)) = C
  <2>1. \A v \in C : v < size(g)
    BY <1>1
  <2>2. QED  BY <2>1 DEF Below
<1>3. Greedy(g, C, C)
  BY DEF Greedy, IsMaximalClique
<1>4. QED  BY <1>1, <1>2, <1>3, CandExists

LEMMA CandUnique ==
  ASSUME NEW g, SimpleGraph(g), NEW C, NEW b, NEW c, IsCand(g, C, b), IsCand(g, C, c)
  PROVE  b = c
<1>1. C \subseteq Nat
  BY Symmetry DEF IsCand, Greedy, IsClique
<1>2. ASSUME NEW x, NEW y, IsCand(g, C, x), IsCand(g, C, y), x < y PROVE FALSE
  <2>1. x \in Nat /\ y \in Nat
    BY <1>1, <1>2 DEF IsCand
  <2>2. UpTo(C, x) \subseteq Below(C, y) /\ Below(C, y) \subseteq C
    BY <1>1, <1>2, <2>1, BelowFacts
  <2>3. QED  BY <1>2, <2>2, GreedyMore DEF IsCand
<1>3. b \in Nat /\ c \in Nat
  BY <1>1 DEF IsCand
<1>4. QED  BY <1>2, <1>3
-----------------------------------------------------------------------
(* The operations of the graph and CompleteFwd *)

LEMMA NeighsFacts ==
  ASSUME NEW g, SimpleGraph(g), NEW v \in DOMAIN g
  PROVE  /\ g[v] \in Seq(DOMAIN g) /\ Increasing(g[v])
         /\ ToSet(neighs(g, v)) = {w \in DOMAIN g : are_neighs(g, v, w)}
         /\ fwd_neighs(g, v) \in Seq(DOMAIN g) /\ Increasing(fwd_neighs(g, v))
         /\ ToSet(fwd_neighs(g, v)) = {w \in DOMAIN g : are_neighs(g, v, w) /\ w > v}
<1>1. DOMAIN g \subseteq Int /\ g[v] \in Seq(DOMAIN g)
  <2>1. /\ size(g) \in Nat /\ DOMAIN g = 0..(size(g) - 1)
        /\ g \in [0..(size(g) - 1) -> Seq(0..(size(g) - 1))]
    BY DEF SimpleGraph
  <2>2. QED  BY <2>1
<1>2. Increasing(g[v])
  BY DEF SimpleGraph, Increasing
<1>3. ToSet(g[v]) = {w \in DOMAIN g : are_neighs(g, v, w)}
  <2>1. ToSet(g[v]) \subseteq DOMAIN g
    BY <1>1, SeqFacts
  <2>2. QED  BY <2>1 DEF ToSet, are_neighs
<1> DEFINE S == {w \in DOMAIN g : w > v}
<1>4. /\ Kept(g[v], S) \in Seq(DOMAIN g)
      /\ ToSet(Kept(g[v], S)) = ToSet(g[v]) \cap S
      /\ Increasing(Kept(g[v], S))
  <2> HIDE DEF S
  <2>1. QED  BY <1>1, <1>2, KeptFacts
<1>5. QED  BY <1>1, <1>2, <1>3, <1>4 DEF neighs, fwd_neighs

LEMMA AllNeighsFacts ==
  ASSUME NEW g, NEW T, NEW s \in Seq(T), NEW w
  PROVE  AllNeighs(g, w, s) <=> AdjacentTo(g, w, ToSet(s))
<1>1. DOMAIN s = 1..Len(s) /\ ToSet(s) = {s[m] : m \in 1..Len(s)}
  BY SeqFacts
<1>2. QED  BY <1>1 DEF AllNeighs, AdjacentTo

LEMMA CompleteLoop ==
  ASSUME NEW g, SimpleGraph(g), NEW s \in Seq(DOMAIN g),
         NEW n, NEW later, later = fwd_neighs(g, s[1]), n = Len(later), n \in Nat,
         later \in Seq(DOMAIN g)
  PROVE  \E f :
           /\ f[0] = s
           /\ \A m \in 1..n :
                f[m] = IF AllNeighs(g, later[m], f[m - 1]) THEN Append(f[m - 1], later[m])
                                                           ELSE f[m - 1]
           /\ CompleteFwd(g, s) = f[n]
<1> DEFINE X == Seq(DOMAIN g)
           G == [m \in 1..n |-> [c \in X |->
                  IF AllNeighs(g, later[m], c) THEN Append(c, later[m]) ELSE c]]
           Loop(f) == f = [m \in 0..n |->
                             IF m = 0 THEN s
                             ELSE IF AllNeighs(g, later[m], f[m - 1])
                                  THEN Append(f[m - 1], later[m]) ELSE f[m - 1]]
           F == CHOOSE f : Loop(f)
<1>1. \A m \in 1..n : later[m] \in DOMAIN g
  OBVIOUS
<1>2. G \in [1..n -> [X -> X]]
  <2>1. ASSUME NEW m \in 1..n, NEW c \in X PROVE Append(c, later[m]) \in X
    BY <1>1
  <2>2. ASSUME NEW m \in 1..n
        PROVE  [c \in X |-> IF AllNeighs(g, later[m], c) THEN Append(c, later[m]) ELSE c]
                 \in [X -> X]
    <3> HIDE DEF X
    <3>1. QED  BY <2>1
  <2> HIDE DEF X
  <2>3. QED  BY <2>2
<1>3. PICK f : LoopOf(f, n, X, s, G)
  <2> HIDE DEF G, X
  <2>1. s \in X
    BY DEF X
  <2>2. QED  BY <1>2, <2>1, LoopExists
<1>4. f \in [0..n -> X] /\ f[0] = s /\ \A m \in 1..n : f[m] = G[m][f[m - 1]]
  BY <1>3 DEF LoopOf
<1>5. ASSUME NEW m \in 1..n
      PROVE  f[m] = IF AllNeighs(g, later[m], f[m - 1])
                    THEN Append(f[m - 1], later[m]) ELSE f[m - 1]
  <2>1. f[m - 1] \in X
    <3>1. m - 1 \in 0..n
      BY <1>5
    <3>2. QED  BY <1>4, <3>1
  <2>2. G[m] = [c \in X |-> IF AllNeighs(g, later[m], c) THEN Append(c, later[m]) ELSE c]
    BY <1>5
  <2>3. QED  BY <1>4, <1>5, <2>1, <2>2
<1>6. Loop(f)
  <2>1. ASSUME NEW m \in 0..n
        PROVE  f[m] = IF m = 0 THEN s
                      ELSE IF AllNeighs(g, later[m], f[m - 1])
                           THEN Append(f[m - 1], later[m]) ELSE f[m - 1]
    <3>1. m = 0 \/ m \in 1..n
      BY <2>1
    <3>2. QED  BY <1>4, <1>5, <3>1
  <2>2. QED  BY <1>4, <2>1
<1>7. Loop(F)
  BY <1>6
<1>8. CompleteFwd(g, s) = F[n]
  BY DEF CompleteFwd
<1> HIDE DEF F
<1>9. F[0] = s
  BY <1>7
<1>10. ASSUME NEW m \in 1..n
       PROVE  F[m] = IF AllNeighs(g, later[m], F[m - 1])
                     THEN Append(F[m - 1], later[m]) ELSE F[m - 1]
  <2>1. m \in 0..n /\ m # 0
    BY <1>10
  <2>2. QED  BY <1>7, <2>1
<1>11. QED  BY <1>8, <1>9, <1>10

\* CompleteFwd is the greedy completion of a clique, and puts it in order, if
\* what the clique is adjacent to comes after it.
LEMMA CompleteFwdFacts ==
  ASSUME NEW g, SimpleGraph(g), NEW s \in Seq(DOMAIN g), s # <<>>,
         Increasing(s), IsClique(g, ToSet(s)),
         \A w \in DOMAIN g : AdjacentTo(g, w, ToSet(s)) => \A u \in ToSet(s) : u < w
  PROVE  /\ CompleteFwd(g, s) \in Seq(DOMAIN g)
         /\ Increasing(CompleteFwd(g, s))
         /\ Greedy(g, ToSet(s), ToSet(CompleteFwd(g, s)))
<1> DEFINE later == fwd_neighs(g, s[1])
           n == Len(later)
           Upto(m) == {later[x] : x \in 1..m}
           K == ToSet(s)
<1>1. DOMAIN g \subseteq Int /\ s[1] \in DOMAIN g /\ s[1] \in K
  BY Symmetry, SeqFacts
<1>2. /\ later \in Seq(DOMAIN g) /\ Increasing(later)
      /\ ToSet(later) = {w \in DOMAIN g : are_neighs(g, s[1], w) /\ w > s[1]}
  BY <1>1, NeighsFacts
<1> HIDE DEF later
<1>3. /\ n \in Nat /\ DOMAIN later = 1..n /\ ToSet(later) = Upto(n)
      /\ \A m \in 1..n : later[m] \in DOMAIN g /\ are_neighs(g, s[1], later[m])
  BY <1>2, SeqFacts
<1>4. PICK f :
        /\ f[0] = s
        /\ \A m \in 1..n :
             f[m] = IF AllNeighs(g, later[m], f[m - 1]) THEN Append(f[m - 1], later[m])
                                                        ELSE f[m - 1]
        /\ CompleteFwd(g, s) = f[n]
  BY <1>2, <1>3, CompleteLoop DEF later
<1> DEFINE Good(c, m) ==
             /\ c \in Seq(DOMAIN g) /\ Increasing(c) /\ K \subseteq ToSet(c)
             /\ IsClique(g, ToSet(c)) /\ ToSet(c) \subseteq K \cup Upto(m)
             /\ \A w \in Upto(m) \ ToSet(c) :
                  AdjacentTo(g, w, K) => \E u \in ToSet(c) : u < w /\ ~ are_neighs(g, w, u)
           P == {m \in 0..n : Good(f[m], m)}
<1> HIDE DEF n, K
<1>5. 0 \in P
  <2>1. Upto(0) = {}
    OBVIOUS
  <2> HIDE DEF Upto
  <2>2. Good(s, 0)
    BY <2>1 DEF K
  <2> HIDE DEF Good
  <2>3. QED  BY <1>3, <1>4, <2>2
<1>6. ASSUME NEW k \in 0..(n - 1), k \in P PROVE k + 1 \in P
  <2> DEFINE m == k + 1
             w == later[m]
             c == f[k]
  <2>1. m \in 1..n /\ m \in 0..n /\ m - 1 = k /\ k \in Nat
    BY <1>3, <1>6
  <2>2. f[m] = IF AllNeighs(g, w, c) THEN Append(c, w) ELSE c
    BY <1>4, <2>1
  <2>3. Upto(m) = Upto(k) \cup {w}
    <3>1. \A x \in 1..m : x \in 1..k \/ x = m
      BY <2>1
    <3>2. m \in 1..m /\ \A x \in 1..k : x \in 1..m
      BY <2>1
    <3>3. QED  BY <3>1, <3>2
  <2>4. \A u \in Upto(k) : u < w /\ u \in DOMAIN g
    <3>1. SUFFICES ASSUME NEW x \in 1..k PROVE later[x] < later[m] /\ later[x] \in DOMAIN g
      OBVIOUS
    <3>2. x \in 1..n /\ x < m
      BY <1>3, <1>6
    <3>3. QED  BY <1>2, <1>3, <2>1, <3>2 DEF Increasing
  <2>5. Good(c, k)
    BY <1>6
  <2>6. w \in DOMAIN g
    BY <1>3, <2>1
  <2> HIDE DEF Upto, m, w, c
  <2>7. AllNeighs(g, w, c) <=> AdjacentTo(g, w, ToSet(c))
    BY <2>5, AllNeighsFacts
  <2>8. CASE AllNeighs(g, w, c)
    <3>1. f[m] = Append(c, w)
      BY <2>2, <2>8
    <3>2. \A u \in ToSet(c) : u < w
      <4>1. AdjacentTo(g, w, K)
        BY <2>5, <2>7, <2>8 DEF AdjacentTo
      <4>2. \A u \in K : u < w
        BY <2>6, <4>1 DEF K
      <4>3. QED  BY <2>4, <2>5, <4>2
    <3>3. /\ Append(c, w) \in Seq(DOMAIN g) /\ ToSet(Append(c, w)) = ToSet(c) \cup {w}
          /\ Increasing(Append(c, w))
      BY <1>1, <2>5, <2>6, <3>2, AppendFacts
    <3>4. IsClique(g, ToSet(c) \cup {w})
      BY <2>5, <2>6, <2>7, <2>8, Symmetry DEF IsClique, AdjacentTo
    <3>5. Good(Append(c, w), m)
      BY <2>3, <2>5, <3>3, <3>4
    <3>6. QED  BY <2>1, <3>1, <3>5 DEF m
  <2>9. CASE ~ AllNeighs(g, w, c)
    <3>1. f[m] = c
      BY <2>2, <2>9
    <3>2. AdjacentTo(g, w, K) => \E u \in ToSet(c) : u < w /\ ~ are_neighs(g, w, u)
      <4>1. SUFFICES ASSUME AdjacentTo(g, w, K)
                     PROVE  \E u \in ToSet(c) : u < w /\ ~ are_neighs(g, w, u)
        OBVIOUS
      <4>2. PICK u \in ToSet(c) : ~ are_neighs(g, w, u)
        BY <2>7, <2>9 DEF AdjacentTo
      <4>3. u \in Upto(k)
        BY <2>5, <4>1, <4>2 DEF AdjacentTo
      <4>4. QED  BY <2>4, <4>2, <4>3
    <3>3. Good(c, m)
      BY <2>3, <2>5, <3>2
    <3>4. QED  BY <2>1, <3>1, <3>3 DEF m
  <2>10. QED  BY <2>8, <2>9
<1>7. n \in P
  <2> HIDE DEF P
  <2>1. \A m \in 0..n : m \in P
    BY <1>3, <1>5, <1>6, Induct
  <2>2. QED  BY <1>3, <2>1
<1>8. Good(f[n], n)
  BY <1>7
<1>9. ASSUME NEW w \in DOMAIN g \ ToSet(f[n]), AdjacentTo(g, w, K)
      PROVE  \E u \in ToSet(f[n]) : u < w /\ ~ are_neighs(g, w, u)
  <2>1. s[1] < w /\ are_neighs(g, s[1], w)
    BY <1>1, <1>9, Symmetry DEF K, AdjacentTo
  <2>2. w \in Upto(n)
    <3> HIDE DEF Upto
    <3>1. QED  BY <1>1, <1>2, <1>3, <1>9, <2>1
  <2>3. QED  BY <1>8, <1>9, <2>2
<1>10. K # {}
  BY <1>1
<1>11. QED  BY <1>4, <1>8, <1>9, <1>10 DEF Greedy, K
-----------------------------------------------------------------------
(* Candidates *)

CandidatesTurns(f, g, node, s, n) ==
  /\ f[0] = <<>>
  /\ \A m \in 1..n :
       f[m] = f[m - 1] \o Kept(fwd_neighs(g, s[m]),
                              {w \in DOMAIN g : w > node.cand}
                                \ (ToSet(f[m - 1]) \cup ToSet(s)))
  /\ Candidates(g, node) = f[n]

LEMMA CandidatesLoop ==
  ASSUME NEW g, SimpleGraph(g), NEW node, NEW s, s = node.clique,
         s \in Seq(DOMAIN g), NEW n, n = Len(s), n \in Nat
  PROVE  \E f : CandidatesTurns(f, g, node, s, n)
<1> DEFINE X == Seq(DOMAIN g)
           More(c, v) == Kept(fwd_neighs(g, v), {w \in DOMAIN g : w > node.cand}
                                                  \ (ToSet(c) \cup ToSet(s)))
           G == [m \in 1..n |-> [c \in X |-> c \o More(c, s[m])]]
           Loop(f) == f = [m \in 0..n |-> IF m = 0 THEN <<>>
                                           ELSE f[m - 1] \o More(f[m - 1], s[m])]
           F == CHOOSE f : Loop(f)
<1>1. \A m \in 1..n : s[m] \in DOMAIN g
  OBVIOUS
<1>2. G \in [1..n -> [X -> X]]
  <2>1. ASSUME NEW m \in 1..n, NEW c \in X PROVE c \o More(c, s[m]) \in X
    <3>1. fwd_neighs(g, s[m]) \in X
      BY <1>1, NeighsFacts
    <3>2. More(c, s[m]) \in X
      BY <3>1, KeptFacts
    <3>3. QED  BY <3>2, ConcatFacts
  <2>2. ASSUME NEW m \in 1..n PROVE [c \in X |-> c \o More(c, s[m])] \in [X -> X]
    <3> HIDE DEF X, More
    <3>1. QED  BY <2>1
  <2> HIDE DEF X, More
  <2>3. QED  BY <2>2
<1>3. PICK f : LoopOf(f, n, X, <<>>, G)
  <2>1. <<>> \in X
    OBVIOUS
  <2> HIDE DEF G, X
  <2>2. QED  BY <1>2, <2>1, LoopExists
<1>4. f \in [0..n -> X] /\ f[0] = <<>> /\ \A m \in 1..n : f[m] = G[m][f[m - 1]]
  BY <1>3 DEF LoopOf
<1> HIDE DEF More
<1>5. ASSUME NEW m \in 1..n PROVE f[m] = f[m - 1] \o More(f[m - 1], s[m])
  <2>1. f[m - 1] \in X
    <3>1. m - 1 \in 0..n
      BY <1>5
    <3>2. QED  BY <1>4, <3>1
  <2>2. G[m] = [c \in X |-> c \o More(c, s[m])]
    BY <1>5
  <2>3. QED  BY <1>4, <1>5, <2>1, <2>2
<1>6. Loop(f)
  <2>1. ASSUME NEW m \in 0..n
        PROVE  f[m] = IF m = 0 THEN <<>> ELSE f[m - 1] \o More(f[m - 1], s[m])
    <3>1. m = 0 \/ m \in 1..n
      BY <2>1
    <3>2. QED  BY <1>4, <1>5, <3>1
  <2>2. QED  BY <1>4, <2>1
<1>7. Loop(F)
  BY <1>6
<1>8. Candidates(g, node) = F[n]
  BY DEF Candidates, More
<1> HIDE DEF F
<1>9. F[0] = <<>>
  BY <1>7
<1>10. ASSUME NEW m \in 1..n PROVE F[m] = F[m - 1] \o More(F[m - 1], s[m])
  <2>1. m \in 0..n /\ m # 0
    BY <1>10
  <2>2. QED  BY <1>7, <2>1
<1>11. CandidatesTurns(F, g, node, s, n)
  BY <1>8, <1>9, <1>10 DEF More, CandidatesTurns
<1>12. QED  BY <1>11

\* The candidates, each once: what comes after the vertex the clique was made
\* with and after some vertex of the clique that it is adjacent to.
LEMMA CandidatesFacts ==
  ASSUME NEW g, SimpleGraph(g), NEW node, node.clique \in Seq(DOMAIN g)
  PROVE  /\ Candidates(g, node) \in Seq(DOMAIN g)
         /\ IsInjective(Candidates(g, node))
         /\ ToSet(Candidates(g, node))
              = {w \in DOMAIN g : /\ w > node.cand /\ w \notin ToSet(node.clique)
                                  /\ \E u \in ToSet(node.clique) : w > u /\ are_neighs(g, u, w)}
<1> DEFINE s == node.clique
           n == Len(s)
           Free == {w \in DOMAIN g : w > node.cand} \ ToSet(s)
           After(u) == {w \in DOMAIN g : are_neighs(g, u, w) /\ w > u}
           Upto(m) == UNION {After(s[x]) : x \in 1..m}
<1>1. n \in Nat /\ DOMAIN s = 1..n /\ ToSet(s) = {s[x] : x \in 1..n}
      /\ \A m \in 1..n : s[m] \in DOMAIN g
  BY SeqFacts
<1>0. s = node.clique /\ s \in Seq(DOMAIN g) /\ n = Len(s) /\ n \in Nat
  BY SeqFacts
<1> HIDE DEF n, s
<1>2. PICK f : CandidatesTurns(f, g, node, s, n)
  BY <1>0, CandidatesLoop
<1> DEFINE Good(c, m) == /\ c \in Seq(DOMAIN g) /\ IsInjective(c)
                         /\ ToSet(c) = Upto(m) \cap Free
           P == {m \in 0..n : Good(f[m], m)}
<1>3. 0 \in P
  <2>1. Upto(0) = {}
    OBVIOUS
  <2>2. <<>> \in Seq(DOMAIN g) /\ ToSet(<<>>) = {} /\ IsInjective(<<>>)
    BY DEF ToSet, IsInjective
  <2> HIDE DEF Upto, Free
  <2>3. Good(<<>>, 0)
    BY <2>1, <2>2
  <2> HIDE DEF Good
  <2>4. QED  BY <1>1, <1>2, <2>3 DEF CandidatesTurns
<1>4. ASSUME NEW k \in 0..(n - 1), k \in P PROVE k + 1 \in P
  <2> DEFINE m == k + 1
             c == f[k]
             more == Kept(fwd_neighs(g, s[m]), {w \in DOMAIN g : w > node.cand}
                                                 \ (ToSet(c) \cup ToSet(s)))
  <2>1. m \in 1..n /\ m \in 0..n /\ m - 1 = k /\ k \in Nat
    BY <1>1, <1>4
  <2>2. f[m] = c \o more
    BY <1>2, <2>1 DEF CandidatesTurns
  <2>3. Upto(m) = Upto(k) \cup After(s[m])
    <3>1. \A x \in 1..m : x \in 1..k \/ x = m
      BY <2>1
    <3>2. m \in 1..m /\ \A x \in 1..k : x \in 1..m
      BY <2>1
    <3> HIDE DEF After
    <3>3. QED  BY <3>1, <3>2
  <2>4. Good(c, k)
    BY <1>4
  <2>5. /\ fwd_neighs(g, s[m]) \in Seq(DOMAIN g) /\ IsInjective(fwd_neighs(g, s[m]))
        /\ ToSet(fwd_neighs(g, s[m])) = After(s[m])
    <3>1. /\ fwd_neighs(g, s[m]) \in Seq(DOMAIN g) /\ Increasing(fwd_neighs(g, s[m]))
          /\ ToSet(fwd_neighs(g, s[m])) = After(s[m])
      BY <1>1, <2>1, NeighsFacts
    <3>2. QED  BY <3>1, Symmetry, IncreasingOnce, SMTT(30)
  <2>6. /\ more \in Seq(DOMAIN g) /\ IsInjective(more)
        /\ ToSet(more) = (After(s[m]) \cap Free) \ ToSet(c)
    <3> DEFINE S == {w \in DOMAIN g : w > node.cand} \ (ToSet(c) \cup ToSet(s))
    <3>1. S = Free \ ToSet(c)
      OBVIOUS
    <3> HIDE DEF S, Free, After
    <3>2. /\ Kept(fwd_neighs(g, s[m]), S) \in Seq(DOMAIN g)
          /\ IsInjective(Kept(fwd_neighs(g, s[m]), S))
          /\ ToSet(Kept(fwd_neighs(g, s[m]), S)) = After(s[m]) \cap S
      BY <2>5, KeptFacts
    <3>3. QED  BY <3>1, <3>2 DEF S
  <2> HIDE DEF Upto, After, Free, m, c, more
  <2>7. ToSet(c) \cap ToSet(more) = {}
    BY <2>6
  <2>8. /\ c \o more \in Seq(DOMAIN g) /\ IsInjective(c \o more)
        /\ ToSet(c \o more) = ToSet(c) \cup ToSet(more)
    BY <2>4, <2>6, <2>7, ConcatFacts
  <2>9. ToSet(c \o more) = Upto(m) \cap Free
    BY <2>3, <2>4, <2>6, <2>8
  <2>10. Good(f[m], m)
    BY <2>2, <2>8, <2>9
  <2> HIDE DEF Good
  <2>11. QED  BY <2>1, <2>10 DEF m
<1>5. n \in P
  <2> HIDE DEF P
  <2>1. \A m \in 0..n : m \in P
    BY <1>1, <1>3, <1>4, Induct
  <2>2. QED  BY <1>1, <2>1
<1>6. Good(f[n], n)
  BY <1>5
<1>7. Upto(n) \cap Free
        = {w \in DOMAIN g : /\ w > node.cand /\ w \notin ToSet(s)
                            /\ \E u \in ToSet(s) : w > u /\ are_neighs(g, u, w)}
  BY <1>1
<1>8. QED  BY <1>2, <1>6, <1>7 DEF s, CandidatesTurns
-----------------------------------------------------------------------
(* Nodes and children *)

\* A sequence of the elements of S, each once.
Lists(seq, S) == seq \in Seq(S) /\ IsInjective(seq) /\ ToSet(seq) = S

\* A maximal clique in ascending order, and its vertex.
CliqueNode(g) ==
  {x \in [clique : Seq(DOMAIN g), cand : DOMAIN g] :
     Increasing(x.clique) /\ IsCand(g, ToSet(x.clique), x.cand)}

\* The parent is the greedy completion of what a clique has below its vertex.
KidsOfNode(g, x) ==
  {y \in CliqueNode(g) : Greedy(g, Below(ToSet(y.clique), y.cand), ToSet(x.clique))}

KidsOfRoot(g, r) ==
  {y \in CliqueNode(g) : y.cand = r /\ Below(ToSet(y.clique), r) = {}}

Core(g, C, w) == {v \in C : v < w /\ are_neighs(g, w, v)}

\* Nothing up to w is adjacent to K and w.
NoneBefore(g, K, w) ==
  \A z \in DOMAIN g : z <= w /\ AdjacentTo(g, z, K) => ~ are_neighs(g, z, w)

LEMMA NodeFacts ==
  ASSUME NEW g, SimpleGraph(g), NEW x \in CliqueNode(g)
  PROVE  /\ x.clique \in Seq(DOMAIN g) /\ Increasing(x.clique)
         /\ x = [clique |-> x.clique, cand |-> x.cand]
         /\ ToSet(x.clique) \subseteq DOMAIN g /\ ToSet(x.clique) \subseteq Nat
         /\ x.cand \in ToSet(x.clique) /\ IsCand(g, ToSet(x.clique), x.cand)
         /\ IsMaximalClique(g, ToSet(x.clique)) /\ IsClique(g, ToSet(x.clique))
         /\ x.cand \in DOMAIN g /\ x.cand \in Nat
<1>1. /\ x.clique \in Seq(DOMAIN g) /\ Increasing(x.clique)
      /\ x = [clique |-> x.clique, cand |-> x.cand]
      /\ IsCand(g, ToSet(x.clique), x.cand) /\ x.cand \in DOMAIN g
  BY DEF CliqueNode
<1>2. ToSet(x.clique) \subseteq DOMAIN g /\ DOMAIN g \subseteq Nat
  BY <1>1, SeqFacts, Symmetry
<1>3. x.cand \in ToSet(x.clique) /\ Greedy(g, UpTo(ToSet(x.clique), x.cand), ToSet(x.clique))
  BY <1>1 DEF IsCand
<1>4. IsMaximalClique(g, ToSet(x.clique))
  BY <1>3, GreedyIsMaximal
<1>5. QED  BY <1>1, <1>2, <1>3, <1>4 DEF IsMaximalClique

LEMMA NodeUnique ==
  ASSUME NEW g, SimpleGraph(g), NEW x \in CliqueNode(g), NEW y \in CliqueNode(g),
         ToSet(x.clique) = ToSet(y.clique)
  PROVE  x = y
<1>1. x.cand = y.cand
  BY NodeFacts, CandUnique
<1>2. x.clique = y.clique
  <2>1. DOMAIN g \subseteq Int
    BY Symmetry
  <2>2. /\ x.clique \in Seq(DOMAIN g) /\ Increasing(x.clique)
        /\ y.clique \in Seq(DOMAIN g) /\ Increasing(y.clique)
    BY NodeFacts
  <2>3. QED  BY <2>1, <2>2, IncreasingUnique
<1>3. QED  BY <1>1, <1>2, NodeFacts

LEMMA AscendingFacts ==
  ASSUME NEW n \in Nat, NEW S, S \subseteq 0..(n - 1)
  PROVE  /\ Ascending(S, n) \in Seq(0..(n - 1)) /\ Increasing(Ascending(S, n))
         /\ ToSet(Ascending(S, n)) = S
<1> DEFINE s == [m \in 1..n |-> m - 1]
           T == 0..(n - 1)
<1>1. s \in Seq(T) /\ Len(s) = n /\ DOMAIN s = 1..n /\ T \subseteq Int
  OBVIOUS
<1>2. Increasing(s)
  BY DEF Increasing
<1>3. ToSet(s) = T
  <2>1. ToSet(s) \subseteq T
    <3>1. \A m \in 1..n : s[m] \in T
      OBVIOUS
    <3>2. QED  BY <1>1, <3>1 DEF ToSet
  <2>2. ASSUME NEW v \in T PROVE v \in ToSet(s)
    <3>1. v + 1 \in 1..n /\ s[v + 1] = v
      OBVIOUS
    <3>2. QED  BY <1>1, <3>1 DEF ToSet
  <2>3. QED  BY <2>1, <2>2
<1> HIDE DEF s, T
<1>4. /\ Kept(s, S) \in Seq(T) /\ ToSet(Kept(s, S)) = ToSet(s) \cap S
      /\ Increasing(Kept(s, S))
  BY <1>1, <1>2, KeptFacts
<1>5. Ascending(S, n) = Kept(s, S)
  BY DEF Ascending, s
<1>6. S \subseteq T
  BY DEF T
<1>7. QED  BY <1>3, <1>4, <1>5, <1>6 DEF T

\* Each maximal clique is that of one node.
LEMMA NodeExists ==
  ASSUME NEW g, SimpleGraph(g), NEW C, IsMaximalClique(g, C)
  PROVE  \E x \in CliqueNode(g) : ToSet(x.clique) = C
<1>1. size(g) \in Nat /\ DOMAIN g = 0..(size(g) - 1) /\ C \subseteq DOMAIN g
  BY Symmetry DEF IsMaximalClique, IsClique
<1>2. PICK c \in C : IsCand(g, C, c)
  BY MaximalHasCand
<1> DEFINE s == Ascending(C, size(g))
<1>3. s \in Seq(DOMAIN g) /\ Increasing(s) /\ ToSet(s) = C
  BY <1>1, AscendingFacts
<1> HIDE DEF s
<1> DEFINE x == [clique |-> s, cand |-> c]
<1>4. x \in CliqueNode(g) /\ ToSet(x.clique) = C
  BY <1>1, <1>2, <1>3 DEF CliqueNode
<1>5. QED  BY <1>4

LEMMA CoreFacts ==
  ASSUME NEW g, SimpleGraph(g), NEW x \in CliqueNode(g), NEW w \in DOMAIN g
  PROVE  /\ ChildCore(g, x.clique, w) \in Seq(DOMAIN g)
         /\ Increasing(ChildCore(g, x.clique, w))
         /\ ToSet(ChildCore(g, x.clique, w)) = Core(g, ToSet(x.clique), w)
         /\ IsClique(g, Core(g, ToSet(x.clique), w))
<1> DEFINE S == {v \in DOMAIN g : v <= w /\ are_neighs(g, w, v)}
           s == x.clique
<1>1. s \in Seq(DOMAIN g) /\ Increasing(s) /\ DOMAIN g \subseteq Int /\ ToSet(s) \subseteq DOMAIN g
      /\ IsClique(g, ToSet(s))
  BY NodeFacts, Symmetry
<1>2. ToSet(s) \cap S = Core(g, ToSet(s), w)
  <2>1. \A v \in DOMAIN g : v <= w /\ are_neighs(g, w, v) <=> v < w /\ are_neighs(g, w, v)
    BY <1>1, Symmetry
  <2>2. QED  BY <1>1, <2>1 DEF Core
<1>3. ChildCore(g, s, w) = Kept(s, S)
  BY DEF ChildCore
<1> HIDE DEF S, s
<1>4. /\ Kept(s, S) \in Seq(DOMAIN g) /\ ToSet(Kept(s, S)) = ToSet(s) \cap S
      /\ Increasing(Kept(s, S))
  BY <1>1, KeptFacts
<1>5. IsClique(g, Core(g, ToSet(s), w))
  BY <1>1 DEF Core, IsClique
<1>6. QED  BY <1>2, <1>3, <1>4, <1>5 DEF s

LEMMA LeastDegreeFacts ==
  ASSUME NEW g, SimpleGraph(g), NEW core \in Seq(DOMAIN g), core # <<>>
  PROVE  LeastDegree(g, core) \in ToSet(core)
<1> DEFINE I == DOMAIN core
           deg(m) == degree(g, core[m])
           Least(m) == /\ \A x \in I : deg(m) <= deg(x)
                       /\ \A x \in 1..(m - 1) : deg(x) > deg(m)
<1>1. I = 1..Len(core) /\ Len(core) \in Nat /\ I # {} /\ \A m \in I : core[m] \in DOMAIN g
  <2>1. I = 1..Len(core) /\ Len(core) \in Nat /\ \A m \in I : core[m] \in DOMAIN g
    BY SeqFacts
  <2>2. Len(core) # 0
    BY SeqFacts
  <2>3. 1 \in I
    BY <2>1, <2>2
  <2>4. QED  BY <2>1, <2>3
<1>2. \A m \in I : deg(m) \in Nat
  <2>1. \A v \in DOMAIN g : Len(g[v]) \in Nat
    BY NeighsFacts, SeqFacts
  <2>2. QED  BY <1>1, <2>1 DEF degree
<1> HIDE DEF deg, I
<1>3. PICK n : n \in {deg(m) : m \in I} /\ \A x \in {deg(m) : m \in I} : n <= x
  <2> DEFINE P == {deg(m) : m \in I}
  <2>1. P \in SUBSET Nat /\ P # {}
    BY <1>1, <1>2
  <2> HIDE DEF P
  <2>2. PICK n \in P : \A x \in P : n <= x
    BY <2>1, LeastNat
  <2>3. QED  BY <2>2 DEF P
<1>4. PICK m : m \in I /\ deg(m) = n /\ \A x \in I : deg(x) = n => m <= x
  <2> DEFINE P == {m \in I : deg(m) = n}
  <2>1. P \in SUBSET Nat /\ P # {}
    BY <1>1, <1>3
  <2> HIDE DEF P
  <2>2. PICK m \in P : \A x \in P : m <= x
    BY <2>1, LeastNat
  <2>3. QED  BY <2>2 DEF P
<1>5. Least(m)
  <2>1. \A x \in I : deg(m) <= deg(x)
    BY <1>3, <1>4
  <2>2. ASSUME NEW x \in 1..(m - 1) PROVE deg(x) > deg(m)
    <3>1. x \in I /\ x < m /\ x \in Nat /\ m \in Nat
      BY <1>1, <1>4, <2>2
    <3>2. deg(x) # n
      BY <1>4, <3>1
    <3>3. deg(x) \in Nat /\ deg(m) \in Nat /\ deg(m) <= deg(x) /\ deg(x) # deg(m)
      BY <1>2, <1>4, <2>1, <3>1, <3>2
    <3>4. QED  BY <3>3
  <2>3. QED  BY <2>1, <2>2
<1> DEFINE k == CHOOSE k \in I : Least(k)
<1>6. k \in I
  BY <1>4, <1>5
<1>7. LeastDegree(g, core) = core[k]
  BY DEF LeastDegree, deg, I
<1> HIDE DEF k
<1>8. QED  BY <1>6, <1>7 DEF ToSet, I

\* What ListChildren looks for: some vertex that completes the core comes
\* before the clique or before the candidate.
LEMMA RejectedFacts ==
  ASSUME NEW g, SimpleGraph(g), NEW x \in CliqueNode(g), NEW w \in DOMAIN g,
         NEW core, core = ChildCore(g, x.clique, w),
         NEW C, C = ToSet(x.clique), NEW K, K = Core(g, C, w), K # {}
  PROVE  (\E z \in ToSet(neighs(g, LeastDegree(g, core))) : RejectedBy(g, x.clique, w, core, z))
           <=> ~ (Greedy(g, K, C) /\ NoneBefore(g, K, w))
<1> DEFINE s == x.clique
           Rejects(z) == RejectedBy(g, s, w, core, z)
<1>1. /\ s \in Seq(DOMAIN g) /\ Increasing(s) /\ C \subseteq DOMAIN g /\ IsClique(g, C)
      /\ C # {} /\ C = ToSet(s) /\ DOMAIN g \subseteq Nat /\ K \subseteq C
  BY NodeFacts, Symmetry DEF Core
<1>2. core \in Seq(DOMAIN g) /\ ToSet(core) = K /\ core # <<>>
  <2>1. core \in Seq(DOMAIN g) /\ ToSet(core) = K
    BY CoreFacts
  <2>2. QED  BY <2>1, SeqFacts
<1> HIDE DEF s
<1>3. /\ DOMAIN s = 1..Len(s) /\ Len(s) \in Nat /\ Len(s) # 0
      /\ C = {s[m] : m \in 1..Len(s)}
      /\ \A m \in 1..Len(s) : s[m] \in DOMAIN g /\ s[m] \in C
  <2>1. /\ DOMAIN s = 1..Len(s) /\ Len(s) \in Nat /\ C = {s[m] : m \in 1..Len(s)}
        /\ \A m \in 1..Len(s) : s[m] \in DOMAIN g /\ s[m] \in C
    BY <1>1, SeqFacts
  <2>2. QED  BY <1>1, <2>1
<1>4. s[1] \in C /\ s[1] \in DOMAIN g /\ \A u \in C : s[1] <= u
  <2>1. \A m \in 1..Len(s) : s[1] <= s[m]
    <3>1. SUFFICES ASSUME NEW m \in 1..Len(s) PROVE s[1] <= s[m]
      OBVIOUS
    <3>2. 1 \in 1..Len(s) /\ s[1] \in Nat /\ s[m] \in Nat
      BY <1>1, <1>3
    <3>3. m = 1 \/ 1 < m
      OBVIOUS
    <3>4. 1 < m => s[1] < s[m]
      BY <1>1, <1>3, <3>2 DEF Increasing
    <3>5. QED  BY <3>2, <3>3, <3>4
  <2>2. QED  BY <1>3, <2>1
<1>5. Bad(g, s) = {z \in DOMAIN g : /\ are_neighs(g, s[1], z) /\ z > s[1]
                                    /\ \A u \in C : u <= z => are_neighs(g, z, u)}
  <2>1. ToSet(fwd_neighs(g, s[1])) = {z \in DOMAIN g : are_neighs(g, s[1], z) /\ z > s[1]}
    BY <1>4, NeighsFacts
  <2>2. ASSUME NEW z \in DOMAIN g, NEW m \in 1..Len(s)
        PROVE  (\A k \in 1..m : s[k] <= z) <=> s[m] <= z
    <3>1. ASSUME NEW k \in 1..m, s[m] <= z PROVE s[k] <= z
      <4>1. k \in 1..Len(s) /\ (k = m \/ k < m)
        BY <1>3, <2>2
      <4>2. s[k] \in Nat /\ s[m] \in Nat /\ z \in Nat
        BY <1>1, <1>3, <2>2, <4>1
      <4>3. k < m => s[k] < s[m]
        BY <1>1, <1>3, <4>1 DEF Increasing
      <4>4. QED  BY <3>1, <4>1, <4>2, <4>3
    <3>2. m \in 1..m
      OBVIOUS
    <3>3. QED  BY <3>1, <3>2
  <2>3. ASSUME NEW z \in DOMAIN g
        PROVE  (\A m \in DOMAIN s : (\A k \in 1..m : s[k] <= z) => are_neighs(g, z, s[m]))
                 <=> \A u \in C : u <= z => are_neighs(g, z, u)
    BY <1>3, <2>2
  <2>4. QED  BY <2>1, <2>3 DEF Bad
<1>6. \A z : AllNeighs(g, z, core) <=> AdjacentTo(g, z, K)
  BY <1>2, AllNeighsFacts
<1>7. \A z \in DOMAIN g :
        Rejects(z) <=> /\ AdjacentTo(g, z, K)
                       /\ z < s[1] \/ (z <= w /\ are_neighs(g, z, w)) \/ z \in Bad(g, s)
  BY <1>6 DEF RejectedBy
<1> HIDE DEF Rejects
<1>8. (\E z \in ToSet(neighs(g, LeastDegree(g, core))) : Rejects(z))
        <=> \E z \in DOMAIN g : Rejects(z)
  <2> DEFINE v == LeastDegree(g, core)
  <2>1. v \in K /\ v \in DOMAIN g
    BY <1>1, <1>2, LeastDegreeFacts
  <2>2. ToSet(neighs(g, v)) = {z \in DOMAIN g : are_neighs(g, v, z)}
    BY <2>1, NeighsFacts
  <2> HIDE DEF v
  <2>3. \A z \in DOMAIN g : Rejects(z) => are_neighs(g, v, z)
    BY <1>7, <2>1, Symmetry DEF AdjacentTo
  <2>4. QED  BY <2>2, <2>3 DEF v
<1>9. ASSUME \A z \in DOMAIN g : ~ Rejects(z)
      PROVE  Greedy(g, K, C) /\ NoneBefore(g, K, w)
  <2>1. NoneBefore(g, K, w)
    BY <1>7, <1>9 DEF NoneBefore
  <2>2. ASSUME NEW z \in DOMAIN g \ C, AdjacentTo(g, z, K)
        PROVE  \E u \in C : u < z /\ ~ are_neighs(g, z, u)
    <3>1. z \in Nat /\ s[1] \in Nat /\ z # s[1] /\ ~ (z < s[1])
      BY <1>1, <1>4, <1>7, <1>9, <2>2
    <3>2. z > s[1] /\ z \notin Bad(g, s)
      BY <1>7, <1>9, <2>2, <3>1
    <3>3. CASE ~ are_neighs(g, s[1], z)
      BY <1>4, <2>2, <3>2, <3>3, Symmetry
    <3>4. CASE are_neighs(g, s[1], z)
      <4>1. PICK u \in C : u <= z /\ ~ are_neighs(g, z, u)
        BY <1>5, <2>2, <3>2, <3>4
      <4>2. u \in Nat /\ u # z
        BY <1>1, <2>2
      <4>3. QED  BY <3>1, <4>1, <4>2
    <3>5. QED  BY <3>3, <3>4
  <2>3. QED  BY <1>1, <2>1, <2>2 DEF Greedy
<1>10. ASSUME Greedy(g, K, C), NoneBefore(g, K, w), NEW z \in DOMAIN g, Rejects(z)
       PROVE  FALSE
  <2>1. AdjacentTo(g, z, K) /\ z \in Nat
    BY <1>1, <1>7, <1>10
  <2>2. ~ (z <= w /\ are_neighs(g, z, w))
    BY <1>10, <2>1 DEF NoneBefore
  <2>3. ASSUME z \notin C PROVE \E u \in C : u < z /\ ~ are_neighs(g, z, u)
    BY <1>10, <2>1, <2>3 DEF Greedy
  <2>4. CASE z < s[1]
    <3>1. z \notin C
      <4>1. \A u \in C : u \in Nat
        BY <1>1
      <4>2. QED  BY <1>4, <2>1, <2>4, <4>1
    <3>2. PICK u \in C : u < z
      BY <2>3, <3>1
    <3>3. u \in Nat /\ s[1] \in Nat /\ s[1] <= u
      BY <1>1, <1>4
    <3>4. QED  BY <2>1, <2>4, <3>2, <3>3
  <2>5. CASE z \in Bad(g, s)
    <3>1. \A u \in C : u <= z => are_neighs(g, z, u)
      BY <1>5, <2>5
    <3>2. z \notin C
      BY <1>10, <2>1, <3>1, Symmetry
    <3>3. PICK u \in C : u < z /\ ~ are_neighs(g, z, u)
      BY <2>3, <3>2
    <3>4. u \in Nat
      BY <1>1
    <3>5. QED  BY <2>1, <3>1, <3>3, <3>4
  <2>6. QED  BY <1>7, <1>10, <2>2, <2>4, <2>5
<1>11. QED  BY <1>8, <1>9, <1>10 DEF Rejects, s

\* A candidate that is not rejected makes a node, and this node is its parent.
LEMMA ChildMade ==
  ASSUME NEW g, SimpleGraph(g), NEW x \in CliqueNode(g), NEW w \in DOMAIN g,
         NEW C, C = ToSet(x.clique), NEW K, K = Core(g, C, w), K # {}, w \notin C,
         Greedy(g, K, C), NoneBefore(g, K, w),
         NEW core, core = ChildCore(g, x.clique, w)
  PROVE  [clique |-> CompleteFwd(g, Append(core, w)), cand |-> w] \in KidsOfNode(g, x)
<1> DEFINE s == Append(core, w)
           t == CompleteFwd(g, s)
           D == ToSet(t)
           L == K \cup {w}
<1>1. /\ core \in Seq(DOMAIN g) /\ Increasing(core) /\ ToSet(core) = K /\ IsClique(g, K)
      /\ DOMAIN g \subseteq Nat /\ K \subseteq C /\ C \subseteq DOMAIN g
      /\ \A v \in K : v < w /\ are_neighs(g, w, v)
  <2>1. /\ core \in Seq(DOMAIN g) /\ Increasing(core) /\ ToSet(core) = K /\ IsClique(g, K)
    BY CoreFacts
  <2>2. DOMAIN g \subseteq Nat /\ C \subseteq DOMAIN g
    BY NodeFacts, Symmetry
  <2>3. K \subseteq C /\ \A v \in K : v < w /\ are_neighs(g, w, v)
    BY DEF Core
  <2>4. QED  BY <2>1, <2>2, <2>3
<1>2. s \in Seq(DOMAIN g) /\ ToSet(s) = L /\ Increasing(s) /\ s # <<>>
  <2>1. /\ Append(core, w) \in Seq(DOMAIN g) /\ ToSet(Append(core, w)) = ToSet(core) \cup {w}
        /\ Increasing(Append(core, w))
    <3>1. DOMAIN g \subseteq Int
      BY <1>1
    <3>2. QED  BY <1>1, <3>1, AppendFacts
  <2>2. Append(core, w) # <<>>
    BY <2>1, SeqFacts
  <2>3. QED  BY <1>1, <2>1, <2>2
<1>3. IsClique(g, L)
  BY <1>1, Symmetry DEF IsClique
<1>4. ASSUME NEW z \in DOMAIN g, AdjacentTo(g, z, L) PROVE \A u \in L : u < z
  <2>1. AdjacentTo(g, z, K) /\ are_neighs(g, z, w)
    BY <1>4 DEF AdjacentTo
  <2>2. ~ (z <= w)
    BY <2>1 DEF NoneBefore
  <2>3. w \in Nat /\ z \in Nat /\ \A u \in K : u \in Nat /\ u < w
    BY <1>1
  <2>4. QED  BY <2>2, <2>3
<1> HIDE DEF s, L
<1>5. t \in Seq(DOMAIN g) /\ Increasing(t) /\ Greedy(g, L, D)
  BY <1>2, <1>3, <1>4, CompleteFwdFacts
<1> HIDE DEF t
<1>6. D \subseteq DOMAIN g /\ L \subseteq D /\ IsClique(g, D)
  BY <1>5 DEF Greedy, IsClique
<1>7. Below(D, w) = K
  <2>1. K \subseteq Below(D, w)
    BY <1>1, <1>6 DEF Below, L
  <2>2. ASSUME NEW u \in Below(D, w), u \notin K PROVE FALSE
    <3>1. u \in D /\ u < w /\ u \in DOMAIN g /\ u \in Nat /\ w \in Nat
      BY <1>1, <1>6, <2>2 DEF Below
    <3>2. AdjacentTo(g, u, K) /\ are_neighs(g, u, w)
      BY <1>6, <2>2, <3>1 DEF IsClique, AdjacentTo, L
    <3>3. u <= w
      BY <3>1
    <3>4. QED  BY <3>1, <3>2, <3>3 DEF NoneBefore
  <2>3. QED  BY <2>1, <2>2
<1>8. UpTo(D, w) = L
  <2>1. D \subseteq Nat /\ w \in Nat /\ w \in D
    BY <1>1, <1>6 DEF L
  <2>2. UpTo(D, w) = Below(D, w) \cup (D \cap {w})
    BY <2>1, BelowFacts
  <2>3. QED  BY <1>7, <2>1, <2>2 DEF L
<1>9. ~ Greedy(g, K, D)
  <2>1. SUFFICES ASSUME Greedy(g, K, D) PROVE FALSE
    OBVIOUS
  <2>2. C = D
    BY <2>1, GreedyUnique
  <2>3. QED  BY <1>6, <2>2 DEF L
<1>10. IsCand(g, D, w)
  BY <1>5, <1>6, <1>7, <1>8, <1>9 DEF IsCand, L
<1> DEFINE y == [clique |-> t, cand |-> w]
<1>11. y \in CliqueNode(g)
  BY <1>5, <1>10 DEF CliqueNode
<1>12. Greedy(g, Below(ToSet(y.clique), y.cand), ToSet(x.clique))
  BY <1>7
<1>13. y \in KidsOfNode(g, x)
  BY <1>11, <1>12 DEF KidsOfNode
<1>14. QED  BY <1>13 DEF t, s

\* A node of which this one is the parent is met, as a candidate that is not
\* rejected.
LEMMA ChildFound ==
  ASSUME NEW g, SimpleGraph(g), NEW x \in CliqueNode(g), NEW y \in KidsOfNode(g, x),
         NEW w, w = y.cand, NEW C, C = ToSet(x.clique)
  PROVE  /\ w \in DOMAIN g /\ w \in ToSet(Candidates(g, x)) /\ x.cand < w
         /\ Core(g, C, w) # {} /\ Greedy(g, Core(g, C, w), C)
         /\ NoneBefore(g, Core(g, C, w), w)
<1> DEFINE D == ToSet(y.clique)
           K == Below(D, w)
<1>1. /\ y \in CliqueNode(g) /\ IsCand(g, D, w) /\ w \in D /\ IsClique(g, D)
      /\ D \subseteq DOMAIN g /\ D \subseteq Nat /\ w \in DOMAIN g /\ w \in Nat
      /\ C \subseteq DOMAIN g /\ C \subseteq Nat /\ IsMaximalClique(g, C) /\ IsClique(g, C)
      /\ x.clique \in Seq(DOMAIN g) /\ IsCand(g, C, x.cand)
  <2>1. y \in CliqueNode(g)
    BY DEF KidsOfNode
  <2>2. QED  BY <2>1, NodeFacts
<1>2. Greedy(g, K, C) /\ Greedy(g, UpTo(D, w), D) /\ ~ Greedy(g, K, D)
  BY <1>1 DEF KidsOfNode, IsCand
<1>3. K # {} /\ K \subseteq C
  BY <1>2 DEF Greedy
<1>4. UpTo(D, w) = K \cup {w}
  <2>1. UpTo(D, w) = Below(D, w) \cup (D \cap {w})
    BY <1>1, BelowFacts
  <2>2. QED  BY <1>1, <2>1
<1>5. ASSUME NEW z \in DOMAIN g, z < w, AdjacentTo(g, z, K), are_neighs(g, z, w)
      PROVE  z \in D
  <2>1. SUFFICES ASSUME z \notin D PROVE FALSE
    OBVIOUS
  <2>2. AdjacentTo(g, z, UpTo(D, w))
    BY <1>4, <1>5 DEF AdjacentTo
  <2>3. PICK u \in D : u < z /\ ~ are_neighs(g, z, u)
    BY <1>2, <2>1, <2>2 DEF Greedy
  <2>4. u \in Nat /\ z \in Nat
    BY <1>1, Symmetry
  <2>5. u < w
    BY <1>1, <1>5, <2>3, <2>4
  <2>6. u \in K
    BY <2>5 DEF Below
  <2>7. QED  BY <1>5, <2>3, <2>6 DEF AdjacentTo
<1>6. \A v \in K : v \in D /\ v < w /\ v # w /\ v \in DOMAIN g /\ are_neighs(g, w, v)
  <2>1. \A v \in K : v \in D /\ v < w /\ v \in Nat
    BY <1>1 DEF Below
  <2>2. \A v \in K : v # w
    BY <1>1, <2>1
  <2>3. QED  BY <1>1, <2>1, <2>2 DEF IsClique
<1>7. \A z \in DOMAIN g : z \in D /\ z < w => z \in K
  BY DEF Below
<1> HIDE DEF K, D
<1>8. w \notin C
  <2>1. SUFFICES ASSUME w \in C PROVE FALSE
    OBVIOUS
  <2>2. Greedy(g, K \cup {w}, C)
    BY <1>2, <1>3, <2>1, GreedyMore
  <2>3. C = D
    BY <1>2, <1>4, <2>2, GreedyUnique
  <2>4. QED  BY <1>2, <2>3
<1>9. Core(g, C, w) = K
  <2>1. K \subseteq Core(g, C, w)
    BY <1>3, <1>6 DEF Core
  <2>2. ASSUME NEW v \in Core(g, C, w) PROVE v \in K
    <3>1. v \in C /\ v < w /\ are_neighs(g, w, v) /\ v \in DOMAIN g
      BY <1>1 DEF Core
    <3>2. SUFFICES ASSUME v \notin K PROVE FALSE
      OBVIOUS
    <3>3. AdjacentTo(g, v, K)
      BY <1>1, <1>3, <3>1, <3>2 DEF IsClique, AdjacentTo
    <3>4. v \in D
      BY <1>1, <1>5, <3>1, <3>3, Symmetry
    <3>5. QED  BY <1>7, <3>1, <3>2, <3>4
  <2>3. QED  BY <2>1, <2>2
<1>10. NoneBefore(g, K, w)
  <2>1. SUFFICES ASSUME NEW z \in DOMAIN g, z <= w, AdjacentTo(g, z, K), are_neighs(g, z, w)
                 PROVE  FALSE
    BY DEF NoneBefore
  <2>2. z # w /\ z \in Nat
    BY <1>1, <2>1, Symmetry
  <2>3. z < w
    BY <1>1, <2>1, <2>2
  <2>4. z \in K
    BY <1>5, <1>7, <2>1, <2>3
  <2>5. QED  BY <2>1, <2>4, Symmetry DEF AdjacentTo
<1>11. x.cand < w
  <2>1. K \subseteq Below(C, w) /\ Below(C, w) \subseteq C
    BY <1>3, <1>6 DEF Below
  <2>2. Greedy(g, Below(C, w), C)
    BY <1>2, <2>1, GreedyMore
  <2>3. PICK c \in C : c < w /\ IsCand(g, C, c)
    BY <1>1, <2>2, CandExists
  <2>4. c = x.cand
    BY <1>1, <2>3, CandUnique
  <2>5. QED  BY <2>3, <2>4
<1>12. w \in ToSet(Candidates(g, x))
  <2>1. PICK u : u \in K
    BY <1>3
  <2>2. u \in C /\ w > u /\ are_neighs(g, u, w) /\ w > x.cand
    <3>1. u \in C /\ u \in DOMAIN g /\ u < w /\ are_neighs(g, w, u)
      BY <1>3, <1>6, <2>1
    <3>2. are_neighs(g, u, w)
      BY <1>1, <3>1, Symmetry
    <3>3. QED  BY <1>11, <3>1, <3>2
  <2>3. QED  BY <1>1, <1>8, <2>2, CandidatesFacts
<1>13. QED  BY <1>1, <1>2, <1>3, <1>9, <1>10, <1>11, <1>12

\* A node is known by its parent and its vertex.
LEMMA KidUnique ==
  ASSUME NEW g, SimpleGraph(g), NEW x \in CliqueNode(g),
         NEW y \in KidsOfNode(g, x), NEW z \in KidsOfNode(g, x), y.cand = z.cand
  PROVE  y = z
<1> DEFINE w == y.cand
           D == ToSet(y.clique)
           E == ToSet(z.clique)
           C == ToSet(x.clique)
<1>1. y \in CliqueNode(g) /\ z \in CliqueNode(g)
  BY DEF KidsOfNode
<1>2. ASSUME NEW k \in KidsOfNode(g, x), k.cand = w
      PROVE  UpTo(ToSet(k.clique), w) = Core(g, C, w) \cup {w}
  <2> DEFINE F == ToSet(k.clique)
  <2>1. k \in CliqueNode(g) /\ Greedy(g, Below(F, w), C)
    BY <1>2 DEF KidsOfNode
  <2>2. /\ F \subseteq Nat /\ F \subseteq DOMAIN g /\ w \in F /\ w \in Nat /\ w \in DOMAIN g
        /\ IsClique(g, F) /\ IsCand(g, F, w)
    BY <1>2, <2>1, NodeFacts
  <2>3. UpTo(F, w) = Below(F, w) \cup (F \cap {w})
    BY <2>2, BelowFacts
  <2>4. Greedy(g, Core(g, C, w), C) /\ NoneBefore(g, Core(g, C, w), w)
    BY <1>2, ChildFound
  <2>5. Below(F, w) \subseteq Core(g, C, w)
    <3>1. ASSUME NEW v \in Below(F, w) PROVE v \in C /\ v < w /\ are_neighs(g, w, v)
      <4>1. v \in C /\ v \in F /\ v < w
        BY <2>1, <3>1 DEF Below, Greedy
      <4>2. v # w
        BY <2>2, <4>1
      <4>3. QED  BY <2>2, <4>1, <4>2 DEF IsClique
    <3>2. QED  BY <3>1 DEF Core
  <2>6. ASSUME NEW v \in Core(g, C, w) PROVE v \in Below(F, w)
    <3>1. v \in C /\ v < w /\ are_neighs(g, w, v) /\ v \in DOMAIN g /\ v \in Nat
      BY NodeFacts DEF Core
    <3>2. SUFFICES ASSUME v \notin F PROVE FALSE
      BY <3>1 DEF Below
    <3>3. AdjacentTo(g, v, UpTo(F, w))
      <4>1. ASSUME NEW u \in Below(F, w) PROVE are_neighs(g, v, u)
        <5>1. u \in C /\ u # v
          BY <2>5, <3>2 DEF Core, Below
        <5>2. IsClique(g, C)
          BY NodeFacts
        <5>3. QED  BY <3>1, <5>1, <5>2 DEF IsClique
      <4>2. are_neighs(g, v, w)
        BY <2>2, <3>1, Symmetry
      <4>3. QED  BY <2>3, <4>1, <4>2 DEF AdjacentTo
    <3>4. PICK u \in F : u < v /\ ~ are_neighs(g, v, u)
      BY <2>2, <3>1, <3>2, <3>3 DEF IsCand, Greedy
    <3>5. u \in Nat /\ u < w
      BY <2>2, <3>1, <3>4
    <3>6. u \in UpTo(F, w)
      BY <2>2, <3>4, <3>5 DEF UpTo
    <3>7. QED  BY <3>3, <3>4, <3>6 DEF AdjacentTo
  <2>7. QED  BY <2>2, <2>3, <2>5, <2>6
<1>3. UpTo(D, w) = UpTo(E, w)
  BY <1>2
<1>4. Greedy(g, UpTo(D, w), D) /\ Greedy(g, UpTo(E, w), E)
  BY <1>1, NodeFacts DEF IsCand
<1>5. D = E
  BY <1>3, <1>4, GreedyUnique
<1>6. QED  BY <1>1, <1>5, NodeUnique

\* ListChildren calls back with each child of a node, once.
LEMMA ChildrenListed ==
  ASSUME NEW g, SimpleGraph(g), NEW x \in CliqueNode(g)
  PROVE  Lists(CliqueChildren(g, x), KidsOfNode(g, x))
<1> DEFINE C == ToSet(x.clique)
           cands == Candidates(g, x)
           CoreOf(w) == ChildCore(g, x.clique, w)
           Rejected(w) ==
             \E z \in ToSet(neighs(g, LeastDegree(g, CoreOf(w)))) :
               RejectedBy(g, x.clique, w, CoreOf(w), z)
           Left == {w \in ToSet(cands) : ~ Rejected(w)}
           listed == Kept(cands, Left)
           Kid(w) == [clique |-> CompleteFwd(g, Append(CoreOf(w), w)), cand |-> w]
           kids == [m \in DOMAIN listed |-> Kid(listed[m])]
<1>1. CliqueChildren(g, x) = kids
  BY DEF CliqueChildren
<1>2. /\ cands \in Seq(DOMAIN g) /\ IsInjective(cands)
      /\ ToSet(cands) = {w \in DOMAIN g : /\ w > x.cand /\ w \notin C
                                          /\ \E u \in C : w > u /\ are_neighs(g, u, w)}
  <2>1. x.clique \in Seq(DOMAIN g)
    BY NodeFacts
  <2>2. QED  BY <2>1, CandidatesFacts
<1>3. ASSUME NEW w \in ToSet(cands)
      PROVE  /\ w \in DOMAIN g /\ w \notin C /\ Core(g, C, w) # {}
             /\ ~ Rejected(w) <=> Greedy(g, Core(g, C, w), C) /\ NoneBefore(g, Core(g, C, w), w)
  <2>1. w \in DOMAIN g /\ w \notin C
    BY <1>2
  <2>2. PICK u \in C : w > u /\ are_neighs(g, u, w)
    BY <1>2
  <2>3. u \in DOMAIN g /\ u < w
    BY <2>2, NodeFacts
  <2>4. u \in Core(g, C, w)
    BY <2>1, <2>2, <2>3, Symmetry DEF Core
  <2>5. Rejected(w) <=> ~ (Greedy(g, Core(g, C, w), C) /\ NoneBefore(g, Core(g, C, w), w))
    <3> HIDE DEF C
    <3>1. C = ToSet(x.clique) /\ Core(g, C, w) # {}
      BY <2>4 DEF C
    <3>2. QED  BY <2>1, <3>1, RejectedFacts
  <2>6. QED  BY <2>1, <2>4, <2>5
<1> HIDE DEF Rejected
<1>4. /\ listed \in Seq(DOMAIN g) /\ IsInjective(listed) /\ ToSet(listed) = Left
  <2> HIDE DEF Left, cands
  <2>1. /\ listed \in Seq(DOMAIN g) /\ IsInjective(listed) /\ ToSet(listed) = ToSet(cands) \cap Left
    BY <1>2, KeptFacts
  <2>2. QED  BY <2>1 DEF Left
<1>5. ASSUME NEW w \in Left PROVE Kid(w) \in KidsOfNode(g, x) /\ Kid(w).cand = w
  <2>1. w \in ToSet(cands) /\ ~ Rejected(w)
    OBVIOUS
  <2>2. /\ w \in DOMAIN g /\ w \notin C /\ Core(g, C, w) # {}
        /\ Greedy(g, Core(g, C, w), C) /\ NoneBefore(g, Core(g, C, w), w)
    BY <1>3, <2>1
  <2>3. QED  BY <2>2, ChildMade
<1>6. ASSUME NEW y \in KidsOfNode(g, x) PROVE y.cand \in Left /\ y = Kid(y.cand)
  <2>1. /\ y.cand \in ToSet(cands) /\ Greedy(g, Core(g, C, y.cand), C)
        /\ NoneBefore(g, Core(g, C, y.cand), y.cand)
    BY ChildFound
  <2>2. y.cand \in Left
    BY <1>3, <2>1
  <2>3. Kid(y.cand) \in KidsOfNode(g, x) /\ Kid(y.cand).cand = y.cand
    BY <1>5, <2>2
  <2> HIDE DEF Kid
  <2>4. QED  BY <2>2, <2>3, KidUnique
<1> HIDE DEF Kid, Left, listed, cands
<1>7. /\ Len(listed) \in Nat /\ DOMAIN listed = 1..Len(listed)
      /\ \A m \in 1..Len(listed) : listed[m] \in Left
  BY <1>4, SeqFacts
<1>8. DOMAIN kids = 1..Len(listed) /\ \A m \in 1..Len(listed) : kids[m] = Kid(listed[m])
  BY <1>7
<1>9. kids \in Seq(KidsOfNode(g, x))
  BY <1>5, <1>7
<1> HIDE DEF kids
<1>10. IsInjective(kids)
  <2>1. SUFFICES ASSUME NEW m \in 1..Len(listed), NEW n \in 1..Len(listed), kids[m] = kids[n]
                 PROVE  m = n
    BY <1>8 DEF IsInjective
  <2>2. listed[m] = listed[n]
    BY <1>5, <1>7, <1>8, <2>1
  <2>3. QED  BY <1>4, <1>7, <2>2 DEF IsInjective
<1>11. ToSet(kids) = KidsOfNode(g, x)
  <2>1. ToSet(kids) \subseteq KidsOfNode(g, x)
    BY <1>9, SeqFacts
  <2>2. ASSUME NEW y \in KidsOfNode(g, x) PROVE y \in ToSet(kids)
    <3>1. y.cand \in ToSet(listed)
      BY <1>4, <1>6
    <3>2. PICK m \in 1..Len(listed) : listed[m] = y.cand
      BY <1>7, <3>1 DEF ToSet
    <3>3. kids[m] = y
      BY <1>6, <1>8, <3>2
    <3>4. QED  BY <1>8, <3>3 DEF ToSet
  <2>3. QED  BY <2>1, <2>2
<1>12. QED  BY <1>1, <1>9, <1>10, <1>11 DEF Lists
-----------------------------------------------------------------------
(* Roots *)

\* A sequence without repetition has as many elements as places.
LEMMA CountOnce ==
  ASSUME NEW S, NEW s \in Seq(S), IsInjective(s)
  PROVE  IsFiniteSet(ToSet(s)) /\ Cardinality(ToSet(s)) = Len(s)
<1>1. DOMAIN s = 1..Len(s) /\ Len(s) \in Nat
  OBVIOUS
<1>2. IsFiniteSet(1..Len(s)) /\ Cardinality(1..Len(s)) = Len(s)
  <2>1. 1 \in Int /\ Len(s) \in Int
    BY <1>1
  <2>2. QED  BY <1>1, <2>1, FS_Interval, SMTT(30)
<1>3. s \in Bijection(1..Len(s), ToSet(s))
  <2>1. s \in [1..Len(s) -> ToSet(s)]
    BY <1>1 DEF ToSet
  <2>2. QED  BY <1>1, <2>1 DEF Bijection, Injection, Surjection, IsInjective, ToSet
<1>4. QED  BY <1>2, <1>3, FS_Bijection DEF ExistsBijection

LEMMA SameDegree ==
  ASSUME NEW g, SimpleGraph(g), NEW r \in DOMAIN g
  PROVE  degree(g, r) = fwd_degree(g, r)
           <=> \A z \in DOMAIN g : are_neighs(g, r, z) => z > r
<1> DEFINE s == g[r]
           t == fwd_neighs(g, r)
<1>1. /\ s \in Seq(DOMAIN g) /\ Increasing(s) /\ t \in Seq(DOMAIN g) /\ Increasing(t)
      /\ ToSet(s) = {z \in DOMAIN g : are_neighs(g, r, z)}
      /\ ToSet(t) = {z \in DOMAIN g : are_neighs(g, r, z) /\ z > r}
  BY NeighsFacts DEF neighs
<1>2. degree(g, r) = Len(s) /\ fwd_degree(g, r) = Len(t)
  BY DEF degree, fwd_degree
<1> HIDE DEF s, t
<1>3. IsInjective(s) /\ IsInjective(t)
  <2>1. DOMAIN g \subseteq Int
    BY Symmetry
  <2>2. QED  BY <1>1, <2>1, IncreasingOnce
<1>4. /\ IsFiniteSet(ToSet(s)) /\ Cardinality(ToSet(s)) = Len(s)
      /\ Cardinality(ToSet(t)) = Len(t)
  BY <1>1, <1>3, CountOnce
<1>5. ToSet(t) \subseteq ToSet(s)
  BY <1>1
<1>6. Len(s) = Len(t) <=> ToSet(s) = ToSet(t)
  BY <1>4, <1>5, FS_Subset
<1>7. ToSet(s) = ToSet(t) <=> \A z \in DOMAIN g : are_neighs(g, r, z) => z > r
  BY <1>1
<1>8. QED  BY <1>2, <1>6, <1>7

\* GetRoot calls back with the node that has nothing before its vertex.
LEMMA RootListed ==
  ASSUME NEW g, SimpleGraph(g), NEW r \in DOMAIN g
  PROVE  Lists(CliqueRoot(g, r), KidsOfRoot(g, r))
<1> DEFINE t == CompleteFwd(g, <<r>>)
           D == ToSet(t)
           x == [clique |-> t, cand |-> r]
           Least == \A z \in DOMAIN g : are_neighs(g, r, z) => z > r
<1>1. CliqueRoot(g, r) = IF Least THEN <<x>> ELSE <<>>
  BY SameDegree DEF CliqueRoot
<1>2. r \in Nat /\ DOMAIN g \subseteq Nat
  BY Symmetry
<1>3. ASSUME NEW y \in KidsOfRoot(g, r)
      PROVE  /\ Least /\ y \in CliqueNode(g) /\ y.cand = r
             /\ Greedy(g, {r}, ToSet(y.clique))
  <2> DEFINE E == ToSet(y.clique)
  <2>1. y \in CliqueNode(g) /\ y.cand = r /\ Below(E, r) = {}
    BY DEF KidsOfRoot
  <2>2. IsCand(g, E, r) /\ r \in E /\ E \subseteq Nat
    BY <2>1, NodeFacts
  <2>3. UpTo(E, r) = {r}
    <3>1. UpTo(E, r) = Below(E, r) \cup (E \cap {r})
      BY <1>2, <2>2, BelowFacts
    <3>2. QED  BY <2>1, <2>2, <3>1
  <2>4. Greedy(g, {r}, E)
    BY <2>2, <2>3 DEF IsCand
  <2>5. ASSUME NEW z \in DOMAIN g, are_neighs(g, r, z) PROVE z > r
    <3>1. SUFFICES ASSUME ~ (z > r) PROVE FALSE
      OBVIOUS
    <3>2. z \in Nat /\ z # r /\ are_neighs(g, z, r)
      BY <1>2, <2>5, Symmetry
    <3>3. z < r
      BY <1>2, <3>1, <3>2
    <3>4. z \notin E
      BY <2>1, <3>3 DEF Below
    <3>5. AdjacentTo(g, z, {r})
      BY <3>2 DEF AdjacentTo
    <3>6. PICK u \in E : u < z
      BY <2>4, <3>4, <3>5 DEF Greedy
    <3>7. u \in Nat /\ u < r
      BY <1>2, <2>2, <3>2, <3>3, <3>6
    <3>8. QED  BY <2>1, <3>6, <3>7 DEF Below
  <2>6. QED  BY <2>1, <2>4, <2>5
<1>4. ASSUME Least PROVE x \in KidsOfRoot(g, r)
  <2> DEFINE s == <<r>>
  <2>1. s \in Seq(DOMAIN g) /\ s # <<>> /\ ToSet(s) = {r} /\ Increasing(s)
    <3>1. s \in Seq(DOMAIN g) /\ s # <<>> /\ DOMAIN s = {1} /\ s[1] = r
      OBVIOUS
    <3>2. ToSet(s) = {r}
      BY <3>1 DEF ToSet
    <3>3. Increasing(s)
      BY <3>1 DEF Increasing
    <3>4. QED  BY <3>1, <3>2, <3>3
  <2>2. IsClique(g, {r})
    BY DEF IsClique
  <2>3. \A z \in DOMAIN g : AdjacentTo(g, z, {r}) => \A u \in {r} : u < z
    BY <1>2, <1>4, Symmetry DEF AdjacentTo
  <2> HIDE DEF s
  <2>4. CompleteFwd(g, s) \in Seq(DOMAIN g) /\ Increasing(CompleteFwd(g, s))
        /\ Greedy(g, {r}, ToSet(CompleteFwd(g, s)))
    BY <2>1, <2>2, <2>3, CompleteFwdFacts
  <2>5. t \in Seq(DOMAIN g) /\ Increasing(t) /\ Greedy(g, {r}, D)
    BY <2>4 DEF s
  <2> HIDE DEF t
  <2>6. r \in D /\ D \subseteq DOMAIN g /\ IsClique(g, D)
    BY <2>5 DEF Greedy, IsClique
  <2>7. Below(D, r) = {}
    <3>1. SUFFICES ASSUME NEW u \in Below(D, r) PROVE FALSE
      OBVIOUS
    <3>2. u \in D /\ u < r /\ u \in DOMAIN g /\ u \in Nat
      BY <1>2, <2>6 DEF Below
    <3>3. u # r
      BY <1>2, <3>2
    <3>4. are_neighs(g, r, u)
      BY <2>6, <3>2, <3>3 DEF IsClique
    <3>5. u > r
      BY <1>4, <3>2, <3>4
    <3>6. QED  BY <1>2, <3>2, <3>5
  <2>8. UpTo(D, r) = {r}
    <3>1. UpTo(D, r) = Below(D, r) \cup (D \cap {r})
      BY <1>2, <2>6, BelowFacts
    <3>2. QED  BY <2>6, <2>7, <3>1
  <2>9. IsCand(g, D, r)
    BY <2>5, <2>6, <2>7, <2>8 DEF IsCand, Greedy
  <2>10. x \in CliqueNode(g)
    BY <2>5, <2>9 DEF CliqueNode
  <2>11. QED  BY <2>7, <2>10 DEF KidsOfRoot
<1>5. ASSUME NEW y \in KidsOfRoot(g, r) PROVE y = x
  <2>1. /\ Least /\ y \in CliqueNode(g) /\ Greedy(g, {r}, ToSet(y.clique))
    BY <1>3
  <2>2. x \in KidsOfRoot(g, r)
    BY <1>4, <2>1
  <2>3. x \in CliqueNode(g) /\ Greedy(g, {r}, ToSet(x.clique))
    <3> HIDE DEF x
    <3>1. QED  BY <1>3, <2>2
  <2>4. ToSet(y.clique) = ToSet(x.clique)
    BY <2>1, <2>3, GreedyUnique
  <2> HIDE DEF x
  <2>5. QED  BY <2>1, <2>3, <2>4, NodeUnique
<1> HIDE DEF x
<1>6. CASE Least
  <2>1. KidsOfRoot(g, r) = {x}
    BY <1>4, <1>5, <1>6
  <2>2. <<x>> \in Seq({x}) /\ DOMAIN <<x>> = {1} /\ <<x>>[1] = x
    OBVIOUS
  <2>3. IsInjective(<<x>>) /\ ToSet(<<x>>) = {x}
    BY <2>2 DEF IsInjective, ToSet
  <2>4. QED  BY <1>1, <1>6, <2>1, <2>2, <2>3 DEF Lists
<1>7. CASE ~ Least
  <2>1. KidsOfRoot(g, r) = {}
    BY <1>3, <1>7
  <2>2. <<>> \in Seq({}) /\ IsInjective(<<>>) /\ ToSet(<<>>) = {}
    BY DEF IsInjective, ToSet
  <2>3. QED  BY <1>1, <1>7, <2>1, <2>2 DEF Lists
<1>8. QED  BY <1>6, <1>7
-----------------------------------------------------------------------
(* The forest *)

LEMMA ParentsDiffer ==
  ASSUME NEW g, SimpleGraph(g)
  PROVE  /\ \A q, r \in DOMAIN g : q # r => KidsOfRoot(g, q) \cap KidsOfRoot(g, r) = {}
         /\ \A x, y \in CliqueNode(g) : x # y => KidsOfNode(g, x) \cap KidsOfNode(g, y) = {}
         /\ \A r \in DOMAIN g, x \in CliqueNode(g) : KidsOfRoot(g, r) \cap KidsOfNode(g, x) = {}
         /\ \A x \in CliqueNode(g) : \A y \in KidsOfNode(g, x) : x.cand < y.cand
<1>1. \A q, r \in DOMAIN g : q # r => KidsOfRoot(g, q) \cap KidsOfRoot(g, r) = {}
  BY DEF KidsOfRoot
<1>2. ASSUME NEW x \in CliqueNode(g), NEW y \in CliqueNode(g),
             NEW z \in KidsOfNode(g, x) \cap KidsOfNode(g, y)
      PROVE  x = y
  <2>1. ToSet(x.clique) = ToSet(y.clique)
    BY <1>2, GreedyUnique DEF KidsOfNode
  <2>2. QED  BY <2>1, NodeUnique
<1>3. \A r \in DOMAIN g, x \in CliqueNode(g) : KidsOfRoot(g, r) \cap KidsOfNode(g, x) = {}
  BY DEF KidsOfRoot, KidsOfNode, Greedy
<1>4. ASSUME NEW x \in CliqueNode(g), NEW y \in KidsOfNode(g, x) PROVE x.cand < y.cand
  BY ChildFound
<1>5. QED  BY <1>1, <1>2, <1>3, <1>4

\* Every node has a parent, or is a root's.
LEMMA ParentExists ==
  ASSUME NEW g, SimpleGraph(g), NEW y \in CliqueNode(g)
  PROVE  \/ \E r \in DOMAIN g : y \in KidsOfRoot(g, r)
         \/ \E x \in CliqueNode(g) : y \in KidsOfNode(g, x)
<1> DEFINE K == Below(ToSet(y.clique), y.cand)
<1>1. IsClique(g, ToSet(y.clique)) /\ y.cand \in DOMAIN g
  BY NodeFacts
<1>2. CASE K = {}
  BY <1>1, <1>2 DEF KidsOfRoot
<1>3. CASE K # {}
  <2>1. IsClique(g, K)
    BY <1>1 DEF IsClique, Below
  <2>2. PICK C : Greedy(g, K, C)
    <3> HIDE DEF K
    <3>1. QED  BY <1>3, <2>1, GreedyExists
  <2>3. IsMaximalClique(g, C)
    BY <2>2, GreedyIsMaximal
  <2>4. PICK x \in CliqueNode(g) : ToSet(x.clique) = C
    BY <2>3, NodeExists
  <2>5. QED  BY <2>2, <2>4 DEF KidsOfNode
<1>4. QED  BY <1>2, <1>3

\* A set that has, with a node, its children, and those of the roots, has all
\* nodes.
LEMMA AllReached ==
  ASSUME NEW g, SimpleGraph(g), NEW S,
         \A r \in DOMAIN g : KidsOfRoot(g, r) \subseteq S,
         \A x \in S \cap CliqueNode(g) : KidsOfNode(g, x) \subseteq S
  PROVE  CliqueNode(g) \subseteq S
<1> DEFINE P == {y.cand : y \in CliqueNode(g) \ S}
<1>1. SUFFICES ASSUME P # {} PROVE FALSE
  OBVIOUS
<1>2. P \in SUBSET Nat
  BY NodeFacts
<1>3. PICK c \in P : \A b \in P : c <= b
  <2> HIDE DEF P
  <2>1. QED  BY <1>1, <1>2, LeastNat
<1>4. PICK y \in CliqueNode(g) \ S : y.cand = c
  BY <1>3
<1>5. PICK x \in CliqueNode(g) : y \in KidsOfNode(g, x)
  BY <1>4, ParentExists
<1>6. x \notin S
  BY <1>4, <1>5
<1>7. x.cand < y.cand /\ x.cand \in Nat /\ y.cand \in Nat
  BY <1>4, <1>5, ParentsDiffer, NodeFacts
<1>8. c <= x.cand
  BY <1>3, <1>6
<1>9. QED  BY <1>4, <1>7, <1>8

LEMMA NodesFinite ==
  ASSUME NEW g, SimpleGraph(g)
  PROVE  IsFiniteSet(CliqueNode(g))
<1> DEFINE f == [x \in CliqueNode(g) |-> ToSet(x.clique)]
<1>1. IsFiniteSet(SUBSET (DOMAIN g))
  <2>1. IsFiniteSet(DOMAIN g)
    <3>1. /\ size(g) \in Nat /\ DOMAIN g = 0..(size(g) - 1)
      BY Symmetry
    <3>2. 0 \in Int /\ size(g) - 1 \in Int
      BY <3>1
    <3>3. QED  BY <3>1, <3>2, FS_Interval
  <2>2. QED  BY <2>1, FS_SUBSET
<1>2. f \in Injection(CliqueNode(g), SUBSET (DOMAIN g))
  <2>1. f \in [CliqueNode(g) -> SUBSET (DOMAIN g)]
    BY NodeFacts
  <2>2. \A x, y \in CliqueNode(g) : f[x] = f[y] => x = y
    BY NodeUnique
  <2> HIDE DEF f
  <2>3. QED  BY <2>1, <2>2 DEF Injection, IsInjective
<1>3. QED  BY <1>1, <1>2, FS_Injection DEF ExistsInjection
-----------------------------------------------------------------------
(* Theorems *)

\* GetRoot and ListChildren form a forest on the nodes, which are finitely
\* many: each call lists its children, each once; no node is listed by two
\* calls, and the vertex of a child is greater than that of its parent, so
\* that no node is below itself.
THEOREM CliqueForest ==
  ASSUME NEW g, SimpleGraph(g)
  PROVE  /\ IsFiniteSet(CliqueNode(g))
         /\ \A r \in DOMAIN g : Lists(CliqueRoot(g, r), KidsOfRoot(g, r))
         /\ \A x \in CliqueNode(g) : Lists(CliqueChildren(g, x), KidsOfNode(g, x))
         /\ \A q, r \in DOMAIN g : q # r => KidsOfRoot(g, q) \cap KidsOfRoot(g, r) = {}
         /\ \A x, y \in CliqueNode(g) : x # y => KidsOfNode(g, x) \cap KidsOfNode(g, y) = {}
         /\ \A r \in DOMAIN g, x \in CliqueNode(g) : KidsOfRoot(g, r) \cap KidsOfNode(g, x) = {}
         /\ \A x \in CliqueNode(g) : \A y \in KidsOfNode(g, x) : x.cand < y.cand
<1>1. IsFiniteSet(CliqueNode(g))
  BY NodesFinite
<1>2. \A r \in DOMAIN g : Lists(CliqueRoot(g, r), KidsOfRoot(g, r))
  BY RootListed
<1>3. \A x \in CliqueNode(g) : Lists(CliqueChildren(g, x), KidsOfNode(g, x))
  BY ChildrenListed
<1>4. QED  BY <1>1, <1>2, <1>3, ParentsDiffer

\* Every node holds a maximal clique, every maximal clique is in exactly one
\* node, and every node is below a root: a search that visits what the roots
\* list, and what each node visited lists, meets each maximal clique.
THEOREM EachCliqueOnce ==
  ASSUME NEW g, SimpleGraph(g), NEW visited,
         \A r \in DOMAIN g : ToSet(CliqueRoot(g, r)) \subseteq visited,
         \A x \in visited \cap CliqueNode(g) : ToSet(CliqueChildren(g, x)) \subseteq visited
  PROVE  /\ \A x \in CliqueNode(g) : IsMaximalClique(g, ToSet(x.clique))
         /\ \A C : IsMaximalClique(g, C) =>
              \E x \in CliqueNode(g) \cap visited :
                 /\ ToSet(x.clique) = C
                 /\ \A y \in CliqueNode(g) : ToSet(y.clique) = C => y = x
<1>1. CliqueNode(g) \subseteq visited
  <2>1. \A r \in DOMAIN g : KidsOfRoot(g, r) \subseteq visited
    BY RootListed DEF Lists
  <2>2. \A x \in visited \cap CliqueNode(g) : KidsOfNode(g, x) \subseteq visited
    BY ChildrenListed DEF Lists
  <2>3. QED  BY <2>1, <2>2, AllReached
<1>2. \A x \in CliqueNode(g) : IsMaximalClique(g, ToSet(x.clique))
  BY NodeFacts
<1>3. ASSUME NEW C, IsMaximalClique(g, C)
      PROVE  \E x \in CliqueNode(g) \cap visited :
                /\ ToSet(x.clique) = C
                /\ \A y \in CliqueNode(g) : ToSet(y.clique) = C => y = x
  <2>1. PICK x \in CliqueNode(g) : ToSet(x.clique) = C
    BY <1>3, NodeExists
  <2>2. \A y \in CliqueNode(g) : ToSet(y.clique) = C => y = x
    BY <2>1, NodeUnique
  <2>3. QED  BY <1>1, <2>1, <2>2
<1>4. QED  BY <1>2, <1>3

\* A sequence of n elements of T.
ListOf(f, T, n) == f \in Seq(T) /\ Len(f) = n

LEMMA FunctionIsSeq ==
  ASSUME NEW T, NEW f, NEW n, n \in Nat, f \in [1..n -> T]
  PROVE  ListOf(f, T, n)
<1>1. f \in Seq(T) /\ DOMAIN f = 1..n
  OBVIOUS
<1>2. Len(f) \in Nat /\ DOMAIN f = 1..Len(f)
  BY <1>1
<1>3. QED  BY <1>1, <1>2 DEF ListOf

LEMMA Replaced ==
  ASSUME NEW T, NEW f, NEW n, NEW k, NEW c, n \in Nat, ListOf(f, T, n), c \in T
  PROVE  ListOf([f EXCEPT ![k] = c], T, n)
<1>1. f \in [1..n -> T]
  BY DEF ListOf
<1>2. [f EXCEPT ![k] = c] \in [1..n -> T]
  BY <1>1
<1>3. QED  BY <1>2, FunctionIsSeq
-----------------------------------------------------------------------
(* The nodes of the search for k-plexes *)

\* The parameters of the search.
KplexSystem(s) ==
  /\ SimpleGraph(s.g) /\ s.k \in Nat \ {0} /\ s.q \in Nat
  /\ s.pivoting \in BOOLEAN /\ s.mod = 256

\* What the constructor, AddToKplex and UpdateCandAndExcl make of a node.
KplexTypes(s) ==
  {x \in [sub : Seq(DOMAIN s.g), kplex : Seq(Nat), counters : Seq(0..255),
          non_neighs : Seq(Seq(Nat)), cands : Seq(Nat), excluded : Seq(Nat)] :
     /\ x.sub # <<>> /\ IsInjective(x.sub)
     /\ ToSet(x.kplex) \subseteq DOMAIN x.sub
     /\ Len(x.counters) = Len(x.sub) /\ Len(x.non_neighs) = Len(x.sub)
     /\ \A e \in 1..Len(x.sub) : Len(x.non_neighs[e]) = s.k
     /\ ToSet(x.cands) \subseteq DOMAIN x.sub /\ IsInjective(x.cands)
     /\ ToSet(x.excluded) \subseteq DOMAIN x.sub}

\* Indices a and b of the subgraph are not adjacent.
Apart(s, sub, a, b) == ~ are_neighs(s.g, sub[a], sub[b])

Away(s, sub, S, a) == {b \in S : Apart(s, sub, a, b)}

IsPlex(s, sub, S) == \A a \in S : Cardinality(Away(s, sub, S, a)) <= s.k

\* What can be added to the k-plex S.
CanJoin(s, sub, S) == {e \in DOMAIN sub \ S : IsPlex(s, sub, S \cup {e})}

LEMMA TypeFacts ==
  ASSUME NEW s, KplexSystem(s), NEW x \in KplexTypes(s)
  PROVE  /\ x.sub \in Seq(DOMAIN s.g) /\ x.kplex \in Seq(Nat) /\ x.counters \in Seq(0..255)
         /\ x.non_neighs \in Seq(Seq(Nat)) /\ x.cands \in Seq(Nat) /\ x.excluded \in Seq(Nat)
         /\ Len(x.sub) \in Nat \ {0} /\ DOMAIN x.sub = 1..Len(x.sub)
         /\ DOMAIN x.counters = 1..Len(x.sub) /\ DOMAIN x.non_neighs = 1..Len(x.sub)
         /\ \A e \in 1..Len(x.sub) :
              /\ x.counters[e] \in 0..255 /\ x.sub[e] \in DOMAIN s.g
              /\ x.non_neighs[e] \in Seq(Nat) /\ Len(x.non_neighs[e]) = s.k
         /\ IsFiniteSet(DOMAIN x.sub) /\ IsFiniteSet(ToSet(x.kplex))
<1>1. /\ x.sub \in Seq(DOMAIN s.g) /\ x.kplex \in Seq(Nat) /\ x.counters \in Seq(0..255)
      /\ x.non_neighs \in Seq(Seq(Nat)) /\ x.cands \in Seq(Nat) /\ x.excluded \in Seq(Nat)
      /\ x.sub # <<>> /\ Len(x.counters) = Len(x.sub) /\ Len(x.non_neighs) = Len(x.sub)
      /\ \A e \in 1..Len(x.sub) : Len(x.non_neighs[e]) = s.k
      /\ ToSet(x.kplex) \subseteq DOMAIN x.sub
  BY DEF KplexTypes
<1>2. Len(x.sub) \in Nat \ {0} /\ DOMAIN x.sub = 1..Len(x.sub)
  BY <1>1
<1>3. DOMAIN x.counters = 1..Len(x.sub) /\ DOMAIN x.non_neighs = 1..Len(x.sub)
  BY <1>1
<1>4. ASSUME NEW e \in 1..Len(x.sub)
      PROVE  /\ x.counters[e] \in 0..255 /\ x.sub[e] \in DOMAIN s.g
             /\ x.non_neighs[e] \in Seq(Nat) /\ Len(x.non_neighs[e]) = s.k
  <2>1. x.counters[e] \in 0..255
    <3>1. \A m \in 1..Len(x.counters) : x.counters[m] \in 0..255
      BY <1>1, SeqFacts, SMTT(30)
    <3>2. QED  BY <1>1, <1>4, <3>1
  <2>2. x.sub[e] \in DOMAIN s.g
    BY <1>1, <1>4
  <2>3. x.non_neighs[e] \in Seq(Nat)
    BY <1>1, <1>3, <1>4
  <2>4. DOMAIN x.non_neighs[e] = 1..Len(x.non_neighs[e])
    BY <2>3
  <2>5. QED  BY <1>1, <1>4, <2>1, <2>2, <2>3, <2>4
<1>5. IsFiniteSet(DOMAIN x.sub)
  <2>1. 1 \in Int /\ Len(x.sub) \in Int
    BY <1>2
  <2>2. IsFiniteSet(1..Len(x.sub))
    BY <2>1, FS_Interval
  <2>3. QED  BY <1>2, <2>2
<1>6. IsFiniteSet(ToSet(x.kplex))
  BY <1>1, <1>5, FS_Subset
<1>7. QED  BY <1>1, <1>2, <1>3, <1>4, <1>5, <1>6

\* To be apart is mutual, and each index is apart from itself.
LEMMA ApartFacts ==
  ASSUME NEW s, KplexSystem(s), NEW sub \in Seq(DOMAIN s.g)
  PROVE  \A a, b \in DOMAIN sub :
           (Apart(s, sub, a, b) <=> Apart(s, sub, b, a)) /\ Apart(s, sub, a, a)
<1>1. SimpleGraph(s.g) /\ \A a \in DOMAIN sub : sub[a] \in DOMAIN s.g
  BY DEF KplexSystem
<1>2. /\ \A v, w \in DOMAIN s.g : are_neighs(s.g, v, w) <=> are_neighs(s.g, w, v)
      /\ \A v \in DOMAIN s.g : ~ are_neighs(s.g, v, v)
  BY <1>1, Symmetry
<1>3. QED  BY <1>1, <1>2 DEF Apart

LEMMA NadjFacts ==
  ASSUME NEW s, NEW sub \in Seq(DOMAIN s.g), NEW c
  PROVE  ToSet(nadj(s, sub, c)) = Away(s, sub, DOMAIN sub, c)
<1> DEFINE D == DOMAIN sub
           all == [m \in DOMAIN sub |-> m]
           S == {m \in DOMAIN sub : ~ are_neighs(s.g, sub[c], sub[m])}
<1>1. all \in Seq(D) /\ ToSet(all) = D
  <2>1. D = 1..Len(sub) /\ Len(sub) \in Nat
    OBVIOUS
  <2> HIDE DEF D
  <2>2. all \in [1..Len(sub) -> D] /\ DOMAIN all = D /\ \A m \in D : all[m] = m
    BY <2>1 DEF D
  <2>3. all \in Seq(D)
    BY <2>1, <2>2
  <2> HIDE DEF all
  <2>4. QED  BY <2>2, <2>3 DEF ToSet
<1>2. nadj(s, sub, c) = Kept(all, S)
  BY DEF nadj
<1> HIDE DEF all
<1>3. ToSet(Kept(all, S)) = D \cap S
  <2> HIDE DEF D, S
  <2>1. QED  BY <1>1, KeptFacts
<1>4. QED  BY <1>2, <1>3 DEF Away, Apart

\* AddToKplex, field by field.
CountMakes(s, x, c, y) ==
  /\ y \in KplexTypes(s)
  /\ y.sub = x.sub /\ y.kplex = Append(x.kplex, c)
  /\ ToSet(y.kplex) = ToSet(x.kplex) \cup {c}
  /\ y.cands = x.cands /\ y.excluded = x.excluded
  /\ \A e \in DOMAIN x.sub :
       /\ y.counters[e] = IF Apart(s, x.sub, c, e) THEN (x.counters[e] + 1) % 256
                          ELSE x.counters[e]
       /\ y.non_neighs[e] =
            IF Apart(s, x.sub, c, e) /\ x.counters[e] < s.k
            THEN [x.non_neighs[e] EXCEPT ![x.counters[e] + 1] = c]
            ELSE x.non_neighs[e]

LEMMA CountFields ==
  ASSUME NEW s, KplexSystem(s), NEW x \in KplexTypes(s), NEW c \in DOMAIN x.sub
  PROVE  CountMakes(s, x, c, Count(s, x, c))
<1> SUFFICES ASSUME NEW y, y = Count(s, x, c) PROVE CountMakes(s, x, c, y)
  OBVIOUS
<1>1. /\ x.sub \in Seq(DOMAIN s.g) /\ x.kplex \in Seq(Nat)
      /\ Len(x.sub) \in Nat \ {0} /\ DOMAIN x.sub = 1..Len(x.sub)
      /\ DOMAIN x.counters = 1..Len(x.sub) /\ DOMAIN x.non_neighs = 1..Len(x.sub)
      /\ \A e \in 1..Len(x.sub) :
           /\ x.counters[e] \in 0..255 /\ x.sub[e] \in DOMAIN s.g
           /\ x.non_neighs[e] \in Seq(Nat) /\ Len(x.non_neighs[e]) = s.k
  <2>1. x.sub \in Seq(DOMAIN s.g) /\ x.kplex \in Seq(Nat)
    BY TypeFacts
  <2>2. /\ Len(x.sub) \in Nat \ {0} /\ DOMAIN x.sub = 1..Len(x.sub)
        /\ DOMAIN x.counters = 1..Len(x.sub) /\ DOMAIN x.non_neighs = 1..Len(x.sub)
    BY TypeFacts
  <2>3. \A e \in 1..Len(x.sub) :
          /\ x.counters[e] \in 0..255 /\ x.sub[e] \in DOMAIN s.g
          /\ x.non_neighs[e] \in Seq(Nat) /\ Len(x.non_neighs[e]) = s.k
    BY TypeFacts
  <2>4. QED  BY <2>1, <2>2, <2>3
<1> DEFINE D == 1..Len(x.sub)
           away == Away(s, x.sub, DOMAIN x.sub, c)
           notes == [e \in DOMAIN x.non_neighs |->
                       IF e \in away /\ x.counters[e] < s.k
                       THEN [x.non_neighs[e] EXCEPT ![x.counters[e] + 1] = c]
                       ELSE x.non_neighs[e]]
           counts == [e \in DOMAIN x.counters |->
                        IF e \in away THEN (x.counters[e] + 1) % s.mod ELSE x.counters[e]]
<1>2. /\ ToSet(nadj(s, x.sub, c)) = away /\ s.mod = 256 /\ s.k \in Nat \ {0}
  BY <1>1, NadjFacts DEF KplexSystem
<1>3. y = [x EXCEPT !.kplex = Append(x.kplex, c), !.non_neighs = notes, !.counters = counts]
  BY <1>2 DEF Count
<1>4. c \in Nat /\ c \in D
  BY <1>1
<1>5. counts \in Seq(0..255) /\ Len(counts) = Len(x.sub)
  <2>1. ASSUME NEW e \in D PROVE (x.counters[e] + 1) % s.mod \in 0..255
    <3>1. x.counters[e] \in 0..255
      BY <1>1, <2>1
    <3>2. \A a \in 0..255 : (a + 1) % 256 \in 0..255
      BY SMTT(30)
    <3>3. (x.counters[e] + 1) % 256 \in 0..255
      BY <3>1, <3>2
    <3>4. QED  BY <1>2, <3>3
  <2>2. counts \in [1..Len(x.sub) -> 0..255]
    BY <1>1, <2>1
  <2>3. Len(x.sub) \in Nat
    BY <1>1
  <2> HIDE DEF counts
  <2>4. QED  BY <2>2, <2>3, FunctionIsSeq DEF ListOf
<1>6. \A e \in D : notes[e] \in Seq(Nat) /\ Len(notes[e]) = s.k
  <2>1. SUFFICES ASSUME NEW e \in D PROVE notes[e] \in Seq(Nat) /\ Len(notes[e]) = s.k
    OBVIOUS
  <2>2. x.non_neighs[e] \in Seq(Nat) /\ Len(x.non_neighs[e]) = s.k
    BY <1>1, <1>2, <2>1
  <2>3. CASE e \in away /\ x.counters[e] < s.k
    <3>1. notes[e] = [x.non_neighs[e] EXCEPT ![x.counters[e] + 1] = c]
      BY <1>1, <2>1, <2>3
    <3> DEFINE f == x.non_neighs[e]
               m == x.counters[e] + 1
    <3>2. ListOf([f EXCEPT ![m] = c], Nat, s.k)
      <4>1. ListOf(f, Nat, s.k) /\ s.k \in Nat
        BY <1>2, <2>2 DEF ListOf
      <4> HIDE DEF f, m
      <4>2. QED  BY <1>4, <4>1, Replaced
    <3> HIDE DEF notes
    <3>3. QED  BY <3>1, <3>2 DEF ListOf
  <2>4. CASE ~ (e \in away /\ x.counters[e] < s.k)
    <3>1. notes[e] = x.non_neighs[e]
      BY <1>1, <2>1, <2>4
    <3>2. QED  BY <2>2, <3>1
  <2>5. QED  BY <2>3, <2>4
<1>7. notes \in Seq(Seq(Nat)) /\ Len(notes) = Len(x.sub)
  <2>1. notes \in [1..Len(x.sub) -> Seq(Nat)]
    BY <1>1, <1>6
  <2>2. Len(x.sub) \in Nat
    BY <1>1
  <2> HIDE DEF notes
  <2>3. QED  BY <2>1, <2>2, FunctionIsSeq DEF ListOf
<1>8. Append(x.kplex, c) \in Seq(Nat) /\ ToSet(Append(x.kplex, c)) = ToSet(x.kplex) \cup {c}
  <2> DEFINE q == x.kplex
  <2>1. q \in Seq(Nat) /\ c \in Nat
    BY <1>1, <1>4
  <2> HIDE DEF q
  <2>2. Append(q, c) \in Seq(Nat) /\ ToSet(Append(q, c)) = ToSet(q) \cup {c}
    BY <2>1, AppendFacts
  <2>3. QED  BY <2>2 DEF q
<1>9. ASSUME NEW e \in DOMAIN x.sub
      PROVE  /\ counts[e] = IF Apart(s, x.sub, c, e) THEN (x.counters[e] + 1) % 256
                            ELSE x.counters[e]
             /\ notes[e] = IF Apart(s, x.sub, c, e) /\ x.counters[e] < s.k
                           THEN [x.non_neighs[e] EXCEPT ![x.counters[e] + 1] = c]
                           ELSE x.non_neighs[e]
  <2>1. e \in away <=> Apart(s, x.sub, c, e)
    BY <1>9 DEF Away
  <2>2. e \in DOMAIN x.counters /\ e \in DOMAIN x.non_neighs
    BY <1>1, <1>9
  <2> HIDE DEF away
  <2>3. QED  BY <1>2, <2>1, <2>2
<1> HIDE DEF counts, notes, away
<1> DEFINE A == Seq(DOMAIN s.g)
           B == Seq(0..255)
           R == Seq(Seq(Nat))
           N == Seq(Nat)
           T == [sub : A, kplex : N, counters : B, non_neighs : R, cands : N, excluded : N]
<1>10. /\ y.sub = x.sub /\ y.kplex = Append(x.kplex, c) /\ y.cands = x.cands
       /\ y.excluded = x.excluded /\ y.counters = counts /\ y.non_neighs = notes
       /\ y \in T
  <2>1. x \in T
    BY DEF KplexTypes
  <2> DEFINE k == Append(x.kplex, c)
  <2>2. k \in N /\ counts \in B /\ notes \in R
    BY <1>5, <1>7, <1>8
  <2>3. y = [x EXCEPT !.kplex = k, !.counters = counts, !.non_neighs = notes]
    BY <1>3
  <2> HIDE DEF k, A, B, R, N
  <2>4. /\ y.sub = x.sub /\ y.kplex = k /\ y.cands = x.cands
        /\ y.excluded = x.excluded /\ y.counters = counts /\ y.non_neighs = notes
    BY <2>1, <2>3
  <2>5. y \in T
    BY <2>1, <2>2, <2>3
  <2>6. QED  BY <2>4, <2>5 DEF k
<1>11. y \in KplexTypes(s)
  <2>1. ToSet(y.kplex) \subseteq DOMAIN y.sub
    BY <1>8, <1>10 DEF KplexTypes
  <2>2. \A e \in 1..Len(y.sub) : Len(y.non_neighs[e]) = s.k
    BY <1>6, <1>10
  <2>3. Len(y.counters) = Len(y.sub) /\ Len(y.non_neighs) = Len(y.sub)
    BY <1>5, <1>7, <1>10
  <2>4. QED  BY <1>10, <2>1, <2>2, <2>3 DEF KplexTypes
<1>12. QED  BY <1>8, <1>9, <1>10, <1>11, Zenon DEF CountMakes
-----------------------------------------------------------------------
(* The counters *)

Names(f, n) == {f[m] : m \in 1..n}

\* Each counter counts, and non_neighs names, the non-neighbours in the kplex.
Counted(s, x) ==
  \A e \in DOMAIN x.sub :
    /\ x.counters[e] = Cardinality(Away(s, x.sub, ToSet(x.kplex), e))
    /\ x.counters[e] <= s.k =>
         Names(x.non_neighs[e], x.counters[e]) = Away(s, x.sub, ToSet(x.kplex), e)

LEMMA AwayFacts ==
  ASSUME NEW s, NEW sub, NEW S, IsFiniteSet(S), NEW e, NEW c, c \notin S
  PROVE  /\ IsFiniteSet(Away(s, sub, S, e)) /\ Cardinality(Away(s, sub, S, e)) \in Nat
         /\ Away(s, sub, S \cup {c}, e) =
              IF Apart(s, sub, e, c) THEN Away(s, sub, S, e) \cup {c} ELSE Away(s, sub, S, e)
         /\ Cardinality(Away(s, sub, S \cup {c}, e)) =
              IF Apart(s, sub, e, c) THEN Cardinality(Away(s, sub, S, e)) + 1
              ELSE Cardinality(Away(s, sub, S, e))
<1> DEFINE A == Away(s, sub, S, e)
<1>1. A \subseteq S
  BY DEF Away
<1>2. Away(s, sub, S \cup {c}, e) = IF Apart(s, sub, e, c) THEN A \cup {c} ELSE A
  BY DEF Away
<1> HIDE DEF A
<1>3. IsFiniteSet(A)
  BY <1>1, FS_Subset
<1>4. Cardinality(A) \in Nat
  BY <1>3, FS_CardinalityType
<1>5. c \notin A
  BY <1>1
<1>6. Cardinality(A \cup {c}) = Cardinality(A) + 1
  BY <1>3, <1>5, FS_AddElement
<1>7. QED  BY <1>2, <1>3, <1>4, <1>6 DEF A

\* The non-neighbours in a part of the k-plex are no more.
LEMMA AwayLess ==
  ASSUME NEW s, NEW sub, NEW S, IsFiniteSet(S), NEW R \in SUBSET S, NEW e
  PROVE  Cardinality(Away(s, sub, R, e)) <= Cardinality(Away(s, sub, S, e))
<1>1. Away(s, sub, R, e) \subseteq Away(s, sub, S, e) /\ Away(s, sub, S, e) \subseteq S
  BY DEF Away
<1>2. IsFiniteSet(Away(s, sub, S, e))
  BY <1>1, FS_Subset
<1>3. QED  BY <1>1, <1>2, FS_Subset

LEMMA PlexPart ==
  ASSUME NEW s, KplexSystem(s), NEW sub, NEW S, IsFiniteSet(S), IsPlex(s, sub, S), NEW R \in SUBSET S
  PROVE  IsPlex(s, sub, R)
<1>1. SUFFICES ASSUME NEW a \in R PROVE Cardinality(Away(s, sub, R, a)) <= s.k
  BY DEF IsPlex
<1>2. IsFiniteSet(R)
  BY FS_Subset
<1>3. Away(s, sub, R, a) \subseteq R /\ Away(s, sub, S, a) \subseteq S
  BY DEF Away
<1>4. IsFiniteSet(Away(s, sub, R, a)) /\ IsFiniteSet(Away(s, sub, S, a))
  BY <1>2, <1>3, FS_Subset
<1>5. Cardinality(Away(s, sub, R, a)) \in Nat /\ Cardinality(Away(s, sub, S, a)) \in Nat
  BY <1>4, FS_CardinalityType
<1>6. Cardinality(Away(s, sub, R, a)) <= Cardinality(Away(s, sub, S, a))
  BY AwayLess
<1>7. Cardinality(Away(s, sub, S, a)) <= s.k
  BY DEF IsPlex
<1>8. s.k \in Nat
  BY DEF KplexSystem
<1>9. QED  BY <1>5, <1>6, <1>7, <1>8

\* What can be added to a k-plex can be added to each part of it.
LEMMA JoinsPart ==
  ASSUME NEW s, KplexSystem(s), NEW sub \in Seq(DOMAIN s.g), NEW S \in SUBSET DOMAIN sub,
         NEW R \in SUBSET S
  PROVE  CanJoin(s, sub, S) \subseteq CanJoin(s, sub, R)
<1>1. IsFiniteSet(DOMAIN sub)
  <2>1. DOMAIN sub = 1..Len(sub) /\ 1 \in Int /\ Len(sub) \in Int
    OBVIOUS
  <2>2. QED  BY <2>1, FS_Interval
<1>2. ASSUME NEW e \in CanJoin(s, sub, S) PROVE e \in CanJoin(s, sub, R)
  <2>1. e \in DOMAIN sub \ S /\ IsPlex(s, sub, S \cup {e})
    BY <1>2 DEF CanJoin
  <2>2. S \cup {e} \subseteq DOMAIN sub /\ R \cup {e} \subseteq S \cup {e}
    BY <2>1
  <2>3. IsFiniteSet(S \cup {e})
    BY <1>1, <2>2, FS_Subset
  <2>4. IsPlex(s, sub, R \cup {e})
    BY <2>1, <2>2, <2>3, PlexPart
  <2>5. QED  BY <2>1, <2>4 DEF CanJoin
<1>3. QED  BY <1>2

CounterNext(n, k, f, A, c, m, g) == m = n + 1 /\ (m <= k => Names(g, m) = A \cup {c})

LEMMA CounterStep ==
  ASSUME NEW n \in 0..255, NEW k \in Nat, NEW f \in Seq(Nat), Len(f) = k, NEW A, NEW c,
         n <= k => Names(f, n) = A, n + 1 <= 255,
         NEW m, m = (n + 1) % 256,
         NEW g, g = IF n < k THEN [f EXCEPT ![n + 1] = c] ELSE f
  PROVE  CounterNext(n, k, f, A, c, m, g)
<1>1. m = n + 1
  <2>1. n + 1 \in 0..255
    OBVIOUS
  <2>2. \A a \in 0..255 : a % 256 = a
    BY SMTT(30)
  <2>3. QED  BY <2>1, <2>2
<1>2. ASSUME n + 1 <= k PROVE Names(g, n + 1) = A \cup {c}
  <2>1. n < k /\ n <= k /\ n + 1 \in DOMAIN f
    BY <1>2
  <2>2. Names(f, n) = A /\ g = [f EXCEPT ![n + 1] = c]
    BY <2>1
  <2>3. g[n + 1] = c
    BY <2>1, <2>2
  <2>4. \A a \in 1..n : g[a] = f[a]
    BY <2>1, <2>2
  <2>5. \A a \in 1..(n + 1) : a \in 1..n \/ a = n + 1
    OBVIOUS
  <2>6. n + 1 \in 1..(n + 1) /\ \A a \in 1..n : a \in 1..(n + 1)
    OBVIOUS
  <2>7. Names(g, n + 1) = Names(f, n) \cup {c}
    BY <2>3, <2>4, <2>5, <2>6, ZenonT(40) DEF Names
  <2>8. QED  BY <2>2, <2>7
<1>3. QED  BY <1>1, <1>2 DEF CounterNext

\* The types of the counters alone.
LEMMA CounterTypes ==
  ASSUME NEW s, KplexSystem(s), NEW x \in KplexTypes(s), NEW e \in DOMAIN x.sub
  PROVE  x.counters[e] \in 0..255 /\ x.non_neighs[e] \in Seq(Nat)
<1>1. DOMAIN x.sub = 1..Len(x.sub)
  BY TypeFacts
<1>2. \A a \in 1..Len(x.sub) : x.counters[a] \in 0..255
  BY TypeFacts
<1>3. \A a \in 1..Len(x.sub) : x.non_neighs[a] \in Seq(Nat)
  BY TypeFacts
<1>4. QED  BY <1>1, <1>2, <1>3

LEMMA NotesLength ==
  ASSUME NEW s, KplexSystem(s), NEW x \in KplexTypes(s), NEW e \in DOMAIN x.sub
  PROVE  Len(x.non_neighs[e]) = s.k
<1>1. DOMAIN x.sub = 1..Len(x.sub)
      /\ \A a \in 1..Len(x.sub) : Len(x.non_neighs[a]) = s.k
  BY TypeFacts
<1>2. QED  BY <1>1

LEMMA SubTypes ==
  ASSUME NEW s, KplexSystem(s), NEW x \in KplexTypes(s)
  PROVE  /\ x.sub \in Seq(DOMAIN s.g) /\ ToSet(x.kplex) \subseteq DOMAIN x.sub
         /\ IsFiniteSet(DOMAIN x.sub) /\ Cardinality(DOMAIN x.sub) = Len(x.sub)
         /\ IsFiniteSet(ToSet(x.kplex))
<1>1. /\ x.sub \in Seq(DOMAIN s.g) /\ IsFiniteSet(DOMAIN x.sub)
      /\ IsFiniteSet(ToSet(x.kplex)) /\ DOMAIN x.sub = 1..Len(x.sub)
      /\ Len(x.sub) \in Nat \ {0}
  BY TypeFacts
<1>2. ToSet(x.kplex) \subseteq DOMAIN x.sub
  BY DEF KplexTypes
<1>3. Cardinality(DOMAIN x.sub) = Len(x.sub)
  <2>1. 1 \in Int /\ Len(x.sub) \in Int
    BY <1>1
  <2>2. IsFiniteSet(1..Len(x.sub)) /\ Cardinality(1..Len(x.sub)) = Len(x.sub)
    BY <1>1, <2>1, FS_Interval
  <2>3. QED  BY <1>1, <2>2
<1>4. QED  BY <1>1, <1>2, <1>3

\* AddToKplex counts the index it adds.
LEMMA CountCounts ==
  ASSUME NEW s, KplexSystem(s), NEW x \in KplexTypes(s), Counted(s, x), Len(x.sub) < 256,
         NEW c \in DOMAIN x.sub, c \notin ToSet(x.kplex)
  PROVE  Counted(s, Count(s, x, c))
<1> DEFINE y == Count(s, x, c)
           K == ToSet(x.kplex)
           D == DOMAIN x.sub
           sub == x.sub
<1>1. sub \in Seq(DOMAIN s.g) /\ K \subseteq D /\ IsFiniteSet(K) /\ IsFiniteSet(D)
      /\ Cardinality(D) = Len(sub) /\ Len(sub) \in Nat
  BY SubTypes
<1>2. /\ y.sub = x.sub /\ ToSet(y.kplex) = K \cup {c}
      /\ \A e \in DOMAIN x.sub :
           /\ y.counters[e] = IF Apart(s, x.sub, c, e) THEN (x.counters[e] + 1) % 256
                              ELSE x.counters[e]
           /\ y.non_neighs[e] =
                IF Apart(s, x.sub, c, e) /\ x.counters[e] < s.k
                THEN [x.non_neighs[e] EXCEPT ![x.counters[e] + 1] = c]
                ELSE x.non_neighs[e]
  <2>1. CountMakes(s, x, c, y)
    BY CountFields
  <2> HIDE DEF y
  <2>2. QED  BY <2>1, Zenon DEF CountMakes
<1>3. s.k \in Nat
  BY DEF KplexSystem
<1> HIDE DEF y, K
<1>4. ASSUME NEW e \in DOMAIN x.sub
      PROVE  /\ y.counters[e] = Cardinality(Away(s, x.sub, K \cup {c}, e))
             /\ y.counters[e] <= s.k =>
                  Names(y.non_neighs[e], y.counters[e]) = Away(s, x.sub, K \cup {c}, e)
  <2> DEFINE A == Away(s, sub, K, e)
             B == Away(s, sub, K \cup {c}, e)
             n == x.counters[e]
             f == x.non_neighs[e]
             m == y.counters[e]
             g == y.non_neighs[e]
             k == s.k
             apart == Apart(s, sub, e, c)
  <2>1. n = Cardinality(A) /\ (n <= k => Names(f, n) = A)
    BY <1>4 DEF Counted, K
  <2>2. Apart(s, sub, c, e) <=> apart
    BY <1>1, <1>4, ApartFacts
  <2>3. n \in 0..255 /\ f \in Seq(Nat)
    BY <1>4, CounterTypes
  <2>4. Len(f) = k
    BY <1>4, NotesLength
  <2>5. /\ m = IF apart THEN (n + 1) % 256 ELSE n
        /\ g = IF apart /\ n < k THEN [f EXCEPT ![n + 1] = c] ELSE f
    BY <1>2, <1>4, <2>2, Zenon
  <2>6. /\ B = IF apart THEN A \cup {c} ELSE A
        /\ Cardinality(B) = IF apart THEN Cardinality(A) + 1 ELSE Cardinality(A)
        /\ IsFiniteSet(K \cup {c})
    <3>1. c \notin K
      BY DEF K
    <3> HIDE DEF sub, K
    <3>2. IsFiniteSet(K)
      BY <1>1
    <3>3. IsFiniteSet(K \cup {c})
      BY <3>2, FS_AddElement
    <3>4. QED  BY <3>1, <3>2, <3>3, AwayFacts
  <2>7. Cardinality(B) <= Len(sub)
    <3>1. K \cup {c} \subseteq D /\ B \subseteq K \cup {c}
      BY <1>1 DEF Away
    <3> HIDE DEF B, D, sub
    <3>2. B \subseteq D
      BY <3>1
    <3>3. Cardinality(B) <= Cardinality(D)
      BY <1>1, <3>2, FS_Subset
    <3>4. QED  BY <1>1, <3>3
  <2>8. Len(sub) < 256
    OBVIOUS
  <2>9. Len(sub) \in Nat /\ k \in Nat
    BY <1>1, <1>3
  <2> HIDE DEF A, B, n, f, m, g, k, apart, sub
  <2>10. m = Cardinality(B) /\ (m <= k => Names(g, m) = B)
    <3>1. CASE ~ apart
      BY <2>1, <2>5, <2>6, <3>1
    <3>2. CASE apart
      <4>1. n + 1 = Cardinality(B) /\ B = A \cup {c}
        BY <2>1, <2>6, <3>2
      <4>2. n + 1 <= 255
        BY <2>3, <2>7, <2>8, <2>9, <4>1
      <4>3. m = (n + 1) % 256 /\ g = IF n < k THEN [f EXCEPT ![n + 1] = c] ELSE f
        BY <2>5, <3>2
      <4>4. CounterNext(n, k, f, A, c, m, g)
        BY <2>1, <2>3, <2>4, <2>9, <4>2, <4>3, CounterStep
      <4>5. QED  BY <4>1, <4>4 DEF CounterNext
    <3>3. QED  BY <3>1, <3>2
  <2>11. QED  BY <2>10 DEF m, g, B, k, sub
<1>5. Counted(s, y)
  BY <1>2, <1>4 DEF Counted
<1>6. QED  BY <1>5 DEF y

\* CanAdd tests what it is meant to test.
LEMMA CanAddFacts ==
  ASSUME NEW s, KplexSystem(s), NEW x \in KplexTypes(s), Counted(s, x),
         IsPlex(s, x.sub, ToSet(x.kplex))
  PROVE  Addable(s, x) = CanJoin(s, x.sub, ToSet(x.kplex))
<1> DEFINE K == ToSet(x.kplex)
<1>1. /\ x.sub \in Seq(DOMAIN s.g) /\ K \subseteq DOMAIN x.sub /\ IsFiniteSet(K)
      /\ \A e \in DOMAIN x.sub : x.counters[e] \in Nat
  <2>1. x.sub \in Seq(DOMAIN s.g) /\ IsFiniteSet(K) /\ K \subseteq DOMAIN x.sub
    BY SubTypes
  <2>2. ASSUME NEW e \in DOMAIN x.sub PROVE x.counters[e] \in Nat
    <3>1. x.counters[e] \in 0..255
      BY <2>2, CounterTypes
    <3>2. QED  BY <3>1
  <2> HIDE DEF K
  <2>3. QED  BY <2>1, <2>2
<1>2. s.k \in Nat
  BY DEF KplexSystem
<1>3. ASSUME NEW e \in DOMAIN x.sub, e \notin K
      PROVE  CanAddVertex(s, x, x.sub[e]) <=> IsPlex(s, x.sub, K \cup {e})
  <2>1. {a \in K : ~ are_neighs(s.g, x.sub[e], x.sub[a])} = Away(s, x.sub, K, e)
    BY DEF Away, Apart
  <2>2. CanAddVertex(s, x, x.sub[e]) <=>
          /\ \A a \in Away(s, x.sub, K, e) : x.counters[a] + 1 <= s.k
          /\ Cardinality(Away(s, x.sub, K, e)) + 1 <= s.k
    BY <2>1 DEF CanAddVertex
  <2>3. \A a \in DOMAIN x.sub :
          Cardinality(Away(s, x.sub, K \cup {e}, a)) =
            IF Apart(s, x.sub, a, e) THEN Cardinality(Away(s, x.sub, K, a)) + 1
            ELSE Cardinality(Away(s, x.sub, K, a))
    <3> HIDE DEF K
    <3>1. QED  BY <1>1, <1>3, AwayFacts
  <2>4. /\ Apart(s, x.sub, e, e)
        /\ \A a \in K : Apart(s, x.sub, e, a) <=> Apart(s, x.sub, a, e)
    BY <1>1, <1>3, ApartFacts
  <2>5. \A a \in K : x.counters[a] = Cardinality(Away(s, x.sub, K, a)) /\ x.counters[a] <= s.k
    BY <1>1 DEF Counted, IsPlex
  <2>6. \A a \in K : a \in Away(s, x.sub, K, e) <=> Apart(s, x.sub, a, e)
    BY <2>4 DEF Away
  <2> HIDE DEF K
  <2>7. Away(s, x.sub, K, e) \subseteq K
    BY DEF Away
  <2>8. ASSUME CanAddVertex(s, x, x.sub[e]) PROVE IsPlex(s, x.sub, K \cup {e})
    <3>1. ASSUME NEW a \in K PROVE Cardinality(Away(s, x.sub, K \cup {e}, a)) <= s.k
      <4>1. CASE Apart(s, x.sub, a, e)
        BY <1>1, <2>2, <2>3, <2>5, <2>6, <2>8, <3>1, <4>1
      <4>2. CASE ~ Apart(s, x.sub, a, e)
        BY <1>1, <2>3, <2>5, <3>1, <4>2
      <4>3. QED  BY <4>1, <4>2
    <3>2. Cardinality(Away(s, x.sub, K \cup {e}, e)) <= s.k
      BY <1>3, <2>2, <2>3, <2>4, <2>8
    <3>3. QED  BY <3>1, <3>2 DEF IsPlex
  <2>9. ASSUME IsPlex(s, x.sub, K \cup {e}) PROVE CanAddVertex(s, x, x.sub[e])
    <3>1. \A a \in K \cup {e} : Cardinality(Away(s, x.sub, K \cup {e}, a)) <= s.k
      BY <2>9 DEF IsPlex
    <3>2. \A a \in Away(s, x.sub, K, e) : x.counters[a] + 1 <= s.k
      BY <1>1, <2>3, <2>5, <2>6, <2>7, <3>1
    <3>3. Cardinality(Away(s, x.sub, K, e)) + 1 <= s.k
      BY <1>3, <2>3, <2>4, <3>1
    <3>4. QED  BY <2>2, <3>2, <3>3
  <2>10. QED  BY <2>8, <2>9
<1>4. QED  BY <1>3 DEF Addable, CanAdd, CanJoin
-----------------------------------------------------------------------
(* UpdateCandAndExcl *)

\* What each node of the search is: the counters count, and what can be added
\* is either a candidate or excluded.
KplexSound(s, x) ==
  /\ x \in KplexTypes(s)
  /\ Counted(s, x)
  /\ IsPlex(s, x.sub, ToSet(x.kplex))
  /\ ToSet(x.cands) \cap ToSet(x.excluded) = {}
  /\ ToSet(x.cands) \cup ToSet(x.excluded) = CanJoin(s, x.sub, ToSet(x.kplex))

\* y is x after some additions to the kplex.
Grown(s, x, y) ==
  /\ y \in KplexTypes(s) /\ Counted(s, y) /\ IsPlex(s, y.sub, ToSet(y.kplex))
  /\ ToSet(x.kplex) \subseteq ToSet(y.kplex)
  /\ y.sub = x.sub /\ y.cands = x.cands /\ y.excluded = x.excluded

UpdateMakes(s, x, add, y) ==
  /\ y \in KplexTypes(s)
  /\ y.sub = x.sub /\ y.kplex = x.kplex /\ y.counters = x.counters
  /\ y.non_neighs = x.non_neighs
  /\ ToSet(y.cands) = (ToSet(x.cands) \cap Addable(s, x)) \ ToSet(add)
  /\ ToSet(y.excluded) = (ToSet(x.excluded) \cup ToSet(add)) \cap Addable(s, x)

LEMMA UpdateFields ==
  ASSUME NEW s, KplexSystem(s), NEW x \in KplexTypes(s), NEW add \in Seq(Nat)
  PROVE  UpdateMakes(s, x, add, UpdateCandAndExcl(s, x, add))
<1> SUFFICES ASSUME NEW y, y = UpdateCandAndExcl(s, x, add) PROVE UpdateMakes(s, x, add, y)
  OBVIOUS
<1> DEFINE S == Addable(s, x)
           C == Kept(x.cands, S \ ToSet(add))
           E == Kept(x.excluded, S)
           F == Kept(add, S)
           A == Seq(DOMAIN s.g)
           B == Seq(0..255)
           D == Seq(Seq(Nat))
           N == Seq(Nat)
           T == [sub : A, kplex : N, counters : B, non_neighs : D, cands : N, excluded : N]
<1>1. x \in T /\ x.cands \in Seq(Nat) /\ x.excluded \in Seq(Nat) /\ IsInjective(x.cands)
      /\ ToSet(x.cands) \subseteq DOMAIN x.sub /\ ToSet(x.excluded) \subseteq DOMAIN x.sub
  BY DEF KplexTypes
<1>2. C \in Seq(Nat) /\ IsInjective(C) /\ ToSet(C) = ToSet(x.cands) \cap (S \ ToSet(add))
  <2> DEFINE q == x.cands  R == S \ ToSet(add)
  <2>1. q \in Seq(Nat) /\ IsInjective(q)
    BY <1>1
  <2> HIDE DEF q, R
  <2>2. Kept(q, R) \in Seq(Nat) /\ IsInjective(Kept(q, R)) /\ ToSet(Kept(q, R)) = ToSet(q) \cap R
    BY <2>1, KeptFacts
  <2>3. QED  BY <2>2 DEF q, R
<1>3. E \in Seq(Nat) /\ ToSet(E) = ToSet(x.excluded) \cap S
  <2> DEFINE q == x.excluded
  <2>1. q \in Seq(Nat)
    BY <1>1
  <2> HIDE DEF q, S
  <2>2. Kept(q, S) \in Seq(Nat) /\ ToSet(Kept(q, S)) = ToSet(q) \cap S
    BY <2>1, KeptFacts
  <2>3. QED  BY <2>2 DEF q
<1>4. F \in Seq(Nat) /\ ToSet(F) = ToSet(add) \cap S
  <2> HIDE DEF S
  <2>1. QED  BY KeptFacts
<1>5. y = [x EXCEPT !.excluded = E \o F, !.cands = C]
  BY DEF UpdateCandAndExcl
<1>6. E \o F \in Seq(Nat) /\ ToSet(E \o F) = ToSet(E) \cup ToSet(F)
  <2> HIDE DEF E, F
  <2>1. QED  BY <1>3, <1>4, ConcatFacts
<1> HIDE DEF C, E, F
<1>7. /\ y.sub = x.sub /\ y.kplex = x.kplex /\ y.counters = x.counters
      /\ y.non_neighs = x.non_neighs /\ y.cands = C /\ y.excluded = E \o F
      /\ y \in T
  <2> DEFINE e == E \o F
  <2>1. y = [x EXCEPT !.excluded = e, !.cands = C] /\ e \in N /\ C \in N
    BY <1>2, <1>5, <1>6
  <2> HIDE DEF e, A, B, D, N
  <2>2. /\ y.sub = x.sub /\ y.kplex = x.kplex /\ y.counters = x.counters
        /\ y.non_neighs = x.non_neighs /\ y.cands = C /\ y.excluded = e
    BY <1>1, <2>1
  <2>3. y \in T
    BY <1>1, <2>1
  <2>4. QED  BY <2>2, <2>3 DEF e
<1> HIDE DEF T
<1>8. /\ ToSet(y.cands) = (ToSet(x.cands) \cap S) \ ToSet(add)
      /\ ToSet(y.excluded) = (ToSet(x.excluded) \cup ToSet(add)) \cap S
  <2> HIDE DEF S
  <2>1. QED  BY <1>2, <1>3, <1>4, <1>6, <1>7
<1>9. y \in KplexTypes(s)
  <2>1. S \subseteq DOMAIN x.sub
    BY DEF Addable
  <2> HIDE DEF S
  <2>2. ToSet(y.cands) \subseteq DOMAIN y.sub /\ ToSet(y.excluded) \subseteq DOMAIN y.sub
    BY <1>7, <1>8, <2>1
  <2>3. IsInjective(y.cands)
    BY <1>2, <1>7
  <2>4. /\ x.sub # <<>> /\ IsInjective(x.sub)
        /\ ToSet(x.kplex) \subseteq DOMAIN x.sub
        /\ Len(x.counters) = Len(x.sub) /\ Len(x.non_neighs) = Len(x.sub)
        /\ \A e \in 1..Len(x.sub) : Len(x.non_neighs[e]) = s.k
    BY DEF KplexTypes
  <2>5. /\ y.sub # <<>> /\ IsInjective(y.sub)
        /\ ToSet(y.kplex) \subseteq DOMAIN y.sub
        /\ Len(y.counters) = Len(y.sub) /\ Len(y.non_neighs) = Len(y.sub)
        /\ \A e \in 1..Len(y.sub) : Len(y.non_neighs[e]) = s.k
    BY <1>7, <2>4
  <2>6. y \in T
    BY <1>7
  <2>7. QED  BY <2>2, <2>3, <2>5, <2>6, Zenon DEF KplexTypes, T
<1>10. QED  BY <1>7, <1>8, <1>9 DEF UpdateMakes

LEMMA UpdateSound ==
  ASSUME NEW s, KplexSystem(s), NEW x, KplexSound(s, x), NEW y, Grown(s, x, y),
         NEW add \in Seq(Nat), ToSet(add) \subseteq ToSet(x.cands)
  PROVE  KplexSound(s, UpdateCandAndExcl(s, y, add))
<1> DEFINE z == UpdateCandAndExcl(s, y, add)
           K == ToSet(x.kplex)
           L == ToSet(y.kplex)
<1>1. y \in KplexTypes(s) /\ Counted(s, y) /\ IsPlex(s, y.sub, L) /\ K \subseteq L
      /\ y.sub = x.sub /\ y.cands = x.cands /\ y.excluded = x.excluded
  BY DEF Grown
<1>2. UpdateMakes(s, y, add, z)
  BY <1>1, UpdateFields
<1> HIDE DEF z
<1>3. /\ z.sub = y.sub /\ z.kplex = y.kplex /\ z.counters = y.counters
      /\ z.non_neighs = y.non_neighs /\ z \in KplexTypes(s)
      /\ ToSet(z.cands) = (ToSet(y.cands) \cap Addable(s, y)) \ ToSet(add)
      /\ ToSet(z.excluded) = (ToSet(y.excluded) \cup ToSet(add)) \cap Addable(s, y)
  BY <1>2 DEF UpdateMakes
<1>4. Counted(s, z)
  BY <1>1, <1>3 DEF Counted
<1>5. IsPlex(s, z.sub, ToSet(z.kplex))
  BY <1>1, <1>3
<1>6. Addable(s, y) = CanJoin(s, y.sub, L)
  BY <1>1, CanAddFacts
<1>7. CanJoin(s, y.sub, L) \subseteq CanJoin(s, x.sub, K)
  <2>1. x.sub \in Seq(DOMAIN s.g) /\ L \subseteq DOMAIN x.sub
    BY <1>1, SubTypes
  <2> HIDE DEF K, L
  <2>2. QED  BY <1>1, <2>1, JoinsPart
<1>8. /\ ToSet(x.cands) \cap ToSet(x.excluded) = {}
      /\ ToSet(x.cands) \cup ToSet(x.excluded) = CanJoin(s, x.sub, K)
  BY DEF KplexSound
<1> DEFINE A == Addable(s, y)
           C == ToSet(x.cands)
           E == ToSet(x.excluded)
           D == ToSet(add)
<1>9. /\ ToSet(z.cands) = (C \cap A) \ D /\ ToSet(z.excluded) = (E \cup D) \cap A
      /\ A \subseteq C \cup E /\ C \cap E = {} /\ D \subseteq C
  BY <1>1, <1>3, <1>6, <1>7, <1>8
<1>10. A = CanJoin(s, z.sub, ToSet(z.kplex))
  BY <1>3, <1>6
<1> HIDE DEF A, C, E, D
<1>11. /\ ToSet(z.cands) \cap ToSet(z.excluded) = {}
       /\ ToSet(z.cands) \cup ToSet(z.excluded) = A
  BY <1>9
<1>12. KplexSound(s, z)
  BY <1>3, <1>4, <1>5, <1>10, <1>11 DEF KplexSound
<1>13. QED  BY <1>12 DEF z

\* One addition of what can be added.
GrownBy(s, x, c, y) == Grown(s, x, y) /\ ToSet(y.kplex) = ToSet(x.kplex) \cup {c}

LEMMA CountGrows ==
  ASSUME NEW s, KplexSystem(s), NEW x \in KplexTypes(s), Counted(s, x), Len(x.sub) < 256,
         NEW c \in CanJoin(s, x.sub, ToSet(x.kplex))
  PROVE  GrownBy(s, x, c, Count(s, x, c))
<1> DEFINE y == Count(s, x, c)
<1>1. c \in DOMAIN x.sub /\ c \notin ToSet(x.kplex)
      /\ IsPlex(s, x.sub, ToSet(x.kplex) \cup {c})
  BY DEF CanJoin
<1>2. CountMakes(s, x, c, y)
  BY <1>1, CountFields
<1>3. Counted(s, y)
  BY <1>1, CountCounts
<1> HIDE DEF y
<1>4. y \in KplexTypes(s) /\ y.sub = x.sub /\ ToSet(y.kplex) = ToSet(x.kplex) \cup {c}
      /\ y.cands = x.cands /\ y.excluded = x.excluded
  BY <1>2, Zenon DEF CountMakes
<1>5. Grown(s, x, y)
  BY <1>1, <1>3, <1>4 DEF Grown
<1>6. QED  BY <1>4, <1>5 DEF y, GrownBy

-----------------------------------------------------------------------
(* Universal vertices *)

LEMMA AddAllLoop ==
  ASSUME NEW s, KplexSystem(s), NEW x \in KplexTypes(s), NEW seq \in Seq(DOMAIN x.sub)
  PROVE  \E f :
           /\ f[0] = x
           /\ \A m \in 1..Len(seq) : f[m] = Count(s, f[m - 1], seq[m])
           /\ AddAll(s, x, seq) = f[Len(seq)]
<1> DEFINE n == Len(seq)
           X == {r \in KplexTypes(s) : r.sub = x.sub}
           G == [m \in 1..n |-> [r \in X |-> Count(s, r, seq[m])]]
           Loop(f) == f = [m \in 0..Len(seq) |->
                             IF m = 0 THEN x ELSE AddToKplex(s, f[m - 1], seq[m])]
           F == CHOOSE f : Loop(f)
<1>1. n \in Nat /\ \A m \in 1..n : seq[m] \in DOMAIN x.sub
  OBVIOUS
<1>2. G \in [1..n -> [X -> X]]
  <2>1. ASSUME NEW m \in 1..n, NEW r \in X PROVE Count(s, r, seq[m]) \in X
    <3>1. r \in KplexTypes(s) /\ r.sub = x.sub /\ seq[m] \in DOMAIN r.sub
      BY <1>1, <2>1
    <3>2. CountMakes(s, r, seq[m], Count(s, r, seq[m]))
      BY <3>1, CountFields
    <3> DEFINE y == Count(s, r, seq[m])
    <3> HIDE DEF y
    <3>3. y \in KplexTypes(s) /\ y.sub = r.sub
      BY <3>2, Zenon DEF CountMakes, y
    <3>4. y \in X
      BY <3>1, <3>3
    <3>5. QED  BY <3>4 DEF y
  <2> HIDE DEF X
  <2>2. QED  BY <2>1
<1>3. PICK f : LoopOf(f, n, X, x, G)
  <2>1. x \in X
    OBVIOUS
  <2> HIDE DEF G, X, n
  <2>2. QED  BY <1>1, <1>2, <2>1, LoopExists
<1> HIDE DEF X
<1>4. f \in [0..n -> X] /\ f[0] = x /\ \A m \in 1..n : f[m] = G[m][f[m - 1]]
  BY <1>3 DEF LoopOf
<1>5. ASSUME NEW m \in 1..n
      PROVE  f[m] = AddToKplex(s, f[m - 1], seq[m])
  <2>1. m - 1 \in 0..n
    BY <1>1, <1>5
  <2>2. f[m - 1] \in X
    BY <1>4, <2>1
  <2>3. G[m] = [r \in X |-> Count(s, r, seq[m])]
    BY <1>5
  <2>4. G[m][f[m - 1]] = Count(s, f[m - 1], seq[m])
    BY <2>2, <2>3
  <2>5. QED  BY <1>4, <1>5, <2>4 DEF AddToKplex
<1>6. Loop(f)
  <2>1. ASSUME NEW m \in 0..n
        PROVE  f[m] = IF m = 0 THEN x ELSE AddToKplex(s, f[m - 1], seq[m])
    <3>1. m = 0 \/ m \in 1..n
      BY <1>1, <2>1
    <3>2. m \in 1..n => m # 0
      BY <1>1
    <3>3. QED  BY <1>4, <1>5, <3>1, <3>2
  <2>2. QED  BY <1>4, <2>1
<1>7. Loop(F)
  BY <1>6
<1>8. AddAll(s, x, seq) = F[Len(seq)]
  BY DEF AddAll
<1> HIDE DEF F
<1>9. F[0] = x
  BY <1>1, <1>7
<1>10. ASSUME NEW m \in 1..n
       PROVE  F[m] = Count(s, F[m - 1], seq[m])
  <2>1. m \in 0..Len(seq) /\ m # 0
    BY <1>1, <1>10
  <2>2. QED  BY <1>7, <2>1 DEF AddToKplex
<1>11. QED  BY <1>8, <1>9, <1>10

\* What is adjacent to the whole k-plex can be added.
LEMMA FreeJoins ==
  ASSUME NEW s, KplexSystem(s), NEW sub \in Seq(DOMAIN s.g), NEW S \in SUBSET DOMAIN sub,
         IsFiniteSet(S), IsPlex(s, sub, S), NEW c \in DOMAIN sub \ S,
         \A b \in S : ~ Apart(s, sub, c, b)
  PROVE  c \in CanJoin(s, sub, S)
<1>1. s.k \in Nat \ {0}
  BY DEF KplexSystem
<1>2. \A b \in S : ~ Apart(s, sub, b, c)
  BY ApartFacts
<1>3. ASSUME NEW a \in S PROVE Cardinality(Away(s, sub, S \cup {c}, a)) <= s.k
  <2>1. Away(s, sub, S \cup {c}, a) = Away(s, sub, S, a)
    BY <1>2, <1>3 DEF Away
  <2>2. QED  BY <2>1 DEF IsPlex
<1>4. Cardinality(Away(s, sub, S \cup {c}, c)) <= s.k
  <2>1. Away(s, sub, S \cup {c}, c) \subseteq {c}
    BY DEF Away
  <2>2. IsFiniteSet({c}) /\ Cardinality({c}) = 1
    BY FS_Singleton
  <2>3. Cardinality(Away(s, sub, S \cup {c}, c)) <= 1
    BY <2>1, <2>2, FS_Subset
  <2>4. IsFiniteSet(Away(s, sub, S \cup {c}, c))
    BY <2>1, <2>2, FS_Subset
  <2>5. Cardinality(Away(s, sub, S \cup {c}, c)) \in Nat
    BY <2>4, FS_CardinalityType
  <2>6. QED  BY <1>1, <2>3, <2>5
<1>5. IsPlex(s, sub, S \cup {c})
  BY <1>3, <1>4 DEF IsPlex
<1>6. QED  BY <1>5 DEF CanJoin

LEMMA NamesNext ==
  ASSUME NEW f, NEW m \in Nat
  PROVE  Names(f, m + 1) = Names(f, m) \cup {f[m + 1]}
<1>1. \A j \in 1..(m + 1) : j \in 1..m \/ j = m + 1
  OBVIOUS
<1>2. m + 1 \in 1..(m + 1) /\ \A j \in 1..m : j \in 1..(m + 1)
  OBVIOUS
<1>3. QED  BY <1>1, <1>2 DEF Names

LEMMA AddAllGrows ==
  ASSUME NEW s, KplexSystem(s), NEW x, KplexSound(s, x), Len(x.sub) < 256,
         NEW U \in Seq(Nat), IsInjective(U), ToSet(U) \subseteq ToSet(x.cands),
         \A u \in ToSet(U) : x.counters[u] = 0 /\ CandsAway(s, x, u) \subseteq {u}
  PROVE  Grown(s, x, AddAll(s, x, U))
<1> DEFINE K == ToSet(x.kplex)
           n == Len(U)
           D == DOMAIN x.sub
           Upto(m) == Names(U, m)
<1>1. x \in KplexTypes(s) /\ Counted(s, x) /\ IsPlex(s, x.sub, K)
      /\ ToSet(x.cands) \subseteq CanJoin(s, x.sub, K)
  BY DEF KplexSound
<1>2. x.sub \in Seq(DOMAIN s.g) /\ K \subseteq D /\ IsFiniteSet(D) /\ IsFiniteSet(K)
  BY <1>1, SubTypes
<1>3. CanJoin(s, x.sub, K) \subseteq D \ K
  BY DEF CanJoin
<1>4. /\ n \in Nat /\ \A m \in 1..n : U[m] \in ToSet(U)
      /\ \A a, b \in 1..n : U[a] = U[b] => a = b
  <2>1. n \in Nat /\ DOMAIN U = 1..n
    OBVIOUS
  <2>2. QED  BY <2>1 DEF IsInjective, ToSet
<1>5. ToSet(U) \subseteq D \ K
  BY <1>1, <1>3
<1>6. U \in Seq(D)
  <2>1. \A m \in 1..n : U[m] \in D
    BY <1>4, <1>5
  <2>2. U \in [1..n -> D]
    BY <1>4, <2>1
  <2> HIDE DEF n, D
  <2>3. QED  BY <1>4, <2>2, FunctionIsSeq DEF ListOf
<1>7. PICK f : /\ f[0] = x
               /\ \A m \in 1..n : f[m] = Count(s, f[m - 1], U[m])
               /\ AddAll(s, x, U) = f[n]
  BY <1>1, <1>6, AddAllLoop
<1>8. ASSUME NEW u \in ToSet(U)
      PROVE  \A b \in K \cup ToSet(U) : b # u => ~ Apart(s, x.sub, u, b)
  <2>1. x.counters[u] = Cardinality(Away(s, x.sub, K, u)) /\ x.counters[u] = 0
    BY <1>1, <1>5, <1>8 DEF Counted
  <2>2. Away(s, x.sub, K, u) \subseteq K
    BY DEF Away
  <2>3. IsFiniteSet(Away(s, x.sub, K, u))
    BY <1>2, <2>2, FS_Subset
  <2>4. Away(s, x.sub, K, u) = {}
    BY <2>1, <2>3, FS_EmptySet
  <2>5. \A b \in K : ~ Apart(s, x.sub, u, b)
    BY <2>4 DEF Away
  <2>6. \A b \in ToSet(x.cands) : b # u => ~ Apart(s, x.sub, u, b)
    BY <1>8 DEF CandsAway, Apart
  <2>7. QED  BY <2>5, <2>6
<1> DEFINE P == {m \in 0..n : Grown(s, x, f[m]) /\ ToSet(f[m].kplex) = K \cup Upto(m)}
<1>9. 0 \in P
  <2>1. Upto(0) = {}
    BY DEF Names
  <2>2. Grown(s, x, x)
    BY <1>1 DEF Grown
  <2>3. 0 \in 0..n
    BY <1>4
  <2>4. QED  BY <1>7, <2>1, <2>2, <2>3
<1>10. ASSUME NEW m \in 0..(n - 1), m \in P PROVE m + 1 \in P
  <2> DEFINE c == U[m + 1]
             y == f[m]
             L == ToSet(y.kplex)
  <2>1. m + 1 \in 1..n /\ m + 1 \in 0..n /\ (m + 1) - 1 = m /\ m \in Nat
    BY <1>4, <1>10
  <2>2. Grown(s, x, y) /\ L = K \cup Upto(m)
    BY <1>10
  <2>3. /\ y \in KplexTypes(s) /\ Counted(s, y) /\ IsPlex(s, y.sub, L)
        /\ y.sub = x.sub /\ y.cands = x.cands /\ y.excluded = x.excluded
    BY <2>2 DEF Grown
  <2>4. c \in ToSet(U) /\ c \in D /\ c \notin K
    BY <1>4, <1>5, <2>1
  <2>5. \A j \in 1..m : j \in 1..n /\ U[j] # c /\ U[j] \in ToSet(U)
    <3>1. \A j \in 1..m : j \in 1..n /\ j # m + 1
      BY <1>4, <2>1
    <3>2. QED  BY <1>4, <2>1, <3>1
  <2>6. c \notin L /\ L \subseteq K \cup ToSet(U)
    BY <2>2, <2>4, <2>5 DEF Names
  <2>7. \A b \in L : ~ Apart(s, x.sub, c, b)
    BY <1>8, <2>4, <2>6
  <2>8. L \subseteq D /\ IsFiniteSet(L)
    BY <2>3, SubTypes
  <2> HIDE DEF L, c, y, D
  <2>9. c \in CanJoin(s, y.sub, L)
    BY <1>2, <2>3, <2>4, <2>6, <2>7, <2>8, FreeJoins DEF D
  <2>10. Grown(s, y, Count(s, y, c)) /\ ToSet(Count(s, y, c).kplex) = L \cup {c}
    <3>1. Len(y.sub) < 256
      BY <2>3
    <3>2. c \in CanJoin(s, y.sub, ToSet(y.kplex))
      BY <2>9 DEF L
    <3>3. y \in KplexTypes(s) /\ Counted(s, y)
      BY <2>3
    <3>4. GrownBy(s, y, c, Count(s, y, c))
      BY <3>1, <3>2, <3>3, CountGrows
    <3>5. QED  BY <3>4 DEF L, GrownBy
  <2>11. f[m + 1] = Count(s, y, c)
    BY <1>7, <2>1 DEF y, c
  <2>12. Grown(s, x, f[m + 1])
    <3>1. Grown(s, y, f[m + 1])
      BY <2>10, <2>11
    <3>2. QED  BY <2>2, <2>3, <3>1 DEF Grown
  <2>13. Upto(m + 1) = Upto(m) \cup {c}
    BY <2>1, NamesNext DEF c
  <2>14. ToSet(f[m + 1].kplex) = K \cup Upto(m + 1)
    <3> HIDE DEF Upto, K
    <3>1. QED  BY <2>2, <2>10, <2>11, <2>13
  <2>15. QED  BY <2>1, <2>12, <2>14
<1>11. n \in P
  <2> HIDE DEF P
  <2>1. \A m \in 0..n : m \in P
    BY <1>4, <1>9, <1>10, Induct
  <2>2. QED  BY <1>4, <2>1
<1>12. QED  BY <1>7, <1>11
-----------------------------------------------------------------------
(* ListChildren *)

LEMMA RealFacts ==
  ASSUME NEW s, KplexSystem(s), NEW x \in KplexTypes(s)
  PROVE  /\ RealCands(s, x) \in Seq(Nat) /\ IsInjective(RealCands(s, x))
         /\ ToSet(RealCands(s, x)) \subseteq ToSet(x.cands)
<1>1. ASSUME NEW S
      PROVE  /\ Kept(x.cands, S) \in Seq(Nat) /\ IsInjective(Kept(x.cands, S))
             /\ ToSet(Kept(x.cands, S)) \subseteq ToSet(x.cands)
  <2> DEFINE q == x.cands
  <2>1. q \in Seq(Nat) /\ IsInjective(q)
    BY DEF KplexTypes
  <2> HIDE DEF q
  <2>2. Kept(q, S) \in Seq(Nat) /\ IsInjective(Kept(q, S)) /\ ToSet(Kept(q, S)) = ToSet(q) \cap S
    BY <2>1, KeptFacts
  <2>3. QED  BY <2>2 DEF q
<1>2. \E S : RealCands(s, x) = Kept(x.cands, S)
  BY DEF RealCands, NotCuts
<1>3. QED  BY <1>1, <1>2

\* Each turn of the insertion sort.
Inserted(before, N, c, R) == Kept(before, N) \o <<c>> \o Kept(before, R \ N)

LEMMA InsertedFacts ==
  ASSUME NEW b \in Seq(Nat), IsInjective(b), NEW N, NEW c \in Nat, c \notin ToSet(b), NEW R,
         ToSet(b) \subseteq R
  PROVE  /\ Inserted(b, N, c, R) \in Seq(Nat) /\ IsInjective(Inserted(b, N, c, R))
         /\ ToSet(Inserted(b, N, c, R)) = ToSet(b) \cup {c}
<1> DEFINE p == Kept(b, N)
           q == Kept(b, R \ N)
           o == <<c>>
           M == R \ N
<1>1. p \in Seq(Nat) /\ IsInjective(p) /\ ToSet(p) = ToSet(b) \cap N
  BY KeptFacts
<1>2. q \in Seq(Nat) /\ IsInjective(q) /\ ToSet(q) = ToSet(b) \cap M
  <2>1. q = Kept(b, M)
    OBVIOUS
  <2> HIDE DEF M
  <2>2. QED  BY <2>1, KeptFacts
<1>3. o \in Seq(Nat) /\ IsInjective(o) /\ ToSet(o) = {c}
  BY DEF IsInjective, ToSet
<1>4. ToSet(p) \cap ToSet(o) = {} /\ (ToSet(p) \cup ToSet(o)) \cap ToSet(q) = {}
  BY <1>1, <1>2, <1>3
<1>5. ToSet(p) \cup ToSet(o) \cup ToSet(q) = ToSet(b) \cup {c}
  BY <1>1, <1>2, <1>3
<1>6. Inserted(b, N, c, R) = (p \o o) \o q
  BY DEF Inserted
<1> HIDE DEF p, q, o
<1>7. p \o o \in Seq(Nat) /\ IsInjective(p \o o) /\ ToSet(p \o o) = ToSet(p) \cup ToSet(o)
  BY <1>1, <1>3, <1>4, ConcatFacts
<1> DEFINE r == p \o o
<1> HIDE DEF r
<1>8. r \in Seq(Nat) /\ IsInjective(r) /\ ToSet(r) = ToSet(p) \cup ToSet(o)
  BY <1>7 DEF r
<1>9. r \o q \in Seq(Nat) /\ IsInjective(r \o q) /\ ToSet(r \o q) = ToSet(r) \cup ToSet(q)
  BY <1>2, <1>4, <1>8, ConcatFacts
<1>10. QED  BY <1>5, <1>6, <1>8, <1>9 DEF r

LEMMA InsertedSeq ==
  ASSUME NEW b \in Seq(Nat), NEW N, NEW c \in Nat, NEW R
  PROVE  Inserted(b, N, c, R) \in Seq(Nat)
<1> DEFINE M == R \ N
<1>1. Kept(b, N) \in Seq(Nat)
  BY KeptFacts
<1>2. Kept(b, M) \in Seq(Nat)
  <2> HIDE DEF M
  <2>1. QED  BY KeptFacts
<1>3. <<c>> \in Seq(Nat)
  OBVIOUS
<1>4. QED  BY <1>1, <1>2, <1>3 DEF Inserted

\* The order in which the children are made.
LEMMA SortedLoop ==
  ASSUME NEW s, KplexSystem(s), NEW x \in KplexTypes(s)
  PROVE  \E N, f :
           /\ f[0] = <<>>
           /\ \A m \in 1..Len(RealCands(s, x)) :
                f[m] = Inserted(f[m - 1], N[m], RealCands(s, x)[m], ToSet(RealCands(s, x)))
           /\ SortedCands(s, x) = f[Len(RealCands(s, x))]
<1> DEFINE real == RealCands(s, x)
           n == Len(real)
           key == [u \in ToSet(x.cands) |->
                     x.counters[u] + Cardinality(CandsAway(s, x, u) \ {u})]
           NotAfter(u) == {v \in ToSet(real) : key[v] >= key[u]}
           N == [m \in 1..n |-> NotAfter(real[m])]
           X == Seq(Nat)
           G == [m \in 1..n |-> [r \in X |-> Inserted(r, N[m], real[m], ToSet(real))]]
           Loop(f) == f = [m \in 0..Len(real) |->
                             IF m = 0 THEN <<>>
                             ELSE Kept(f[m - 1], NotAfter(real[m])) \o <<real[m]>>
                                    \o Kept(f[m - 1], ToSet(real) \ NotAfter(real[m]))]
           F == CHOOSE f : Loop(f)
<1>1. n \in Nat /\ \A m \in 1..n : real[m] \in Nat
  <2>1. real \in Seq(Nat)
    BY RealFacts
  <2> HIDE DEF real
  <2>2. QED  BY <2>1
<1>2. SortedCands(s, x) = F[Len(real)]
  BY DEF SortedCands
<1> HIDE DEF real, NotAfter
<1>3. G \in [1..n -> [X -> X]]
  <2>1. ASSUME NEW m \in 1..n, NEW r \in X PROVE Inserted(r, N[m], real[m], ToSet(real)) \in X
    <3> DEFINE M == N[m]
    <3>1. real[m] \in Nat
      BY <1>1
    <3> HIDE DEF M
    <3>2. Inserted(r, M, real[m], ToSet(real)) \in X
      BY <3>1, InsertedSeq
    <3>3. QED  BY <3>2 DEF M
  <2> HIDE DEF X, N
  <2>2. QED  BY <2>1
<1>4. PICK f : LoopOf(f, n, X, <<>>, G)
  <2>1. <<>> \in X
    OBVIOUS
  <2> HIDE DEF G, X, n
  <2>2. QED  BY <1>1, <1>3, <2>1, LoopExists
<1>5. f \in [0..n -> X] /\ f[0] = <<>> /\ \A m \in 1..n : f[m] = G[m][f[m - 1]]
  BY <1>4 DEF LoopOf
<1>6. ASSUME NEW m \in 1..n
      PROVE  f[m] = Kept(f[m - 1], NotAfter(real[m])) \o <<real[m]>>
                      \o Kept(f[m - 1], ToSet(real) \ NotAfter(real[m]))
  <2>1. m - 1 \in 0..n
    BY <1>1, <1>6
  <2>2. f[m - 1] \in X
    BY <1>5, <2>1
  <2>3. G[m] = [r \in X |-> Inserted(r, N[m], real[m], ToSet(real))]
    BY <1>6
  <2>4. G[m][f[m - 1]] = Inserted(f[m - 1], N[m], real[m], ToSet(real))
    BY <2>2, <2>3
  <2>5. N[m] = NotAfter(real[m])
    BY <1>6
  <2>6. QED  BY <1>5, <1>6, <2>4, <2>5 DEF Inserted
<1>7. Loop(f)
  <2>1. ASSUME NEW m \in 0..n
        PROVE  f[m] = IF m = 0 THEN <<>>
                      ELSE Kept(f[m - 1], NotAfter(real[m])) \o <<real[m]>>
                             \o Kept(f[m - 1], ToSet(real) \ NotAfter(real[m]))
    <3>1. m = 0 \/ m \in 1..n
      BY <1>1, <2>1
    <3>2. m \in 1..n => m # 0
      BY <1>1
    <3>3. QED  BY <1>5, <1>6, <3>1, <3>2
  <2>2. QED  BY <1>5, <2>1
<1>8. Loop(F)
  BY <1>7
<1> HIDE DEF F
<1>9. F[0] = <<>>
  BY <1>1, <1>8
<1>10. ASSUME NEW m \in 1..n
       PROVE  F[m] = Inserted(F[m - 1], N[m], real[m], ToSet(real))
  <2>1. m \in 0..Len(real) /\ m # 0
    BY <1>1, <1>10
  <2>2. F[m] = Kept(F[m - 1], NotAfter(real[m])) \o <<real[m]>>
                 \o Kept(F[m - 1], ToSet(real) \ NotAfter(real[m]))
    BY <1>8, <2>1
  <2>3. N[m] = NotAfter(real[m])
    BY <1>10
  <2>4. QED  BY <2>2, <2>3 DEF Inserted
<1> HIDE DEF N
<1>11. /\ F[0] = <<>>
       /\ \A m \in 1..Len(real) : F[m] = Inserted(F[m - 1], N[m], real[m], ToSet(real))
       /\ SortedCands(s, x) = F[Len(real)]
  BY <1>2, <1>9, <1>10
<1>12. QED  BY <1>11 DEF real

LEMMA SortedFacts ==
  ASSUME NEW s, KplexSystem(s), NEW x \in KplexTypes(s)
  PROVE  /\ SortedCands(s, x) \in Seq(Nat) /\ IsInjective(SortedCands(s, x))
         /\ ToSet(SortedCands(s, x)) \subseteq ToSet(x.cands)
         /\ ToSet(SortedCands(s, x)) = ToSet(RealCands(s, x))
<1> DEFINE real == RealCands(s, x)
           n == Len(real)
           Good(b, m) == b \in Seq(Nat) /\ IsInjective(b) /\ ToSet(b) = Names(real, m)
<1>1. PICK N, f : /\ f[0] = <<>>
                  /\ \A m \in 1..n : f[m] = Inserted(f[m - 1], N[m], real[m], ToSet(real))
                  /\ SortedCands(s, x) = f[n]
  BY SortedLoop
<1>2. real \in Seq(Nat) /\ IsInjective(real) /\ ToSet(real) \subseteq ToSet(x.cands)
  BY RealFacts
<1> HIDE DEF real
<1>3. n \in Nat /\ DOMAIN real = 1..n /\ \A m \in 1..n : real[m] \in Nat /\ real[m] \in ToSet(real)
  BY <1>2, SeqFacts
<1> DEFINE P == {m \in 0..n : Good(f[m], m)}
<1>4. 0 \in P
  <2>1. Names(real, 0) = {}
    BY DEF Names
  <2>2. <<>> \in Seq(Nat) /\ IsInjective(<<>>) /\ ToSet(<<>>) = {}
    BY DEF IsInjective, ToSet
  <2>3. Good(<<>>, 0)
    BY <2>1, <2>2
  <2> HIDE DEF Good
  <2>4. Good(f[0], 0)
    BY <1>1, <2>3
  <2>5. 0 \in 0..n
    BY <1>3
  <2>6. QED  BY <2>4, <2>5
<1>5. ASSUME NEW m \in 0..(n - 1), m \in P PROVE m + 1 \in P
  <2> DEFINE b == f[m]
             c == real[m + 1]
             S == N[m + 1]
             R == ToSet(real)
  <2>1. m + 1 \in 1..n /\ m + 1 \in 0..n /\ (m + 1) - 1 = m /\ m \in Nat
    BY <1>3, <1>5
  <2>2. Good(b, m)
    BY <1>5
  <2>3. f[m + 1] = Inserted(b, S, c, R)
    BY <1>1, <2>1
  <2>4. Names(real, m + 1) = Names(real, m) \cup {c}
    BY <2>1, NamesNext
  <2>5. c \in Nat /\ c \in R
    BY <1>3, <2>1
  <2>6. \A j \in 1..m : j \in 1..n /\ j # m + 1
    BY <1>3, <2>1
  <2>7. c \notin Names(real, m)
    BY <1>2, <1>3, <2>1, <2>6 DEF IsInjective, Names
  <2>8. Names(real, m) \subseteq R
    BY <1>3, <2>6 DEF Names
  <2> HIDE DEF b, c, S, R
  <2>9. b \in Seq(Nat) /\ IsInjective(b) /\ ToSet(b) = Names(real, m)
    BY <2>2
  <2>10. /\ Inserted(b, S, c, R) \in Seq(Nat) /\ IsInjective(Inserted(b, S, c, R))
         /\ ToSet(Inserted(b, S, c, R)) = ToSet(b) \cup {c}
    BY <2>5, <2>7, <2>8, <2>9, InsertedFacts
  <2>11. Good(f[m + 1], m + 1)
    BY <2>3, <2>4, <2>9, <2>10
  <2> HIDE DEF Good
  <2>12. QED  BY <2>1, <2>11
<1>6. n \in P
  <2> HIDE DEF P
  <2>1. \A m \in 0..n : m \in P
    BY <1>3, <1>4, <1>5, Induct
  <2>2. QED  BY <1>3, <2>1
<1>7. Good(f[n], n)
  BY <1>6
<1>8. Names(real, n) = ToSet(real)
  BY <1>3 DEF Names, ToSet
<1>9. QED  BY <1>1, <1>2, <1>7, <1>8 DEF real

-----------------------------------------------------------------------
(* The nodes of the search *)

\* As long as the counters cannot overflow they count.
KplexNodes(s) ==
  {x \in KplexTypes(s) :
     /\ Len(x.sub) = RootSize(s.g, x.sub[1], s.k, s.q)
     /\ Len(x.sub) < 256 => KplexSound(s, x)}

\* The k-plex of y is that of x, with more vertices after it.
Longer(x, y) ==
  /\ Len(x.kplex) < Len(y.kplex)
  /\ \A m \in 1..Len(x.kplex) : y.kplex[m] = x.kplex[m]

\* y is x or a node that might be below it.
Descends(x, y) ==
  /\ x.sub = y.sub
  /\ Len(x.kplex) <= Len(y.kplex)
  /\ \A m \in 1..Len(x.kplex) : y.kplex[m] = x.kplex[m]

\* Two children of x differ in the vertex after those of x.
KidsOf(s, x, kids) ==
  /\ kids \in Seq(KplexNodes(s))
  /\ \A m \in 1..Len(kids) : kids[m].sub = x.sub /\ Longer(x, kids[m])
  /\ \A m, n \in 1..Len(kids) :
       m # n => kids[m].kplex[Len(x.kplex) + 1] # kids[n].kplex[Len(x.kplex) + 1]

LEMMA AppendLonger ==
  ASSUME NEW T, NEW p \in Seq(T), NEW c
  PROVE  /\ Len(Append(p, c)) = Len(p) + 1
         /\ \A m \in 1..Len(p) : Append(p, c)[m] = p[m]
         /\ Append(p, c)[Len(p) + 1] = c
  OBVIOUS

\* The child that adds c, and excludes what add names.
LEMMA AddedKid ==
  ASSUME NEW s, KplexSystem(s), NEW x \in KplexNodes(s), NEW c \in ToSet(x.cands),
         NEW add \in Seq(Nat), ToSet(add) \subseteq ToSet(x.cands),
         NEW z, z = UpdateCandAndExcl(s, AddToKplex(s, x, c), add)
  PROVE  /\ z \in KplexNodes(s) /\ z.sub = x.sub /\ Longer(x, z)
         /\ z.kplex[Len(x.kplex) + 1] = c
<1> DEFINE y == Count(s, x, c)
<1>1. x \in KplexTypes(s) /\ Len(x.sub) = RootSize(s.g, x.sub[1], s.k, s.q)
      /\ (Len(x.sub) < 256 => KplexSound(s, x))
  BY DEF KplexNodes
<1>2. c \in DOMAIN x.sub /\ x.kplex \in Seq(Nat)
  BY <1>1 DEF KplexTypes
<1>3. CountMakes(s, x, c, y)
  BY <1>1, <1>2, CountFields
<1>4. Len(x.sub) < 256 => Grown(s, x, y)
  <2>1. SUFFICES ASSUME Len(x.sub) < 256 PROVE Grown(s, x, y)
    OBVIOUS
  <2>2. Counted(s, x) /\ c \in CanJoin(s, x.sub, ToSet(x.kplex))
    BY <1>1, <2>1 DEF KplexSound
  <2>3. GrownBy(s, x, c, Count(s, x, c))
    BY <1>1, <2>1, <2>2, CountGrows
  <2>4. QED  BY <2>3 DEF GrownBy
<1>5. z = UpdateCandAndExcl(s, y, add)
  BY DEF AddToKplex
<1> HIDE DEF y
<1>6. y \in KplexTypes(s) /\ y.sub = x.sub /\ y.kplex = Append(x.kplex, c)
  BY <1>3, Zenon DEF CountMakes
<1>7. UpdateMakes(s, y, add, z)
  BY <1>5, <1>6, UpdateFields
<1>8. z \in KplexTypes(s) /\ z.sub = x.sub /\ z.kplex = Append(x.kplex, c)
  BY <1>6, <1>7 DEF UpdateMakes
<1>9. Len(x.sub) < 256 => KplexSound(s, z)
  <2>1. SUFFICES ASSUME Len(x.sub) < 256 PROVE KplexSound(s, z)
    OBVIOUS
  <2>2. KplexSound(s, x) /\ Grown(s, x, y)
    BY <1>1, <1>4, <2>1
  <2>3. KplexSound(s, UpdateCandAndExcl(s, y, add))
    BY <2>2, UpdateSound
  <2>4. QED  BY <1>5, <2>3
<1>10. z \in KplexNodes(s)
  BY <1>1, <1>8, <1>9 DEF KplexNodes
<1>11. Longer(x, z) /\ z.kplex[Len(x.kplex) + 1] = c
  <2> DEFINE p == x.kplex
             r == z.kplex
  <2>1. p \in Seq(Nat) /\ r = Append(p, c)
    BY <1>2, <1>8
  <2> HIDE DEF p, r
  <2>2. /\ Len(r) = Len(p) + 1 /\ Len(p) \in Nat
        /\ \A m \in 1..Len(p) : r[m] = p[m]
        /\ r[Len(p) + 1] = c
    BY <2>1, AppendLonger
  <2>3. QED  BY <2>2 DEF p, r, Longer
<1>12. QED  BY <1>8, <1>10, <1>11

\* The first m vertices of U have been added.
AddedMany(s, x, m, y) ==
  /\ y \in KplexTypes(s) /\ y.sub = x.sub
  /\ Len(y.kplex) = Len(x.kplex) + m
  /\ \A j \in 1..Len(x.kplex) : y.kplex[j] = x.kplex[j]

LEMMA AddOneMore ==
  ASSUME NEW s, KplexSystem(s), NEW x, NEW m \in Nat, NEW y, AddedMany(s, x, m, y),
         x.kplex \in Seq(Nat), NEW c \in DOMAIN x.sub
  PROVE  AddedMany(s, x, m + 1, Count(s, y, c))
<1> DEFINE z == Count(s, y, c)
           p == x.kplex
           q == y.kplex
           r == z.kplex
<1>1. y \in KplexTypes(s) /\ y.sub = x.sub /\ Len(q) = Len(p) + m
      /\ \A j \in 1..Len(p) : q[j] = p[j]
  BY DEF AddedMany
<1>2. c \in DOMAIN y.sub /\ q \in Seq(Nat) /\ p \in Seq(Nat)
  BY <1>1 DEF KplexTypes
<1>3. CountMakes(s, y, c, z)
  BY <1>1, <1>2, CountFields
<1> HIDE DEF z
<1>4. z \in KplexTypes(s) /\ z.sub = y.sub /\ r = Append(q, c)
  BY <1>3, Zenon DEF CountMakes
<1> HIDE DEF p, q, r
<1>5. /\ Len(r) = Len(q) + 1 /\ Len(q) \in Nat /\ Len(p) \in Nat
      /\ \A j \in 1..Len(q) : r[j] = q[j]
  BY <1>2, <1>4, AppendLonger
<1>6. Len(r) = Len(p) + (m + 1) /\ \A j \in 1..Len(p) : j \in 1..Len(q)
  BY <1>1, <1>5
<1>7. \A j \in 1..Len(p) : r[j] = p[j]
  BY <1>1, <1>5, <1>6
<1>8. AddedMany(s, x, m + 1, z)
  BY <1>1, <1>4, <1>6, <1>7 DEF AddedMany, p, r
<1>9. QED  BY <1>8 DEF z

LEMMA AddAllMany ==
  ASSUME NEW s, KplexSystem(s), NEW x \in KplexTypes(s), NEW U \in Seq(DOMAIN x.sub)
  PROVE  AddedMany(s, x, Len(U), AddAll(s, x, U))
<1> DEFINE n == Len(U)
<1>1. n \in Nat /\ \A m \in 1..n : U[m] \in DOMAIN x.sub
  OBVIOUS
<1>2. PICK f : /\ f[0] = x
               /\ \A m \in 1..n : f[m] = Count(s, f[m - 1], U[m])
               /\ AddAll(s, x, U) = f[n]
  BY AddAllLoop
<1>3. x.kplex \in Seq(Nat)
  BY DEF KplexTypes
<1> DEFINE P == {m \in 0..n : AddedMany(s, x, m, f[m])}
<1>4. 0 \in P
  <2>1. Len(x.kplex) \in Nat
    BY <1>3
  <2>2. AddedMany(s, x, 0, x)
    BY <2>1 DEF AddedMany
  <2>3. QED  BY <1>1, <1>2, <2>2
<1>5. ASSUME NEW m \in 0..(n - 1), m \in P PROVE m + 1 \in P
  <2> DEFINE c == U[m + 1]
             y == f[m]
  <2>1. m + 1 \in 1..n /\ m + 1 \in 0..n /\ (m + 1) - 1 = m /\ m \in Nat
    BY <1>1, <1>5
  <2>2. AddedMany(s, x, m, y)
    BY <1>5
  <2>3. f[m + 1] = Count(s, y, c) /\ c \in DOMAIN x.sub
    BY <1>1, <1>2, <2>1
  <2> HIDE DEF y, c
  <2>4. AddedMany(s, x, m + 1, f[m + 1])
    BY <1>3, <2>1, <2>2, <2>3, AddOneMore
  <2>5. QED  BY <2>1, <2>4
<1>6. n \in P
  <2> HIDE DEF P
  <2>1. \A m \in 0..n : m \in P
    BY <1>1, <1>4, <1>5, Induct
  <2>2. QED  BY <1>1, <2>1
<1>7. QED  BY <1>2, <1>6

\* The only child, which adds what is adjacent to all else.
LEMMA UniversalKid ==
  ASSUME NEW s, KplexSystem(s), NEW x \in KplexNodes(s), Universals(s, x) # <<>>,
         NEW z, z = UpdateCandAndExcl(s, AddAll(s, x, Universals(s, x)), <<>>)
  PROVE  z \in KplexNodes(s) /\ z.sub = x.sub /\ Longer(x, z)
<1> DEFINE U == Universals(s, x)
           y == AddAll(s, x, U)
           q == x.cands
           S == {u \in ToSet(q) : x.counters[u] = 0 /\ CandsAway(s, x, u) \subseteq {u}}
<1>1. x \in KplexTypes(s) /\ Len(x.sub) = RootSize(s.g, x.sub[1], s.k, s.q)
      /\ (Len(x.sub) < 256 => KplexSound(s, x))
  BY DEF KplexNodes
<1>2. q \in Seq(Nat) /\ IsInjective(q) /\ ToSet(q) \subseteq DOMAIN x.sub /\ x.kplex \in Seq(Nat)
  BY <1>1 DEF KplexTypes
<1>3. U = Kept(q, S)
  BY DEF Universals
<1>4. U \in Seq(Nat) /\ IsInjective(U) /\ ToSet(U) = ToSet(q) \cap S
  <2> HIDE DEF q, S, U
  <2>1. QED  BY <1>2, <1>3, KeptFacts
<1>5. ToSet(U) \subseteq ToSet(x.cands)
      /\ \A u \in ToSet(U) : x.counters[u] = 0 /\ CandsAway(s, x, u) \subseteq {u}
  BY <1>4
<1> HIDE DEF U, S
<1>6. U \in Seq(DOMAIN x.sub) /\ Len(U) \in Nat \ {0}
  <2> DEFINE D == DOMAIN x.sub
  <2>1. Len(U) \in Nat \ {0} /\ \A m \in 1..Len(U) : U[m] \in ToSet(U)
    <3>1. U # <<>>
      BY DEF U
    <3>2. Len(U) \in Nat /\ \A m \in 1..Len(U) : U[m] \in ToSet(U)
      BY <1>4, SeqFacts
    <3>3. Len(U) # 0
      BY <1>4, <3>1
    <3>4. QED  BY <3>2, <3>3
  <2>2. \A m \in 1..Len(U) : U[m] \in D
    BY <1>2, <1>4, <2>1
  <2> HIDE DEF D
  <2>3. U \in [1..Len(U) -> D]
    BY <1>4, <2>2
  <2>4. U \in Seq(D)
    BY <2>1, <2>3, FunctionIsSeq DEF ListOf
  <2>5. QED  BY <2>1, <2>4 DEF D
<1>7. AddedMany(s, x, Len(U), y)
  BY <1>1, <1>6, AddAllMany
<1>8. Len(x.sub) < 256 => Grown(s, x, y)
  BY <1>1, <1>4, <1>5, AddAllGrows
<1>9. z = UpdateCandAndExcl(s, y, <<>>) /\ <<>> \in Seq(Nat) /\ ToSet(<<>>) = {}
  BY DEF U, ToSet
<1> HIDE DEF y
<1>10. y \in KplexTypes(s) /\ y.sub = x.sub /\ Len(y.kplex) = Len(x.kplex) + Len(U)
       /\ \A j \in 1..Len(x.kplex) : y.kplex[j] = x.kplex[j]
  BY <1>7 DEF AddedMany
<1>11. UpdateMakes(s, y, <<>>, z)
  BY <1>9, <1>10, UpdateFields
<1>12. z \in KplexTypes(s) /\ z.sub = x.sub /\ z.kplex = y.kplex
  BY <1>10, <1>11 DEF UpdateMakes
<1>13. Len(x.sub) < 256 => KplexSound(s, z)
  <2>1. SUFFICES ASSUME Len(x.sub) < 256 PROVE KplexSound(s, z)
    OBVIOUS
  <2>2. KplexSound(s, x) /\ Grown(s, x, y)
    BY <1>1, <1>8, <2>1
  <2>3. ToSet(<<>>) \subseteq ToSet(x.cands)
    BY <1>9
  <2>4. KplexSound(s, UpdateCandAndExcl(s, y, <<>>))
    BY <1>9, <2>2, <2>3, UpdateSound
  <2>5. QED  BY <1>9, <2>4
<1>14. z \in KplexNodes(s)
  BY <1>1, <1>12, <1>13 DEF KplexNodes
<1>15. Longer(x, z)
  <2> DEFINE a == Len(x.kplex)
             b == Len(y.kplex)
             n == Len(U)
  <2>1. a \in Nat /\ b = a + n /\ n \in Nat \ {0}
    BY <1>2, <1>6, <1>10
  <2> HIDE DEF a, b, n
  <2>2. a < b
    BY <2>1
  <2>3. QED  BY <1>10, <1>12, <2>2 DEF Longer, a, b
<1>16. QED  BY <1>12, <1>14, <1>15

LEMMA KplexChildrenFacts ==
  ASSUME NEW s, KplexSystem(s), NEW x \in KplexNodes(s)
  PROVE  KidsOf(s, x, KplexChildren(s, x))
<1> DEFINE kids == KplexChildren(s, x)
           U == Universals(s, x)
           sorted == IF x.cands = <<>> THEN <<>> ELSE SortedCands(s, x)
           Kid(m) == UpdateCandAndExcl(s, AddToKplex(s, x, sorted[m]), SubSeq(sorted, 1, m - 1))
           one == UpdateCandAndExcl(s, AddAll(s, x, U), <<>>)
           T == KplexNodes(s)
<1>1. x \in KplexTypes(s)
  BY DEF KplexNodes
<1>2. sorted \in Seq(Nat) /\ IsInjective(sorted) /\ ToSet(sorted) \subseteq ToSet(x.cands)
  <2>1. CASE x.cands = <<>>
    BY <2>1 DEF IsInjective, ToSet
  <2>2. CASE x.cands # <<>>
    <3>1. sorted = SortedCands(s, x)
      BY <2>2
    <3> HIDE DEF sorted
    <3>2. QED  BY <1>1, <3>1, SortedFacts
  <2>3. QED  BY <2>1, <2>2
<1>3. kids = <<>> \/ (U # <<>> /\ kids = <<one>>) \/ kids = [m \in DOMAIN sorted |-> Kid(m)]
  BY DEF KplexChildren
<1>4. CASE kids = <<>>
  BY <1>4 DEF KidsOf
<1>5. CASE U # <<>> /\ kids = <<one>>
  <2>1. one \in T /\ one.sub = x.sub /\ Longer(x, one)
    BY <1>5, UniversalKid
  <2> HIDE DEF one, kids, T
  <2>2. kids \in Seq(T) /\ Len(kids) = 1 /\ kids[1] = one
    BY <1>5, <2>1
  <2>3. \A m \in 1..Len(kids) : m = 1
    BY <2>2
  <2>4. QED  BY <2>1, <2>2, <2>3 DEF KidsOf, T, kids
<1>6. CASE kids = [m \in DOMAIN sorted |-> Kid(m)]
  <2> HIDE DEF sorted
  <2> DEFINE n == Len(sorted)
             k == Len(x.kplex) + 1
  <2>1. n \in Nat /\ DOMAIN sorted = 1..n /\ \A m \in 1..n : sorted[m] \in Nat /\ sorted[m] \in ToSet(sorted)
    BY <1>2, SeqFacts
  <2>2. ASSUME NEW m \in 1..n
        PROVE  /\ Kid(m) \in T /\ Kid(m).sub = x.sub /\ Longer(x, Kid(m))
               /\ Kid(m).kplex[k] = sorted[m]
    <3> DEFINE add == SubSeq(sorted, 1, m - 1)
               c == sorted[m]
               z == Kid(m)
    <3>1. add \in Seq(Nat) /\ ToSet(add) \subseteq ToSet(sorted)
      <4>1. m - 1 \in Int /\ 1 \in Int /\ m - 1 <= n
        BY <2>1, <2>2
      <4>2. /\ add \in Seq(Nat)
            /\ Len(add) = IF 1 <= m - 1 THEN m - 1 - 1 + 1 ELSE 0
            /\ \A j \in 1..(m - 1 - 1 + 1) : add[j] = sorted[1 + j - 1]
        BY <1>2, <2>1, <4>1, SubSeqProperties
      <4>3. Len(add) = m - 1
        BY <2>1, <2>2, <4>2
      <4>4. \A j \in 1..(m - 1) : j \in 1..n /\ add[j] = sorted[j]
        BY <2>1, <2>2, <4>2
      <4>5. DOMAIN add = 1..(m - 1)
        <5> HIDE DEF add
        <5>1. DOMAIN add = 1..Len(add)
          BY <4>2
        <5>2. QED  BY <4>3, <5>1
      <4> HIDE DEF add
      <4>6. QED  BY <2>1, <4>2, <4>4, <4>5 DEF ToSet
    <3>2. ToSet(add) \subseteq ToSet(x.cands) /\ c \in ToSet(x.cands)
      BY <1>2, <2>1, <2>2, <3>1
    <3>3. z = UpdateCandAndExcl(s, AddToKplex(s, x, c), add)
      OBVIOUS
    <3> HIDE DEF add, c, z
    <3>4. /\ z \in KplexNodes(s) /\ z.sub = x.sub /\ Longer(x, z)
          /\ z.kplex[Len(x.kplex) + 1] = c
      BY <3>1, <3>2, <3>3, AddedKid
    <3>5. QED  BY <3>4 DEF z, c
  <2> HIDE DEF T, Kid, k, n
  <2>3. kids \in [1..n -> T] /\ \A m \in 1..n : kids[m] = Kid(m)
    BY <1>6, <2>1, <2>2
  <2> HIDE DEF kids
  <2>4. kids \in Seq(T) /\ Len(kids) = n
    BY <2>1, <2>3, FunctionIsSeq DEF ListOf
  <2>5. \A a, b \in 1..n : a # b => sorted[a] # sorted[b]
    BY <1>2, <2>1 DEF IsInjective
  <2>6. \A m \in 1..n : kids[m].sub = x.sub /\ Longer(x, kids[m]) /\ kids[m].kplex[k] = sorted[m]
    BY <2>2, <2>3
  <2>7. QED  BY <2>4, <2>5, <2>6 DEF KidsOf, kids, T, k
<1>7. QED  BY <1>3, <1>4, <1>5, <1>6
-----------------------------------------------------------------------
(* The neighbours of a root *)

\* Those of r with enough neighbours among them.
EnoughSeq(s, r) ==
  {v \in ToSet(r) : Len(Kept(r, {w \in ToSet(r) : are_neighs(s.g, v, w)})) + 2 * s.k >= s.q}

EnoughSet(g, r, k, q) ==
  {a \in r : Cardinality({b \in r : are_neighs(g, a, b)}) + 2 * k >= q}

\* An injective sequence lists as many as it has places.
LEMMA KeptCount ==
  ASSUME NEW T, NEW r \in Seq(T), IsInjective(r), NEW S, S \subseteq ToSet(r)
  PROVE  Len(Kept(r, S)) = Cardinality(S)
<1>1. Kept(r, S) \in Seq(T) /\ IsInjective(Kept(r, S)) /\ ToSet(Kept(r, S)) = ToSet(r) \cap S
  BY KeptFacts
<1>2. ToSet(Kept(r, S)) = S
  BY <1>1
<1>3. QED  BY <1>1, <1>2, CountOnce

LEMMA EnoughSame ==
  ASSUME NEW s, NEW T, NEW r \in Seq(T), IsInjective(r)
  PROVE  EnoughSeq(s, r) = EnoughSet(s.g, ToSet(r), s.k, s.q)
<1>1. ASSUME NEW v
      PROVE  Len(Kept(r, {w \in ToSet(r) : are_neighs(s.g, v, w)}))
               = Cardinality({w \in ToSet(r) : are_neighs(s.g, v, w)})
  <2> DEFINE S == {w \in ToSet(r) : are_neighs(s.g, v, w)}
  <2>1. S \subseteq ToSet(r)
    OBVIOUS
  <2> HIDE DEF S
  <2>2. Len(Kept(r, S)) = Cardinality(S)
    BY <2>1, KeptCount
  <2>3. QED  BY <2>2 DEF S
<1> DEFINE Many(v) == Len(Kept(r, {w \in ToSet(r) : are_neighs(s.g, v, w)})) + 2 * s.k >= s.q
           More(v) == Cardinality({w \in ToSet(r) : are_neighs(s.g, v, w)}) + 2 * s.k >= s.q
<1>2. \A v : Many(v) <=> More(v)
  BY <1>1, Zenon
<1>3. EnoughSeq(s, r) = {v \in ToSet(r) : Many(v)}
  BY DEF EnoughSeq
<1>4. EnoughSet(s.g, ToSet(r), s.k, s.q) = {v \in ToSet(r) : More(v)}
  BY DEF EnoughSet
<1> HIDE DEF Many, More
<1>5. QED  BY <1>2, <1>3, <1>4

LEMMA FilterLoop ==
  ASSUME NEW s, NEW T, NEW sg \in Seq(T)
  PROVE  \E f :
           /\ f[0] = sg
           /\ \A m \in 1..Len(sg) : f[m] = Kept(f[m - 1], EnoughSeq(s, f[m - 1]))
           /\ FilterNeighs(s, sg) = f[Len(sg)]
<1> DEFINE n == Len(sg)
           X == Seq(T)
           G == [m \in 1..n |-> [r \in X |-> Kept(r, EnoughSeq(s, r))]]
           Loop(f) == f = [m \in 0..Len(sg) |->
                             IF m = 0 THEN sg
                             ELSE Kept(f[m - 1],
                                    {v \in ToSet(f[m - 1]) :
                                       Len(Kept(f[m - 1], {w \in ToSet(f[m - 1]) : are_neighs(s.g, v, w)}))
                                         + 2 * s.k >= s.q})]
           F == CHOOSE f : Loop(f)
<1>1. n \in Nat
  OBVIOUS
<1>2. FilterNeighs(s, sg) = F[Len(sg)]
  BY DEF FilterNeighs
<1>3. G \in [1..n -> [X -> X]]
  <2>1. ASSUME NEW r \in X PROVE Kept(r, EnoughSeq(s, r)) \in X
    <3> DEFINE S == EnoughSeq(s, r)
    <3> HIDE DEF S
    <3>1. Kept(r, S) \in X
      BY KeptFacts
    <3>2. QED  BY <3>1 DEF S
  <2> HIDE DEF X
  <2>2. QED  BY <2>1
<1>4. PICK f : LoopOf(f, n, X, sg, G)
  <2>1. sg \in X
    OBVIOUS
  <2> HIDE DEF G, X, n
  <2>2. QED  BY <1>1, <1>3, <2>1, LoopExists
<1>5. f \in [0..n -> X] /\ f[0] = sg /\ \A m \in 1..n : f[m] = G[m][f[m - 1]]
  BY <1>4 DEF LoopOf
<1>6. ASSUME NEW m \in 1..n
      PROVE  f[m] = Kept(f[m - 1], EnoughSeq(s, f[m - 1]))
  <2>1. m - 1 \in 0..n
    BY <1>1, <1>6
  <2>2. f[m - 1] \in X
    BY <1>5, <2>1
  <2>3. G[m] = [r \in X |-> Kept(r, EnoughSeq(s, r))]
    BY <1>6
  <2>4. G[m][f[m - 1]] = Kept(f[m - 1], EnoughSeq(s, f[m - 1]))
    BY <2>2, <2>3
  <2>5. QED  BY <1>5, <1>6, <2>4
<1> DEFINE H(r) == Kept(r, EnoughSeq(s, r))
           Lop(h) == h = [m \in 0..Len(sg) |-> IF m = 0 THEN sg ELSE H(h[m - 1])]
<1>7. \A h : Loop(h) <=> Lop(h)
  BY DEF EnoughSeq
<1> HIDE DEF Loop
<1>8. Lop(f)
  <2>1. ASSUME NEW m \in 0..n
        PROVE  f[m] = IF m = 0 THEN sg ELSE H(f[m - 1])
    <3>1. m = 0 \/ m \in 1..n
      BY <1>1, <2>1
    <3>2. m \in 1..n => m # 0
      BY <1>1
    <3>3. QED  BY <1>5, <1>6, <3>1, <3>2
  <2> HIDE DEF H
  <2>2. QED  BY <1>5, <2>1
<1>9. Loop(F)
  <2>1. Loop(f)
    BY <1>7, <1>8
  <2> HIDE DEF Lop
  <2>2. QED  BY <2>1
<1> HIDE DEF F
<1>10. Lop(F)
  BY <1>7, <1>9
<1>11. F[0] = sg
  BY <1>1, <1>10
<1>12. ASSUME NEW m \in 1..n
       PROVE  F[m] = Kept(F[m - 1], EnoughSeq(s, F[m - 1]))
  <2>1. m \in 0..Len(sg) /\ m # 0
    BY <1>1, <1>12
  <2>2. F[m] = H(F[m - 1])
    <3> HIDE DEF H
    <3>1. QED  BY <1>10, <2>1
  <2>3. QED  BY <2>2
<1>13. QED  BY <1>2, <1>11, <1>12

LEMMA FilteredLoop ==
  ASSUME NEW g, NEW k, NEW q, NEW T, NEW sg \in Seq(T)
  PROVE  \E f :
           /\ f[0] = ToSet(sg)
           /\ \A m \in 1..Len(sg) : f[m] = EnoughSet(g, f[m - 1], k, q)
           /\ Filtered(g, sg, k, q) = f[Len(sg)]
<1> DEFINE n == Len(sg)
           X == SUBSET T
           G == [m \in 1..n |-> [r \in X |-> EnoughSet(g, r, k, q)]]
           Loop(f) == f = [m \in 0..Len(sg) |->
                             IF m = 0 THEN ToSet(sg)
                             ELSE {a \in f[m - 1] :
                                     Cardinality({b \in f[m - 1] : are_neighs(g, a, b)}) + 2 * k >= q}]
           F == CHOOSE f : Loop(f)
<1>1. n \in Nat
  OBVIOUS
<1>2. Filtered(g, sg, k, q) = F[Len(sg)]
  BY DEF Filtered
<1>3. G \in [1..n -> [X -> X]]
  <2>1. ASSUME NEW r \in X PROVE EnoughSet(g, r, k, q) \in X
    BY DEF EnoughSet
  <2> HIDE DEF X
  <2>2. QED  BY <2>1
<1>4. PICK f : LoopOf(f, n, X, ToSet(sg), G)
  <2>1. ToSet(sg) \in X
    BY SeqFacts
  <2> HIDE DEF G, X, n
  <2>2. QED  BY <1>1, <1>3, <2>1, LoopExists
<1>5. f \in [0..n -> X] /\ f[0] = ToSet(sg) /\ \A m \in 1..n : f[m] = G[m][f[m - 1]]
  BY <1>4 DEF LoopOf
<1>6. ASSUME NEW m \in 1..n
      PROVE  f[m] = EnoughSet(g, f[m - 1], k, q)
  <2>1. m - 1 \in 0..n
    BY <1>1, <1>6
  <2>2. f[m - 1] \in X
    BY <1>5, <2>1
  <2>3. G[m] = [r \in X |-> EnoughSet(g, r, k, q)]
    BY <1>6
  <2>4. G[m][f[m - 1]] = EnoughSet(g, f[m - 1], k, q)
    BY <2>2, <2>3
  <2>5. QED  BY <1>5, <1>6, <2>4
<1> DEFINE H(r) == EnoughSet(g, r, k, q)
           Lop(h) == h = [m \in 0..Len(sg) |-> IF m = 0 THEN ToSet(sg) ELSE H(h[m - 1])]
<1>7. \A h : Loop(h) <=> Lop(h)
  BY DEF EnoughSet
<1> HIDE DEF Loop
<1>8. Lop(f)
  <2>1. ASSUME NEW m \in 0..n
        PROVE  f[m] = IF m = 0 THEN ToSet(sg) ELSE H(f[m - 1])
    <3>1. m = 0 \/ m \in 1..n
      BY <1>1, <2>1
    <3>2. m \in 1..n => m # 0
      BY <1>1
    <3>3. QED  BY <1>5, <1>6, <3>1, <3>2
  <2> HIDE DEF H
  <2>2. QED  BY <1>5, <2>1
<1>9. Loop(F)
  <2>1. Loop(f)
    BY <1>7, <1>8
  <2> HIDE DEF Lop
  <2>2. QED  BY <2>1
<1> HIDE DEF F
<1>10. Lop(F)
  BY <1>7, <1>9
<1>11. F[0] = ToSet(sg)
  BY <1>1, <1>10
<1>12. ASSUME NEW m \in 1..n
       PROVE  F[m] = EnoughSet(g, F[m - 1], k, q)
  <2>1. m \in 0..Len(sg) /\ m # 0
    BY <1>1, <1>12
  <2>2. F[m] = H(F[m - 1])
    <3> HIDE DEF H
    <3>1. QED  BY <1>10, <2>1
  <2>3. QED  BY <2>2
<1>13. QED  BY <1>2, <1>11, <1>12

\* What is left, as a sequence and as a set.
LEMMA FilterFacts ==
  ASSUME NEW s, NEW T, NEW sg \in Seq(T), IsInjective(sg)
  PROVE  /\ FilterNeighs(s, sg) \in Seq(T) /\ IsInjective(FilterNeighs(s, sg))
         /\ ToSet(FilterNeighs(s, sg)) \subseteq ToSet(sg)
         /\ ToSet(FilterNeighs(s, sg)) = Filtered(s.g, sg, s.k, s.q)
<1> DEFINE n == Len(sg)
<1>1. PICK f : /\ f[0] = sg
               /\ \A m \in 1..n : f[m] = Kept(f[m - 1], EnoughSeq(s, f[m - 1]))
               /\ FilterNeighs(s, sg) = f[n]
  BY FilterLoop
<1>2. PICK h : /\ h[0] = ToSet(sg)
               /\ \A m \in 1..n : h[m] = EnoughSet(s.g, h[m - 1], s.k, s.q)
               /\ Filtered(s.g, sg, s.k, s.q) = h[n]
  <2> DEFINE g == s.g  k == s.k  q == s.q
  <2> HIDE DEF g, k, q
  <2>1. \E h : /\ h[0] = ToSet(sg)
               /\ \A m \in 1..Len(sg) : h[m] = EnoughSet(g, h[m - 1], k, q)
               /\ Filtered(g, sg, k, q) = h[Len(sg)]
    BY FilteredLoop
  <2>2. QED  BY <2>1 DEF g, k, q
<1>3. n \in Nat
  OBVIOUS
<1> DEFINE Good(r, a) == r \in Seq(T) /\ IsInjective(r) /\ ToSet(r) = a /\ a \subseteq ToSet(sg)
           P == {m \in 0..n : Good(f[m], h[m])}
<1>4. 0 \in P
  BY <1>1, <1>2, <1>3
<1>5. ASSUME NEW m \in 0..(n - 1), m \in P PROVE m + 1 \in P
  <2> DEFINE r == f[m]
             a == h[m]
             S == EnoughSeq(s, r)
  <2>1. m + 1 \in 1..n /\ m + 1 \in 0..n /\ (m + 1) - 1 = m
    BY <1>3, <1>5
  <2>2. Good(r, a)
    BY <1>5
  <2>3. f[m + 1] = Kept(r, S) /\ h[m + 1] = EnoughSet(s.g, a, s.k, s.q)
    BY <1>1, <1>2, <2>1
  <2> HIDE DEF r, a
  <2>4. S = EnoughSet(s.g, a, s.k, s.q) /\ S \subseteq a
    <3>1. S = EnoughSet(s.g, ToSet(r), s.k, s.q)
      BY <2>2, EnoughSame
    <3>2. QED  BY <2>2, <3>1 DEF EnoughSeq
  <2> HIDE DEF S
  <2>5. Kept(r, S) \in Seq(T) /\ IsInjective(Kept(r, S)) /\ ToSet(Kept(r, S)) = ToSet(r) \cap S
    BY <2>2, KeptFacts
  <2>6. Good(Kept(r, S), S)
    BY <2>2, <2>4, <2>5
  <2>7. Good(f[m + 1], h[m + 1])
    BY <2>3, <2>4, <2>6
  <2>8. QED  BY <2>1, <2>7
<1>6. n \in P
  <2> HIDE DEF P
  <2>1. \A m \in 0..n : m \in P
    BY <1>3, <1>4, <1>5, Induct
  <2>2. QED  BY <1>3, <2>1
<1>7. QED  BY <1>1, <1>2, <1>6
-----------------------------------------------------------------------
(* The vertices two steps from a root *)

\* After v, not its neighbour, and adjacent to one of the first m of sg.
Near(g, v, sg, m) ==
  {w \in DOMAIN g : w > v /\ ~ are_neighs(g, v, w) /\ \E j \in 1..m : are_neighs(g, sg[j], w)}

Unseen(g, v, before) == {w \in DOMAIN g : w > v} \ (ToSet(fwd_neighs(g, v)) \cup ToSet(before))

LEMMA SecondLoop ==
  ASSUME NEW s, SimpleGraph(s.g), NEW v \in DOMAIN s.g, NEW sg \in Seq(DOMAIN s.g)
  PROVE  \E f :
           /\ f[0] = <<>>
           /\ \A m \in 1..Len(sg) :
                f[m] = f[m - 1] \o Kept(neighs(s.g, sg[m]), Unseen(s.g, v, f[m - 1]))
           /\ SecondNeighs(s, v, sg) =
                Kept(f[Len(sg)],
                     {w \in DOMAIN s.g : Len(Kept(sg, {n \in ToSet(sg) : are_neighs(s.g, n, w)}))
                                           + 2 * s.k >= s.q + 2})
<1> DEFINE n == Len(sg)
           X == Seq(DOMAIN s.g)
           H(m, r) == r \o Kept(neighs(s.g, sg[m]), Unseen(s.g, v, r))
           G == [m \in 1..n |-> [r \in X |-> H(m, r)]]
           Loop(f) == f = [m \in 0..Len(sg) |->
                             IF m = 0 THEN <<>>
                             ELSE f[m - 1] \o Kept(neighs(s.g, sg[m]),
                               {w \in DOMAIN s.g : w > v}
                                 \ (ToSet(fwd_neighs(s.g, v)) \cup ToSet(f[m - 1])))]
           Lop(h) == h = [m \in 0..Len(sg) |-> IF m = 0 THEN <<>> ELSE H(m, h[m - 1])]
           F == CHOOSE f : Loop(f)
           E == {w \in DOMAIN s.g : Len(Kept(sg, {x \in ToSet(sg) : are_neighs(s.g, x, w)}))
                                      + 2 * s.k >= s.q + 2}
<1>1. n \in Nat /\ \A m \in 1..n : sg[m] \in DOMAIN s.g
  OBVIOUS
<1>2. SecondNeighs(s, v, sg) = Kept(F[Len(sg)], E)
  BY DEF SecondNeighs
<1>3. G \in [1..n -> [X -> X]]
  <2>1. ASSUME NEW m \in 1..n, NEW r \in X PROVE H(m, r) \in X
    <3> DEFINE S == Unseen(s.g, v, r)
               p == neighs(s.g, sg[m])
               T == DOMAIN s.g
    <3>1. p \in Seq(T)
      BY <1>1, <2>1, NeighsFacts DEF neighs
    <3> HIDE DEF S, p, T
    <3>2. Kept(p, S) \in Seq(T)
      BY <3>1, KeptFacts
    <3>3. r \o Kept(p, S) \in Seq(T)
      BY <3>2 DEF T
    <3>4. QED  BY <3>3 DEF S, p, T
  <2> HIDE DEF X, H
  <2>2. QED  BY <2>1
<1>4. PICK f : LoopOf(f, n, X, <<>>, G)
  <2>1. <<>> \in X
    OBVIOUS
  <2> HIDE DEF G, X, n
  <2>2. QED  BY <1>1, <1>3, <2>1, LoopExists
<1>5. f \in [0..n -> X] /\ f[0] = <<>> /\ \A m \in 1..n : f[m] = G[m][f[m - 1]]
  BY <1>4 DEF LoopOf
<1>6. \A h : Loop(h) <=> Lop(h)
  BY DEF Unseen
<1> HIDE DEF H, Loop
<1>7. ASSUME NEW m \in 1..n
      PROVE  f[m] = H(m, f[m - 1])
  <2>1. m - 1 \in 0..n
    BY <1>1, <1>7
  <2>2. f[m - 1] \in X
    BY <1>5, <2>1
  <2>3. G[m] = [r \in X |-> H(m, r)]
    BY <1>7
  <2>4. G[m][f[m - 1]] = H(m, f[m - 1])
    BY <2>2, <2>3
  <2>5. QED  BY <1>5, <1>7, <2>4
<1>8. Lop(f)
  <2>1. ASSUME NEW m \in 0..n
        PROVE  f[m] = IF m = 0 THEN <<>> ELSE H(m, f[m - 1])
    <3>1. m = 0 \/ m \in 1..n
      BY <1>1, <2>1
    <3>2. m \in 1..n => m # 0
      BY <1>1
    <3>3. QED  BY <1>5, <1>7, <3>1, <3>2
  <2>2. QED  BY <1>5, <2>1
<1>9. Loop(F)
  <2>1. Loop(f)
    BY <1>6, <1>8
  <2> HIDE DEF Lop
  <2>2. QED  BY <2>1
<1> HIDE DEF F
<1>10. Lop(F)
  BY <1>6, <1>9
<1>11. F[0] = <<>>
  BY <1>1, <1>10
<1>12. ASSUME NEW m \in 1..n
       PROVE  F[m] = F[m - 1] \o Kept(neighs(s.g, sg[m]), Unseen(s.g, v, F[m - 1]))
  <2>1. m \in 0..Len(sg) /\ m # 0
    BY <1>1, <1>12
  <2>2. F[m] = H(m, F[m - 1])
    BY <1>10, <2>1
  <2>3. QED  BY <2>2 DEF H
<1> HIDE DEF E
<1>13. /\ F[0] = <<>>
       /\ \A m \in 1..Len(sg) :
            F[m] = F[m - 1] \o Kept(neighs(s.g, sg[m]), Unseen(s.g, v, F[m - 1]))
       /\ SecondNeighs(s, v, sg) = Kept(F[Len(sg)], E)
  BY <1>2, <1>11, <1>12
<1>14. QED  BY <1>13 DEF E

\* One turn of the loop.
ListsNear(g, v, sg, m, r) ==
  r \in Seq(DOMAIN g) /\ IsInjective(r) /\ ToSet(r) = Near(g, v, sg, m)

LEMMA SecondTurn ==
  ASSUME NEW g, SimpleGraph(g), NEW v \in DOMAIN g, NEW sg \in Seq(DOMAIN g), NEW m \in Nat,
         m + 1 \in 1..Len(sg), NEW r, ListsNear(g, v, sg, m, r),
         NEW z, z = r \o Kept(neighs(g, sg[m + 1]), Unseen(g, v, r))
  PROVE  ListsNear(g, v, sg, m + 1, z)
<1>0. r \in Seq(DOMAIN g) /\ IsInjective(r) /\ ToSet(r) = Near(g, v, sg, m)
  BY DEF ListsNear
<1> DEFINE c == sg[m + 1]
           p == neighs(g, c)
           S == Unseen(g, v, r)
           T == DOMAIN g
           t == Kept(p, S)
<1>1. c \in T
  OBVIOUS
<1>2. p \in Seq(T) /\ Increasing(p) /\ ToSet(p) = {w \in T : are_neighs(g, c, w)}
      /\ ToSet(fwd_neighs(g, v)) = {w \in T : are_neighs(g, v, w) /\ w > v}
  BY <1>1, NeighsFacts DEF neighs
<1>3. IsInjective(p) /\ T \subseteq Int
  <2>1. T \subseteq Int
    BY Symmetry
  <2> HIDE DEF p, T
  <2>2. QED  BY <1>2, <2>1, IncreasingOnce
<1>4. t \in Seq(T) /\ IsInjective(t) /\ ToSet(t) = ToSet(p) \cap S
  <2> HIDE DEF p, S, T
  <2>1. QED  BY <1>2, <1>3, KeptFacts
<1>5. S = {w \in T : w > v /\ ~ are_neighs(g, v, w) /\ w \notin ToSet(r)}
  BY <1>2 DEF Unseen
<1>6. z = r \o t
  OBVIOUS
<1>7. ToSet(t) = {w \in T : w > v /\ ~ are_neighs(g, v, w) /\ are_neighs(g, c, w) /\ w \notin ToSet(r)}
  <2> HIDE DEF S, p, t
  <2>1. QED  BY <1>2, <1>4, <1>5
<1> HIDE DEF t, p, S
<1>8. z \in Seq(T) /\ IsInjective(z) /\ ToSet(z) = ToSet(r) \cup ToSet(t)
  <2>1. ToSet(r) \cap ToSet(t) = {}
    BY <1>7
  <2> HIDE DEF T
  <2>2. r \in Seq(T) /\ IsInjective(r)
    BY <1>0 DEF T
  <2>3. QED  BY <1>4, <1>6, <2>1, <2>2, ConcatFacts
<1>9. \A w : (\E j \in 1..(m + 1) : are_neighs(g, sg[j], w))
               <=> (\E j \in 1..m : are_neighs(g, sg[j], w)) \/ are_neighs(g, c, w)
  <2>1. \A j \in 1..(m + 1) : j \in 1..m \/ j = m + 1
    OBVIOUS
  <2>2. m + 1 \in 1..(m + 1) /\ \A j \in 1..m : j \in 1..(m + 1)
    OBVIOUS
  <2>3. QED  BY <2>1, <2>2, Zenon
<1> HIDE DEF c
<1>10. ToSet(z) = Near(g, v, sg, m + 1)
  <2>1. ToSet(r) = {w \in T : w > v /\ ~ are_neighs(g, v, w) /\ \E j \in 1..m : are_neighs(g, sg[j], w)}
    BY <1>0 DEF Near
  <2>2. Near(g, v, sg, m + 1)
          = {w \in T : w > v /\ ~ are_neighs(g, v, w)
                       /\ ((\E j \in 1..m : are_neighs(g, sg[j], w)) \/ are_neighs(g, c, w))}
    BY <1>9 DEF Near
  <2>3. ToSet(z) \subseteq Near(g, v, sg, m + 1)
    BY <1>7, <1>8, <2>1, <2>2
  <2>4. Near(g, v, sg, m + 1) \subseteq ToSet(z)
    BY <1>7, <1>8, <2>1, <2>2
  <2>5. QED  BY <2>3, <2>4
<1>11. QED  BY <1>8, <1>10 DEF ListsNear

LEMMA SecondFacts ==
  ASSUME NEW s, SimpleGraph(s.g), NEW v \in DOMAIN s.g, NEW sg \in Seq(DOMAIN s.g),
         IsInjective(sg)
  PROVE  /\ SecondNeighs(s, v, sg) \in Seq(DOMAIN s.g) /\ IsInjective(SecondNeighs(s, v, sg))
         /\ ToSet(SecondNeighs(s, v, sg)) = TwoSteps(s.g, v, ToSet(sg), s.k, s.q)
<1> DEFINE n == Len(sg)
           T == DOMAIN s.g
           E == {w \in DOMAIN s.g : Len(Kept(sg, {x \in ToSet(sg) : are_neighs(s.g, x, w)}))
                                      + 2 * s.k >= s.q + 2}
           Good(r, m) == ListsNear(s.g, v, sg, m, r)
<1>1. PICK f : /\ f[0] = <<>>
               /\ \A m \in 1..n :
                    f[m] = f[m - 1] \o Kept(neighs(s.g, sg[m]), Unseen(s.g, v, f[m - 1]))
               /\ SecondNeighs(s, v, sg) = Kept(f[n], E)
  BY SecondLoop
<1>2. n \in Nat
  OBVIOUS
<1> DEFINE P == {m \in 0..n : Good(f[m], m)}
<1>3. 0 \in P
  <2>1. Near(s.g, v, sg, 0) = {}
    BY DEF Near
  <2>2. <<>> \in Seq(T) /\ IsInjective(<<>>) /\ ToSet(<<>>) = {}
    BY DEF IsInjective, ToSet
  <2>3. Good(<<>>, 0)
    BY <2>1, <2>2 DEF ListsNear
  <2> HIDE DEF Good
  <2>4. Good(f[0], 0)
    BY <1>1, <2>3
  <2>5. 0 \in 0..n
    BY <1>2
  <2>6. QED  BY <2>4, <2>5
<1>4. ASSUME NEW m \in 0..(n - 1), m \in P PROVE m + 1 \in P
  <2> DEFINE r == f[m]
             z == f[m + 1]
  <2>1. m + 1 \in 1..n /\ m + 1 \in 0..n /\ (m + 1) - 1 = m /\ m \in Nat
    BY <1>2, <1>4
  <2>2. Good(r, m)
    BY <1>4
  <2>3. z = r \o Kept(neighs(s.g, sg[m + 1]), Unseen(s.g, v, r))
    BY <1>1, <2>1
  <2> HIDE DEF r, z
  <2>4. Good(z, m + 1)
    BY <2>1, <2>2, <2>3, SecondTurn
  <2> HIDE DEF Good
  <2>5. QED  BY <2>1, <2>4 DEF z
<1>5. Good(f[n], n)
  <2> HIDE DEF P
  <2>1. \A m \in 0..n : m \in P
    BY <1>2, <1>3, <1>4, Induct
  <2>2. n \in P
    BY <1>2, <2>1
  <2>3. QED  BY <2>2 DEF P
<1> DEFINE r == f[n]
           z == Kept(r, E)
<1>6. z \in Seq(T) /\ IsInjective(z) /\ ToSet(z) = ToSet(r) \cap E
  <2> HIDE DEF r, E, T
  <2>1. r \in Seq(T) /\ IsInjective(r)
    BY <1>5 DEF r, T, ListsNear
  <2>2. QED  BY <2>1, KeptFacts
<1>7. ASSUME NEW w
      PROVE  Len(Kept(sg, {x \in ToSet(sg) : are_neighs(s.g, x, w)}))
               = Cardinality({x \in ToSet(sg) : are_neighs(s.g, x, w)})
  <2> DEFINE S == {x \in ToSet(sg) : are_neighs(s.g, x, w)}
  <2>1. S \subseteq ToSet(sg)
    OBVIOUS
  <2> HIDE DEF S
  <2>2. Len(Kept(sg, S)) = Cardinality(S)
    BY <2>1, KeptCount
  <2>3. QED  BY <2>2 DEF S
<1>8. ToSet(r) = {w \in T : w > v /\ ~ are_neighs(s.g, v, w)
                            /\ {x \in ToSet(sg) : are_neighs(s.g, x, w)} # {}}
  <2>1. \A w : {x \in ToSet(sg) : are_neighs(s.g, x, w)} # {}
                 <=> \E j \in 1..n : are_neighs(s.g, sg[j], w)
    <3>1. ToSet(sg) = {sg[j] : j \in 1..n}
      BY SeqFacts
    <3>2. QED  BY <3>1
  <2>2. ToSet(r) = Near(s.g, v, sg, n)
    BY <1>5 DEF ListsNear
  <2> HIDE DEF r, n
  <2>3. QED  BY <2>1, <2>2 DEF Near
<1> DEFINE Many(w) == Len(Kept(sg, {x \in ToSet(sg) : are_neighs(s.g, x, w)})) + 2 * s.k >= s.q + 2
           More(w) == Cardinality({x \in ToSet(sg) : are_neighs(s.g, x, w)}) + 2 * s.k >= s.q + 2
           Some(w) == {x \in ToSet(sg) : are_neighs(s.g, x, w)} # {}
<1>9. \A w : Many(w) <=> More(w)
  BY <1>7, Zenon
<1>10. E = {w \in T : Many(w)}
  OBVIOUS
<1>11. TwoSteps(s.g, v, ToSet(sg), s.k, s.q)
         = {w \in T : w > v /\ ~ are_neighs(s.g, v, w) /\ Some(w) /\ More(w)}
  BY DEF TwoSteps
<1>12. ToSet(r) = {w \in T : w > v /\ ~ are_neighs(s.g, v, w) /\ Some(w)}
  BY <1>8
<1> HIDE DEF Many, More, Some, E, r
<1>13. ToSet(z) = TwoSteps(s.g, v, ToSet(sg), s.k, s.q)
  <2> HIDE DEF z
  <2>1. QED  BY <1>6, <1>9, <1>10, <1>11, <1>12
<1>14. SecondNeighs(s, v, sg) = z
  BY <1>1 DEF r, E
<1> HIDE DEF z
<1>15. QED  BY <1>6, <1>13, <1>14
-----------------------------------------------------------------------
(* Roots *)

\* The second index of the subgraph and those after it.
LEMMA LaterIndices ==
  ASSUME NEW D, NEW n \in Nat \ {0}, D = 1..n,
         NEW t, t = Tail([j \in D |-> j])
  PROVE  t \in Seq(Nat) /\ IsInjective(t) /\ ToSet(t) = D \ {1}
<1> DEFINE all == [j \in D |-> j]
<1>1. all \in [1..n -> Nat] /\ \A j \in 1..n : all[j] = j
  OBVIOUS
<1> HIDE DEF all
<1>2. all \in Seq(Nat) /\ Len(all) = n
  BY <1>1, FunctionIsSeq DEF ListOf
<1>3. all # <<>>
  BY <1>2
<1>4. t \in Seq(Nat) /\ Len(t) = n - 1 /\ \A m \in 1..(n - 1) : t[m] = all[m + 1]
  <2>1. t = Tail(all)
    BY DEF all
  <2>2. /\ Tail(all) \in Seq(Nat) /\ Len(Tail(all)) = Len(all) - 1
        /\ \A m \in 1..Len(Tail(all)) : Tail(all)[m] = all[m + 1]
    BY <1>2, <1>3, HeadTailProperties
  <2>3. QED  BY <1>2, <2>1, <2>2
<1>5. DOMAIN t = 1..(n - 1) /\ \A m \in 1..(n - 1) : t[m] = m + 1
  <2>1. DOMAIN t = 1..(n - 1)
    BY <1>4
  <2>2. \A m \in 1..(n - 1) : m + 1 \in 1..n
    OBVIOUS
  <2>3. QED  BY <1>1, <1>4, <2>1, <2>2
<1>6. IsInjective(t)
  BY <1>5 DEF IsInjective
<1>7. ToSet(t) \subseteq D \ {1}
  <2>1. \A m \in 1..(n - 1) : m + 1 \in 1..n /\ m + 1 # 1
    OBVIOUS
  <2>2. \A m \in 1..(n - 1) : t[m] \in D \ {1}
    BY <1>5, <2>1
  <2>3. ToSet(t) = {t[m] : m \in 1..(n - 1)}
    BY <1>5 DEF ToSet
  <2>4. QED  BY <2>2, <2>3
<1>8. ASSUME NEW e \in D \ {1} PROVE e \in ToSet(t)
  <2>1. e - 1 \in 1..(n - 1) /\ t[e - 1] = e
    BY <1>5, <1>8
  <2>2. QED  BY <1>5, <2>1 DEF ToSet
<1>9. QED  BY <1>4, <1>6, <1>7, <1>8

\* The node before its first vertex is added.
Bare(s, sub) ==
  [sub |-> sub, kplex |-> <<>>, counters |-> [j \in DOMAIN sub |-> 0],
   non_neighs |-> [j \in DOMAIN sub |-> [n \in 1..s.k |-> 0]],
   cands |-> Tail([j \in DOMAIN sub |-> j]), excluded |-> <<>>]

IsBare(s, sub, x) ==
  /\ x \in KplexTypes(s) /\ Counted(s, x)
  /\ x.sub = sub /\ x.kplex = <<>> /\ ToSet(x.kplex) = {}
  /\ ToSet(x.cands) = DOMAIN sub \ {1} /\ ToSet(x.excluded) = {}

LEMMA BareFacts ==
  ASSUME NEW s, KplexSystem(s), NEW sub \in Seq(DOMAIN s.g), sub # <<>>, IsInjective(sub)
  PROVE  IsBare(s, sub, Bare(s, sub))
<1> SUFFICES ASSUME NEW x, x = Bare(s, sub) PROVE IsBare(s, sub, x)
  OBVIOUS
<1> DEFINE D == DOMAIN sub
           n == Len(sub)
           zeros == [j \in 1..s.k |-> 0]
           c == [j \in DOMAIN sub |-> 0]
           f == [j \in DOMAIN sub |-> zeros]
           t == Tail([j \in DOMAIN sub |-> j])
<1>1. n \in Nat \ {0} /\ D = 1..n /\ s.k \in Nat
  BY DEF KplexSystem
<1>2. t \in Seq(Nat) /\ IsInjective(t) /\ ToSet(t) = D \ {1}
  <2> DEFINE r == Tail([j \in D |-> j])
  <2>1. r = Tail([j \in D |-> j])
    OBVIOUS
  <2> HIDE DEF D, n, r
  <2>2. r \in Seq(Nat) /\ IsInjective(r) /\ ToSet(r) = D \ {1}
    BY <1>1, <2>1, LaterIndices
  <2>3. QED  BY <2>2 DEF r, D
<1>3. zeros \in Seq(Nat) /\ Len(zeros) = s.k
  <2>1. zeros \in [1..s.k -> Nat]
    OBVIOUS
  <2> HIDE DEF zeros
  <2>2. QED  BY <1>1, <2>1, FunctionIsSeq DEF ListOf
<1> HIDE DEF zeros
<1>4. c \in Seq(0..255) /\ Len(c) = n /\ \A e \in D : c[e] = 0
  <2>1. c \in [1..n -> 0..255] /\ \A e \in D : c[e] = 0
    BY <1>1
  <2> HIDE DEF c, n
  <2>2. QED  BY <1>1, <2>1, FunctionIsSeq DEF ListOf
<1>5. f \in Seq(Seq(Nat)) /\ Len(f) = n /\ \A e \in D : f[e] = zeros
  <2>1. f \in [1..n -> Seq(Nat)] /\ \A e \in D : f[e] = zeros
    BY <1>1, <1>3
  <2> HIDE DEF f, n
  <2>2. QED  BY <1>1, <2>1, FunctionIsSeq DEF ListOf
<1>6. x = [sub |-> sub, kplex |-> <<>>, counters |-> c, non_neighs |-> f,
           cands |-> t, excluded |-> <<>>]
  BY DEF Bare, zeros
<1> HIDE DEF c, f, t
<1>7. /\ x.sub = sub /\ x.kplex = <<>> /\ x.counters = c /\ x.non_neighs = f
      /\ x.cands = t /\ x.excluded = <<>>
  BY <1>6
<1>8. x \in [sub : Seq(DOMAIN s.g), kplex : Seq(Nat), counters : Seq(0..255),
             non_neighs : Seq(Seq(Nat)), cands : Seq(Nat), excluded : Seq(Nat)]
  <2>1. <<>> \in Seq(Nat)
    OBVIOUS
  <2>2. QED  BY <1>2, <1>4, <1>5, <1>6, <2>1
<1>9. ToSet(<<>>) = {}
  BY DEF ToSet
<1>10. x \in KplexTypes(s)
  <2>1. x.sub # <<>> /\ IsInjective(x.sub)
    BY <1>7
  <2>2. ToSet(x.kplex) \subseteq DOMAIN x.sub /\ ToSet(x.excluded) \subseteq DOMAIN x.sub
    BY <1>7, <1>9
  <2>3. Len(x.counters) = Len(x.sub) /\ Len(x.non_neighs) = Len(x.sub)
    BY <1>4, <1>5, <1>7
  <2>4. \A e \in 1..Len(x.sub) : Len(x.non_neighs[e]) = s.k
    BY <1>1, <1>3, <1>5, <1>7
  <2>5. ToSet(x.cands) \subseteq DOMAIN x.sub /\ IsInjective(x.cands)
    BY <1>2, <1>7
  <2>6. QED  BY <1>8, <2>1, <2>2, <2>3, <2>4, <2>5 DEF KplexTypes
<1>11. Counted(s, x)
  <2>1. ASSUME NEW e \in DOMAIN x.sub
        PROVE  /\ x.counters[e] = Cardinality(Away(s, x.sub, ToSet(x.kplex), e))
               /\ x.counters[e] <= s.k =>
                    Names(x.non_neighs[e], x.counters[e]) = Away(s, x.sub, ToSet(x.kplex), e)
    <3>1. x.counters[e] = 0
      BY <1>4, <1>7, <2>1
    <3>2. Away(s, x.sub, ToSet(x.kplex), e) = {}
      BY <1>7, <1>9 DEF Away
    <3>3. Names(x.non_neighs[e], 0) = {}
      BY DEF Names
    <3>4. Cardinality({}) = 0
      BY FS_EmptySet
    <3>5. QED  BY <3>1, <3>2, <3>3, <3>4
  <2>2. QED  BY <2>1 DEF Counted
<1>12. ToSet(x.kplex) = {} /\ ToSet(x.excluded) = {} /\ ToSet(x.cands) = DOMAIN sub \ {1}
  BY <1>2, <1>7, <1>9
<1>13. QED  BY <1>7, <1>10, <1>11, <1>12 DEF IsBare

LEMMA TwoElements ==
  ASSUME NEW a, NEW b, a # b
  PROVE  IsFiniteSet({a} \cup {b}) /\ Cardinality({a} \cup {b}) = 2
<1> DEFINE A == {a}
           n == Cardinality(A)
           m == Cardinality(A \cup {b})
<1>1. IsFiniteSet(A) /\ n = 1 /\ b \notin A
  BY FS_Singleton
<1> HIDE DEF A
<1>2. IsFiniteSet(A \cup {b}) /\ m = n + 1
  BY <1>1, FS_AddElement
<1> HIDE DEF m, n
<1>3. m = 2
  BY <1>1, <1>2
<1>4. QED  BY <1>2, <1>3 DEF m, A

\* Two vertices are a 2-plex.
LEMMA TwoJoin ==
  ASSUME NEW s, KplexSystem(s), NEW sub \in Seq(DOMAIN s.g), sub # <<>>,
         s.k = 1 => \A e \in DOMAIN sub \ {1} : ~ Apart(s, sub, 1, e)
  PROVE  /\ 1 \in DOMAIN sub /\ IsPlex(s, sub, {1}) /\ CanJoin(s, sub, {1}) = DOMAIN sub \ {1}
         /\ 1 \in CanJoin(s, sub, {})
<1>1. s.k \in Nat \ {0} /\ 1 \in DOMAIN sub
  BY DEF KplexSystem
<1>2. IsPlex(s, sub, {}) /\ IsFiniteSet({})
  BY FS_EmptySet DEF IsPlex
<1>3. 1 \in CanJoin(s, sub, {})
  BY <1>1, <1>2, FreeJoins
<1>4. IsPlex(s, sub, {1})
  <2>1. {} \cup {1} = {1}
    OBVIOUS
  <2>2. QED  BY <1>3, <2>1 DEF CanJoin
<1>5. ASSUME NEW e \in DOMAIN sub \ {1} PROVE e \in CanJoin(s, sub, {1})
  <2>1. CASE s.k = 1
    <3>1. ~ Apart(s, sub, e, 1)
      BY <1>1, <1>5, <2>1, ApartFacts
    <3>2. IsFiniteSet({1}) /\ {1} \subseteq DOMAIN sub
      BY <1>1, FS_Singleton
    <3>3. QED  BY <1>4, <3>1, <3>2, FreeJoins
  <2>2. CASE s.k # 1
    <3> DEFINE S == {1} \cup {e}
    <3>1. IsFiniteSet(S) /\ Cardinality(S) = 2
      BY <1>5, TwoElements
    <3>2. ASSUME NEW a \in S PROVE Cardinality(Away(s, sub, S, a)) <= s.k
      <4>1. Away(s, sub, S, a) \subseteq S
        BY DEF Away
      <4> HIDE DEF S
      <4>2. IsFiniteSet(Away(s, sub, S, a)) /\ Cardinality(Away(s, sub, S, a)) <= 2
        BY <3>1, <4>1, FS_Subset
      <4>3. Cardinality(Away(s, sub, S, a)) \in Nat
        BY <4>2, FS_CardinalityType
      <4>4. s.k \in Nat /\ s.k >= 2
        BY <1>1, <2>2
      <4>5. QED  BY <4>2, <4>3, <4>4
    <3>3. IsPlex(s, sub, {1} \cup {e})
      BY <3>2 DEF IsPlex
    <3>4. QED  BY <1>5, <3>3 DEF CanJoin
  <2>3. QED  BY <2>1, <2>2
<1>6. QED  BY <1>1, <1>3, <1>4, <1>5 DEF CanJoin

LEMMA InitNode ==
  ASSUME NEW s, KplexSystem(s), NEW sub \in Seq(DOMAIN s.g), sub # <<>>, IsInjective(sub),
         s.k = 1 => \A e \in DOMAIN sub \ {1} : ~ Apart(s, sub, 1, e),
         NEW y, y = KplexInit(s, sub)
  PROVE  /\ y \in KplexTypes(s) /\ y.sub = sub
         /\ Len(sub) < 256 => KplexSound(s, y)
<1> DEFINE x == Bare(s, sub)
<1>1. y = Count(s, x, 1)
  BY DEF KplexInit, Bare
<1>2. IsBare(s, sub, x)
  BY BareFacts
<1> HIDE DEF x
<1>3. /\ x \in KplexTypes(s) /\ Counted(s, x)
      /\ x.sub = sub /\ x.kplex = <<>> /\ ToSet(x.kplex) = {}
      /\ ToSet(x.cands) = DOMAIN sub \ {1} /\ ToSet(x.excluded) = {}
  BY <1>2 DEF IsBare
<1>4. /\ 1 \in DOMAIN sub /\ IsPlex(s, sub, {1}) /\ CanJoin(s, sub, {1}) = DOMAIN sub \ {1}
      /\ 1 \in CanJoin(s, sub, {})
  BY TwoJoin
<1>5. CountMakes(s, x, 1, y)
  BY <1>1, <1>3, <1>4, CountFields
<1>6. y \in KplexTypes(s) /\ y.sub = sub
  BY <1>3, <1>5, Zenon DEF CountMakes
<1>7. ASSUME Len(sub) < 256 PROVE KplexSound(s, y)
  <2>1. 1 \in CanJoin(s, x.sub, ToSet(x.kplex)) /\ Len(x.sub) < 256
    BY <1>3, <1>4, <1>7
  <2>2. GrownBy(s, x, 1, y)
    BY <1>1, <1>3, <2>1, CountGrows
  <2>3. /\ Counted(s, y) /\ IsPlex(s, y.sub, ToSet(y.kplex)) /\ y.cands = x.cands
        /\ y.excluded = x.excluded /\ ToSet(y.kplex) = ToSet(x.kplex) \cup {1}
    BY <2>2 DEF GrownBy, Grown
  <2>4. ToSet(y.kplex) = {1} /\ ToSet(y.excluded) = {}
    BY <1>3, <2>3
  <2>5. ToSet(y.cands) = CanJoin(s, y.sub, ToSet(y.kplex))
    BY <1>3, <1>4, <1>6, <2>3, <2>4
  <2>6. QED  BY <1>6, <2>3, <2>4, <2>5 DEF KplexSound
<1>8. QED  BY <1>6, <1>7

\* The vertices of the subgraph of root v.
RootVertices(s, v) ==
  LET F == Filtered(s.g, fwd_neighs(s.g, v), s.k, s.q)
  IN  {v} \cup F \cup (IF s.k = 1 THEN {} ELSE TwoSteps(s.g, v, F, s.k, s.q))

\* A root lists at most one node, whose subgraph it is the first vertex of.
RootKids(s, v, kids) ==
  \/ kids = <<>> /\ fwd_degree(s.g, v) + s.k < s.q
  \/ \E x \in KplexNodes(s) :
        /\ kids = <<x>> /\ x.sub[1] = v
        /\ ToSet(x.sub) = RootVertices(s, v) /\ x = KplexInit(s, x.sub)

LEMMA KplexRootFacts ==
  ASSUME NEW s, KplexSystem(s), NEW v \in DOMAIN s.g
  PROVE  RootKids(s, v, KplexRoot(s, v))
<1> DEFINE T == DOMAIN s.g
           fwd == fwd_neighs(s.g, v)
           sg == FilterNeighs(s, fwd)
           second == IF s.k = 1 THEN <<>> ELSE SecondNeighs(s, v, sg)
           sub == <<v>> \o sg \o second
           x == KplexInit(s, sub)
<1>1. KplexRoot(s, v) = IF fwd_degree(s.g, v) + s.k < s.q THEN <<>> ELSE <<x>>
  BY DEF KplexRoot
<1>2. CASE fwd_degree(s.g, v) + s.k < s.q
  BY <1>1, <1>2 DEF RootKids
<1>3. CASE ~ (fwd_degree(s.g, v) + s.k < s.q)
  <2>1. SimpleGraph(s.g) /\ T \subseteq Int
    BY Symmetry DEF KplexSystem
  <2>2. /\ fwd \in Seq(T) /\ Increasing(fwd)
        /\ ToSet(fwd) = {w \in T : are_neighs(s.g, v, w) /\ w > v}
    BY <2>1, NeighsFacts
  <2>3. IsInjective(fwd)
    <3> HIDE DEF T, fwd
    <3>1. QED  BY <2>1, <2>2, IncreasingOnce
  <2>4. /\ sg \in Seq(T) /\ IsInjective(sg) /\ ToSet(sg) \subseteq ToSet(fwd)
        /\ ToSet(sg) = Filtered(s.g, fwd, s.k, s.q)
    <3> HIDE DEF T, fwd
    <3>1. QED  BY <2>2, <2>3, FilterFacts
  <2> HIDE DEF fwd, sg
  <2>5. /\ second \in Seq(T) /\ IsInjective(second)
        /\ ToSet(second) = IF s.k = 1 THEN {} ELSE TwoSteps(s.g, v, ToSet(sg), s.k, s.q)
    <3>1. CASE s.k = 1
      BY <3>1 DEF IsInjective, ToSet
    <3>2. CASE s.k # 1
      <4>1. second = SecondNeighs(s, v, sg)
        BY <3>2
      <4> HIDE DEF second
      <4>2. QED  BY <2>1, <2>4, <3>2, <4>1, SecondFacts
    <3>3. QED  BY <3>1, <3>2
  <2> HIDE DEF second
  <2>6. \A w \in ToSet(second) : w > v /\ ~ are_neighs(s.g, v, w)
    BY <2>5 DEF TwoSteps
  <2>7. \A w \in ToSet(sg) : w > v /\ are_neighs(s.g, v, w)
    BY <2>2, <2>4
  <2> DEFINE o == <<v>>
             r == o \o sg
  <2>8. o \in Seq(T) /\ IsInjective(o) /\ ToSet(o) = {v} /\ Len(o) = 1
    <3>1. v \in T
      OBVIOUS
    <3> HIDE DEF T
    <3>2. o \in Seq(T) /\ Len(o) = 1
      BY <3>1
    <3>3. IsInjective(o) /\ ToSet(o) = {v}
      BY DEF IsInjective, ToSet
    <3>4. QED  BY <3>2, <3>3
  <2>9. v \in Int
    BY <2>1
  <2>10. sub = r \o second
    OBVIOUS
  <2>11. v \notin ToSet(sg) /\ v \notin ToSet(second) /\ ToSet(sg) \cap ToSet(second) = {}
    BY <2>6, <2>7, <2>9
  <2> HIDE DEF o, T
  <2>12. r \in Seq(T) /\ IsInjective(r) /\ ToSet(r) = {v} \cup ToSet(sg)
    <3>1. ToSet(o) \cap ToSet(sg) = {}
      BY <2>8, <2>11
    <3>2. QED  BY <2>4, <2>8, <3>1, ConcatFacts
  <2>13. r[1] = v /\ Len(r) = 1 + Len(sg)
    <3>1. Len(sg) \in Nat
      BY <2>4
    <3>2. o[1] = v
      BY DEF o
    <3>3. Len(o \o sg) = Len(o) + Len(sg) /\ (o \o sg)[1] = o[1]
      <4>1. /\ Len(o \o sg) = Len(o) + Len(sg)
            /\ \A j \in 1..(Len(o) + Len(sg)) :
                 (o \o sg)[j] = IF j <= Len(o) THEN o[j] ELSE sg[j - Len(o)]
        BY <2>4, <2>8, ConcatProperties
      <4>2. 1 \in 1..(Len(o) + Len(sg)) /\ 1 <= Len(o)
        BY <2>8, <3>1
      <4>3. QED  BY <4>1, <4>2
    <3>4. QED  BY <2>8, <3>2, <3>3
  <2> HIDE DEF r
  <2>14. sub \in Seq(T) /\ IsInjective(sub)
    <3>1. ToSet(r) \cap ToSet(second) = {}
      BY <2>11, <2>12
    <3> HIDE DEF sub
    <3>2. QED  BY <2>5, <2>10, <2>12, <3>1, ConcatFacts
  <2>set. ToSet(sub) = RootVertices(s, v)
    <3> HIDE DEF sub
    <3>1. ToSet(sub) = ToSet(r) \cup ToSet(second)
      BY <2>5, <2>10, <2>12, ConcatFacts
    <3>2. QED  BY <2>4, <2>5, <2>12, <3>1 DEF RootVertices, fwd
  <2>init. x = KplexInit(s, sub)
    OBVIOUS
  <2>15. sub[1] = v /\ Len(sub) = 1 + Len(sg) + Len(second) /\ sub # <<>>
         /\ \A m \in 1..(1 + Len(sg)) : sub[m] = r[m]
    <3>1. Len(sg) \in Nat /\ Len(second) \in Nat /\ Len(r) \in Nat
      BY <2>4, <2>5, <2>12
    <3>2. Len(r \o second) = Len(r) + Len(second) /\ \A m \in 1..Len(r) : (r \o second)[m] = r[m]
      BY <2>5, <2>12
    <3> HIDE DEF sub
    <3>3. Len(sub) = 1 + Len(sg) + Len(second)
      BY <2>10, <2>13, <3>1, <3>2
    <3>4. 1 \in 1..Len(r)
      BY <2>13, <3>1
    <3>5. sub # <<>>
      BY <3>1, <3>3
    <3>6. QED  BY <2>10, <2>13, <3>2, <3>3, <3>4, <3>5
  <2> HIDE DEF sub
  <2>16. ASSUME s.k = 1 PROVE \A e \in DOMAIN sub \ {1} : ~ Apart(s, sub, 1, e)
    <3>1. SUFFICES ASSUME NEW e \in DOMAIN sub \ {1} PROVE are_neighs(s.g, sub[1], sub[e])
      BY DEF Apart
    <3>2. ToSet(second) = {} /\ second = <<>>
      BY <2>5, <2>16, SeqFacts
    <3>3. sub = r
      BY <2>10, <2>12, <3>2
    <3>4. sub[e] \in ToSet(r) /\ sub[e] # v
      BY <2>14, <2>15, <3>1, <3>3 DEF IsInjective, ToSet
    <3>5. QED  BY <2>7, <2>12, <2>15, <3>4
  <2>17. /\ x \in KplexTypes(s) /\ x.sub = sub
         /\ Len(sub) < 256 => KplexSound(s, x)
    <3>1. x = KplexInit(s, sub)
      OBVIOUS
    <3> HIDE DEF x
    <3>2. QED  BY <2>14, <2>15, <2>16, <3>1, InitNode DEF T
  <2>18. Len(sub) = RootSize(s.g, v, s.k, s.q)
    <3>1. Len(sg) = Cardinality(ToSet(sg)) /\ Len(second) = Cardinality(ToSet(second))
      BY <2>4, <2>5, CountOnce
    <3>2. RootSize(s.g, v, s.k, s.q) =
            1 + Cardinality(ToSet(sg))
              + (IF s.k = 1 THEN 0 ELSE Cardinality(TwoSteps(s.g, v, ToSet(sg), s.k, s.q)))
      BY <1>3, <2>4 DEF RootSize, fwd
    <3>3. Cardinality(ToSet(second)) =
            IF s.k = 1 THEN 0 ELSE Cardinality(TwoSteps(s.g, v, ToSet(sg), s.k, s.q))
      BY <2>5, FS_EmptySet
    <3>4. QED  BY <2>15, <3>1, <3>2, <3>3
  <2> HIDE DEF x
  <2>19. /\ x \in KplexNodes(s) /\ x.sub[1] = v
         /\ ToSet(x.sub) = RootVertices(s, v) /\ x = KplexInit(s, x.sub)
    BY <2>15, <2>17, <2>18, <2>set, <2>init DEF KplexNodes
  <2>20. KplexRoot(s, v) = <<x>>
    BY <1>1, <1>3
  <2>21. QED  BY <2>19, <2>20 DEF RootKids
<1>4. QED  BY <1>2, <1>3
-----------------------------------------------------------------------
(* The calls of ListChildren, and the nodes visited *)

\* Nothing visited is below a node that is still to be called back with, no
\* two of those are below one another, and all come from roots before r.
Disjoint(C, V, r) ==
  /\ IsInjective(V)
  /\ \A j \in 1..Len(V) : V[j].sub[1] < r
  /\ \A a \in 1..Len(C) : \A m \in 1..Len(C[a]) :
       /\ C[a][m].sub[1] < r
       /\ \A j \in 1..Len(V) : ~ Descends(C[a][m], V[j])
  /\ \A a, b \in 1..Len(C) : \A m \in 1..Len(C[a]), n \in 1..Len(C[b]) :
       a # b \/ m # n => ~ Descends(C[a][m], C[b][n])

\* x is none of the nodes of C and V, nor above one or below one.
Apartness(C, V, x) ==
  /\ \A a \in 1..Len(C) : \A m \in 1..Len(C[a]) :
       ~ Descends(C[a][m], x) /\ ~ Descends(x, C[a][m])
  /\ \A j \in 1..Len(V) : ~ Descends(x, V[j])

Nodelike(T) == \A x \in T : x.kplex \in Seq(Nat)

LEMMA DescendsFacts ==
  ASSUME NEW T, Nodelike(T), NEW x \in T
  PROVE  /\ Descends(x, x)
         /\ \A y, z \in T : Descends(x, y) /\ Descends(y, z) => Descends(x, z)
         /\ \A y, z \in T : Descends(x, z) /\ Descends(y, z) => Descends(x, y) \/ Descends(y, x)
         /\ \A y \in T : Longer(x, y) /\ y.sub = x.sub => Descends(x, y) /\ ~ Descends(y, x)
<1>1. \A y \in T : Len(y.kplex) \in Nat
  BY DEF Nodelike
<1>2. Descends(x, x)
  BY <1>1 DEF Descends
<1>3. ASSUME NEW y \in T, NEW z \in T, Descends(x, y), Descends(y, z) PROVE Descends(x, z)
  <2> DEFINE a == Len(x.kplex)
             b == Len(y.kplex)
             c == Len(z.kplex)
  <2>1. a \in Nat /\ b \in Nat /\ c \in Nat /\ a <= b /\ b <= c /\ x.sub = z.sub
    BY <1>1, <1>3 DEF Descends
  <2>2. /\ \A m \in 1..a : y.kplex[m] = x.kplex[m]
        /\ \A m \in 1..b : z.kplex[m] = y.kplex[m]
    BY <1>3 DEF Descends
  <2> HIDE DEF a, b, c
  <2>3. a <= c /\ \A m \in 1..a : m \in 1..b
    BY <2>1
  <2>4. \A m \in 1..a : z.kplex[m] = x.kplex[m]
    BY <2>2, <2>3
  <2>5. QED  BY <2>1, <2>3, <2>4 DEF Descends, a, c
<1>4. ASSUME NEW y \in T, NEW z \in T, Descends(x, z), Descends(y, z)
      PROVE  Descends(x, y) \/ Descends(y, x)
  <2> DEFINE a == Len(x.kplex)
             b == Len(y.kplex)
  <2>1. a \in Nat /\ b \in Nat /\ x.sub = y.sub
    BY <1>1, <1>4 DEF Descends
  <2>2. /\ \A m \in 1..a : z.kplex[m] = x.kplex[m]
        /\ \A m \in 1..b : z.kplex[m] = y.kplex[m]
    BY <1>4 DEF Descends
  <2> HIDE DEF a, b
  <2>3. CASE a <= b
    <3>1. \A m \in 1..a : m \in 1..b
      BY <2>1, <2>3
    <3>2. \A m \in 1..a : y.kplex[m] = x.kplex[m]
      BY <2>2, <3>1
    <3>3. Descends(x, y)
      BY <2>1, <2>3, <3>2 DEF Descends, a, b
    <3>4. QED  BY <3>3
  <2>4. CASE b <= a
    <3>1. \A m \in 1..b : m \in 1..a
      BY <2>1, <2>4
    <3>2. \A m \in 1..b : x.kplex[m] = y.kplex[m]
      BY <2>2, <3>1
    <3>3. Descends(y, x)
      BY <2>1, <2>4, <3>2 DEF Descends, a, b
    <3>4. QED  BY <3>3
  <2>5. QED  BY <2>1, <2>3, <2>4
<1>5. ASSUME NEW y \in T, Longer(x, y), y.sub = x.sub
      PROVE  Descends(x, y) /\ ~ Descends(y, x)
  <2> DEFINE a == Len(x.kplex)
             b == Len(y.kplex)
  <2>1. a \in Nat /\ b \in Nat /\ a < b
    BY <1>1, <1>5 DEF Longer
  <2> HIDE DEF a, b
  <2>2. a <= b /\ ~ (b <= a)
    BY <2>1
  <2>3. QED  BY <1>5, <2>2 DEF Longer, Descends, a, b
<1>6. QED  BY <1>2, <1>3, <1>4, <1>5

\* Children that differ in the vertex after those of their parent.
LEMMA SiblingsApart ==
  ASSUME NEW T, Nodelike(T), NEW x \in T, NEW y \in T, NEW z \in T, Longer(x, y),
         y.kplex[Len(x.kplex) + 1] # z.kplex[Len(x.kplex) + 1]
  PROVE  ~ Descends(y, z)
<1>1. Len(x.kplex) \in Nat /\ Len(y.kplex) \in Nat /\ Len(x.kplex) < Len(y.kplex)
  BY DEF Nodelike, Longer
<1>2. Len(x.kplex) + 1 \in 1..Len(y.kplex)
  BY <1>1
<1>3. QED  BY <1>2 DEF Descends

\* x is visited and its children are left to be called back with.
LEMMA VisitDisjoint ==
  ASSUME NEW T, Nodelike(T), NEW x \in T, NEW C \in Seq(Seq(T)), NEW V \in Seq(T), NEW r,
         Disjoint(C, V, r), Apartness(C, V, x), x.sub[1] < r,
         NEW kids \in Seq(T),
         \A m \in 1..Len(kids) : kids[m].sub = x.sub /\ Longer(x, kids[m]),
         \A m, n \in 1..Len(kids) :
           m # n => kids[m].kplex[Len(x.kplex) + 1] # kids[n].kplex[Len(x.kplex) + 1]
  PROVE  Disjoint(Append(C, kids), Append(V, x), r)
<1> DEFINE D == Append(C, kids)
           W == Append(V, x)
           L == Len(C)
           n == Len(V)
<1>1. /\ L \in Nat /\ Len(D) = L + 1 /\ D[L + 1] = kids
      /\ \A a \in 1..L : D[a] = C[a] /\ C[a] \in Seq(T)
  <2>1. L \in Nat /\ \A a \in 1..L : C[a] \in Seq(T)
    OBVIOUS
  <2>2. /\ Len(D) = L + 1 /\ D[L + 1] = kids
        /\ \A a \in 1..L : D[a] = C[a]
    BY AppendLonger
  <2>3. QED  BY <2>1, <2>2
<1>2. /\ n \in Nat /\ Len(W) = n + 1 /\ W[n + 1] = x
      /\ \A j \in 1..n : W[j] = V[j] /\ V[j] \in T
  <2>1. n \in Nat /\ \A j \in 1..n : V[j] \in T
    OBVIOUS
  <2>2. Len(W) = n + 1 /\ W[n + 1] = x /\ \A j \in 1..n : W[j] = V[j]
    BY AppendLonger
  <2>3. QED  BY <2>1, <2>2
<1>3. Len(kids) \in Nat /\ \A m \in 1..Len(kids) : kids[m] \in T
  OBVIOUS
<1>4. \A a \in 1..L : \A m \in 1..Len(C[a]) : C[a][m] \in T
  BY <1>1
<1>5. W \in Seq(T) /\ IsInjective(W)
  <2>1. ASSUME NEW j \in 1..n PROVE V[j] # x
    BY <2>1, DescendsFacts DEF Apartness
  <2>2. x \notin ToSet(V)
    BY <2>1 DEF ToSet
  <2>3. IsInjective(V)
    BY DEF Disjoint
  <2> HIDE DEF W
  <2>4. QED  BY <2>2, <2>3, AppendFacts DEF W
<1>6. ASSUME NEW m \in 1..Len(kids)
      PROVE  Descends(x, kids[m]) /\ ~ Descends(kids[m], x)
  BY <1>3, <1>6, DescendsFacts
<1>7. \A m \in 1..Len(kids) : \A y \in T : Descends(kids[m], y) => Descends(x, y)
  BY <1>3, <1>6, DescendsFacts
<1>8. \A m \in 1..Len(kids) : \A y \in T :
        Descends(y, kids[m]) => Descends(y, x) \/ Descends(x, y)
  BY <1>3, <1>6, DescendsFacts
<1>9. \A m, k \in 1..Len(kids) : m # k => ~ Descends(kids[m], kids[k])
  BY <1>3, SiblingsApart
<1> HIDE DEF D, W, L, n
<1>10. \A a \in 1..(L + 1) : a \in 1..L \/ a = L + 1
  BY <1>1
<1>11. \A j \in 1..(n + 1) : j \in 1..n \/ j = n + 1
  BY <1>2
<1>12. \A j \in 1..Len(W) : W[j].sub[1] < r
  BY <1>2, <1>11 DEF Disjoint, n
<1>13. ASSUME NEW a \in 1..Len(D), NEW m \in 1..Len(D[a])
       PROVE  D[a][m].sub[1] < r /\ \A j \in 1..Len(W) : ~ Descends(D[a][m], W[j])
  <2>1. CASE a \in 1..L
    <3>1. D[a] = C[a] /\ m \in 1..Len(C[a]) /\ a \in 1..Len(C)
      BY <1>1, <1>13, <2>1 DEF L
    <3>2. C[a][m].sub[1] < r /\ \A j \in 1..n : ~ Descends(C[a][m], V[j])
      BY <3>1 DEF Disjoint, n
    <3>3. ~ Descends(C[a][m], x)
      BY <3>1 DEF Apartness
    <3>4. QED  BY <1>2, <1>11, <3>1, <3>2, <3>3
  <2>2. CASE a = L + 1
    <3>1. D[a] = kids /\ m \in 1..Len(kids)
      BY <1>1, <1>13, <2>2
    <3>2. kids[m].sub[1] < r
      BY <3>1
    <3>3. \A j \in 1..n : ~ Descends(kids[m], V[j])
      BY <1>2, <1>7, <3>1 DEF Apartness, n
    <3>4. QED  BY <1>2, <1>6, <1>11, <3>1, <3>2, <3>3
  <2>3. QED  BY <1>1, <1>10, <1>13, <2>1, <2>2
<1>14. ASSUME NEW a \in 1..Len(D), NEW b \in 1..Len(D), NEW m \in 1..Len(D[a]),
              NEW k \in 1..Len(D[b]), a # b \/ m # k
       PROVE  ~ Descends(D[a][m], D[b][k])
  <2>1. CASE a \in 1..L /\ b \in 1..L
    <3>1. /\ D[a] = C[a] /\ m \in 1..Len(C[a]) /\ a \in 1..Len(C)
          /\ D[b] = C[b] /\ k \in 1..Len(C[b]) /\ b \in 1..Len(C)
      BY <1>1, <1>14, <2>1 DEF L
    <3>2. ~ Descends(C[a][m], C[b][k])
      BY <1>14, <3>1 DEF Disjoint
    <3>3. QED  BY <3>1, <3>2
  <2>2. CASE a = L + 1 /\ b \in 1..L
    <3>1. D[a] = kids /\ m \in 1..Len(kids) /\ D[b] = C[b] /\ k \in 1..Len(C[b]) /\ b \in 1..Len(C)
      BY <1>1, <1>14, <2>2 DEF L
    <3>2. ~ Descends(x, C[b][k]) /\ C[b][k] \in T
      BY <1>4, <2>2, <3>1 DEF Apartness
    <3>3. QED  BY <1>7, <3>1, <3>2
  <2>3. CASE a \in 1..L /\ b = L + 1
    <3>1. D[b] = kids /\ k \in 1..Len(kids) /\ D[a] = C[a] /\ m \in 1..Len(C[a]) /\ a \in 1..Len(C)
      BY <1>1, <1>14, <2>3 DEF L
    <3>2. ~ Descends(x, C[a][m]) /\ ~ Descends(C[a][m], x) /\ C[a][m] \in T
      BY <1>4, <2>3, <3>1 DEF Apartness
    <3>3. QED  BY <1>8, <3>1, <3>2
  <2>4. CASE a = L + 1 /\ b = L + 1
    <3>1. D[a] = kids /\ m \in 1..Len(kids) /\ D[b] = kids /\ k \in 1..Len(kids) /\ m # k
      BY <1>1, <1>14, <2>4
    <3>2. QED  BY <1>9, <3>1
  <2>5. QED  BY <1>1, <1>10, <1>14, <2>1, <2>2, <2>3, <2>4
<1>15. Disjoint(D, W, r)
  BY <1>5, <1>12, <1>13, <1>14 DEF Disjoint
<1>16. QED  BY <1>15 DEF D, W

\* What is left of C once its innermost call has called back with x.
LEMMA TakeDisjoint ==
  ASSUME NEW T, NEW C \in Seq(Seq(T)), NEW V, NEW r,
         Disjoint(C, V, r), C # <<>>, C[Len(C)] # <<>>,
         NEW x, x = Head(C[Len(C)]),
         NEW R, R = [C EXCEPT ![Len(C)] = Tail(@)]
  PROVE  /\ R \in Seq(Seq(T)) /\ Disjoint(R, V, r) /\ Apartness(R, V, x)
         /\ x \in T /\ x.sub[1] < r
<1> DEFINE L == Len(C)
           p == C[L]
           q == Tail(p)
<1>1. L \in Nat \ {0} /\ DOMAIN C = 1..L /\ \A a \in 1..L : C[a] \in Seq(T)
  BY EmptySeq
<1>2. p \in Seq(T) /\ p # <<>>
  BY <1>1
<1> HIDE DEF p
<1>3. /\ q \in Seq(T) /\ Len(q) = Len(p) - 1 /\ Len(p) \in Nat \ {0} /\ x = p[1]
      /\ \A m \in 1..Len(q) : q[m] = p[m + 1]
  <2>1. q \in Seq(T) /\ Len(q) = Len(p) - 1 /\ \A m \in 1..Len(q) : q[m] = p[m + 1]
    BY <1>2, HeadTailProperties
  <2>2. Len(p) \in Nat \ {0}
    BY <1>2, EmptySeq
  <2>3. x = p[1]
    BY <1>2 DEF p
  <2>4. QED  BY <2>1, <2>2, <2>3
<1>4. /\ R = [a \in 1..L |-> IF a = L THEN q ELSE C[a]]
  BY <1>1 DEF p
<1> HIDE DEF q, L
<1>5. R \in Seq(Seq(T)) /\ Len(R) = L
  <2>1. R \in [1..L -> Seq(T)]
    BY <1>1, <1>3, <1>4
  <2>2. QED  BY <1>1, <2>1, FunctionIsSeq DEF ListOf
<1> DEFINE at(a, m) == IF a = L THEN m + 1 ELSE m
<1>6. ASSUME NEW a \in 1..L, NEW m \in 1..Len(R[a])
      PROVE  /\ at(a, m) \in 1..Len(C[a]) /\ R[a][m] = C[a][at(a, m)]
             /\ a # L \/ at(a, m) # 1
             /\ m \in Nat
  <2>1. CASE a = L
    <3>1. R[a] = q /\ C[a] = p
      BY <1>1, <1>4, <2>1 DEF p
    <3>2. m \in 1..Len(q) /\ m + 1 \in 1..Len(p) /\ m + 1 # 1
      BY <1>3, <1>6, <3>1
    <3>3. QED  BY <1>3, <2>1, <3>1, <3>2
  <2>2. CASE a # L
    <3>1. R[a] = C[a]
      BY <1>4, <1>6, <2>2
    <3>2. at(a, m) = m /\ m \in 1..Len(C[a])
      BY <1>6, <2>2, <3>1
    <3>3. m \in Nat
      <4>1. Len(C[a]) \in Nat
        BY <1>1, <1>6
      <4>2. QED  BY <3>2, <4>1
    <3>4. QED  BY <2>2, <3>1, <3>2, <3>3
  <2>3. QED  BY <2>1, <2>2
<1>7. L \in 1..L /\ 1 \in 1..Len(C[L]) /\ C[L][1] = x
  BY <1>1, <1>3 DEF p
<1>8. /\ IsInjective(V) /\ \A j \in 1..Len(V) : V[j].sub[1] < r
      /\ \A a \in 1..L : \A m \in 1..Len(C[a]) :
           C[a][m].sub[1] < r /\ \A j \in 1..Len(V) : ~ Descends(C[a][m], V[j])
      /\ \A a, b \in 1..L : \A m \in 1..Len(C[a]), n \in 1..Len(C[b]) :
           a # b \/ m # n => ~ Descends(C[a][m], C[b][n])
  BY DEF Disjoint, L
<1>9. ASSUME NEW a \in 1..L, NEW m \in 1..Len(R[a])
      PROVE  /\ R[a][m].sub[1] < r
             /\ \A j \in 1..Len(V) : ~ Descends(R[a][m], V[j])
             /\ ~ Descends(R[a][m], x) /\ ~ Descends(x, R[a][m])
  <2> DEFINE n == at(a, m)
  <2>1. n \in 1..Len(C[a]) /\ R[a][m] = C[a][n] /\ (a # L \/ n # 1)
    BY <1>6, <1>9
  <2> HIDE DEF n
  <2>2. QED  BY <1>7, <1>8, <1>9, <2>1
<1>10. ASSUME NEW a \in 1..L, NEW b \in 1..L, NEW m \in 1..Len(R[a]), NEW n \in 1..Len(R[b]),
              a # b \/ m # n
       PROVE  ~ Descends(R[a][m], R[b][n])
  <2>1. a = b => at(a, m) # at(b, n)
    BY <1>6, <1>10
  <2> DEFINE k == at(a, m)
             l == at(b, n)
  <2>2. k \in 1..Len(C[a]) /\ R[a][m] = C[a][k] /\ l \in 1..Len(C[b]) /\ R[b][n] = C[b][l]
    BY <1>6, <1>10
  <2>3. a # b \/ k # l
    BY <2>1
  <2> HIDE DEF k, l, at
  <2>4. \A u \in 1..Len(C[a]), v \in 1..Len(C[b]) :
          a # b \/ u # v => ~ Descends(C[a][u], C[b][v])
    BY <1>8, <1>10
  <2>5. ~ Descends(C[a][k], C[b][l])
    BY <2>2, <2>3, <2>4
  <2>6. QED  BY <2>2, <2>5
<1>11. Disjoint(R, V, r)
  <2>1. Len(R) = L
    BY <1>5
  <2>2. \A a \in 1..L : \A m \in 1..Len(R[a]) :
          R[a][m].sub[1] < r /\ \A j \in 1..Len(V) : ~ Descends(R[a][m], V[j])
    BY <1>9
  <2>3. \A a, b \in 1..L : \A m \in 1..Len(R[a]), n \in 1..Len(R[b]) :
          a # b \/ m # n => ~ Descends(R[a][m], R[b][n])
    BY <1>10
  <2>4. IsInjective(V) /\ \A j \in 1..Len(V) : V[j].sub[1] < r
    BY <1>8
  <2>5. QED  BY <2>1, <2>2, <2>3, <2>4, Zenon DEF Disjoint
<1>12. Apartness(R, V, x)
  BY <1>5, <1>7, <1>8, <1>9 DEF Apartness
<1>13. x \in T /\ x.sub[1] < r
  <2>1. x \in T
    BY <1>2, <1>3
  <2>2. QED  BY <1>7, <1>8, <2>1
<1>14. QED  BY <1>5, <1>11, <1>12, <1>13

LEMMA ConcatOne ==
  ASSUME NEW T, NEW s \in Seq(T), NEW x \in T
  PROVE  s \o <<x>> = Append(s, x)
OBVIOUS

\* The first vertex of the subgraph of a node is its root.
LEMMA NodeFirst ==
  ASSUME NEW s, KplexSystem(s), NEW x \in KplexNodes(s)
  PROVE  x.sub[1] \in Nat
<1>1. x \in KplexTypes(s)
  BY DEF KplexNodes
<1>2. x.sub \in Seq(DOMAIN s.g) /\ Len(x.sub) \in Nat \ {0}
  BY <1>1, TypeFacts
<1>3. 1 \in 1..Len(x.sub) /\ x.sub[1] \in DOMAIN s.g
  BY <1>2
<1>4. DOMAIN s.g \subseteq Nat
  BY Symmetry DEF KplexSystem
<1>5. QED  BY <1>3, <1>4

\* A root after those of the nodes visited.
LEMMA NextRootDisjoint ==
  ASSUME NEW T, \A x \in T : x.sub[1] \in Nat, NEW V \in Seq(T), NEW r \in Nat, NEW q, q = r + 1,
         Disjoint(<<>>, V, r)
  PROVE  /\ Disjoint(<<>>, V, q)
         /\ \A x \in T : x.sub[1] = r => Apartness(<<>>, V, x)
<1>1. \A j \in 1..Len(V) : V[j].sub[1] \in Nat /\ V[j].sub[1] < r
  BY DEF Disjoint
<1>2. \A j \in 1..Len(V) : V[j].sub[1] < q /\ V[j].sub[1] # r
  BY <1>1
<1>3. Len(<<>>) = 0 /\ 1..0 = {}
  OBVIOUS
<1>4. Disjoint(<<>>, V, q)
  BY <1>2, <1>3 DEF Disjoint
<1>5. ASSUME NEW x \in T, x.sub[1] = r PROVE Apartness(<<>>, V, x)
  BY <1>2, <1>3, <1>5 DEF Apartness, Descends
<1>6. QED  BY <1>4, <1>5

\* The innermost call has returned.
LEMMA FrontDisjoint ==
  ASSUME NEW T, NEW C \in Seq(Seq(T)), C # <<>>, NEW V, NEW r, Disjoint(C, V, r)
  PROVE  Front(C) \in Seq(Seq(T)) /\ Disjoint(Front(C), V, r)
<1> DEFINE L == Len(C)
           D == Front(C)
<1>1. L \in Nat \ {0}
  BY EmptySeq
<1>2. /\ D \in Seq(Seq(T)) /\ Len(D) = L - 1
      /\ \A m \in 1..(L - 1) : D[m] = C[m]
  <2>1. L - 1 \in Int /\ 1 \in Int
    BY <1>1
  <2>2. /\ SubSeq(C, 1, L - 1) \in Seq(Seq(T))
        /\ Len(SubSeq(C, 1, L - 1)) = IF 1 <= L - 1 THEN L - 1 - 1 + 1 ELSE 0
        /\ \A m \in 1..(L - 1 - 1 + 1) : SubSeq(C, 1, L - 1)[m] = C[1 + m - 1]
    BY <1>1, <2>1, SubSeqProperties
  <2>3. D = SubSeq(C, 1, L - 1)
    BY DEF Front
  <2> HIDE DEF D, L
  <2>4. L - 1 - 1 + 1 = L - 1 /\ \A m \in 1..(L - 1) : 1 + m - 1 = m
    BY <1>1
  <2>5. Len(D) = L - 1
    BY <1>1, <2>2, <2>3, <2>4
  <2>6. \A m \in 1..(L - 1) : D[m] = C[m]
    BY <2>2, <2>3, <2>4
  <2>7. QED  BY <2>2, <2>3, <2>5, <2>6
<1> HIDE DEF D, L
<1>3. \A a \in 1..Len(D) : a \in 1..L /\ D[a] = C[a]
  BY <1>1, <1>2
<1>4. Disjoint(D, V, r)
  BY <1>3 DEF Disjoint, L
<1>5. QED  BY <1>2, <1>4 DEF D
-----------------------------------------------------------------------
(* Parts of an array, one after the other *)

\* The turns of FlattenSeq: in each a part is added.
FlattenTurns(f, s, n) ==
  /\ f[1] = s[1]
  /\ \A m \in 2..n : f[m] = f[m - 1] \o s[m]
  /\ FlattenSeq(s) = f[n]

LEMMA FlattenLoop ==
  ASSUME NEW T, NEW s, \A m \in 1..Len(s) : s[m] \in Seq(T),
         NEW n, n = Len(s), n \in Nat \ {0}
  PROVE  \E f : FlattenTurns(f, s, n) /\ \A m \in 1..n : f[m] \in Seq(T)
<1> DEFINE X == Seq(T)
           G == [m \in 1..n |-> [r \in X |-> r \o s[m]]]
           Loop(f) == f = [m \in 1..Len(s) |->
                             IF m = 1 THEN s[m] ELSE f[m - 1] \o s[m]]
           F == CHOOSE f : Loop(f)
<1>1. \A m \in 1..n : s[m] \in X
  OBVIOUS
<1>2. G \in [1..n -> [X -> X]]
  <2>1. ASSUME NEW m \in 1..n PROVE [r \in X |-> r \o s[m]] \in [X -> X]
    <3>1. \A r \in X : r \o s[m] \in X
      BY <1>1
    <3>2. QED  BY <3>1
  <2>2. QED  BY <2>1
<1>3. <<>> \in X
  OBVIOUS
<1>4. PICK h : LoopOf(h, n, X, <<>>, G)
  <2> HIDE DEF G, X
  <2>1. QED  BY <1>2, <1>3, LoopExists
<1>5. /\ h \in [0..n -> X] /\ h[0] = <<>>
      /\ \A m \in 1..n : h[m] = h[m - 1] \o s[m]
  <2>1. h \in [0..n -> X] /\ h[0] = <<>> /\ \A m \in 1..n : h[m] = G[m][h[m - 1]]
    BY <1>4 DEF LoopOf
  <2>2. ASSUME NEW m \in 1..n PROVE h[m] = h[m - 1] \o s[m]
    <3>1. m - 1 \in 0..n
      OBVIOUS
    <3>2. h[m - 1] \in X
      BY <2>1, <3>1
    <3>3. QED  BY <2>1, <3>2
  <2>3. QED  BY <2>1, <2>2
<1> DEFINE k == [m \in 1..n |-> h[m]]
<1>6. Loop(k)
  <2>1. 1 \in 1..n /\ h[1] = h[1 - 1] \o s[1]
    <3>1. 1 \in 1..n
      OBVIOUS
    <3>2. QED  BY <1>5, <3>1
  <2>2. h[1] = s[1]
    BY <1>1, <1>5, <2>1, ConcatEmptySeq
  <2>3. ASSUME NEW m \in 1..n
        PROVE  k[m] = IF m = 1 THEN s[m] ELSE k[m - 1] \o s[m]
    <3>1. CASE m = 1
      BY <2>2, <3>1
    <3>2. CASE m # 1
      <4>1. m - 1 \in 1..n
        BY <3>2
      <4>2. QED  BY <1>5, <3>2, <4>1
    <3>3. QED  BY <3>1, <3>2
  <2> HIDE DEF k
  <2>4. k = [m \in 1..n |-> k[m]]
    BY DEF k
  <2>5. QED  BY <2>3, <2>4
<1>7. Loop(F)
  <2> HIDE DEF k
  <2>1. QED  BY <1>6
<1>8. FlattenSeq(s) = F[n]
  BY DEF FlattenSeq
<1> HIDE DEF F
<1>9. F[1] = s[1]
  <2>1. 1 \in 1..Len(s)
    OBVIOUS
  <2>2. QED  BY <1>7, <2>1
<1>10. \A m \in 2..n : F[m] = F[m - 1] \o s[m]
  <2>1. \A m \in 2..n : m \in 1..Len(s) /\ m # 1
    OBVIOUS
  <2>2. QED  BY <1>7, <2>1
<1>11. FlattenTurns(F, s, n)
  BY <1>8, <1>9, <1>10 DEF FlattenTurns
<1>12. \A m \in 1..n : F[m] \in Seq(T)
  <2> DEFINE P == {m \in 0..n : m = 0 \/ F[m] \in Seq(T)}
  <2>1. 0 \in P
    OBVIOUS
  <2>2. ASSUME NEW m \in 0..(n - 1), m \in P PROVE m + 1 \in P
    <3>1. m + 1 \in 1..n /\ m + 1 \in 0..n
      BY <2>2
    <3>2. CASE m = 0
      BY <1>1, <1>9, <3>1, <3>2
    <3>3. CASE m # 0
      <4> DEFINE l == m + 1
      <4>1. l \in 2..n /\ l - 1 = m
        BY <2>2, <3>3
      <4> HIDE DEF l
      <4>10. F[l] = F[l - 1] \o s[l]
        BY <1>10, <4>1
      <4>2. F[m + 1] = F[m] \o s[m + 1]
        BY <4>1, <4>10 DEF l
      <4>3. F[m] \in Seq(T) /\ s[m + 1] \in Seq(T)
        BY <1>1, <2>2, <3>1, <3>3
      <4>4. F[m + 1] \in Seq(T)
        BY <4>2, <4>3
      <4>5. QED  BY <3>1, <4>4
    <3>4. QED  BY <3>2, <3>3
  <2> HIDE DEF P
  <2>3. \A m \in 0..n : m \in P
    BY <2>1, <2>2, Induct
  <2>4. QED  BY <2>3 DEF P
<1>13. QED  BY <1>11, <1>12

\* Arrays can be put together in either order.
EitherOrder(a, b, c) ==
  /\ (a \o b) \o c = a \o (b \o c)
  /\ a \o b \in Array /\ b \o c \in Array

LEMMA ArrayAssociative ==
  ASSUME NEW a \in Array, NEW b \in Array, NEW c \in Array
  PROVE  EitherOrder(a, b, c)
<1>1. a \in Seq(Nat) /\ b \in Seq(Nat) /\ c \in Seq(Nat)
  BY DEF Array
<1>2. (a \o b) \o c = a \o (b \o c)
  BY <1>1, ConcatAssociative, SMTT(30)
<1>3. a \o b \in Array /\ b \o c \in Array
  BY <1>1 DEF Array
<1>4. QED  BY <1>2, <1>3 DEF EitherOrder

\* What is left of the parts after the first m of them, and then rest.
Remains(S, s, n, rest) ==
  /\ S[n] = rest
  /\ \A m \in 1..n : S[m - 1] = s[m] \o S[m]
  /\ \A m \in 0..n : S[m] \in Array

LEMMA SuffixLoop ==
  ASSUME NEW s, NEW n \in Nat, \A m \in 1..n : s[m] \in Array, NEW rest \in Array
  PROVE  \E S : Remains(S, s, n, rest)
<1> DEFINE G == [m \in 1..n |-> [r \in Array |-> s[n - m + 1] \o r]]
<1>1. G \in [1..n -> [Array -> Array]]
  <2>1. ASSUME NEW m \in 1..n PROVE [r \in Array |-> s[n - m + 1] \o r] \in [Array -> Array]
    <3>1. n - m + 1 \in 1..n
      BY <2>1
    <3>2. s[n - m + 1] \in Array
      BY <3>1
    <3>3. \A r \in Array : s[n - m + 1] \o r \in Array
      BY <3>2 DEF Array
    <3>4. QED  BY <3>3
  <2>2. QED  BY <2>1
<1>2. PICK h : LoopOf(h, n, Array, rest, G)
  <2> HIDE DEF G
  <2>1. QED  BY <1>1, LoopExists
<1>3. h \in [0..n -> Array] /\ h[0] = rest /\ \A m \in 1..n : h[m] = G[m][h[m - 1]]
  BY <1>2 DEF LoopOf
<1>4. ASSUME NEW m \in 1..n PROVE h[m] = s[n - m + 1] \o h[m - 1]
  <2>1. m - 1 \in 0..n
    BY <1>4
  <2>2. h[m - 1] \in Array
    BY <1>3, <2>1
  <2>3. QED  BY <1>3, <1>4, <2>2
<1> HIDE DEF G
<1> DEFINE S == [m \in 0..n |-> h[n - m]]
<1>5. S[n] = rest
  <2>1. n \in 0..n /\ n - n = 0
    OBVIOUS
  <2>2. QED  BY <1>3, <2>1
<1>6. ASSUME NEW m \in 1..n PROVE S[m - 1] = s[m] \o S[m]
  <2> DEFINE l == n - m + 1
  <2>1. /\ l \in 1..n /\ m - 1 \in 0..n /\ m \in 0..n /\ n - (m - 1) = l
        /\ n - l + 1 = m /\ l - 1 = n - m
    BY <1>6
  <2> HIDE DEF l
  <2>2. h[l] = s[m] \o h[n - m]
    BY <1>4, <2>1
  <2>3. S[m - 1] = h[l] /\ S[m] = h[n - m]
    BY <2>1
  <2>4. QED  BY <2>2, <2>3
<1>7. \A m \in 0..n : S[m] \in Array
  <2>1. \A m \in 0..n : n - m \in 0..n
    OBVIOUS
  <2>2. QED  BY <1>3, <2>1
<1>8. Remains(S, s, n, rest)
  BY <1>5, <1>6, <1>7 DEF Remains
<1>9. QED  BY <1>8

\* The parts one after the other, and then rest.
LEMMA FlattenRest ==
  ASSUME NEW s, NEW n, n \in Nat, n = Len(s), s \in Seq(Array), NEW rest \in Array,
         NEW S, Remains(S, s, n, rest)
  PROVE  FlattenSeq(s) \in Array /\ FlattenSeq(s) \o rest = S[0]
<1>1. \A m \in 1..n : s[m] \in Array
  OBVIOUS
<1>2. CASE n = 0
  <2>10. s \in Seq(Array) /\ Len(s) = 0
    BY <1>2
  <2>11. s = <<>>
    BY <2>10
  <2>1. s = <<>> /\ FlattenSeq(s) = s
    BY <2>11 DEF FlattenSeq
  <2>2. S[0] = rest
    BY <1>2 DEF Remains
  <2>3. <<>> \in Array
    BY DEF Array
  <2>4. <<>> \o rest = rest
    BY ConcatEmptySeq DEF Array
  <2>5. QED  BY <2>1, <2>2, <2>3, <2>4
<1>3. CASE n # 0
  <2>1. PICK f : FlattenTurns(f, s, n) /\ \A m \in 1..n : f[m] \in Array
    <3>1. \A m \in 1..Len(s) : s[m] \in Seq(Nat)
      BY <1>1 DEF Array
    <3>2. n \in Nat \ {0}
      BY <1>3
    <3>3. QED  BY <3>1, <3>2, FlattenLoop DEF Array
  <2> DEFINE P == {m \in 0..n : m = 0 \/ f[m] \o S[m] = S[0]}
  <2>2. 0 \in P
    OBVIOUS
  <2>3. ASSUME NEW m \in 0..(n - 1), m \in P PROVE m + 1 \in P
    <3> DEFINE l == m + 1
    <3>1. l \in 1..n /\ l \in 0..n /\ l - 1 = m /\ m \in 0..n
      BY <2>3
    <3>2. S[m] = s[l] \o S[l]
      BY <3>1 DEF Remains
    <3>3. CASE m = 0
      <4>1. f[l] = s[l]
        BY <2>1, <3>3 DEF FlattenTurns
      <4>2. QED  BY <3>1, <3>2, <3>3, <4>1
    <3>4. CASE m # 0
      <4>1. l \in 2..n /\ m \in 1..n
        BY <2>3, <3>4
      <4>2. f[l] = f[m] \o s[l]
        BY <2>1, <3>1, <4>1 DEF FlattenTurns
      <4>3. f[m] \in Array /\ s[l] \in Array /\ S[l] \in Array
        BY <1>1, <2>1, <3>1, <4>1 DEF Remains
      <4>4. (f[m] \o s[l]) \o S[l] = f[m] \o (s[l] \o S[l])
        <5> HIDE DEF l
        <5>1. EitherOrder(f[m], s[l], S[l])
          BY <4>3, ArrayAssociative
        <5>2. QED  BY <5>1 DEF EitherOrder
      <4>5. f[m] \o S[m] = S[0]
        BY <2>3, <3>4
      <4>6. f[l] \o S[l] = S[0]
        BY <3>2, <4>2, <4>4, <4>5
      <4>7. QED  BY <3>1, <4>6
    <3>5. QED  BY <3>3, <3>4
  <2> HIDE DEF P
  <2>4. \A m \in 0..n : m \in P
    BY <2>2, <2>3, Induct
  <2>5. n \in 1..n /\ n \in 0..n
    BY <1>3
  <2>6. f[n] \o S[n] = S[0] /\ f[n] \in Array
    BY <1>3, <2>1, <2>4, <2>5 DEF P
  <2>7. S[n] = rest /\ FlattenSeq(s) = f[n]
    BY <2>1 DEF Remains, FlattenTurns
  <2>8. QED  BY <2>6, <2>7
<1>4. QED  BY <1>2, <1>3
-----------------------------------------------------------------------
(* What Deserialize reads of what Serialize wrote *)

\* Whatever follows the part in the array, Des reads x and leaves the rest.
Reads(Des, part, x) ==
  /\ part \in Array
  /\ \A rest \in Array : Des[part \o rest] = [out |-> x, in |-> rest]

\* A number before an array.
LEMMA NumberFirst ==
  ASSUME NEW x \in Nat, NEW rest \in Array
  PROVE  /\ <<x>> \o rest \in Array
         /\ Head(<<x>> \o rest) = x /\ Tail(<<x>> \o rest) = rest
<1>1. <<x>> \in Seq(Nat) /\ rest \in Seq(Nat) /\ Len(<<x>>) = 1 /\ <<x>>[1] = x
  BY DEF Array
<1> DEFINE c == <<x>> \o rest
<1>2. /\ c \in Seq(Nat) /\ Len(c) = 1 + Len(rest) /\ c[1] = x
      /\ \A i \in 1..Len(rest) : c[i + 1] = rest[i]
  <2>1. c \in Seq(Nat) /\ Len(c) = 1 + Len(rest)
    BY <1>1, ConcatProperties
  <2>2. \A i \in 1..Len(c) : c[i] = IF i <= 1 THEN <<x>>[i] ELSE rest[i - 1]
    BY <1>1, ConcatProperties
  <2> HIDE DEF c
  <2>3. c[1] = x
    <3>1. 1 \in 1..Len(c)
      BY <1>1, <2>1
    <3>2. QED  BY <1>1, <2>2, <3>1
  <2>4. ASSUME NEW i \in 1..Len(rest) PROVE c[i + 1] = rest[i]
    <3> DEFINE j == i + 1
    <3>1. j \in 1..Len(c) /\ ~ (j <= 1) /\ j - 1 = i
      BY <1>1, <2>1, <2>4
    <3> HIDE DEF j
    <3>2. c[j] = rest[i]
      BY <2>2, <3>1
    <3>3. QED  BY <3>2 DEF j
  <2>5. QED  BY <2>1, <2>3, <2>4
<1> HIDE DEF c
<1>3. c # <<>>
  BY <1>1, <1>2
<1>4. /\ Head(c) = c[1] /\ Tail(c) \in Seq(Nat) /\ Len(Tail(c)) = Len(c) - 1
      /\ \A i \in 1..Len(Tail(c)) : Tail(c)[i] = c[i + 1]
  BY <1>2, <1>3, HeadTailProperties
<1>5. Tail(c) = rest
  <2>1. Len(Tail(c)) = Len(rest)
    BY <1>1, <1>2, <1>4
  <2>2. \A i \in 1..Len(rest) : Tail(c)[i] = rest[i]
    BY <1>2, <1>4, <2>1
  <2>3. QED  BY <1>1, <1>4, <2>1, <2>2, SeqEqual
<1>6. c \in Array /\ Head(c) = x
  BY <1>2, <1>4 DEF Array
<1>7. QED  BY <1>5, <1>6 DEF c

LEMMA IntReads ==
  ASSUME NEW x \in Nat
  PROVE  Reads(DeserializeInt, SerializeInt(x), x)
<1>1. <<x>> \in Array
  BY DEF Array
<1>2. ASSUME NEW rest \in Array
      PROVE  DeserializeInt[<<x>> \o rest] = [out |-> x, in |-> rest]
  <2> DEFINE c == <<x>> \o rest
  <2>1. c \in Array /\ Head(c) = x /\ Tail(c) = rest
    BY NumberFirst
  <2> HIDE DEF c
  <2>2. DeserializeInt[c] = [out |-> Head(c), in |-> Tail(c)]
    BY <2>1 DEF DeserializeInt
  <2>3. QED  BY <2>1, <2>2 DEF c
<1>3. QED  BY <1>1, <1>2 DEF Reads, SerializeInt

\* A prefix of a sequence is the one before it and one element more.
LEMMA PrefixGrows ==
  ASSUME NEW T, NEW xs \in Seq(T), NEW m \in 1..Len(xs)
  PROVE  SubSeq(xs, 1, m) = Append(SubSeq(xs, 1, m - 1), xs[m])
<1>1. 1 \in 1..Len(xs) /\ m \in 1..Len(xs) /\ xs[m] \in T
  OBVIOUS
<1>2. SubSeq(xs, 1, m) = SubSeq(xs, 1, m - 1) \o <<xs[m]>>
  BY <1>1, SubSeqRecursiveSecond
<1>3. SubSeq(xs, 1, m - 1) \in Seq(T)
  OBVIOUS
<1>4. QED  BY <1>1, <1>2, <1>3, ConcatOne

\* What the vector deserializer has after each turn.
VectorTurns(read, Des, n, start) ==
  /\ read[0] = [out |-> <<>>, in |-> start]
  /\ \A m \in 1..n :
       read[m] = [out |-> Append(read[m - 1].out, Des[read[m - 1].in].out),
                  in |-> Des[read[m - 1].in].in]

ReadsAs(D, in, read, n) == D[in] = read[n]

LEMMA VectorLoop ==
  ASSUME NEW Des, NEW in \in Array, NEW n \in Nat, Head(in) = n,
         NEW start, Tail(in) = start, NEW k, VectorTurns(k, Des, n, start)
  PROVE  ReadsAs(DeserializeVector(Des), in, k, n)
<1> DEFINE Loop(read) ==
             read = [m \in 0..Head(in) |->
               IF m = 0 THEN [out |-> <<>>, in |-> Tail(in)]
               ELSE LET r == read[m - 1]
                        e == Des[r.in]
                    IN  [out |-> Append(r.out, e.out), in |-> e.in]]
           F == CHOOSE read : Loop(read)
           h == [m \in 0..n |-> k[m]]
<1>1. Loop(h)
  <2>1. ASSUME NEW m \in 0..n
        PROVE  h[m] = IF m = 0 THEN [out |-> <<>>, in |-> Tail(in)]
                      ELSE LET r == h[m - 1]
                               e == Des[r.in]
                           IN  [out |-> Append(r.out, e.out), in |-> e.in]
    <3>1. CASE m = 0
      BY <3>1 DEF VectorTurns
    <3>2. CASE m # 0
      <4>1. m \in 1..n /\ m - 1 \in 0..n
        BY <3>2
      <4>2. h[m] = k[m] /\ h[m - 1] = k[m - 1]
        BY <4>1
      <4> HIDE DEF h
      <4>3. k[m] = [out |-> Append(k[m - 1].out, Des[k[m - 1].in].out),
                    in |-> Des[k[m - 1].in].in]
        BY <4>1 DEF VectorTurns
      <4>4. QED  BY <3>2, <4>2, <4>3
    <3>3. QED  BY <3>1, <3>2
  <2>2. h = [m \in 0..n |-> h[m]]
    OBVIOUS
  <2> HIDE DEF h
  <2>3. QED  BY <2>1, <2>2
<1>2. Loop(F)
  <2> HIDE DEF h
  <2>1. QED  BY <1>1
<1>3. DeserializeVector(Des)[in] = F[n]
  BY DEF DeserializeVector
<1> HIDE DEF F
<1>4. F[0] = [out |-> <<>>, in |-> start]
  <2>1. 0 \in 0..Head(in)
    OBVIOUS
  <2>2. QED  BY <1>2, <2>1
<1>5. ASSUME NEW m \in 1..n
      PROVE  F[m] = [out |-> Append(F[m - 1].out, Des[F[m - 1].in].out),
                     in |-> Des[F[m - 1].in].in]
  <2>1. m \in 0..Head(in) /\ m # 0
    BY <1>5
  <2>2. QED  BY <1>2, <2>1
<1> HIDE DEF Loop, h
<1> DEFINE P == {m \in 0..n : F[m] = k[m]}
<1>6. 0 \in P
  BY <1>4 DEF VectorTurns
<1>7. ASSUME NEW m \in 0..(n - 1), m \in P PROVE m + 1 \in P
  <2> DEFINE l == m + 1
  <2>1. l \in 1..n /\ l \in 0..n /\ l - 1 = m
    BY <1>7
  <2>2. F[m] = k[m]
    BY <1>7
  <2> HIDE DEF l, P
  <2>3. F[l] = [out |-> Append(F[m].out, Des[F[m].in].out), in |-> Des[F[m].in].in]
    BY <1>5, <2>1
  <2>4. k[l] = [out |-> Append(k[m].out, Des[k[m].in].out), in |-> Des[k[m].in].in]
    BY <2>1 DEF VectorTurns
  <2>5. F[l] = k[l]
    BY <2>2, <2>3, <2>4
  <2>6. QED  BY <2>1, <2>5 DEF P, l
<1> HIDE DEF P
<1>8. \A m \in 0..n : m \in P
  BY <1>6, <1>7, Induct
<1>9. F[n] = k[n]
  BY <1>8 DEF P
<1>10. QED  BY <1>3, <1>9 DEF ReadsAs

\* Arrays one after the other are an array.
LEMMA FlattenArrays ==
  ASSUME NEW s, s \in Seq(Array)
  PROVE  FlattenSeq(s) \in Array
<1> DEFINE n == Len(s)
<1>1. n \in Nat /\ \A m \in 1..n : s[m] \in Array
  OBVIOUS
<1>2. <<>> \in Array
  BY DEF Array
<1> HIDE DEF n
<1>3. n = Len(s)
  BY DEF n
<1>4. PICK S : Remains(S, s, n, <<>>)
  BY <1>1, <1>2, SuffixLoop
<1>5. QED  BY <1>1, <1>2, <1>3, <1>4, FlattenRest

LEMMA VectorReads ==
  ASSUME NEW T, NEW Des, NEW n, n \in Nat,
         NEW p, p \in Seq(Array), Len(p) = n,
         NEW xs, xs \in Seq(T), Len(xs) = n,
         \A m \in 1..n : Reads(Des, p[m], xs[m])
  PROVE  Reads(DeserializeVector(Des), SerializeVector(p), xs)
<1> DEFINE all == FlattenSeq(p)
           part == <<n>> \o all
<1>1. all \in Array
  BY FlattenArrays
<1>2. part \in Array
  BY <1>1, NumberFirst
<1>3. ASSUME NEW rest \in Array
      PROVE  DeserializeVector(Des)[part \o rest] = [out |-> xs, in |-> rest]
  <2>1. PICK S : Remains(S, p, n, rest)
    <3>1. \A m \in 1..n : p[m] \in Array
      OBVIOUS
    <3>2. QED  BY <3>1, SuffixLoop
  <2>2. all \o rest = S[0] /\ S[0] \in Array
    <3>1. all \o rest = S[0]
      BY <2>1, FlattenRest
    <3>2. S[0] \in Array
      BY <2>1 DEF Remains
    <3>3. QED  BY <3>1, <3>2
  <2>3. part \o rest = <<n>> \o S[0]
    <3>1. <<n>> \in Array
      BY DEF Array
    <3> HIDE DEF all
    <3>4. EitherOrder(<<n>>, all, rest)
      BY <1>1, <3>1, ArrayAssociative
    <3>2. (<<n>> \o all) \o rest = <<n>> \o (all \o rest)
      BY <3>4 DEF EitherOrder
    <3>3. QED  BY <2>2, <3>2
  <2> DEFINE in == <<n>> \o S[0]
             k == [m \in 0..n |-> [out |-> SubSeq(xs, 1, m), in |-> S[m]]]
  <2>4. in \in Array /\ Head(in) = n /\ Tail(in) = S[0]
    BY <2>2, NumberFirst
  <2>5. VectorTurns(k, Des, n, S[0])
    <3>1. k[0] = [out |-> <<>>, in |-> S[0]]
      <4>1. SubSeq(xs, 1, 0) = <<>>
        BY SubSeqEmpty
      <4>2. QED  BY <4>1
    <3>2. ASSUME NEW m \in 1..n
          PROVE  k[m] = [out |-> Append(k[m - 1].out, Des[k[m - 1].in].out),
                         in |-> Des[k[m - 1].in].in]
      <4> DEFINE l == m - 1
      <4>1. l \in 0..n /\ m \in 0..n
        BY <3>2
      <4>2. k[m] = [out |-> SubSeq(xs, 1, m), in |-> S[m]]
        BY <4>1
      <4>3. k[l] = [out |-> SubSeq(xs, 1, l), in |-> S[l]]
        BY <4>1
      <4> HIDE DEF k
      <4>4. S[l] = p[m] \o S[m] /\ S[m] \in Array
        BY <2>1, <4>1 DEF Remains
      <4>5. Des[p[m] \o S[m]] = [out |-> xs[m], in |-> S[m]]
        BY <4>4 DEF Reads
      <4>6. SubSeq(xs, 1, m) = Append(SubSeq(xs, 1, l), xs[m])
        BY <4>1, PrefixGrows
      <4> HIDE DEF l
      <4> DEFINE before == SubSeq(xs, 1, l)
      <4>12. k[l] = [out |-> before, in |-> S[l]]
        BY <4>3
      <4> HIDE DEF before
      <4>7. k[l].in = S[l] /\ k[l].out = before
        BY <4>12
      <4>10. Des[k[l].in] = [out |-> xs[m], in |-> S[m]]
        BY <4>4, <4>5, <4>7
      <4>11. Des[k[l].in].out = xs[m] /\ Des[k[l].in].in = S[m]
        BY <4>10
      <4>8. k[m] = [out |-> Append(k[l].out, Des[k[l].in].out), in |-> Des[k[l].in].in]
        BY <4>2, <4>6, <4>7, <4>11 DEF before
      <4>9. QED  BY <4>8 DEF l
    <3> HIDE DEF k
    <3>3. QED  BY <3>1, <3>2 DEF VectorTurns
  <2>6. k[n] = [out |-> xs, in |-> rest]
    <3>1. SubSeq(xs, 1, n) = xs
      BY SubSeqFull
    <3>2. S[n] = rest
      BY <2>1 DEF Remains
    <3>3. QED  BY <3>1, <3>2
  <2> HIDE DEF k, in
  <2> DEFINE start == S[0]
  <2>9. Tail(in) = start /\ VectorTurns(k, Des, n, start)
    BY <2>4, <2>5
  <2> HIDE DEF start
  <2>10. in \in Array /\ Head(in) = n
    BY <2>4
  <2>11. ReadsAs(DeserializeVector(Des), in, k, n)
    BY <2>9, <2>10, VectorLoop
  <2>7. DeserializeVector(Des)[in] = k[n]
    BY <2>11 DEF ReadsAs
  <2>8. QED  BY <2>3, <2>6, <2>7 DEF in
<1>4. SerializeVector(p) = part
  BY DEF SerializeVector
<1> HIDE DEF part
<1>5. QED  BY <1>2, <1>3, <1>4 DEF Reads

LEMMA PtrReads ==
  ASSUME NEW Des, NEW part, NEW x, Reads(Des, part, x),
         NEW ptr, ptr # <<>>, ptr[1] = part
  PROVE  Reads(DeserializePtr(Des), SerializePtr(ptr), <<x>>)
<1> DEFINE array == <<1>> \o part
<1>1. part \in Array
  BY DEF Reads
<1>2. array \in Array
  BY <1>1, NumberFirst
<1>3. ASSUME NEW rest \in Array
      PROVE  DeserializePtr(Des)[array \o rest] = [out |-> <<x>>, in |-> rest]
  <2> DEFINE after == part \o rest
             in == <<1>> \o after
  <2>1. array \o rest = in /\ after \in Array
    <3>1. <<1>> \in Array
      BY DEF Array
    <3>2. EitherOrder(<<1>>, part, rest) /\ EitherOrder(part, rest, rest)
      BY <1>1, <3>1, ArrayAssociative
    <3>3. QED  BY <3>2 DEF EitherOrder
  <2>2. Des[after] = [out |-> x, in |-> rest]
    BY DEF Reads
  <2> HIDE DEF after, array
  <2>3. in \in Array /\ Head(in) = 1 /\ Tail(in) = after
    BY <2>1, NumberFirst
  <2> HIDE DEF in
  <2>4. DeserializePtr(Des)[in] =
          IF Head(in) = 0 THEN [out |-> <<>>, in |-> Tail(in)]
          ELSE [out |-> <<Des[Tail(in)].out>>, in |-> Des[Tail(in)].in]
    BY <2>3 DEF DeserializePtr
  <2>9. Head(in) # 0
    BY <2>3
  <2>10. DeserializePtr(Des)[in] = [out |-> <<Des[Tail(in)].out>>, in |-> Des[Tail(in)].in]
    BY <2>4, <2>9
  <2>5. DeserializePtr(Des)[in] = [out |-> <<Des[after].out>>, in |-> Des[after].in]
    BY <2>3, <2>10
  <2>6. Des[after].out = x /\ Des[after].in = rest
    BY <2>2
  <2>7. DeserializePtr(Des)[in] = [out |-> <<x>>, in |-> rest]
    BY <2>5, <2>6
  <2>8. QED  BY <2>1, <2>7
<1>4. SerializePtr(ptr) = array
  BY DEF SerializePtr
<1> HIDE DEF array
<1>5. QED  BY <1>2, <1>3, <1>4 DEF Reads

LEMMA PairReads ==
  ASSUME NEW Des1, NEW Des2, NEW part1, NEW part2, NEW x1, NEW x2,
         Reads(Des1, part1, x1), Reads(Des2, part2, x2)
  PROVE  Reads(DeserializePair(Des1, Des2), SerializePair(part1, part2), <<x1, x2>>)
<1> DEFINE array == part1 \o part2
<1>1. part1 \in Array /\ part2 \in Array
  BY DEF Reads
<1>2. array \in Array
  <2>1. EitherOrder(part1, part2, part2)
    BY <1>1, ArrayAssociative
  <2>2. QED  BY <2>1 DEF EitherOrder
<1>3. ASSUME NEW rest \in Array
      PROVE  DeserializePair(Des1, Des2)[array \o rest] = [out |-> <<x1, x2>>, in |-> rest]
  <2> DEFINE after == part2 \o rest
             in == array \o rest
  <2>1. /\ in = part1 \o after /\ after \in Array /\ in \in Array
    <3>2. /\ EitherOrder(part1, part2, rest) /\ EitherOrder(part2, rest, rest)
          /\ EitherOrder(array, rest, rest)
      BY <1>1, <1>2, ArrayAssociative
    <3>3. QED  BY <3>2 DEF EitherOrder
  <2> HIDE DEF in
  <2>2. Des2[after] = [out |-> x2, in |-> rest]
    BY DEF Reads
  <2> HIDE DEF after, array
  <2>3. Des1[in] = [out |-> x1, in |-> after]
    BY <2>1 DEF Reads
  <2>4. Des1[in].out = x1 /\ Des1[in].in = after
    BY <2>3
  <2>5. Des2[after].out = x2 /\ Des2[after].in = rest
    BY <2>2
  <2>6. DeserializePair(Des1, Des2)[in] =
          [out |-> <<Des1[in].out, Des2[Des1[in].in].out>>, in |-> Des2[Des1[in].in].in]
    BY <2>1 DEF DeserializePair
  <2>7. DeserializePair(Des1, Des2)[in] = [out |-> <<x1, x2>>, in |-> rest]
    BY <2>4, <2>5, <2>6
  <2>8. QED  BY <2>7 DEF in
<1>4. SerializePair(part1, part2) = array
  BY DEF SerializePair
<1> HIDE DEF array
<1>5. QED  BY <1>2, <1>3, <1>4 DEF Reads

LEMMA ByteFits == \A a \in 0..255 : a % 256 = a
BY SMTT(30)

\* A number that is cut to the width of a byte.
LEMMA ByteReads ==
  ASSUME NEW x \in 0..255, NEW Byte,
         Byte = [a \in Array |-> [out |-> Head(a) % 256, in |-> Tail(a)]]
  PROVE  Reads(Byte, SerializeInt(x), x)
<1>1. <<x>> \in Array
  BY DEF Array
<1>2. ASSUME NEW rest \in Array
      PROVE  Byte[<<x>> \o rest] = [out |-> x, in |-> rest]
  <2> DEFINE c == <<x>> \o rest
  <2>1. c \in Array /\ Head(c) = x /\ Tail(c) = rest
    <3>1. x \in Nat
      OBVIOUS
    <3>2. QED  BY <3>1, NumberFirst
  <2> HIDE DEF c
  <2>2. Byte[c] = [out |-> Head(c) % 256, in |-> Tail(c)]
    BY <2>1
  <2>3. x % 256 = x
    BY ByteFits
  <2>4. QED  BY <2>1, <2>2, <2>3 DEF c
<1>3. QED  BY <1>1, <1>2 DEF Reads, SerializeInt

\* A vector whose elements are read, each from its part.
LEMMA PartsRead ==
  ASSUME NEW T, NEW Des, NEW v, v \in Seq(T), NEW part,
         \A j \in DOMAIN v : Reads(Des, part[j], v[j])
  PROVE  Reads(DeserializeVector(Des), SerializeVector([j \in DOMAIN v |-> part[j]]), v)
<1> DEFINE n == Len(v)
           p == [j \in DOMAIN v |-> part[j]]
<1>1. n \in Nat /\ DOMAIN v = 1..n /\ \A m \in 1..n : m \in DOMAIN v
  BY SeqFacts
<1>2. \A m \in 1..n : part[m] \in Array
  BY <1>1 DEF Reads
<1>3. p = [m \in 1..n |-> part[m]]
  BY <1>1
<1>4. p \in [1..n -> Array]
  <2> HIDE DEF p
  <2>1. QED  BY <1>2, <1>3
<1>5. p \in Seq(Array) /\ Len(p) = n
  <2> HIDE DEF p
  <2>1. ListOf(p, Array, n)
    BY <1>1, <1>4, FunctionIsSeq
  <2>2. QED  BY <2>1 DEF ListOf
<1>6. \A m \in 1..n : Reads(Des, p[m], v[m])
  BY <1>1
<1> HIDE DEF p, n
<1>7. Len(v) = n
  BY DEF n
<1>8. Reads(DeserializeVector(Des), SerializeVector(p), v)
  BY <1>1, <1>5, <1>6, <1>7, VectorReads
<1>9. QED  BY <1>8 DEF p

LEMMA IntsReads ==
  ASSUME NEW v \in Seq(Nat)
  PROVE  Reads(DeserializeInts, SerializeInts(v), v)
<1> DEFINE part == [j \in DOMAIN v |-> SerializeInt(v[j])]
<1>1. \A j \in DOMAIN v : Reads(DeserializeInt, part[j], v[j])
  BY IntReads
<1>2. SerializeInts(v) = SerializeVector(part)
  BY DEF SerializeInts
<1>3. part = [j \in DOMAIN v |-> part[j]]
  OBVIOUS
<1> HIDE DEF part
<1>4. QED  BY <1>1, <1>2, <1>3, PartsRead DEF DeserializeInts

LEMMA BytesRead ==
  ASSUME NEW v \in Seq(0..255), NEW Byte,
         Byte = [a \in Array |-> [out |-> Head(a) % 256, in |-> Tail(a)]]
  PROVE  Reads(DeserializeVector(Byte), SerializeInts(v), v)
<1> DEFINE part == [j \in DOMAIN v |-> SerializeInt(v[j])]
<1>1. ASSUME NEW j \in DOMAIN v PROVE Reads(Byte, part[j], v[j])
  <2>4. \A e \in DOMAIN v : v[e] \in 0..255
    <3> DEFINE B == 0..255
    <3>1. v \in Seq(B)
      OBVIOUS
    <3> HIDE DEF part, B
    <3>2. DOMAIN v = 1..Len(v) /\ \A m \in 1..Len(v) : v[m] \in B
      BY <3>1, SeqFacts
    <3>3. QED  BY <3>2 DEF B
  <2>1. v[j] \in 0..255 /\ part[j] = SerializeInt(v[j])
    BY <2>4
  <2> HIDE DEF part
  <2>2. Reads(Byte, SerializeInt(v[j]), v[j])
    BY <2>1, ByteReads
  <2>3. QED  BY <2>1, <2>2
<1>2. SerializeInts(v) = SerializeVector(part)
  BY DEF SerializeInts
<1>3. part = [j \in DOMAIN v |-> part[j]]
  OBVIOUS
<1> HIDE DEF part
<1>4. QED  BY <1>1, <1>2, <1>3, PartsRead

LEMMA ListsRead ==
  ASSUME NEW v \in Seq(Seq(Nat))
  PROVE  Reads(DeserializeVector(DeserializeInts),
               SerializeVector([j \in DOMAIN v |-> SerializeInts(v[j])]), v)
<1> DEFINE part == [j \in DOMAIN v |-> SerializeInts(v[j])]
<1>1. \A j \in DOMAIN v : Reads(DeserializeInts, part[j], v[j])
  BY IntsReads
<1>3. part = [j \in DOMAIN v |-> part[j]]
  OBVIOUS
<1> HIDE DEF part
<1>4. Reads(DeserializeVector(DeserializeInts), SerializeVector(part), v)
  BY <1>1, <1>3, PartsRead
<1>5. QED  BY <1>4 DEF part

\* The members of a node are read one after the other.
LEMMA KplexArrayReads ==
  ASSUME NEW s, s.mod = 256, NEW sub \in Seq(Nat), NEW adj \in Seq(Seq(Nat)),
         NEW kplex \in Seq(Nat), NEW counters \in Seq(0..255), NEW noted \in Seq(Nat),
         NEW cands \in Seq(Nat), NEW excluded \in Seq(Nat), NEW o,
         o = [subgraph |-> <<sub>>, nadj |-> <<adj>>, kplex |-> kplex,
              counters |-> counters, non_neighs |-> noted, cands |-> cands,
              excluded |-> excluded, current_impl |-> 0]
  PROVE  Reads(KplexDeserialize(s), KplexSerialize(o), o)
<1> DEFINE Byte == [a \in Array |-> [out |-> Head(a) % s.mod, in |-> Tail(a)]]
           D1 == DeserializePtr(DeserializeInts)
           D2 == DeserializePtr(DeserializeVector(DeserializeInts))
           D4 == DeserializeVector(Byte)
           p1 == SerializePtr([j \in DOMAIN o.subgraph |-> SerializeInts(o.subgraph[j])])
           p2 == SerializePtr([j \in DOMAIN o.nadj |->
                   SerializeVector([i \in DOMAIN o.nadj[j] |-> SerializeInts(o.nadj[j][i])])])
           p3 == SerializeInts(o.kplex)
           p4 == SerializeInts(o.counters)
           p5 == SerializeInts(o.non_neighs)
           p6 == SerializeInts(o.cands)
           p7 == SerializeInts(o.excluded)
           p8 == SerializeInt(o.current_impl)
           all == p1 \o p2 \o p3 \o p4 \o p5 \o p6 \o p7 \o p8
<1>1. KplexSerialize(o) = all
  BY DEF KplexSerialize, SerializeSubgraph
<1>2. Reads(D1, p1, <<sub>>)
  <2> DEFINE ptr == [j \in DOMAIN o.subgraph |-> SerializeInts(o.subgraph[j])]
             part == SerializeInts(sub)
  <2>1. o.subgraph = <<sub>>
    OBVIOUS
  <2>2. DOMAIN <<sub>> = 1..1 /\ <<sub>>[1] = sub
    OBVIOUS
  <2>3. ptr # <<>> /\ ptr[1] = part
    BY <2>1, <2>2
  <2>4. Reads(DeserializeInts, part, sub)
    BY IntsReads
  <2> HIDE DEF ptr, part
  <2>5. Reads(D1, SerializePtr(ptr), <<sub>>)
    BY <2>3, <2>4, PtrReads
  <2>6. QED  BY <2>5 DEF ptr
<1>3. Reads(D2, p2, <<adj>>)
  <2> DEFINE Rows(v) == SerializeVector([i \in DOMAIN v |-> SerializeInts(v[i])])
             ptr == [j \in DOMAIN o.nadj |-> Rows(o.nadj[j])]
             part == Rows(adj)
             Des == DeserializeVector(DeserializeInts)
  <2>1. o.nadj = <<adj>>
    OBVIOUS
  <2>2. DOMAIN <<adj>> = 1..1 /\ <<adj>>[1] = adj
    OBVIOUS
  <2>4. Reads(Des, part, adj)
    BY ListsRead
  <2>7. p2 = SerializePtr(ptr)
    OBVIOUS
  <2> HIDE DEF Rows, p2
  <2>3. ptr # <<>> /\ ptr[1] = part
    BY <2>1, <2>2
  <2> HIDE DEF ptr, part, Des
  <2>5. Reads(DeserializePtr(Des), SerializePtr(ptr), <<adj>>)
    BY <2>3, <2>4, PtrReads
  <2>6. QED  BY <2>5, <2>7 DEF Des
<1>4. Reads(DeserializeInts, p3, kplex)
  BY IntsReads
<1>5. Reads(D4, p4, counters)
  <2>1. Byte = [a \in Array |-> [out |-> Head(a) % 256, in |-> Tail(a)]]
    OBVIOUS
  <2>2. o.counters = counters
    OBVIOUS
  <2> HIDE DEF Byte
  <2>3. QED  BY <2>1, <2>2, BytesRead
<1>6. Reads(DeserializeInts, p5, noted)
  BY IntsReads
<1>7. Reads(DeserializeInts, p6, cands)
  BY IntsReads
<1>8. Reads(DeserializeInts, p7, excluded)
  BY IntsReads
<1>9. Reads(DeserializeInt, p8, 0)
  BY IntReads
<1> DEFINE D == KplexDeserialize(s)
           After1(in) == D1[in].in
           After2(in) == D2[After1(in)].in
           After3(in) == DeserializeInts[After2(in)].in
           After4(in) == D4[After3(in)].in
           After5(in) == DeserializeInts[After4(in)].in
           After6(in) == DeserializeInts[After5(in)].in
           After7(in) == DeserializeInts[After6(in)].in
<1>10. ASSUME NEW in \in Array
       PROVE  D[in] =
                [out |-> [subgraph |-> D1[in].out, nadj |-> D2[After1(in)].out,
                          kplex |-> DeserializeInts[After2(in)].out,
                          counters |-> D4[After3(in)].out,
                          non_neighs |-> DeserializeInts[After4(in)].out,
                          cands |-> DeserializeInts[After5(in)].out,
                          excluded |-> DeserializeInts[After6(in)].out,
                          current_impl |-> DeserializeInt[After7(in)].out],
                 in |-> DeserializeInt[After7(in)].in]
  BY DEF KplexDeserialize
<1> HIDE DEF p1, p2, p3, p4, p5, p6, p7, p8, D1, D2, D4, D, Byte, all
<1>11. /\ p1 \in Array /\ p2 \in Array /\ p3 \in Array /\ p4 \in Array
       /\ p5 \in Array /\ p6 \in Array /\ p7 \in Array /\ p8 \in Array
  BY <1>2, <1>3, <1>4, <1>5, <1>6, <1>7, <1>8, <1>9 DEF Reads
<1> DEFINE q2 == p1 \o p2
           q3 == q2 \o p3
           q4 == q3 \o p4
           q5 == q4 \o p5
           q6 == q5 \o p6
           q7 == q6 \o p7
<1>21. all = q7 \o p8
  BY DEF all
<1>22. q2 \in Array
  BY <1>11, ArrayAssociative DEF EitherOrder
<1>23. q3 \in Array
  BY <1>11, <1>22, ArrayAssociative DEF EitherOrder
<1>24. q4 \in Array
  BY <1>11, <1>23, ArrayAssociative DEF EitherOrder
<1>25. q5 \in Array
  BY <1>11, <1>24, ArrayAssociative DEF EitherOrder
<1>26. q6 \in Array
  BY <1>11, <1>25, ArrayAssociative DEF EitherOrder
<1>27. q7 \in Array
  BY <1>11, <1>26, ArrayAssociative DEF EitherOrder
<1> HIDE DEF q2, q3, q4, q5, q6, q7
<1>28. all \in Array
  BY <1>11, <1>21, <1>27, ArrayAssociative DEF EitherOrder
<1>13. ASSUME NEW rest \in Array PROVE D[all \o rest] = [out |-> o, in |-> rest]
  <2> DEFINE r8 == p8 \o rest
             r7 == p7 \o r8
             r6 == p6 \o r7
             r5 == p5 \o r6
             r4 == p4 \o r5
             r3 == p3 \o r4
             r2 == p2 \o r3
             r1 == p1 \o r2
  <2>8. EitherOrder(q7, p8, rest)
    BY <1>11, <1>27, ArrayAssociative
  <2>18. r8 \in Array /\ all \o rest = q7 \o r8
    BY <2>8, <1>21 DEF EitherOrder
  <2> HIDE DEF r8
  <2>7. EitherOrder(q6, p7, r8)
    BY <1>11, <1>26, <2>18, ArrayAssociative
  <2>17. r7 \in Array /\ q7 \o r8 = q6 \o r7
    BY <2>7 DEF EitherOrder, q7
  <2> HIDE DEF r7
  <2>6. EitherOrder(q5, p6, r7)
    BY <1>11, <1>25, <2>17, ArrayAssociative
  <2>16. r6 \in Array /\ q6 \o r7 = q5 \o r6
    BY <2>6 DEF EitherOrder, q6
  <2> HIDE DEF r6
  <2>5. EitherOrder(q4, p5, r6)
    BY <1>11, <1>24, <2>16, ArrayAssociative
  <2>15. r5 \in Array /\ q5 \o r6 = q4 \o r5
    BY <2>5 DEF EitherOrder, q5
  <2> HIDE DEF r5
  <2>4. EitherOrder(q3, p4, r5)
    BY <1>11, <1>23, <2>15, ArrayAssociative
  <2>14. r4 \in Array /\ q4 \o r5 = q3 \o r4
    BY <2>4 DEF EitherOrder, q4
  <2> HIDE DEF r4
  <2>3. EitherOrder(q2, p3, r4)
    BY <1>11, <1>22, <2>14, ArrayAssociative
  <2>13. r3 \in Array /\ q3 \o r4 = q2 \o r3
    BY <2>3 DEF EitherOrder, q3
  <2> HIDE DEF r3
  <2>2. EitherOrder(p1, p2, r3)
    BY <1>11, <2>13, ArrayAssociative
  <2>12. r2 \in Array /\ q2 \o r3 = p1 \o r2
    BY <2>2 DEF EitherOrder, q2
  <2> HIDE DEF r2
  <2>1. r1 \in Array
    BY <1>11, <2>12, ArrayAssociative DEF EitherOrder
  <2> HIDE DEF r1
  <2>19. all \o rest = r1
    BY <2>12, <2>13, <2>14, <2>15, <2>16, <2>17, <2>18 DEF r1
  <2>21. D1[r1] = [out |-> <<sub>>, in |-> r2]
    <3>1. D1[p1 \o r2] = [out |-> <<sub>>, in |-> r2]
      BY <1>2, <2>12 DEF Reads
    <3>2. QED  BY <3>1 DEF r1
  <2>22. D2[r2] = [out |-> <<adj>>, in |-> r3]
    <3>1. D2[p2 \o r3] = [out |-> <<adj>>, in |-> r3]
      BY <1>3, <2>13 DEF Reads
    <3>2. QED  BY <3>1 DEF r2
  <2>23. DeserializeInts[r3] = [out |-> kplex, in |-> r4]
    <3>1. DeserializeInts[p3 \o r4] = [out |-> kplex, in |-> r4]
      BY <1>4, <2>14 DEF Reads
    <3>2. QED  BY <3>1 DEF r3
  <2>24. D4[r4] = [out |-> counters, in |-> r5]
    <3>1. D4[p4 \o r5] = [out |-> counters, in |-> r5]
      BY <1>5, <2>15 DEF Reads
    <3>2. QED  BY <3>1 DEF r4
  <2>25. DeserializeInts[r5] = [out |-> noted, in |-> r6]
    <3>1. DeserializeInts[p5 \o r6] = [out |-> noted, in |-> r6]
      BY <1>6, <2>16 DEF Reads
    <3>2. QED  BY <3>1 DEF r5
  <2>26. DeserializeInts[r6] = [out |-> cands, in |-> r7]
    <3>1. DeserializeInts[p6 \o r7] = [out |-> cands, in |-> r7]
      BY <1>7, <2>17 DEF Reads
    <3>2. QED  BY <3>1 DEF r6
  <2>27. DeserializeInts[r7] = [out |-> excluded, in |-> r8]
    <3>1. DeserializeInts[p7 \o r8] = [out |-> excluded, in |-> r8]
      BY <1>8, <2>18 DEF Reads
    <3>2. QED  BY <3>1 DEF r7
  <2>28. DeserializeInt[r8] = [out |-> 0, in |-> rest]
    <3>1. DeserializeInt[p8 \o rest] = [out |-> 0, in |-> rest]
      BY <1>9 DEF Reads
    <3>2. QED  BY <3>1 DEF r8
  <2>31. D1[r1].out = <<sub>> /\ D1[r1].in = r2
    BY <2>21
  <2>32. D2[r2].out = <<adj>> /\ D2[r2].in = r3
    BY <2>22
  <2>33. DeserializeInts[r3].out = kplex /\ DeserializeInts[r3].in = r4
    BY <2>23
  <2>34. D4[r4].out = counters /\ D4[r4].in = r5
    BY <2>24
  <2>35. DeserializeInts[r5].out = noted /\ DeserializeInts[r5].in = r6
    BY <2>25
  <2>36. DeserializeInts[r6].out = cands /\ DeserializeInts[r6].in = r7
    BY <2>26
  <2>37. DeserializeInts[r7].out = excluded /\ DeserializeInts[r7].in = r8
    BY <2>27
  <2>38. DeserializeInt[r8].out = 0 /\ DeserializeInt[r8].in = rest
    BY <2>28
  <2>40. /\ After1(r1) = r2 /\ After2(r1) = r3 /\ After3(r1) = r4 /\ After4(r1) = r5
         /\ After5(r1) = r6 /\ After6(r1) = r7 /\ After7(r1) = r8
    BY <2>31, <2>32, <2>33, <2>34, <2>35, <2>36, <2>37
  <2> HIDE DEF After1, After2, After3, After4, After5, After6, After7
  <2>41. D[r1] =
           [out |-> [subgraph |-> D1[r1].out, nadj |-> D2[r2].out,
                     kplex |-> DeserializeInts[r3].out, counters |-> D4[r4].out,
                     non_neighs |-> DeserializeInts[r5].out,
                     cands |-> DeserializeInts[r6].out,
                     excluded |-> DeserializeInts[r7].out,
                     current_impl |-> DeserializeInt[r8].out],
            in |-> DeserializeInt[r8].in]
    BY <1>10, <2>1, <2>40
  <2>42. D[r1] = [out |-> o, in |-> rest]
    BY <2>41, <2>31, <2>32, <2>33, <2>34, <2>35, <2>36, <2>37, <2>38
  <2>43. QED  BY <2>19, <2>42
<1>14. QED  BY <1>1, <1>13, <1>28 DEF Reads, D

LEMMA KplexNodeReads ==
  ASSUME NEW s, KplexSystem(s), NEW x \in KplexTypes(s)
  PROVE  Reads(KplexDeserialize(s), KplexSerialize(KplexObject(s, x)), KplexObject(s, x))
<1> DEFINE adj == [e \in DOMAIN x.sub |-> nadj(s, x.sub, e)]
           noted == FlattenSeq(x.non_neighs)
           o == KplexObject(s, x)
<1>1. /\ x.sub \in Seq(DOMAIN s.g) /\ x.kplex \in Seq(Nat) /\ x.counters \in Seq(0..255)
      /\ x.non_neighs \in Seq(Seq(Nat)) /\ x.cands \in Seq(Nat) /\ x.excluded \in Seq(Nat)
      /\ DOMAIN x.sub = 1..Len(x.sub) /\ Len(x.sub) \in Nat
  BY TypeFacts
<1>2. s.mod = 256 /\ DOMAIN s.g \subseteq Nat
  BY DEF KplexSystem, SimpleGraph
<1>3. x.sub \in Seq(Nat)
  BY <1>1, <1>2, SeqMonotonic
<1>4. adj \in Seq(Seq(Nat))
  <2> DEFINE all == [m \in DOMAIN x.sub |-> m]
             Row(e) == {m \in DOMAIN x.sub : ~ are_neighs(s.g, x.sub[e], x.sub[m])}
             l == Len(x.sub)
  <2>1. all \in Seq(Nat)
    <3>1. all = [m \in 1..l |-> m] /\ l \in Nat
      BY <1>1
    <3> HIDE DEF all, l
    <3>2. all \in [1..l -> Nat]
      BY <3>1
    <3>3. ListOf(all, Nat, l)
      BY <3>1, <3>2, FunctionIsSeq
    <3>4. QED  BY <3>3 DEF ListOf
  <2>2. ASSUME NEW e \in DOMAIN x.sub PROVE nadj(s, x.sub, e) \in Seq(Nat)
    <3>1. nadj(s, x.sub, e) = Kept(all, Row(e))
      BY DEF nadj
    <3> HIDE DEF all, Row
    <3>2. Kept(all, Row(e)) \in Seq(Nat)
      BY <2>1, KeptFacts
    <3>3. QED  BY <3>1, <3>2
  <2> DEFINE X == Seq(Nat)
  <2>3. l \in Nat /\ DOMAIN x.sub = 1..l
    BY <1>1
  <2> HIDE DEF l, X
  <2>4. adj \in [1..l -> X]
    BY <2>2, <2>3 DEF X
  <2> HIDE DEF adj
  <2>5. ListOf(adj, X, l)
    BY <2>3, <2>4, FunctionIsSeq
  <2>6. QED  BY <2>5 DEF ListOf, X
<1>5. noted \in Seq(Nat)
  <2>1. x.non_neighs \in Seq(Array)
    BY <1>1 DEF Array
  <2>2. noted \in Array
    BY <2>1, FlattenArrays
  <2>3. QED  BY <2>2 DEF Array
<1>6. o = [subgraph |-> <<x.sub>>, nadj |-> <<adj>>, kplex |-> x.kplex,
           counters |-> x.counters, non_neighs |-> noted, cands |-> x.cands,
           excluded |-> x.excluded, current_impl |-> 0]
  BY DEF KplexObject
<1> DEFINE sub == x.sub
           kplex == x.kplex
           counters == x.counters
           cands == x.cands
           excluded == x.excluded
<1>7. /\ sub \in Seq(Nat) /\ kplex \in Seq(Nat) /\ counters \in Seq(0..255)
      /\ cands \in Seq(Nat) /\ excluded \in Seq(Nat)
      /\ o = [subgraph |-> <<sub>>, nadj |-> <<adj>>, kplex |-> kplex,
              counters |-> counters, non_neighs |-> noted, cands |-> cands,
              excluded |-> excluded, current_impl |-> 0]
  BY <1>1, <1>3, <1>6
<1> HIDE DEF adj, noted, o, sub, kplex, counters, cands, excluded
<1>8. Reads(KplexDeserialize(s), KplexSerialize(o), o)
  BY <1>2, <1>4, <1>5, <1>7, KplexArrayReads
<1>9. QED  BY <1>8 DEF o

LEMMA CliqueNodeReads ==
  ASSUME NEW g, SimpleGraph(g), NEW x \in CliqueNode(g), NEW o, o = <<x.clique, x.cand>>
  PROVE  Reads(DeserializePair(DeserializeInts, DeserializeInt),
               SerializePair(SerializeInts(o[1]), SerializeInt(o[2])), o)
<1> DEFINE clique == x.clique
           cand == x.cand
<1>1. clique \in Seq(DOMAIN g) /\ cand \in DOMAIN g
  BY DEF CliqueNode
<1>2. DOMAIN g \subseteq Nat
  BY DEF SimpleGraph
<1>3. clique \in Seq(Nat) /\ cand \in Nat
  BY <1>1, <1>2, SeqMonotonic
<1>4. o = <<clique, cand>> /\ o[1] = clique /\ o[2] = cand
  OBVIOUS
<1> HIDE DEF clique, cand
<1>5. /\ Reads(DeserializeInts, SerializeInts(clique), clique)
      /\ Reads(DeserializeInt, SerializeInt(cand), cand)
  BY <1>3, IntsReads, IntReads
<1>6. Reads(DeserializePair(DeserializeInts, DeserializeInt),
            SerializePair(SerializeInts(clique), SerializeInt(cand)), <<clique, cand>>)
  BY <1>5, PairReads
<1>7. QED  BY <1>4, <1>6

\* All elements are read and nothing is left of the array.
ReadWhole(Des, parts, v) ==
  DeserializeVector(Des)[SerializeVector(parts)] = [out |-> v, in |-> <<>>]

LEMMA AllRead ==
  ASSUME NEW T, NEW Des, NEW v, v \in Seq(T), NEW part,
         \A j \in DOMAIN v : Reads(Des, part[j], v[j]),
         NEW p, p = [j \in DOMAIN v |-> part[j]]
  PROVE  ReadWhole(Des, p, v)
<1> DEFINE array == SerializeVector(p)
<1>1. Reads(DeserializeVector(Des), array, v)
  BY PartsRead
<1> HIDE DEF array
<1>2. <<>> \in Array /\ array \in Seq(Nat)
  BY <1>1 DEF Array, Reads
<1>3. DeserializeVector(Des)[array \o <<>>] = [out |-> v, in |-> <<>>]
  BY <1>1, <1>2 DEF Reads
<1>4. array \o <<>> = array
  BY <1>2, ConcatEmptySeq
<1>5. QED  BY <1>3, <1>4 DEF array, ReadWhole

-----------------------------------------------------------------------
(* The pivot *)

\* The turns of the loop that looks for a pivot.
LEMMA PivotFacts ==
  ASSUME NEW s, KplexSystem(s), NEW x \in KplexTypes(s), x.cands # <<>>
  PROVE  Pivot(s, x) \in ToSet(x.cands) \cup ToSet(x.excluded)
<1> DEFINE rest == x.cands \o x.excluded
           n == Len(rest)
           Q == ToSet(x.cands) \cup ToSet(x.excluded)
           X == [u : Q, not_cuts : Nat]
           cuts(m) == Len(NotCuts(s, x, rest[m]))
           r0 == [u |-> x.cands[1], not_cuts |-> Len(x.cands)]
           Better(m, r) == IF cuts(m) < r.not_cuts
                           THEN [u |-> rest[m], not_cuts |-> cuts(m)] ELSE r
           G == [m \in 1..n |-> [r \in X |-> Better(m, r)]]
           Loop(f) == f = [m \in 0..Len(rest) |->
                             IF m = 0 THEN [u |-> x.cands[1], not_cuts |-> Len(x.cands)]
                             ELSE LET c == Len(NotCuts(s, x, rest[m]))
                                  IN  IF c < f[m - 1].not_cuts
                                      THEN [u |-> rest[m], not_cuts |-> c]
                                      ELSE f[m - 1]]
           F == CHOOSE f : Loop(f)
<1>1. x.cands \in Seq(Nat) /\ x.excluded \in Seq(Nat)
  BY DEF KplexTypes
<1>2. /\ rest \in Seq(Nat) /\ n \in Nat /\ \A m \in 1..n : rest[m] \in Q
      /\ Len(x.cands) \in Nat /\ x.cands[1] \in Q
  <2> DEFINE a == x.cands
             b == x.excluded
  <2>1. a \in Seq(Nat) /\ b \in Seq(Nat) /\ a # <<>>
    BY <1>1
  <2> HIDE DEF a, b
  <2>2. a \o b \in Seq(Nat) /\ ToSet(a \o b) = ToSet(a) \cup ToSet(b)
    BY <2>1, ConcatFacts
  <2>3. Len(a) \in Nat /\ 1 \in 1..Len(a) /\ a[1] \in ToSet(a)
    BY <2>1, SeqFacts
  <2>4. Len(a \o b) \in Nat /\ \A m \in 1..Len(a \o b) : (a \o b)[m] \in ToSet(a \o b)
    BY <2>2, SeqFacts
  <2>5. QED  BY <2>2, <2>3, <2>4 DEF a, b
<1>3. Pivot(s, x) = F[Len(rest)].u
  BY DEF Pivot
<1> HIDE DEF rest
<1>4. \A m \in 1..n : cuts(m) \in Nat
  <2>1. ASSUME NEW u PROVE Len(NotCuts(s, x, u)) \in Nat
    <3>1. PICK S : NotCuts(s, x, u) = Kept(x.cands, S)
      BY DEF NotCuts
    <3>2. Kept(x.cands, S) \in Seq(Nat)
      BY <1>1, KeptFacts
    <3>3. QED  BY <3>1, <3>2
  <2>2. QED  BY <2>1
<1> HIDE DEF cuts, Q
<1>5. G \in [1..n -> [X -> X]]
  <2>1. ASSUME NEW m \in 1..n, NEW r \in X PROVE Better(m, r) \in X
    BY <1>2, <1>4
  <2> HIDE DEF X, Better
  <2>2. QED  BY <2>1
<1>6. PICK f : LoopOf(f, n, X, r0, G)
  <2>1. r0 \in X
    BY <1>2
  <2> HIDE DEF G, X, n, r0
  <2>2. QED  BY <1>2, <1>5, <2>1, LoopExists
<1> HIDE DEF Better, X, r0
<1>7. f \in [0..n -> X] /\ f[0] = r0 /\ \A m \in 1..n : f[m] = G[m][f[m - 1]]
  BY <1>6 DEF LoopOf
<1>8. ASSUME NEW m \in 1..n PROVE f[m] = Better(m, f[m - 1])
  <2>1. m - 1 \in 0..n
    BY <1>2, <1>8
  <2>2. f[m - 1] \in X
    BY <1>7, <2>1
  <2>3. G[m] = [r \in X |-> Better(m, r)]
    BY <1>8
  <2>4. QED  BY <1>7, <1>8, <2>2, <2>3
<1> DEFINE Lop(h) == h = [m \in 0..n |-> IF m = 0 THEN r0 ELSE Better(m, h[m - 1])]
<1>9. \A h : Loop(h) <=> Lop(h)
  BY DEF Better, cuts, r0
<1> HIDE DEF Loop
<1>10. Lop(f)
  <2>1. ASSUME NEW m \in 0..n
        PROVE  f[m] = IF m = 0 THEN r0 ELSE Better(m, f[m - 1])
    <3>1. m = 0 \/ m \in 1..n
      BY <1>2, <2>1
    <3>2. m \in 1..n => m # 0
      BY <1>2
    <3>3. QED  BY <1>7, <1>8, <3>1, <3>2
  <2>2. QED  BY <1>7, <2>1
<1>11. Loop(F)
  <2>1. Loop(f)
    BY <1>9, <1>10
  <2> HIDE DEF Lop
  <2>2. QED  BY <2>1
<1> HIDE DEF F
<1>12. Lop(F)
  BY <1>9, <1>11
<1> DEFINE P == {m \in 0..n : F[m] \in X}
<1>13. 0 \in P
  <2>1. F[0] = r0 /\ 0 \in 0..n
    BY <1>2, <1>12
  <2>2. r0 \in X
    BY <1>7, <2>1
  <2>3. QED  BY <2>1, <2>2
<1>14. ASSUME NEW m \in 0..(n - 1), m \in P PROVE m + 1 \in P
  <2>1. m + 1 \in 1..n /\ m + 1 \in 0..n /\ (m + 1) - 1 = m /\ m + 1 # 0
    BY <1>2, <1>14
  <2>2. F[m + 1] = Better(m + 1, F[m])
    BY <1>12, <2>1
  <2>3. F[m] \in X
    BY <1>14
  <2>4. G[m + 1][F[m]] = Better(m + 1, F[m])
    BY <2>1, <2>3
  <2>5. G[m + 1][F[m]] \in X
    <3> HIDE DEF G
    <3>1. QED  BY <1>5, <2>1, <2>3
  <2>6. QED  BY <2>1, <2>2, <2>4, <2>5
<1>15. n \in P
  <2> HIDE DEF P
  <2>1. \A m \in 0..n : m \in P
    BY <1>2, <1>13, <1>14, Induct
  <2>2. QED  BY <1>2, <2>1
<1>16. F[n].u \in Q
  BY <1>15 DEF X
<1>17. QED  BY <1>3, <1>16 DEF Q

-----------------------------------------------------------------------
(* The k-plexes below a node *)

\* Diameter 2.
Wide(s, sub, S) ==
  \A a, b \in S : \/ a = b
                  \/ ~ Apart(s, sub, a, b)
                  \/ \E c \in S : ~ Apart(s, sub, a, c) /\ ~ Apart(s, sub, c, b)

\* A node whose counters count, and whose kplex has the first vertex of the
\* subgraph and each vertex once.
Placed(s, x) ==
  /\ KplexSound(s, x) /\ Len(x.sub) < 256
  /\ IsInjective(x.kplex) /\ x.kplex # <<>> /\ x.kplex[1] = 1

\* The vertices of S are in the kplex or can still be added.
Holds(x, S) ==
  ToSet(x.kplex) \subseteq S /\ S \subseteq ToSet(x.kplex) \cup ToSet(x.cands)

\* Nothing can be added to the k-plex S.
Sought(s, sub, S) ==
  /\ S \subseteq DOMAIN sub /\ IsPlex(s, sub, S) /\ Wide(s, sub, S)
  /\ CanJoin(s, sub, S) = {} /\ Cardinality(S) >= s.q

\* The parts of a node as sets.
NodeView(s, x, K, C, E) ==
  /\ K = ToSet(x.kplex) /\ C = ToSet(x.cands) /\ E = ToSet(x.excluded)
  /\ x.sub \in Seq(DOMAIN s.g) /\ IsFiniteSet(DOMAIN x.sub)
  /\ K \subseteq DOMAIN x.sub /\ 1 \in K /\ IsFiniteSet(K)
  /\ Cardinality(K) = Len(x.kplex) /\ Len(x.kplex) \in Nat
  /\ IsPlex(s, x.sub, K) /\ C \cap E = {} /\ C \cup E = CanJoin(s, x.sub, K)
  /\ C \cup E \subseteq DOMAIN x.sub \ K

LEMMA ViewFacts ==
  ASSUME NEW s, KplexSystem(s), NEW x, Placed(s, x)
  PROVE  NodeView(s, x, ToSet(x.kplex), ToSet(x.cands), ToSet(x.excluded))
<1>1. /\ KplexSound(s, x) /\ x \in KplexTypes(s) /\ IsInjective(x.kplex)
      /\ x.kplex # <<>> /\ x.kplex[1] = 1
  BY DEF Placed, KplexSound
<1>2. x.sub \in Seq(DOMAIN s.g) /\ IsFiniteSet(DOMAIN x.sub) /\ IsFiniteSet(ToSet(x.kplex))
      /\ ToSet(x.kplex) \subseteq DOMAIN x.sub
  BY <1>1, SubTypes
<1>3. /\ Cardinality(ToSet(x.kplex)) = Len(x.kplex) /\ Len(x.kplex) \in Nat
      /\ 1 \in ToSet(x.kplex)
  <2> DEFINE p == x.kplex
  <2>1. p \in Seq(Nat) /\ IsInjective(p) /\ p # <<>> /\ p[1] = 1
    BY <1>1 DEF KplexTypes
  <2> HIDE DEF p
  <2>2. Cardinality(ToSet(p)) = Len(p)
    BY <2>1, CountOnce
  <2>3. Len(p) \in Nat /\ 1 \in 1..Len(p) /\ p[1] \in ToSet(p)
    BY <2>1, SeqFacts
  <2>4. QED  BY <2>1, <2>2, <2>3 DEF p
<1>4. /\ IsPlex(s, x.sub, ToSet(x.kplex)) /\ ToSet(x.cands) \cap ToSet(x.excluded) = {}
      /\ ToSet(x.cands) \cup ToSet(x.excluded) = CanJoin(s, x.sub, ToSet(x.kplex))
  BY <1>1 DEF KplexSound
<1>5. CanJoin(s, x.sub, ToSet(x.kplex)) \subseteq DOMAIN x.sub \ ToSet(x.kplex)
  BY DEF CanJoin
<1>6. ToSet(x.cands) \cup ToSet(x.excluded) \subseteq DOMAIN x.sub \ ToSet(x.kplex)
  BY <1>4, <1>5
<1>7. QED  BY <1>2, <1>3, <1>4, <1>6 DEF NodeView

\* The counter of a vertex that can be added.
LEMMA CounterFacts ==
  ASSUME NEW s, KplexSystem(s), NEW x, Placed(s, x), NEW e \in DOMAIN x.sub
  PROVE  /\ x.counters[e] = Cardinality(Away(s, x.sub, ToSet(x.kplex), e))
         /\ x.counters[e] \in Nat
         /\ IsFiniteSet(Away(s, x.sub, ToSet(x.kplex), e))
         /\ x.counters[e] <= s.k =>
              Names(x.non_neighs[e], x.counters[e]) = Away(s, x.sub, ToSet(x.kplex), e)
<1>1. Counted(s, x) /\ x \in KplexTypes(s)
  BY DEF Placed, KplexSound
<1>2. IsFiniteSet(ToSet(x.kplex))
  BY <1>1, SubTypes
<1>3. Away(s, x.sub, ToSet(x.kplex), e) \subseteq ToSet(x.kplex)
  BY DEF Away
<1>4. IsFiniteSet(Away(s, x.sub, ToSet(x.kplex), e))
  BY <1>2, <1>3, FS_Subset
<1>5. Cardinality(Away(s, x.sub, ToSet(x.kplex), e)) \in Nat
  BY <1>4, FS_CardinalityType
<1>6. QED  BY <1>1, <1>4, <1>5 DEF Counted

\* IsMaximal in terms of sets.
LEMMA MaximalMeans ==
  ASSUME NEW s, KplexSystem(s), NEW x, Placed(s, x), NEW K, NEW C, NEW E,
         NodeView(s, x, K, C, E)
  PROVE  /\ Cardinality(K) + 1 > s.k => (IsMaximal(s, x) <=> C \cup E = {})
         /\ ~ (Cardinality(K) + 1 > s.k) =>
              (IsMaximal(s, x) <=> \A e \in C \cup E : x.counters[e] = Cardinality(K))
<1> DEFINE a == x.cands
           b == x.excluded
           rest == a \o b
<1>1. a \in Seq(Nat) /\ b \in Seq(Nat)
  BY DEF Placed, KplexSound, KplexTypes
<1>2. ToSet(rest) = C \cup E /\ rest \in Seq(Nat)
  <2>1. C = ToSet(a) /\ E = ToSet(b)
    BY DEF NodeView
  <2> HIDE DEF a, b
  <2>2. QED  BY <1>1, <2>1, ConcatFacts
<1>3. Cardinality(K) = Len(x.kplex)
  BY DEF NodeView
<1>4. IsMaximal(s, x) <=> IF Len(x.kplex) + 1 > s.k THEN rest = <<>>
                          ELSE \A m \in DOMAIN rest : x.counters[rest[m]] = Len(x.kplex)
  BY DEF IsMaximal
<1> HIDE DEF rest
<1>5. rest = <<>> <=> C \cup E = {}
  BY <1>2, SeqFacts
<1>6. ToSet(rest) = {rest[m] : m \in DOMAIN rest}
  BY DEF ToSet
<1>7. QED  BY <1>2, <1>3, <1>4, <1>5, <1>6

\* A vertex that can be added and is in a set of diameter 2 has a neighbour in
\* the kplex, or another vertex of the set has.
LEMMA NeighbourInKplex ==
  ASSUME NEW s, KplexSystem(s), NEW x, Placed(s, x), NEW K, NEW C, NEW E,
         NodeView(s, x, K, C, E), NEW S, K \subseteq S, S \subseteq DOMAIN x.sub,
         IsPlex(s, x.sub, S), Wide(s, x.sub, S), S # K
  PROVE  /\ S \ K \subseteq C \cup E
         /\ \E e \in S \ K : x.counters[e] # Cardinality(K)
<1>1. /\ x.sub \in Seq(DOMAIN s.g) /\ IsFiniteSet(DOMAIN x.sub) /\ 1 \in K /\ IsFiniteSet(K)
      /\ C \cup E = CanJoin(s, x.sub, K) /\ K = ToSet(x.kplex)
  BY DEF NodeView
<1>2. ASSUME NEW e \in S \ K PROVE e \in C \cup E
  <2>1. IsFiniteSet(S) /\ K \cup {e} \in SUBSET S
    BY <1>1, <1>2, FS_Subset
  <2>2. IsPlex(s, x.sub, K \cup {e})
    BY <2>1, PlexPart
  <2>3. QED  BY <1>1, <1>2, <2>2 DEF CanJoin
<1>3. \E e \in S \ K : x.counters[e] # Cardinality(K)
  <2>1. SUFFICES ASSUME \A e \in S \ K : x.counters[e] = Cardinality(K) PROVE FALSE
    OBVIOUS
  <2>2. ASSUME NEW e \in S \ K PROVE \A c \in K : Apart(s, x.sub, c, e)
    <3> DEFINE A == Away(s, x.sub, K, e)
    <3>1. Cardinality(A) = Cardinality(K)
      BY <1>1, <2>1, <2>2, CounterFacts
    <3>2. A \subseteq K
      BY DEF Away
    <3>3. A = K
      <4> HIDE DEF A
      <4>1. QED  BY <1>1, <3>1, <3>2, FS_Subset
    <3>4. \A c \in K : Apart(s, x.sub, e, c)
      BY <3>3 DEF Away
    <3>5. \A c \in K : c \in DOMAIN x.sub /\ e \in DOMAIN x.sub
      BY <2>2
    <3>6. QED  BY <1>1, <3>4, <3>5, ApartFacts
  <2>3. PICK e \in S \ K : TRUE
    OBVIOUS
  <2>4. PICK c \in S : ~ Apart(s, x.sub, 1, c) /\ ~ Apart(s, x.sub, c, e)
    <3>1. 1 # e /\ Apart(s, x.sub, 1, e) /\ 1 \in S /\ e \in S
      BY <1>1, <2>2, <2>3
    <3>2. QED  BY <3>1 DEF Wide
  <2>5. c \notin K
    BY <2>2, <2>3, <2>4
  <2>6. Apart(s, x.sub, 1, c)
    BY <1>1, <2>2, <2>5
  <2>7. QED  BY <2>4, <2>6
<1>4. QED  BY <1>2, <1>3

\* The recursion stops at a k-plex that has no k-plex of diameter 2 below it.
LEMMA MaximalFull ==
  ASSUME NEW s, KplexSystem(s), NEW x, Placed(s, x), NEW K, NEW C, NEW E,
         NodeView(s, x, K, C, E), NEW S, K \subseteq S, S \subseteq DOMAIN x.sub,
         IsPlex(s, x.sub, S), Wide(s, x.sub, S), IsMaximal(s, x)
  PROVE  S = K
<1>1. SUFFICES ASSUME S # K PROVE FALSE
  OBVIOUS
<1>2. PICK e \in S \ K : e \in C \cup E /\ x.counters[e] # Cardinality(K)
  BY <1>1, NeighbourInKplex
<1>3. QED  BY <1>2, MaximalMeans

\* ... and at no other.
LEMMA FullMaximal ==
  ASSUME NEW s, KplexSystem(s), NEW x, Placed(s, x), NEW K, NEW C, NEW E,
         NodeView(s, x, K, C, E), CanJoin(s, x.sub, K) = {}
  PROVE  IsMaximal(s, x)
<1>1. C \cup E = {}
  BY DEF NodeView
<1>2. QED  BY <1>1, MaximalMeans

\* A vertex of S that is not yet in the kplex can be added.
LEMMA PartJoins ==
  ASSUME NEW s, KplexSystem(s), NEW sub, NEW S, IsFiniteSet(S), S \subseteq DOMAIN sub,
         IsPlex(s, sub, S), NEW L \in SUBSET S
  PROVE  S \ L \subseteq CanJoin(s, sub, L)
<1>1. ASSUME NEW e \in S \ L PROVE e \in CanJoin(s, sub, L)
  <2>1. L \cup {e} \in SUBSET S
    BY <1>1
  <2>2. IsPlex(s, sub, L \cup {e})
    BY <2>1, PlexPart
  <2>3. QED  BY <1>1, <2>2 DEF CanJoin
<1>2. QED  BY <1>1

\* A child keeps the k-plexes that have what it adds and nothing of what it
\* excludes, and no others.
LEMMA KidHolds ==
  ASSUME NEW s, KplexSystem(s), NEW x, KplexSound(s, x), NEW y, Grown(s, x, y),
         ToSet(y.kplex) \subseteq ToSet(x.kplex) \cup ToSet(x.cands),
         NEW add \in Seq(Nat), ToSet(add) \cap ToSet(y.kplex) = {},
         NEW z, z = UpdateCandAndExcl(s, y, add), NEW S, S \subseteq DOMAIN x.sub
  PROVE  /\ Holds(z, S) => Holds(x, S) /\ ToSet(y.kplex) \subseteq S /\ S \cap ToSet(add) = {}
         /\ /\ Holds(x, S) /\ IsPlex(s, x.sub, S) /\ ToSet(y.kplex) \subseteq S
            /\ S \cap ToSet(add) = {}
            => Holds(z, S)
<1> DEFINE K == ToSet(x.kplex)
           C == ToSet(x.cands)
           L == ToSet(y.kplex)
           D == ToSet(add)
           A == Addable(s, y)
<1>1. y \in KplexTypes(s) /\ Counted(s, y) /\ IsPlex(s, y.sub, L) /\ K \subseteq L
      /\ y.sub = x.sub /\ y.cands = x.cands
  BY DEF Grown
<1>2. UpdateMakes(s, y, add, z)
  BY <1>1, UpdateFields
<1>3. ToSet(z.kplex) = L /\ ToSet(z.cands) = (C \cap A) \ D
  BY <1>1, <1>2 DEF UpdateMakes
<1>4. A = CanJoin(s, x.sub, L)
  BY <1>1, CanAddFacts
<1>5. IsFiniteSet(S)
  <2>1. IsFiniteSet(DOMAIN x.sub)
    BY SubTypes DEF KplexSound
  <2>2. QED  BY <2>1, FS_Subset
<1>6. /\ Holds(z, S) <=> L \subseteq S /\ S \subseteq L \cup ((C \cap A) \ D)
      /\ Holds(x, S) <=> K \subseteq S /\ S \subseteq K \cup C
  BY <1>3 DEF Holds
<1>7. L \subseteq K \cup C /\ D \cap L = {}
  OBVIOUS
<1>8. ASSUME IsPlex(s, x.sub, S), L \subseteq S PROVE S \ L \subseteq A
  <2> HIDE DEF L, A
  <2>1. QED  BY <1>4, <1>5, <1>8, PartJoins
<1> HIDE DEF K, C, L, D, A
<1>9. Holds(z, S) => Holds(x, S) /\ L \subseteq S /\ S \cap D = {}
  BY <1>1, <1>6, <1>7
<1>10. Holds(x, S) /\ IsPlex(s, x.sub, S) /\ L \subseteq S /\ S \cap D = {} => Holds(z, S)
  BY <1>1, <1>6, <1>8
<1>11. QED  BY <1>9, <1>10 DEF L, D

\* What is adjacent to the kplex and to the candidates can be added to each
\* k-plex below the node.
LEMMA UniversalJoins ==
  ASSUME NEW s, KplexSystem(s), NEW x, Placed(s, x), NEW S, S \subseteq DOMAIN x.sub,
         IsPlex(s, x.sub, S), Holds(x, S), NEW u \in DOMAIN x.sub \ S, x.counters[u] = 0,
         CandsAway(s, x, u) \subseteq {u}
  PROVE  u \in CanJoin(s, x.sub, S)
<1>1. NodeView(s, x, ToSet(x.kplex), ToSet(x.cands), ToSet(x.excluded))
  BY ViewFacts
<1>2. x.sub \in Seq(DOMAIN s.g) /\ IsFiniteSet(DOMAIN x.sub)
  BY <1>1 DEF NodeView
<1>3. IsFiniteSet(S)
  BY <1>2, FS_Subset
<1>4. Away(s, x.sub, ToSet(x.kplex), u) = {}
  <2>1. /\ IsFiniteSet(Away(s, x.sub, ToSet(x.kplex), u))
        /\ Cardinality(Away(s, x.sub, ToSet(x.kplex), u)) = 0
    BY CounterFacts
  <2>2. QED  BY <2>1, FS_EmptySet
<1>5. ASSUME NEW b \in S PROVE ~ Apart(s, x.sub, u, b)
  <2>1. CASE b \in ToSet(x.kplex)
    BY <1>4, <2>1 DEF Away
  <2>2. CASE b \in ToSet(x.cands)
    <3>1. b # u
      BY <1>5
    <3>2. b \notin CandsAway(s, x, u)
      BY <3>1
    <3>3. QED  BY <2>2, <3>2 DEF CandsAway, Apart
  <2>3. QED  BY <1>5, <2>1, <2>2 DEF Holds
<1>6. QED  BY <1>2, <1>3, <1>5, FreeJoins

\* None of the tests that give up a node gives up a k-plex that is sought.
LEMMA NotGivenUp ==
  ASSUME NEW s, KplexSystem(s), NEW x, Placed(s, x), NEW S, Sought(s, x.sub, S), Holds(x, S)
  PROVE  ~ CanPrune(s, x) /\ ~ HasUniversalInExcl(s, x)
<1> DEFINE K == ToSet(x.kplex)
           C == ToSet(x.cands)
           E == ToSet(x.excluded)
<1>1. NodeView(s, x, K, C, E)
  BY ViewFacts
<1>2. /\ S \subseteq DOMAIN x.sub /\ IsPlex(s, x.sub, S) /\ CanJoin(s, x.sub, S) = {}
      /\ Cardinality(S) >= s.q
  BY DEF Sought
<1>3. /\ Cardinality(K) = Len(x.kplex) /\ Len(x.kplex) \in Nat /\ IsFiniteSet(K)
      /\ C \cap E = {} /\ C \cup E \subseteq DOMAIN x.sub \ K
  BY <1>1 DEF NodeView
<1>4. ~ CanPrune(s, x)
  <2>1. /\ IsFiniteSet(C) /\ Cardinality(C) = Len(x.cands) /\ Len(x.cands) \in Nat
    <3> DEFINE a == x.cands
    <3>1. a \in Seq(Nat) /\ IsInjective(a)
      BY DEF Placed, KplexSound, KplexTypes
    <3> HIDE DEF a
    <3>2. Cardinality(ToSet(a)) = Len(a) /\ Len(a) \in Nat
      BY <3>1, CountOnce
    <3>3. IsFiniteSet(C)
      <4>1. IsFiniteSet(DOMAIN x.sub)
        BY <1>1 DEF NodeView
      <4>2. C \subseteq DOMAIN x.sub
        BY <1>3
      <4> HIDE DEF C
      <4>3. QED  BY <4>1, <4>2, FS_Subset
    <3>4. QED  BY <3>2, <3>3 DEF a
  <2>2. Cardinality(K \cup C) <= Len(x.kplex) + Len(x.cands) /\ IsFiniteSet(K \cup C)
        /\ Cardinality(K \cup C) \in Nat
    <3> HIDE DEF K, C
    <3>1. /\ IsFiniteSet(K \cup C)
          /\ Cardinality(K \cup C) = Cardinality(K) + Cardinality(C) - Cardinality(K \cap C)
      BY <1>3, <2>1, FS_Union
    <3>2. Cardinality(K \cap C) \in Nat
      BY <1>3, FS_Intersection, FS_CardinalityType
    <3>3. Cardinality(K \cup C) \in Nat
      BY <3>1, FS_CardinalityType
    <3> DEFINE a == Cardinality(K)
               b == Cardinality(C)
               c == Cardinality(K \cap C)
               u == Cardinality(K \cup C)
    <3>4. a = Len(x.kplex) /\ b = Len(x.cands)
      BY <1>3, <2>1
    <3>5. a \in Nat /\ b \in Nat /\ c \in Nat /\ u = a + b - c
      BY <1>3, <2>1, <3>1, <3>2
    <3> HIDE DEF a, b, c, u
    <3>6. u <= a + b
      BY <3>5
    <3>7. QED  BY <3>1, <3>3, <3>4, <3>6 DEF u
  <2>3. S \subseteq K \cup C
    BY DEF Holds
  <2>4. IsFiniteSet(S) /\ Cardinality(S) <= Cardinality(K \cup C) /\ Cardinality(S) \in Nat
    <3> DEFINE U == K \cup C
    <3>1. IsFiniteSet(U) /\ S \subseteq U
      BY <2>2, <2>3
    <3> HIDE DEF U
    <3>2. IsFiniteSet(S) /\ Cardinality(S) <= Cardinality(U)
      BY <3>1, FS_Subset
    <3>3. QED  BY <3>2, FS_CardinalityType DEF U
  <2>5. s.q \in Nat
    BY DEF KplexSystem
  <2>6. ~ (Len(x.cands) + Len(x.kplex) < s.q)
    <3> DEFINE a == Len(x.cands)
               b == Len(x.kplex)
               c == Cardinality(K \cup C)
               d == Cardinality(S)
    <3>1. a \in Nat /\ b \in Nat /\ c <= b + a /\ c \in Nat /\ d <= c /\ d \in Nat /\ d >= s.q
      BY <1>2, <1>3, <2>1, <2>2, <2>4
    <3> HIDE DEF a, b, c, d
    <3>2. ~ (a + b < s.q)
      BY <2>5, <3>1
    <3>3. QED  BY <3>2 DEF a, b
  <2>7. QED  BY <2>6 DEF CanPrune
<1>5. ASSUME HasUniversalInExcl(s, x) PROVE FALSE
  <2>1. PICK m \in DOMAIN x.excluded :
               x.counters[x.excluded[m]] = 0 /\ CandsAway(s, x, x.excluded[m]) = {}
    BY <1>5 DEF HasUniversalInExcl
  <2> DEFINE u == x.excluded[m]
  <2>2. u \in E
    BY DEF ToSet
  <2>3. u \in DOMAIN x.sub /\ u \notin K /\ u \notin C
    BY <1>3, <2>2
  <2>4. u \notin S
    BY <2>3 DEF Holds
  <2>5. x.counters[u] = 0 /\ CandsAway(s, x, u) \subseteq {u}
    BY <2>1
  <2> HIDE DEF u
  <2>6. u \in CanJoin(s, x.sub, S)
    BY <1>2, <2>3, <2>4, <2>5, UniversalJoins
  <2>7. QED  BY <1>2, <2>6
<1>6. QED  BY <1>4, <1>5

\* Each of them has every universal vertex.
LEMMA HasUniversals ==
  ASSUME NEW s, KplexSystem(s), NEW x, Placed(s, x), NEW S, Sought(s, x.sub, S), Holds(x, S)
  PROVE  ToSet(Universals(s, x)) \subseteq S
<1>1. SUFFICES ASSUME NEW u \in ToSet(Universals(s, x)), u \notin S PROVE FALSE
  OBVIOUS
<1>2. S \subseteq DOMAIN x.sub /\ IsPlex(s, x.sub, S) /\ CanJoin(s, x.sub, S) = {}
  BY DEF Sought
<1>3. /\ u \in ToSet(x.cands) /\ x.counters[u] = 0 /\ CandsAway(s, x, u) \subseteq {u}
  <2> DEFINE q == x.cands
             U == {v \in ToSet(q) : x.counters[v] = 0 /\ CandsAway(s, x, v) \subseteq {v}}
  <2>1. q \in Seq(Nat)
    BY DEF Placed, KplexSound, KplexTypes
  <2>2. Universals(s, x) = Kept(q, U)
    BY DEF Universals
  <2>3. ToSet(Kept(q, U)) = ToSet(q) \cap U
    <3> HIDE DEF q, U
    <3>1. QED  BY <2>1, KeptFacts
  <2>4. u \in U
    BY <1>1, <2>2, <2>3
  <2>5. QED  BY <2>4
<1>4. u \in DOMAIN x.sub
  <2>1. NodeView(s, x, ToSet(x.kplex), ToSet(x.cands), ToSet(x.excluded))
    BY ViewFacts
  <2>2. QED  BY <1>3, <2>1 DEF NodeView
<1>5. u \in CanJoin(s, x.sub, S)
  BY <1>1, <1>2, <1>3, <1>4, UniversalJoins
<1>6. QED  BY <1>2, <1>5

\* The candidates that a pivot does not cut off.
LEMMA NotCutsFacts ==
  ASSUME NEW s, KplexSystem(s), NEW x \in KplexTypes(s), NEW u
  PROVE  ToSet(NotCuts(s, x, u)) =
           {v \in ToSet(x.cands) :
              \/ Apart(s, x.sub, u, v)
              \/ s.k # 1 /\ \E m \in 1..x.counters[u] : Apart(s, x.sub, v, x.non_neighs[u][m])}
<1> DEFINE q == x.cands
           V == {v \in ToSet(q) :
                   \/ ~ are_neighs(s.g, x.sub[u], x.sub[v])
                   \/ /\ s.k # 1
                      /\ \E m \in 1..x.counters[u] :
                           ~ are_neighs(s.g, x.sub[v], x.sub[x.non_neighs[u][m]])}
<1>1. q \in Seq(Nat)
  BY DEF KplexTypes
<1>2. NotCuts(s, x, u) = Kept(q, V)
  BY DEF NotCuts
<1>3. ToSet(Kept(q, V)) = ToSet(q) \cap V
  <2> HIDE DEF q, V
  <2>1. QED  BY <1>1, KeptFacts
<1>4. QED  BY <1>2, <1>3 DEF Apart

\* A k-plex that has none of them has place for the pivot.
LEMMA PivotMeets ==
  ASSUME NEW s, KplexSystem(s), NEW x, Placed(s, x), NEW S, Sought(s, x.sub, S), Holds(x, S),
         NEW u \in ToSet(x.cands) \cup ToSet(x.excluded)
  PROVE  S \cap ToSet(NotCuts(s, x, u)) # {}
<1> DEFINE K == ToSet(x.kplex)
           C == ToSet(x.cands)
           E == ToSet(x.excluded)
           N == ToSet(NotCuts(s, x, u))
           A == Away(s, x.sub, K, u)
           n == x.counters[u]
           f == x.non_neighs[u]
<1> SUFFICES ASSUME S \cap N = {} PROVE FALSE
  OBVIOUS
<1>1. NodeView(s, x, K, C, E)
  BY ViewFacts
<1>2. /\ x.sub \in Seq(DOMAIN s.g) /\ IsFiniteSet(DOMAIN x.sub) /\ K \subseteq DOMAIN x.sub
      /\ IsFiniteSet(K) /\ C \cup E = CanJoin(s, x.sub, K)
      /\ C \cup E \subseteq DOMAIN x.sub \ K
  BY <1>1 DEF NodeView
<1>3. S \subseteq DOMAIN x.sub /\ IsPlex(s, x.sub, S) /\ CanJoin(s, x.sub, S) = {}
  BY DEF Sought
<1>4. K \subseteq S /\ S \subseteq K \cup C
  BY DEF Holds
<1>5. u \in DOMAIN x.sub /\ u \notin K /\ IsPlex(s, x.sub, K \cup {u})
  BY <1>2 DEF CanJoin
<1>6. \A a, b \in DOMAIN x.sub :
        (Apart(s, x.sub, a, b) <=> Apart(s, x.sub, b, a)) /\ Apart(s, x.sub, a, a)
  BY <1>2, ApartFacts
<1>7. N = {v \in C : \/ Apart(s, x.sub, u, v)
                     \/ s.k # 1 /\ \E m \in 1..n : Apart(s, x.sub, v, f[m])}
  BY NotCutsFacts DEF Placed, KplexSound
<1>8. /\ n = Cardinality(A) /\ n \in Nat /\ IsFiniteSet(A) /\ (n <= s.k => Names(f, n) = A)
  BY <1>5, CounterFacts
<1>9. s.k \in Nat \ {0}
  BY DEF KplexSystem
<1>10. n + 1 <= s.k
  <2>1. Cardinality(Away(s, x.sub, K \cup {u}, u)) = n + 1
    <3> HIDE DEF K, n
    <3>1. QED  BY <1>2, <1>5, <1>6, <1>8, AwayFacts
  <2>2. Cardinality(Away(s, x.sub, K \cup {u}, u)) <= s.k
    BY <1>5 DEF IsPlex
  <2>3. QED  BY <2>1, <2>2
<1>11. Names(f, n) = A
  BY <1>8, <1>9, <1>10
<1> HIDE DEF N, n, f
<1>12. \A v \in S \ K : v \in C /\ ~ Apart(s, x.sub, u, v)
  BY <1>4, <1>7
<1>13. u \notin S
  <2>1. u \in S => u \in C
    BY <1>4, <1>5
  <2>2. u \in C => u \in N
    BY <1>5, <1>6, <1>7
  <2>3. QED  BY <2>1, <2>2
<1>14. ASSUME NEW a \in A, NEW v \in S \ K PROVE ~ Apart(s, x.sub, v, a)
  <2>1. n # 0
    <3>1. n = 0 => A = {}
      BY <1>8, FS_EmptySet
    <3>2. QED  BY <1>14, <3>1
  <2>2. s.k # 1
    BY <1>8, <1>9, <1>10, <2>1
  <2>3. PICK m \in 1..n : f[m] = a
    BY <1>11, <1>14 DEF Names
  <2>4. v \in C /\ v \notin N
    BY <1>12, <1>14
  <2>5. QED  BY <1>7, <2>2, <2>3, <2>4
<1>15. IsPlex(s, x.sub, S \cup {u})
  <2>1. IsFiniteSet(S)
    BY <1>2, <1>3, FS_Subset
  <2>2. ASSUME NEW a \in S, ~ Apart(s, x.sub, a, u)
        PROVE  Cardinality(Away(s, x.sub, S \cup {u}, a)) <= s.k
    <3>1. Away(s, x.sub, S \cup {u}, a) = Away(s, x.sub, S, a)
      BY <2>2 DEF Away
    <3>2. QED  BY <1>3, <2>2, <3>1 DEF IsPlex
  <2>3. ASSUME NEW a \in S, Apart(s, x.sub, a, u)
        PROVE  Cardinality(Away(s, x.sub, S \cup {u}, a)) <= s.k
    <3>1. Apart(s, x.sub, u, a)
      BY <1>3, <1>5, <1>6, <2>3
    <3>2. a \in K
      BY <1>12, <2>3, <3>1
    <3>3. a \in A
      BY <3>1, <3>2 DEF Away
    <3>4. \A v \in S \ K : ~ Apart(s, x.sub, a, v)
      BY <1>3, <1>6, <1>14, <2>3, <3>3
    <3>5. Away(s, x.sub, S \cup {u}, a) = Away(s, x.sub, K \cup {u}, a)
      BY <1>4, <3>4 DEF Away
    <3>6. QED  BY <1>5, <3>2, <3>5 DEF IsPlex
  <2>4. Cardinality(Away(s, x.sub, S \cup {u}, u)) <= s.k
    <3>1. Away(s, x.sub, S \cup {u}, u) = Away(s, x.sub, K \cup {u}, u)
      BY <1>4, <1>12 DEF Away
    <3>2. QED  BY <1>5, <3>1 DEF IsPlex
  <2>5. QED  BY <2>2, <2>3, <2>4 DEF IsPlex
<1>16. u \in CanJoin(s, x.sub, S)
  BY <1>5, <1>13, <1>15 DEF CanJoin
<1>17. QED  BY <1>3, <1>16

\* The children add the candidates of RealCands: one of them is in each k-plex
\* that is sought, unless the recursion stops here.
LEMMA RealMeets ==
  ASSUME NEW s, KplexSystem(s), NEW x, Placed(s, x), NEW S, Sought(s, x.sub, S), Holds(x, S),
         ~ IsMaximal(s, x)
  PROVE  x.cands # <<>> /\ S \cap ToSet(RealCands(s, x)) # {}
<1> DEFINE K == ToSet(x.kplex)
           C == ToSet(x.cands)
           E == ToSet(x.excluded)
<1>1. NodeView(s, x, K, C, E)
  BY ViewFacts
<1>2. /\ S \subseteq DOMAIN x.sub /\ IsPlex(s, x.sub, S) /\ Wide(s, x.sub, S)
      /\ CanJoin(s, x.sub, S) = {}
  BY DEF Sought
<1>3. K \subseteq S /\ S \subseteq K \cup C
  BY DEF Holds
<1>4. S # K
  BY <1>1, <1>2, FullMaximal
<1>5. x.cands \in Seq(Nat) /\ x \in KplexTypes(s)
  BY DEF Placed, KplexSound, KplexTypes
<1>6. x.cands # <<>>
  <2>1. C # {}
    BY <1>3, <1>4
  <2> DEFINE q == x.cands
  <2>2. q \in Seq(Nat) /\ ToSet(q) # {}
    BY <1>5, <2>1
  <2> HIDE DEF q
  <2>3. q # <<>>
    BY <2>2, SeqFacts
  <2>4. QED  BY <2>3 DEF q
<1>7. CASE s.pivoting /\ Len(x.kplex) + 1 > s.k
  <2>1. RealCands(s, x) = NotCuts(s, x, Pivot(s, x))
    BY <1>7 DEF RealCands
  <2>2. Pivot(s, x) \in C \cup E
    BY <1>5, <1>6, PivotFacts
  <2>3. QED  BY <1>6, <2>1, <2>2, PivotMeets
<1>8. CASE ~ (s.pivoting /\ Len(x.kplex) + 1 > s.k)
  <2> DEFINE q == x.cands
             V == {u \in ToSet(q) : x.counters[u] # Len(x.kplex)}
  <2>1. RealCands(s, x) = Kept(q, V)
    BY <1>8 DEF RealCands
  <2>2. ToSet(Kept(q, V)) = ToSet(q) \cap V
    <3>1. q \in Seq(Nat)
      BY <1>5
    <3> HIDE DEF q, V
    <3>2. QED  BY <3>1, KeptFacts
  <2>3. PICK e \in S \ K : x.counters[e] # Cardinality(K)
    BY <1>1, <1>2, <1>3, <1>4, NeighbourInKplex
  <2>4. Cardinality(K) = Len(x.kplex)
    BY <1>1 DEF NodeView
  <2>5. e \in V
    BY <1>3, <2>3, <2>4
  <2>6. QED  BY <1>6, <2>1, <2>2, <2>3, <2>5
<1>9. QED  BY <1>7, <1>8

\* The child z adds A to the kplex and excludes D.
KidAdds(s, x, z, A, D) ==
  /\ Placed(s, z) /\ z.sub = x.sub
  /\ ToSet(z.kplex) = ToSet(x.kplex) \cup A
  /\ A # {} /\ A \cap ToSet(x.kplex) = {}
  /\ \A S \in SUBSET DOMAIN x.sub :
       /\ Holds(z, S) => Holds(x, S) /\ A \subseteq S /\ S \cap D = {}
       /\ Holds(x, S) /\ IsPlex(s, x.sub, S) /\ A \subseteq S /\ S \cap D = {} => Holds(z, S)

LEMMA KidAddsFacts ==
  ASSUME NEW s, KplexSystem(s), NEW x, Placed(s, x), NEW y, Grown(s, x, y), IsInjective(y.kplex),
         y.kplex # <<>>, y.kplex[1] = 1,
         NEW A, A # {}, A \subseteq ToSet(x.cands), ToSet(y.kplex) = ToSet(x.kplex) \cup A,
         NEW add \in Seq(Nat), ToSet(add) \subseteq ToSet(x.cands), ToSet(add) \cap A = {},
         NEW z, z = UpdateCandAndExcl(s, y, add)
  PROVE  KidAdds(s, x, z, A, ToSet(add))
<1>1. KplexSound(s, x) /\ Len(x.sub) < 256
  BY DEF Placed
<1>2. y \in KplexTypes(s) /\ y.sub = x.sub
  BY DEF Grown
<1>3. UpdateMakes(s, y, add, z)
  BY <1>2, UpdateFields
<1>4. z.sub = x.sub /\ z.kplex = y.kplex
  BY <1>2, <1>3 DEF UpdateMakes
<1>5. KplexSound(s, z)
  BY <1>1, UpdateSound
<1>6. Placed(s, z)
  BY <1>1, <1>4, <1>5 DEF Placed
<1>7. ToSet(x.cands) \cap ToSet(x.kplex) = {}
  <2>1. NodeView(s, x, ToSet(x.kplex), ToSet(x.cands), ToSet(x.excluded))
    BY ViewFacts
  <2>2. QED  BY <2>1 DEF NodeView
<1> DEFINE K == ToSet(x.kplex)
           C == ToSet(x.cands)
           L == ToSet(y.kplex)
           D == ToSet(add)
<1>8. L \subseteq K \cup C /\ D \cap L = {} /\ A \cap K = {} /\ L = K \cup A
  BY <1>7
<1>9. ASSUME NEW S \in SUBSET DOMAIN x.sub
      PROVE  /\ Holds(z, S) => Holds(x, S) /\ L \subseteq S /\ S \cap D = {}
             /\ /\ Holds(x, S) /\ IsPlex(s, x.sub, S) /\ L \subseteq S /\ S \cap D = {}
                => Holds(z, S)
  BY <1>1, <1>8, KidHolds
<1>10. \A S : Holds(x, S) => K \subseteq S
  BY DEF Holds
<1>11. \A S \in SUBSET DOMAIN x.sub :
         /\ Holds(z, S) => Holds(x, S) /\ A \subseteq S /\ S \cap D = {}
         /\ Holds(x, S) /\ IsPlex(s, x.sub, S) /\ A \subseteq S /\ S \cap D = {} => Holds(z, S)
  <2> HIDE DEF K, L, D
  <2>1. QED  BY <1>8, <1>9, <1>10
<1>12. ToSet(z.kplex) = K \cup A
  BY <1>4
<1>13. QED  BY <1>4, <1>6, <1>8, <1>11, <1>12 DEF KidAdds

\* An addition to the kplex of something that is not in it.
LEMMA AppendOnce ==
  ASSUME NEW T, NEW p \in Seq(T), IsInjective(p), NEW c \in T, c \notin ToSet(p)
  PROVE  /\ IsInjective(Append(p, c)) /\ Append(p, c) # <<>>
         /\ p # <<>> => Append(p, c)[1] = p[1]
<1> DEFINE r == Append(p, c)
<1>1. /\ Len(p) \in Nat /\ Len(r) = Len(p) + 1 /\ DOMAIN r = 1..(Len(p) + 1)
      /\ \A m \in 1..Len(p) : r[m] = p[m]
      /\ r[Len(p) + 1] = c /\ DOMAIN p = 1..Len(p)
  OBVIOUS
<1>2. \A m \in 1..Len(p) : p[m] # c
  BY <1>1 DEF ToSet
<1>3. p # <<>> => 1 \in 1..Len(p)
  OBVIOUS
<1> HIDE DEF r
<1>4. r # <<>>
  <2>1. Len(<<>>) = 0
    OBVIOUS
  <2>2. Len(r) # 0
    BY <1>1
  <2>3. QED  BY <2>1, <2>2
<1>5. IsInjective(r)
  BY <1>1, <1>2 DEF IsInjective
<1>6. QED  BY <1>1, <1>3, <1>4, <1>5 DEF r

LEMMA AddedKidAdds ==
  ASSUME NEW s, KplexSystem(s), NEW x, Placed(s, x), NEW c \in ToSet(x.cands),
         NEW add \in Seq(Nat), ToSet(add) \subseteq ToSet(x.cands), c \notin ToSet(add),
         NEW z, z = UpdateCandAndExcl(s, AddToKplex(s, x, c), add)
  PROVE  KidAdds(s, x, z, {c}, ToSet(add))
<1> DEFINE y == Count(s, x, c)
<1>1. /\ KplexSound(s, x) /\ Len(x.sub) < 256 /\ IsInjective(x.kplex) /\ x.kplex # <<>>
      /\ x.kplex[1] = 1
  BY DEF Placed
<1>2. x \in KplexTypes(s) /\ Counted(s, x) /\ c \in CanJoin(s, x.sub, ToSet(x.kplex))
  BY <1>1 DEF KplexSound
<1>3. GrownBy(s, x, c, y)
  BY <1>1, <1>2, CountGrows
<1>4. c \in DOMAIN x.sub /\ c \notin ToSet(x.kplex) /\ x.kplex \in Seq(Nat)
  BY <1>2 DEF CanJoin, KplexTypes
<1>5. CountMakes(s, x, c, y)
  BY <1>2, <1>4, CountFields
<1>6. z = UpdateCandAndExcl(s, y, add)
  BY DEF AddToKplex
<1> HIDE DEF y
<1>7. y.kplex = Append(x.kplex, c)
  BY <1>5, Zenon DEF CountMakes
<1>8. Grown(s, x, y) /\ ToSet(y.kplex) = ToSet(x.kplex) \cup {c}
  BY <1>3 DEF GrownBy
<1>9. IsInjective(y.kplex) /\ y.kplex # <<>> /\ y.kplex[1] = 1
  <2> DEFINE p == x.kplex
  <2>1. p \in Seq(Nat) /\ IsInjective(p) /\ c \notin ToSet(p) /\ p # <<>> /\ p[1] = 1
    BY <1>1, <1>4
  <2>2. c \in Nat
    <3>1. x.cands \in Seq(Nat)
      BY <1>2 DEF KplexTypes
    <3>2. QED  BY <3>1, SeqFacts
  <2> HIDE DEF p
  <2>3. IsInjective(Append(p, c)) /\ Append(p, c) # <<>> /\ Append(p, c)[1] = p[1]
    BY <2>1, <2>2, AppendOnce
  <2>4. QED  BY <1>7, <2>1, <2>3 DEF p
<1> DEFINE A == {c}
<1>10. A # {} /\ A \subseteq ToSet(x.cands) /\ ToSet(add) \cap A = {}
       /\ ToSet(y.kplex) = ToSet(x.kplex) \cup A
  BY <1>8
<1> HIDE DEF A
<1>11. KidAdds(s, x, z, A, ToSet(add))
  BY <1>6, <1>8, <1>9, <1>10, KidAddsFacts
<1>12. QED  BY <1>11 DEF A

\* The first m of U have been added to the kplex, each once.
AddedOnce(s, x, U, m, y) ==
  /\ y \in KplexTypes(s) /\ y.sub = x.sub
  /\ IsInjective(y.kplex) /\ y.kplex # <<>> /\ y.kplex[1] = 1
  /\ ToSet(y.kplex) = ToSet(x.kplex) \cup Names(U, m)

LEMMA AddOneOnce ==
  ASSUME NEW s, KplexSystem(s), NEW x, NEW U, NEW m \in Nat, NEW y, AddedOnce(s, x, U, m, y),
         NEW c \in DOMAIN x.sub, c = U[m + 1], c \notin ToSet(x.kplex) \cup Names(U, m),
         x.sub \in Seq(DOMAIN s.g)
  PROVE  AddedOnce(s, x, U, m + 1, Count(s, y, c))
<1> DEFINE z == Count(s, y, c)
           p == y.kplex
<1>1. /\ y \in KplexTypes(s) /\ y.sub = x.sub /\ IsInjective(p) /\ p # <<>> /\ p[1] = 1
      /\ ToSet(p) = ToSet(x.kplex) \cup Names(U, m)
  BY DEF AddedOnce
<1>2. c \in DOMAIN y.sub /\ p \in Seq(Nat) /\ c \in Nat
  BY <1>1 DEF KplexTypes
<1>3. CountMakes(s, y, c, z)
  BY <1>1, <1>2, CountFields
<1> HIDE DEF z
<1>4. z \in KplexTypes(s) /\ z.sub = y.sub /\ z.kplex = Append(p, c)
      /\ ToSet(z.kplex) = ToSet(p) \cup {c}
  BY <1>3, Zenon DEF CountMakes
<1> HIDE DEF p
<1>5. IsInjective(Append(p, c)) /\ Append(p, c) # <<>> /\ Append(p, c)[1] = p[1]
  BY <1>1, <1>2, AppendOnce
<1>6. Names(U, m + 1) = Names(U, m) \cup {c}
  BY NamesNext
<1>7. ToSet(z.kplex) = ToSet(x.kplex) \cup Names(U, m + 1)
  BY <1>1, <1>4, <1>6
<1>8. AddedOnce(s, x, U, m + 1, z)
  BY <1>1, <1>4, <1>5, <1>7 DEF AddedOnce
<1>9. QED  BY <1>8 DEF z

LEMMA AddAllOnce ==
  ASSUME NEW s, KplexSystem(s), NEW x, Placed(s, x), NEW U \in Seq(DOMAIN x.sub),
         IsInjective(U), ToSet(U) \cap ToSet(x.kplex) = {}
  PROVE  AddedOnce(s, x, U, Len(U), AddAll(s, x, U))
<1> DEFINE n == Len(U)
<1>1. /\ n \in Nat /\ DOMAIN U = 1..n /\ \A m \in 1..n : U[m] \in DOMAIN x.sub /\ U[m] \in ToSet(U)
  <2> DEFINE T == DOMAIN x.sub
  <2>1. U \in Seq(T)
    OBVIOUS
  <2> HIDE DEF T
  <2>2. QED  BY <2>1, SeqFacts DEF T
<1>2. x \in KplexTypes(s) /\ IsInjective(x.kplex) /\ x.kplex # <<>> /\ x.kplex[1] = 1
      /\ x.sub \in Seq(DOMAIN s.g)
  BY DEF Placed, KplexSound, KplexTypes
<1>3. PICK f : /\ f[0] = x
               /\ \A m \in 1..n : f[m] = Count(s, f[m - 1], U[m])
               /\ AddAll(s, x, U) = f[n]
  BY <1>2, AddAllLoop
<1> DEFINE P == {m \in 0..n : AddedOnce(s, x, U, m, f[m])}
<1>4. 0 \in P
  <2>1. Names(U, 0) = {}
    BY DEF Names
  <2>2. AddedOnce(s, x, U, 0, x)
    BY <1>2, <2>1 DEF AddedOnce
  <2>3. QED  BY <1>1, <1>3, <2>2
<1>5. ASSUME NEW m \in 0..(n - 1), m \in P PROVE m + 1 \in P
  <2> DEFINE c == U[m + 1]
             y == f[m]
  <2>1. m + 1 \in 1..n /\ m + 1 \in 0..n /\ (m + 1) - 1 = m /\ m \in Nat
    BY <1>1, <1>5
  <2>2. AddedOnce(s, x, U, m, y)
    BY <1>5
  <2>3. f[m + 1] = Count(s, y, c) /\ c \in DOMAIN x.sub /\ c \in ToSet(U)
    BY <1>1, <1>3, <2>1
  <2>4. c \notin Names(U, m)
    <3>1. \A j \in 1..m : j \in 1..n /\ j # m + 1
      BY <1>1, <2>1
    <3>2. QED  BY <1>1, <2>1, <3>1 DEF IsInjective, Names
  <2>5. c \notin ToSet(x.kplex) \cup Names(U, m) /\ c = U[m + 1]
    BY <2>3, <2>4
  <2> HIDE DEF y, c
  <2>6. AddedOnce(s, x, U, m + 1, f[m + 1])
    BY <1>2, <2>1, <2>2, <2>3, <2>5, AddOneOnce
  <2>7. QED  BY <2>1, <2>6
<1>6. n \in P
  <2> HIDE DEF P
  <2>1. \A m \in 0..n : m \in P
    BY <1>1, <1>4, <1>5, Induct
  <2>2. QED  BY <1>1, <2>1
<1>7. QED  BY <1>3, <1>6

LEMMA UniversalKidAdds ==
  ASSUME NEW s, KplexSystem(s), NEW x, Placed(s, x), Universals(s, x) # <<>>,
         NEW z, z = UpdateCandAndExcl(s, AddAll(s, x, Universals(s, x)), <<>>)
  PROVE  KidAdds(s, x, z, ToSet(Universals(s, x)), {})
<1> DEFINE U == Universals(s, x)
           y == AddAll(s, x, U)
           q == x.cands
           V == {u \in ToSet(q) : x.counters[u] = 0 /\ CandsAway(s, x, u) \subseteq {u}}
           D == DOMAIN x.sub
<1>1. KplexSound(s, x) /\ Len(x.sub) < 256 /\ x \in KplexTypes(s)
  BY DEF Placed, KplexSound
<1>2. q \in Seq(Nat) /\ IsInjective(q) /\ ToSet(q) \subseteq D
  BY <1>1 DEF KplexTypes
<1>3. U = Kept(q, V)
  BY DEF Universals
<1>4. U \in Seq(Nat) /\ IsInjective(U) /\ ToSet(U) = ToSet(q) \cap V
  <2> HIDE DEF q, V, U
  <2>1. QED  BY <1>2, <1>3, KeptFacts
<1>5. ToSet(U) \subseteq ToSet(x.cands)
      /\ \A u \in ToSet(U) : x.counters[u] = 0 /\ CandsAway(s, x, u) \subseteq {u}
  BY <1>4
<1>6. ToSet(x.cands) \cap ToSet(x.kplex) = {}
  <2>1. NodeView(s, x, ToSet(x.kplex), ToSet(x.cands), ToSet(x.excluded))
    BY ViewFacts
  <2>2. QED  BY <2>1 DEF NodeView
<1>7. U # <<>>
  OBVIOUS
<1>8. z = UpdateCandAndExcl(s, y, <<>>)
  OBVIOUS
<1> HIDE DEF U, V
<1>9. U \in Seq(D) /\ ToSet(U) # {}
  <2>1. Len(U) \in Nat /\ \A m \in 1..Len(U) : U[m] \in D
    <3>1. Len(U) \in Nat /\ \A m \in 1..Len(U) : U[m] \in ToSet(U)
      BY <1>4, SeqFacts
    <3>2. QED  BY <1>2, <1>5, <3>1
  <2>2. ToSet(U) # {}
    BY <1>4, <1>7, SeqFacts
  <2> HIDE DEF D
  <2>3. U \in [1..Len(U) -> D]
    BY <1>4, <2>1
  <2>4. QED  BY <2>1, <2>2, <2>3, FunctionIsSeq DEF ListOf
<1>10. Grown(s, x, y)
  BY <1>1, <1>4, <1>5, AddAllGrows
<1>11. AddedOnce(s, x, U, Len(U), y)
  <2>1. ToSet(U) \cap ToSet(x.kplex) = {}
    BY <1>5, <1>6
  <2>2. QED  BY <1>4, <1>9, <2>1, AddAllOnce
<1> HIDE DEF y
<1>12. /\ IsInjective(y.kplex) /\ y.kplex # <<>> /\ y.kplex[1] = 1
       /\ ToSet(y.kplex) = ToSet(x.kplex) \cup Names(U, Len(U))
  BY <1>11 DEF AddedOnce
<1>13. Names(U, Len(U)) = ToSet(U)
  <2>1. ToSet(U) = {U[m] : m \in 1..Len(U)}
    BY <1>4, SeqFacts
  <2>2. QED  BY <2>1 DEF Names
<1> DEFINE A == ToSet(U)
           add == <<>>
<1>14. A # {} /\ A \subseteq ToSet(x.cands) /\ ToSet(y.kplex) = ToSet(x.kplex) \cup A
  BY <1>5, <1>9, <1>12, <1>13
<1>15. add \in Seq(Nat) /\ ToSet(add) = {} /\ z = UpdateCandAndExcl(s, y, add)
  BY <1>8 DEF ToSet
<1>16. ToSet(add) \subseteq ToSet(x.cands) /\ ToSet(add) \cap A = {}
  BY <1>15
<1> HIDE DEF A, add
<1>17. KidAdds(s, x, z, A, ToSet(add))
  BY <1>10, <1>12, <1>14, <1>15, <1>16, KidAddsFacts
<1>18. QED  BY <1>15, <1>17 DEF A, U

\* What each child adds is excluded by those after it.
KidsAdd(s, x, kids) ==
  /\ \A m \in 1..Len(kids) : Placed(s, kids[m]) /\ kids[m].sub = x.sub
  /\ \A m \in 1..Len(kids) : \A S \in SUBSET DOMAIN x.sub :
       Holds(kids[m], S) => Holds(x, S) /\ S # ToSet(x.kplex)
  /\ \A m, n \in 1..Len(kids) : \A S \in SUBSET DOMAIN x.sub :
       Holds(kids[m], S) /\ Holds(kids[n], S) => m = n
  /\ \A S : Sought(s, x.sub, S) /\ Holds(x, S) =>
       \/ IsMaximal(s, x) /\ S = ToSet(x.kplex)
       \/ \E m \in 1..Len(kids) : Holds(kids[m], S)

\* r is what comes before m in q.
IsBefore(T, q, m, r) ==
  /\ r \in Seq(T) /\ ToSet(r) = {q[j] : j \in 1..(m - 1)}
  /\ ToSet(r) \subseteq ToSet(q) /\ q[m] \notin ToSet(r)

LEMMA BeforeFacts ==
  ASSUME NEW T, NEW q \in Seq(T), IsInjective(q), NEW m \in 1..Len(q),
         NEW r, r = SubSeq(q, 1, m - 1)
  PROVE  IsBefore(T, q, m, r)
<1>1. Len(q) \in Nat /\ DOMAIN q = 1..Len(q) /\ m - 1 \in Int /\ 1 \in Int /\ m - 1 <= Len(q)
      /\ m - 1 \in Nat
  OBVIOUS
<1>2. /\ r \in Seq(T)
      /\ Len(r) = IF 1 <= m - 1 THEN m - 1 - 1 + 1 ELSE 0
      /\ \A j \in 1..(m - 1 - 1 + 1) : r[j] = q[1 + j - 1]
  BY <1>1, SubSeqProperties
<1>3. Len(r) = m - 1 /\ \A j \in 1..(m - 1) : j \in 1..Len(q) /\ j # m /\ r[j] = q[j]
  BY <1>1, <1>2
<1>4. ToSet(r) = {r[j] : j \in 1..Len(r)}
  <2>1. r \in Seq(T)
    BY <1>2
  <2>2. DOMAIN r = 1..Len(r)
    BY <2>1
  <2>3. QED  BY <2>2 DEF ToSet
<1>5. ToSet(r) = {q[j] : j \in 1..(m - 1)}
  BY <1>3, <1>4
<1>6. \A j \in 1..(m - 1) : q[j] \in ToSet(q) /\ q[j] # q[m]
  BY <1>1, <1>3 DEF ToSet, IsInjective
<1>7. QED  BY <1>2, <1>5, <1>6 DEF IsBefore

\* The first candidate of a sequence that is in S.
LEMMA FirstIn ==
  ASSUME NEW T, NEW q \in Seq(T), NEW S, S \cap ToSet(q) # {}
  PROVE  \E m \in 1..Len(q) : q[m] \in S /\ \A j \in 1..(m - 1) : q[j] \notin S
<1> DEFINE P == {m \in 1..Len(q) : q[m] \in S}
<1>1. ToSet(q) = {q[m] : m \in 1..Len(q)} /\ Len(q) \in Nat
  BY SeqFacts
<1>2. P # {} /\ P \in SUBSET Nat
  BY <1>1
<1>3. PICK m \in P : \A j \in P : m <= j
  <2> HIDE DEF P
  <2>1. QED  BY <1>2, LeastNat
<1>4. m \in 1..Len(q) /\ q[m] \in S
  BY <1>3
<1>5. ASSUME NEW j \in 1..(m - 1) PROVE q[j] \notin S
  <2>1. j \in 1..Len(q) /\ ~ (m <= j)
    BY <1>1, <1>4, <1>5
  <2>2. j \notin P
    BY <1>3, <2>1
  <2>3. QED  BY <2>1, <2>2
<1>6. QED  BY <1>4, <1>5

LEMMA KidsAddFacts ==
  ASSUME NEW s, KplexSystem(s), NEW x, Placed(s, x)
  PROVE  KidsAdd(s, x, KplexChildren(s, x))
<1> DEFINE kids == KplexChildren(s, x)
           U == Universals(s, x)
           sorted == IF x.cands = <<>> THEN <<>> ELSE SortedCands(s, x)
           add(m) == SubSeq(sorted, 1, m - 1)
           Kid(m) == UpdateCandAndExcl(s, AddToKplex(s, x, sorted[m]), add(m))
           one == UpdateCandAndExcl(s, AddAll(s, x, U), <<>>)
           gone == IsMaximal(s, x) \/ CanPrune(s, x) \/ HasUniversalInExcl(s, x)
           K == ToSet(x.kplex)
<1>1. x \in KplexTypes(s)
  BY DEF Placed, KplexSound
<1>2. kids = IF gone THEN <<>> ELSE IF U # <<>> THEN <<one>> ELSE [m \in DOMAIN sorted |-> Kid(m)]
  BY DEF KplexChildren
<1>3. NodeView(s, x, K, ToSet(x.cands), ToSet(x.excluded))
  BY ViewFacts
<1>4. \A S : Sought(s, x.sub, S) /\ Holds(x, S) =>
        /\ ~ CanPrune(s, x) /\ ~ HasUniversalInExcl(s, x)
        /\ ToSet(U) \subseteq S
        /\ IsMaximal(s, x) => S = K
        /\ ~ IsMaximal(s, x) => x.cands # <<>> /\ S \cap ToSet(RealCands(s, x)) # {}
        /\ S \in SUBSET DOMAIN x.sub /\ IsPlex(s, x.sub, S)
  <2>1. SUFFICES ASSUME NEW S, Sought(s, x.sub, S), Holds(x, S)
                 PROVE  /\ ~ CanPrune(s, x) /\ ~ HasUniversalInExcl(s, x)
                        /\ ToSet(U) \subseteq S
                        /\ IsMaximal(s, x) => S = K
                        /\ ~ IsMaximal(s, x) =>
                             x.cands # <<>> /\ S \cap ToSet(RealCands(s, x)) # {}
                        /\ S \in SUBSET DOMAIN x.sub /\ IsPlex(s, x.sub, S)
    OBVIOUS
  <2>2. ~ CanPrune(s, x) /\ ~ HasUniversalInExcl(s, x)
    BY <2>1, NotGivenUp
  <2>3. ToSet(U) \subseteq S
    BY <2>1, HasUniversals
  <2>4. S \subseteq DOMAIN x.sub /\ IsPlex(s, x.sub, S) /\ Wide(s, x.sub, S) /\ K \subseteq S
    BY <2>1 DEF Sought, Holds
  <2>5. IsMaximal(s, x) => S = K
    BY <1>3, <2>4, MaximalFull
  <2>6. ~ IsMaximal(s, x) => x.cands # <<>> /\ S \cap ToSet(RealCands(s, x)) # {}
    BY <2>1, RealMeets
  <2>7. QED  BY <2>2, <2>3, <2>4, <2>5, <2>6
<1> HIDE DEF K
<1>5. CASE gone
  <2>1. kids = <<>> /\ Len(kids) = 0
    BY <1>2, <1>5
  <2>2. \A m \in 1..Len(kids) : FALSE
    BY <2>1
  <2>3. \A S : Sought(s, x.sub, S) /\ Holds(x, S) => IsMaximal(s, x) /\ S = K
    BY <1>4, <1>5
  <2> HIDE DEF kids
  <2>4. QED  BY <2>2, <2>3 DEF KidsAdd, kids, K
<1>6. CASE ~ gone /\ U # <<>>
  <2>1. kids = <<one>>
    BY <1>2, <1>6
  <2>2. KidAdds(s, x, one, ToSet(U), {})
    BY <1>6, UniversalKidAdds
  <2> HIDE DEF one, kids
  <2>3. Len(kids) = 1 /\ kids[1] = one
    BY <2>1
  <2>4. \A m \in 1..Len(kids) : m = 1
    BY <2>3
  <2>5. /\ Placed(s, one) /\ one.sub = x.sub
        /\ \A S \in SUBSET DOMAIN x.sub :
             Holds(one, S) => Holds(x, S) /\ S # K
    BY <2>2 DEF KidAdds, K
  <2>6. \A S : Sought(s, x.sub, S) /\ Holds(x, S) => Holds(one, S)
    <3> HIDE DEF U
    <3>1. QED  BY <1>4, <2>2 DEF KidAdds
  <2>7. 1 \in 1..Len(kids)
    BY <2>3
  <2>8. QED  BY <2>3, <2>4, <2>5, <2>6, <2>7 DEF KidsAdd, kids, K
<1>7. CASE ~ gone /\ U = <<>>
  <2>1. kids = [m \in DOMAIN sorted |-> Kid(m)]
    BY <1>2, <1>7
  <2>2. sorted \in Seq(Nat) /\ IsInjective(sorted) /\ ToSet(sorted) \subseteq ToSet(x.cands)
        /\ (x.cands # <<>> => ToSet(sorted) = ToSet(RealCands(s, x)))
    <3>1. CASE x.cands = <<>>
      BY <3>1 DEF IsInjective, ToSet
    <3>2. CASE x.cands # <<>>
      <4>1. sorted = SortedCands(s, x)
        BY <3>2
      <4> HIDE DEF sorted
      <4>2. QED  BY <1>1, <4>1, SortedFacts
    <3>3. QED  BY <3>1, <3>2
  <2> HIDE DEF sorted
  <2> DEFINE n == Len(sorted)
  <2>3. /\ n \in Nat /\ DOMAIN sorted = 1..n
        /\ \A m \in 1..n : sorted[m] \in Nat /\ sorted[m] \in ToSet(sorted)
    BY <2>2, SeqFacts
  <2>4. ASSUME NEW m \in 1..n
        PROVE  /\ KidAdds(s, x, Kid(m), {sorted[m]}, ToSet(add(m)))
               /\ ToSet(add(m)) = {sorted[j] : j \in 1..(m - 1)}
    <3> DEFINE a == add(m)
               c == sorted[m]
               z == Kid(m)
    <3>1. a \in Seq(Nat) /\ ToSet(a) = {sorted[j] : j \in 1..(m - 1)}
          /\ ToSet(a) \subseteq ToSet(sorted) /\ c \notin ToSet(a)
      <4>1. a = SubSeq(sorted, 1, m - 1)
        OBVIOUS
      <4> HIDE DEF a
      <4>2. IsBefore(Nat, sorted, m, a)
        BY <2>2, <2>4, <4>1, BeforeFacts
      <4>3. QED  BY <4>2 DEF IsBefore
    <3>2. c \in ToSet(x.cands) /\ ToSet(a) \subseteq ToSet(x.cands)
      BY <2>2, <2>3, <2>4, <3>1
    <3>3. z = UpdateCandAndExcl(s, AddToKplex(s, x, c), a)
      OBVIOUS
    <3> HIDE DEF a, c, z
    <3>4. KidAdds(s, x, z, {c}, ToSet(a))
      BY <3>1, <3>2, <3>3, AddedKidAdds
    <3>5. QED  BY <3>1, <3>4 DEF z, c, a
  <2> HIDE DEF Kid, add
  <2>5. DOMAIN kids = 1..n /\ \A m \in 1..n : kids[m] = Kid(m)
    BY <2>1, <2>3
  <2>6. Len(kids) = n
    <3>1. kids = [m \in 1..n |-> Kid(m)]
      BY <2>1, <2>3
    <3> HIDE DEF kids, n
    <3>2. QED  BY <2>3, <3>1
  <2> HIDE DEF kids, n
  <2>7. ASSUME NEW m \in 1..n
        PROVE  /\ Placed(s, kids[m]) /\ kids[m].sub = x.sub
               /\ \A S \in SUBSET DOMAIN x.sub :
                    /\ Holds(kids[m], S) => /\ Holds(x, S) /\ S # K /\ sorted[m] \in S
                                            /\ \A j \in 1..(m - 1) : sorted[j] \notin S
                    /\ /\ Holds(x, S) /\ IsPlex(s, x.sub, S) /\ sorted[m] \in S
                       /\ \A j \in 1..(m - 1) : sorted[j] \notin S
                       => Holds(kids[m], S)
    <3> DEFINE z == kids[m]
               D == ToSet(add(m))
    <3>1. KidAdds(s, x, z, {sorted[m]}, D) /\ D = {sorted[j] : j \in 1..(m - 1)}
      BY <2>4, <2>5
    <3> HIDE DEF z, D
    <3>2. /\ Placed(s, z) /\ z.sub = x.sub /\ sorted[m] \notin K
          /\ \A S \in SUBSET DOMAIN x.sub :
               /\ Holds(z, S) => Holds(x, S) /\ sorted[m] \in S /\ S \cap D = {}
               /\ Holds(x, S) /\ IsPlex(s, x.sub, S) /\ sorted[m] \in S /\ S \cap D = {}
                  => Holds(z, S)
      BY <3>1 DEF KidAdds, K
    <3>3. \A S : S \cap D = {} <=> \A j \in 1..(m - 1) : sorted[j] \notin S
      BY <3>1
    <3>4. QED  BY <3>2, <3>3 DEF z
  <2>8. ASSUME NEW a \in 1..n, NEW b \in 1..n, NEW S \in SUBSET DOMAIN x.sub,
               Holds(kids[a], S), Holds(kids[b], S)
        PROVE  a = b
    <3>1. sorted[a] \in S /\ sorted[b] \in S
          /\ (\A j \in 1..(a - 1) : sorted[j] \notin S) /\ (\A j \in 1..(b - 1) : sorted[j] \notin S)
      BY <2>7, <2>8
    <3>2. a < b => a \in 1..(b - 1)
      BY <2>3, <2>8
    <3>3. b < a => b \in 1..(a - 1)
      BY <2>3, <2>8
    <3>4. ~ (a < b) /\ ~ (b < a)
      BY <3>1, <3>2, <3>3
    <3>5. QED  BY <2>3, <2>8, <3>4
  <2>9. ASSUME NEW S, Sought(s, x.sub, S), Holds(x, S)
        PROVE  \E m \in 1..n : Holds(kids[m], S)
    <3>1. S \cap ToSet(sorted) # {} /\ S \in SUBSET DOMAIN x.sub /\ IsPlex(s, x.sub, S)
      BY <1>4, <1>7, <2>2, <2>9
    <3>2. PICK m \in 1..n : sorted[m] \in S /\ \A j \in 1..(m - 1) : sorted[j] \notin S
      BY <2>2, <3>1, FirstIn DEF n
    <3>3. QED  BY <2>7, <2>9, <3>1, <3>2
  <2>10. \A m \in 1..n : \A S \in SUBSET DOMAIN x.sub :
           Holds(kids[m], S) => Holds(x, S) /\ S # K
    BY <2>7
  <2>11. \A m \in 1..n : Placed(s, kids[m]) /\ kids[m].sub = x.sub
    BY <2>7
  <2>12. \A a, b \in 1..n : \A S \in SUBSET DOMAIN x.sub :
           Holds(kids[a], S) /\ Holds(kids[b], S) => a = b
    BY <2>8
  <2>13. QED  BY <2>6, <2>9, <2>10, <2>11, <2>12 DEF KidsAdd, kids, K
<1>8. QED  BY <1>5, <1>6, <1>7

-----------------------------------------------------------------------
(* k-plexes of the graph *)

\* The graph as a subgraph of itself.
All(s) == [v \in DOMAIN s.g |-> v]

\* The vertices that have the indices S, and the other way round.
VerticesAt(sub, S) == {sub[e] : e \in S}
Indices(sub, T) == {e \in DOMAIN sub : sub[e] \in T}

LEMMA AllFacts ==
  ASSUME NEW s, KplexSystem(s)
  PROVE  /\ DOMAIN All(s) = DOMAIN s.g /\ IsFiniteSet(DOMAIN s.g) /\ DOMAIN s.g \subseteq Nat
         /\ \A a, b \in DOMAIN s.g :
              /\ Apart(s, All(s), a, b) <=> ~ are_neighs(s.g, a, b)
              /\ Apart(s, All(s), a, b) <=> Apart(s, All(s), b, a)
              /\ Apart(s, All(s), a, a)
<1>1. SimpleGraph(s.g)
  BY DEF KplexSystem
<1>2. /\ size(s.g) \in Nat /\ DOMAIN s.g = 0..(size(s.g) - 1) /\ DOMAIN s.g \subseteq Nat
      /\ \A v, w \in DOMAIN s.g : are_neighs(s.g, v, w) <=> are_neighs(s.g, w, v)
      /\ \A v \in DOMAIN s.g : ~ are_neighs(s.g, v, v)
  BY <1>1, Symmetry
<1>3. IsFiniteSet(DOMAIN s.g)
  <2>1. 0 \in Int /\ size(s.g) - 1 \in Int
    BY <1>2
  <2>2. IsFiniteSet(0..(size(s.g) - 1))
    BY <2>1, FS_Interval
  <2>3. QED  BY <1>2, <2>2
<1>4. DOMAIN All(s) = DOMAIN s.g /\ \A v \in DOMAIN s.g : All(s)[v] = v
  BY DEF All
<1>5. QED  BY <1>2, <1>3, <1>4 DEF Apart

\* Different indices have different vertices.
LEMMA ImageCount ==
  ASSUME NEW sub, IsInjective(sub), NEW S, IsFiniteSet(S), S \subseteq DOMAIN sub
  PROVE  /\ IsFiniteSet(VerticesAt(sub, S)) /\ Cardinality(VerticesAt(sub, S)) = Cardinality(S)
<1> DEFINE f == [e \in S |-> sub[e]]
<1>1. f \in Bijection(S, VerticesAt(sub, S))
  BY DEF Bijection, Injection, Surjection, IsInjective, VerticesAt
<1>2. QED  BY <1>1, FS_Bijection DEF ExistsBijection

LEMMA IndicesFacts ==
  ASSUME NEW sub, IsInjective(sub)
  PROVE  /\ \A S \in SUBSET DOMAIN sub :
              Indices(sub, VerticesAt(sub, S)) = S /\ VerticesAt(sub, S) \subseteq ToSet(sub)
         /\ \A T \in SUBSET ToSet(sub) :
              VerticesAt(sub, Indices(sub, T)) = T /\ Indices(sub, T) \subseteq DOMAIN sub
BY DEF Indices, VerticesAt, IsInjective, ToSet

LEMMA SameApart ==
  ASSUME NEW s, KplexSystem(s), NEW sub \in Seq(DOMAIN s.g)
  PROVE  \A a, b \in DOMAIN sub : Apart(s, sub, a, b) <=> Apart(s, All(s), sub[a], sub[b])
<1>1. \A a, b \in DOMAIN s.g : Apart(s, All(s), a, b) <=> ~ are_neighs(s.g, a, b)
  BY AllFacts
<1>2. \A a \in DOMAIN sub : sub[a] \in DOMAIN s.g
  OBVIOUS
<1>3. QED  BY <1>1, <1>2 DEF Apart

\* A vertex has as many non-neighbours as its index.
LEMMA SameAway ==
  ASSUME NEW s, KplexSystem(s), NEW sub \in Seq(DOMAIN s.g), IsInjective(sub),
         NEW S, S \subseteq DOMAIN sub, NEW a \in DOMAIN sub
  PROVE  Cardinality(Away(s, All(s), VerticesAt(sub, S), sub[a])) = Cardinality(Away(s, sub, S, a))
<1> DEFINE R == Away(s, sub, S, a)
<1>1. R \subseteq S
  BY DEF Away
<1>2. Away(s, All(s), VerticesAt(sub, S), sub[a]) = VerticesAt(sub, R)
  BY SameApart DEF Away, VerticesAt
<1> HIDE DEF R
<1>3. IsFiniteSet(R)
  <2>1. Len(sub) \in Nat /\ DOMAIN sub = 1..Len(sub)
    OBVIOUS
  <2>2. IsFiniteSet(1..Len(sub))
    BY <2>1, FS_Interval
  <2>3. R \in SUBSET (1..Len(sub))
    BY <1>1, <2>1
  <2>4. QED  BY <2>2, <2>3, FS_Subset
<1>4. Cardinality(VerticesAt(sub, R)) = Cardinality(R)
  BY <1>1, <1>3, ImageCount
<1>5. QED  BY <1>2, <1>4 DEF R

\* A set of indices is what the set of their vertices is.
SameAs(s, sub, S, T) ==
  /\ T = VerticesAt(sub, S) /\ T \subseteq DOMAIN s.g
  /\ IsFiniteSet(S) /\ IsFiniteSet(T) /\ Cardinality(T) = Cardinality(S)
  /\ IsPlex(s, sub, S) <=> IsPlex(s, All(s), T)
  /\ Wide(s, sub, S) <=> Wide(s, All(s), T)

LEMMA SameAsFacts ==
  ASSUME NEW s, KplexSystem(s), NEW sub \in Seq(DOMAIN s.g), IsInjective(sub),
         NEW S, S \subseteq DOMAIN sub
  PROVE  SameAs(s, sub, S, VerticesAt(sub, S))
<1> DEFINE T == VerticesAt(sub, S)
           A == All(s)
<1>1. T \subseteq DOMAIN s.g /\ \A e \in S : sub[e] \in DOMAIN s.g /\ sub[e] \in T
  BY DEF VerticesAt
<1>2. IsFiniteSet(S)
  <2>1. Len(sub) \in Nat /\ DOMAIN sub = 1..Len(sub)
    OBVIOUS
  <2>2. IsFiniteSet(1..Len(sub))
    BY <2>1, FS_Interval
  <2>3. QED  BY <2>1, <2>2, FS_Subset
<1>3. IsFiniteSet(T) /\ Cardinality(T) = Cardinality(S)
  BY <1>2, ImageCount
<1>4. \A a, b \in S : Apart(s, sub, a, b) <=> Apart(s, A, sub[a], sub[b])
  BY SameApart
<1>5. \A a \in S : Cardinality(Away(s, A, T, sub[a])) = Cardinality(Away(s, sub, S, a))
  BY SameAway
<1>6. IsPlex(s, sub, S) <=> IsPlex(s, A, T)
  <2>1. \A v \in T : \E a \in S : v = sub[a]
    BY DEF VerticesAt
  <2>2. QED  BY <1>1, <1>5, <2>1 DEF IsPlex
<1>7. Wide(s, sub, S) <=> Wide(s, A, T)
  <2>1. \A v \in T : \E a \in S : v = sub[a]
    BY DEF VerticesAt
  <2>2. \A a, b \in S : a = b <=> sub[a] = sub[b]
    BY DEF IsInjective
  <2>3. ASSUME Wide(s, sub, S) PROVE Wide(s, A, T)
    <3>1. SUFFICES ASSUME NEW v \in T, NEW w \in T, v # w, Apart(s, A, v, w)
                   PROVE  \E c \in T : ~ Apart(s, A, v, c) /\ ~ Apart(s, A, c, w)
      BY DEF Wide
    <3>2. PICK a \in S, b \in S : v = sub[a] /\ w = sub[b]
      BY <2>1
    <3>3. PICK c \in S : ~ Apart(s, sub, a, c) /\ ~ Apart(s, sub, c, b)
      BY <1>4, <2>2, <2>3, <3>1, <3>2 DEF Wide
    <3>4. QED  BY <1>1, <1>4, <3>2, <3>3
  <2>4. ASSUME Wide(s, A, T) PROVE Wide(s, sub, S)
    <3>1. SUFFICES ASSUME NEW a \in S, NEW b \in S, a # b, Apart(s, sub, a, b)
                   PROVE  \E c \in S : ~ Apart(s, sub, a, c) /\ ~ Apart(s, sub, c, b)
      BY DEF Wide
    <3>2. PICK v \in T : ~ Apart(s, A, sub[a], v) /\ ~ Apart(s, A, v, sub[b])
      BY <1>1, <1>4, <2>2, <2>4, <3>1 DEF Wide
    <3>3. PICK c \in S : v = sub[c]
      BY <2>1
    <3>4. QED  BY <1>4, <3>2, <3>3
  <2>5. QED  BY <2>3, <2>4
<1>8. QED  BY <1>1, <1>2, <1>3, <1>6, <1>7 DEF SameAs

\* The neighbours that a and b share in T.
Shared(s, T, a, b) ==
  {c \in T : ~ Apart(s, All(s), a, c) /\ ~ Apart(s, All(s), b, c)}

\* n vertices, all but at most m of which a and b share.
ShareMany(s, T, a, b, m) ==
  /\ IsFiniteSet(Shared(s, T, a, b))
  /\ Cardinality(T) <= Cardinality(Shared(s, T, a, b)) + m

LEMMA SharedFacts ==
  ASSUME NEW s, KplexSystem(s), NEW T, T \subseteq DOMAIN s.g, IsPlex(s, All(s), T),
         NEW a \in T, NEW b \in T
  PROVE  /\ ShareMany(s, T, a, b, 2 * s.k)
         /\ a # b /\ Apart(s, All(s), a, b) => ShareMany(s, T, a, b, 2 * s.k - 2)
<1> DEFINE A == Away(s, All(s), T, a)
           B == Away(s, All(s), T, b)
           R == Shared(s, T, a, b)
           n == Cardinality(T)
           x == Cardinality(A)
           y == Cardinality(B)
           z == Cardinality(A \cap B)
           w == Cardinality(A \cup B)
           r == Cardinality(R)
<1>1. IsFiniteSet(T)
  BY AllFacts, FS_Subset
<1>2. A \subseteq T /\ B \subseteq T /\ R = T \ (A \cup B)
  BY DEF Away, Shared
<1>3. x <= s.k /\ y <= s.k /\ s.k \in Nat
  BY DEF IsPlex, KplexSystem
<1> HIDE DEF A, B, R
<1>4. IsFiniteSet(A) /\ IsFiniteSet(B) /\ IsFiniteSet(R) /\ IsFiniteSet(A \cap B)
      /\ IsFiniteSet(A \cup B)
  <2>1. A \in SUBSET T /\ B \in SUBSET T /\ R \in SUBSET T /\ A \cap B \in SUBSET T
        /\ A \cup B \in SUBSET T
    BY <1>2
  <2>2. QED  BY <1>1, <2>1, FS_Subset
<1>5. n \in Nat /\ x \in Nat /\ y \in Nat /\ z \in Nat /\ w \in Nat /\ r \in Nat
  BY <1>1, <1>4, FS_CardinalityType
<1>6. w = x + y - z
  BY <1>4, FS_Union
<1>7. n = r + w
  <2>1. T = R \cup (A \cup B) /\ R \cap (A \cup B) = {}
    BY <1>2
  <2>2. Cardinality(R \cup (A \cup B)) = r + w - Cardinality(R \cap (A \cup B))
    BY <1>4, FS_Union
  <2>3. Cardinality(R \cap (A \cup B)) = 0
    BY <2>1, FS_EmptySet
  <2>4. QED  BY <1>5, <2>1, <2>2, <2>3
<1>8. ASSUME a # b, Apart(s, All(s), a, b) PROVE z >= 2
  <2>1. {a} \cup {b} \in SUBSET (A \cap B)
    BY <1>8, AllFacts DEF A, B, Away
  <2>2. Cardinality({a} \cup {b}) = 2
    BY <1>8, TwoElements
  <2>3. Cardinality({a} \cup {b}) <= z
    BY <1>4, <2>1, FS_Subset
  <2>4. QED  BY <1>5, <2>2, <2>3
<1> HIDE DEF n, x, y, z, w, r
<1>9. n <= r + 2 * s.k
  BY <1>3, <1>5, <1>6, <1>7
<1>10. z >= 2 => n <= r + (2 * s.k - 2)
  BY <1>3, <1>5, <1>6, <1>7
<1>11. QED  BY <1>4, <1>8, <1>9, <1>10 DEF ShareMany, R, n, r

\* More than 2k - 2 vertices: two that are not adjacent share a neighbour.
LEMMA ManyWide ==
  ASSUME NEW s, KplexSystem(s), NEW T, T \subseteq DOMAIN s.g, IsPlex(s, All(s), T),
         Cardinality(T) + 2 > 2 * s.k
  PROVE  Wide(s, All(s), T)
<1>1. SUFFICES ASSUME NEW a \in T, NEW b \in T, a # b, Apart(s, All(s), a, b)
               PROVE  \E c \in T : ~ Apart(s, All(s), a, c) /\ ~ Apart(s, All(s), c, b)
  BY DEF Wide
<1> DEFINE R == Shared(s, T, a, b)
           n == Cardinality(T)
           r == Cardinality(R)
<1>2. ShareMany(s, T, a, b, 2 * s.k - 2)
  BY <1>1, SharedFacts
<1>3. IsFiniteSet(R) /\ n <= r + (2 * s.k - 2)
  BY <1>2 DEF ShareMany
<1>4. n \in Nat /\ r \in Nat /\ s.k \in Nat
  <2>1. IsFiniteSet(T)
    BY AllFacts, FS_Subset
  <2> HIDE DEF R
  <2>2. QED  BY <1>3, <2>1, FS_CardinalityType DEF KplexSystem
<1>5. r # 0
  <2> HIDE DEF r, n
  <2>0. n + 2 > 2 * s.k
    BY DEF n
  <2>1. QED  BY <1>3, <1>4, <2>0
<1>6. R # {}
  BY <1>5, FS_EmptySet
<1>7. PICK c \in R : TRUE
  BY <1>6
<1>8. c \in T /\ ~ Apart(s, All(s), a, c) /\ ~ Apart(s, All(s), b, c)
  BY <1>7 DEF Shared
<1>9. QED  BY <1>1, <1>8, AllFacts

\* The vertices of T adjacent to r.
NextTo(s, T, r) == {a \in T : a # r /\ ~ Apart(s, All(s), r, a)}

\* T is a k-plex of at least q vertices, and r the first of them.
LargePlex(s, T, r) ==
  /\ T \subseteq DOMAIN s.g /\ IsPlex(s, All(s), T) /\ Cardinality(T) >= s.q
  /\ r \in T /\ \A a \in T : r <= a

\* The neighbours of r in a large k-plex are not filtered out.
LEMMA FilterKeeps ==
  ASSUME NEW s, KplexSystem(s), NEW T, NEW r, LargePlex(s, T, r)
  PROVE  /\ NextTo(s, T, r) \subseteq Filtered(s.g, fwd_neighs(s.g, r), s.k, s.q)
         /\ Filtered(s.g, fwd_neighs(s.g, r), s.k, s.q) \subseteq
              {w \in DOMAIN s.g : are_neighs(s.g, r, w) /\ w > r}
         /\ ~ (fwd_degree(s.g, r) + s.k < s.q)
<1> DEFINE D == DOMAIN s.g
           A == NextTo(s, T, r)
           fwd == fwd_neighs(s.g, r)
           n == Len(fwd)
<1>1. /\ T \subseteq D /\ IsPlex(s, All(s), T) /\ Cardinality(T) >= s.q /\ r \in T
      /\ \A a \in T : r <= a
  BY DEF LargePlex
<1>2. SimpleGraph(s.g) /\ s.k \in Nat /\ s.q \in Nat /\ D \subseteq Nat /\ IsFiniteSet(D)
      /\ \A a, b \in D : Apart(s, All(s), a, b) <=> ~ are_neighs(s.g, a, b)
  BY AllFacts DEF KplexSystem
<1>3. /\ fwd \in Seq(D) /\ Increasing(fwd)
      /\ ToSet(fwd) = {w \in D : are_neighs(s.g, r, w) /\ w > r}
  BY <1>1, <1>2, NeighsFacts
<1>4. A \subseteq ToSet(fwd) /\ A \subseteq T
  <2>1. \A a \in A : a \in D /\ are_neighs(s.g, r, a) /\ a > r /\ a \in T
    BY <1>1, <1>2 DEF NextTo
  <2>2. QED  BY <1>3, <2>1
<1> HIDE DEF fwd, D, A
<1>5. n \in Nat
  BY <1>3
<1>6. PICK f : /\ f[0] = ToSet(fwd)
               /\ \A m \in 1..n : f[m] = EnoughSet(s.g, f[m - 1], s.k, s.q)
               /\ Filtered(s.g, fwd, s.k, s.q) = f[n]
  <2> DEFINE g == s.g  k == s.k  q == s.q
  <2>1. fwd \in Seq(D)
    BY <1>3
  <2> HIDE DEF g, k, q
  <2>2. \E f : /\ f[0] = ToSet(fwd)
               /\ \A m \in 1..Len(fwd) : f[m] = EnoughSet(g, f[m - 1], k, q)
               /\ Filtered(g, fwd, k, q) = f[Len(fwd)]
    BY <2>1, FilteredLoop
  <2>3. QED  BY <2>2 DEF g, k, q
<1>7. ASSUME NEW R, A \subseteq R, R \subseteq ToSet(fwd)
      PROVE  A \subseteq EnoughSet(s.g, R, s.k, s.q) /\ EnoughSet(s.g, R, s.k, s.q) \subseteq ToSet(fwd)
  <2>1. SUFFICES ASSUME NEW a \in A
                 PROVE  Cardinality({b \in R : are_neighs(s.g, a, b)}) + 2 * s.k >= s.q
    BY <1>7 DEF EnoughSet
  <2> DEFINE B == {b \in R : are_neighs(s.g, a, b)}
             C == Shared(s, T, r, a)
             x == Cardinality(B)
             y == Cardinality(C)
             z == Cardinality(T)
  <2>2. ShareMany(s, T, r, a, 2 * s.k)
    BY <1>1, <1>4, SharedFacts DEF D
  <2>3. IsFiniteSet(C) /\ z <= y + 2 * s.k
    BY <2>2 DEF ShareMany
  <2>4. C \subseteq B
    <3>1. ASSUME NEW b \in C PROVE b \in R /\ are_neighs(s.g, a, b)
      <4>1. b \in T /\ ~ Apart(s, All(s), r, b) /\ ~ Apart(s, All(s), a, b)
        BY DEF Shared
      <4>2. b # r
        BY <1>1, <4>1, AllFacts DEF D
      <4>3. b \in A
        BY <4>1, <4>2 DEF A, NextTo
      <4>4. QED  BY <1>1, <1>2, <1>4, <1>7, <4>1, <4>3
    <3>2. QED  BY <3>1
  <2>5. IsFiniteSet(B)
    <3>1. B \subseteq D
      BY <1>3, <1>7
    <3>2. QED  BY <1>2, <3>1, FS_Subset
  <2> HIDE DEF B, C
  <2>6. y <= x
    BY <2>4, <2>5, FS_Subset
  <2>7. x \in Nat /\ y \in Nat /\ z \in Nat
    <3>1. IsFiniteSet(T)
      BY <1>1, <1>2, FS_Subset
    <3>2. QED  BY <2>3, <2>5, <3>1, FS_CardinalityType
  <2>8. z >= s.q
    BY <1>1
  <2> HIDE DEF x, y, z
  <2>9. x + 2 * s.k >= s.q
    BY <1>2, <2>3, <2>6, <2>7, <2>8
  <2>10. QED  BY <2>9 DEF x, B
<1> DEFINE P == {m \in 0..n : A \subseteq f[m] /\ f[m] \subseteq ToSet(fwd)}
<1>8. 0 \in P
  BY <1>4, <1>5, <1>6
<1>9. \A m \in 0..(n - 1) : m \in P => m + 1 \in P
  <2>1. ASSUME NEW m \in 0..(n - 1), m \in P PROVE m + 1 \in P
    <3>1. m + 1 \in 1..n /\ m + 1 - 1 = m /\ m + 1 \in 0..n
      BY <1>5, <2>1
    <3>2. f[m + 1] = EnoughSet(s.g, f[m], s.k, s.q)
      BY <1>6, <3>1
    <3>3. A \subseteq f[m] /\ f[m] \subseteq ToSet(fwd)
      BY <2>1
    <3>4. A \subseteq f[m + 1] /\ f[m + 1] \subseteq ToSet(fwd)
      BY <1>7, <3>2, <3>3
    <3>5. QED  BY <3>1, <3>4
  <2>2. QED  BY <2>1
<1>10. n \in P
  <2> HIDE DEF P, n
  <2>1. \A m \in 0..n : m \in P
    BY <1>5, <1>8, <1>9, Induct
  <2>2. QED  BY <1>5, <2>1
<1>11. ~ (fwd_degree(s.g, r) + s.k < s.q)
  <2> DEFINE B == Away(s, All(s), T, r)
             x == Cardinality(A)
             y == Cardinality(B)
             z == Cardinality(T)
  <2>1. T = A \cup B /\ A \cap B = {} /\ B \subseteq T
    BY <1>1, AllFacts DEF A, NextTo, Away, D
  <2>2. y <= s.k /\ z >= s.q
    BY <1>1 DEF IsPlex
  <2>3. n = Cardinality(ToSet(fwd)) /\ IsFiniteSet(ToSet(fwd))
    <3>1. IsInjective(fwd)
      <4>1. D \subseteq Int /\ fwd \in Seq(D) /\ Increasing(fwd)
        BY <1>2, <1>3
      <4>2. QED  BY <4>1, IncreasingOnce
    <3>2. QED  BY <1>3, <3>1, CountOnce
  <2> HIDE DEF B
  <2>4. IsFiniteSet(T) /\ IsFiniteSet(A) /\ IsFiniteSet(B)
    <3>1. IsFiniteSet(T)
      BY <1>1, <1>2, FS_Subset
    <3>2. QED  BY <1>4, <2>1, <3>1, FS_Subset
  <2>5. x <= n
    BY <1>4, <2>3, FS_Subset
  <2>6. z = x + y
    <3>1. Cardinality(A \cup B) = x + y - Cardinality(A \cap B)
      BY <2>4, FS_Union
    <3>2. Cardinality(A \cap B) = 0
      BY <2>1, FS_EmptySet
    <3>3. x \in Nat /\ y \in Nat
      BY <2>4, FS_CardinalityType
    <3>4. QED  BY <2>1, <3>1, <3>2, <3>3
  <2>7. x \in Nat /\ y \in Nat
    BY <2>4, FS_CardinalityType
  <2>8. fwd_degree(s.g, r) = n
    BY DEF fwd_degree, fwd
  <2> HIDE DEF x, y, z, n
  <2>9. ~ (n + s.k < s.q)
    BY <1>2, <1>5, <2>2, <2>5, <2>6, <2>7
  <2>10. QED  BY <2>8, <2>9
<1>12. QED  BY <1>3, <1>6, <1>10, <1>11 DEF fwd, A, D

\* ... and the others are two steps away.
LEMMA SecondKeeps ==
  ASSUME NEW s, KplexSystem(s), NEW T, NEW r, LargePlex(s, T, r), Wide(s, All(s), T)
  PROVE  T \subseteq RootVertices(s, r)
<1> DEFINE D == DOMAIN s.g
           F == Filtered(s.g, fwd_neighs(s.g, r), s.k, s.q)
<1>1. /\ T \subseteq D /\ IsPlex(s, All(s), T) /\ Cardinality(T) >= s.q /\ r \in T
      /\ \A a \in T : r <= a
  BY DEF LargePlex
<1>2. s.k \in Nat /\ s.q \in Nat /\ D \subseteq Nat /\ IsFiniteSet(D)
      /\ \A a, b \in D : Apart(s, All(s), a, b) <=> ~ are_neighs(s.g, a, b)
  BY AllFacts DEF KplexSystem
<1>3. NextTo(s, T, r) \subseteq F /\ F \subseteq D
  BY FilterKeeps
<1> HIDE DEF F
<1>4. ASSUME NEW b \in T, b # r, Apart(s, All(s), r, b)
      PROVE  s.k # 1 /\ b \in TwoSteps(s.g, r, F, s.k, s.q)
  <2> DEFINE A == {c \in F : are_neighs(s.g, c, b)}
             C == Shared(s, T, r, b)
             R == Away(s, All(s), T, r)
             x == Cardinality(A)
             y == Cardinality(C)
             z == Cardinality(T)
             w == Cardinality(R)
  <2>1. ShareMany(s, T, r, b, 2 * s.k - 2)
    BY <1>1, <1>4, SharedFacts
  <2>2. IsFiniteSet(C) /\ z <= y + (2 * s.k - 2)
    BY <2>1 DEF ShareMany
  <2>3. C \subseteq A
    <3>1. ASSUME NEW c \in C PROVE c \in F /\ are_neighs(s.g, c, b)
      <4>1. c \in T /\ ~ Apart(s, All(s), r, c) /\ ~ Apart(s, All(s), b, c)
        BY DEF Shared
      <4>2. c # r /\ ~ Apart(s, All(s), c, b)
        BY <1>1, <4>1, AllFacts
      <4>3. c \in NextTo(s, T, r)
        BY <4>1, <4>2 DEF NextTo
      <4>4. QED  BY <1>1, <1>2, <1>3, <4>1, <4>2, <4>3
    <3>2. QED  BY <3>1
  <2>4. PICK c \in T : ~ Apart(s, All(s), r, c) /\ ~ Apart(s, All(s), c, b)
    BY <1>1, <1>4 DEF Wide
  <2>5. c \in A
    <3>1. c # r
      BY <1>1, <2>4, AllFacts
    <3>2. c \in NextTo(s, T, r)
      BY <2>4, <3>1 DEF NextTo
    <3>3. QED  BY <1>1, <1>2, <1>3, <2>4, <3>2
  <2>6. IsFiniteSet(A) /\ IsFiniteSet(T) /\ IsFiniteSet(R)
    <3>1. A \subseteq D /\ R \subseteq T
      BY <1>3 DEF Away
    <3> HIDE DEF A, R
    <3>2. IsFiniteSet(A) /\ IsFiniteSet(T)
      BY <1>1, <1>2, <3>1, FS_Subset
    <3>3. QED  BY <3>1, <3>2, FS_Subset
  <2>7. w <= s.k /\ {r} \cup {b} \in SUBSET R
    BY <1>1, <1>4, AllFacts DEF IsPlex, Away
  <2>8. Cardinality({r} \cup {b}) = 2
    BY <1>4, TwoElements
  <2> HIDE DEF A, C, R
  <2>9. 2 <= w
    BY <2>6, <2>7, <2>8, FS_Subset
  <2>10. y <= x
    BY <2>3, <2>6, FS_Subset
  <2>11. x \in Nat /\ y \in Nat /\ z \in Nat /\ w \in Nat /\ z >= s.q
    BY <1>1, <2>2, <2>6, FS_CardinalityType
  <2> HIDE DEF x, y, z, w
  <2>12. s.k # 1 /\ x + 2 * s.k >= s.q + 2
    BY <1>2, <2>2, <2>7, <2>9, <2>10, <2>11
  <2>13. b > r /\ ~ are_neighs(s.g, r, b) /\ A # {} /\ b \in D
    BY <1>1, <1>2, <1>4, <2>5
  <2>14. QED  BY <2>12, <2>13 DEF TwoSteps, A, x
<1>5. ASSUME NEW b \in T PROVE b \in RootVertices(s, r)
  <2>1. CASE b = r
    BY <2>1 DEF RootVertices
  <2>2. CASE b # r /\ Apart(s, All(s), r, b)
    BY <1>4, <2>2 DEF RootVertices, F
  <2>3. CASE b # r /\ ~ Apart(s, All(s), r, b)
    BY <1>3, <2>3 DEF RootVertices, F, NextTo
  <2>4. QED  BY <2>1, <2>2, <2>3
<1>6. QED  BY <1>5

\* A node that counts, with all the vertices of the subgraph of its root.
Rooted(s, x) == Placed(s, x) /\ ToSet(x.sub) = RootVertices(s, x.sub[1])

\* The vertices of its kplex.
Low(x) == VerticesAt(x.sub, ToSet(x.kplex))

\* T is the kplex of x or might be that of a node below x.
Covers(x, T) == T \subseteq ToSet(x.sub) /\ Holds(x, Indices(x.sub, T))

LEMMA RootVerticesFacts ==
  ASSUME NEW s, KplexSystem(s), NEW r \in DOMAIN s.g
  PROVE  \A w \in RootVertices(s, r) :
           \/ w = r
           \/ /\ w \in DOMAIN s.g /\ w > r
              /\ \/ are_neighs(s.g, r, w)
                 \/ s.k # 1 /\ \E c \in RootVertices(s, r) : are_neighs(s.g, r, c) /\ are_neighs(s.g, c, w)
<1> DEFINE T == DOMAIN s.g
           fwd == fwd_neighs(s.g, r)
           F == Filtered(s.g, fwd, s.k, s.q)
           V == RootVertices(s, r)
<1>1. SimpleGraph(s.g) /\ T \subseteq Int
  BY Symmetry DEF KplexSystem
<1>2. /\ fwd \in Seq(T) /\ Increasing(fwd)
      /\ ToSet(fwd) = {w \in T : are_neighs(s.g, r, w) /\ w > r}
  BY <1>1, NeighsFacts
<1>3. F \subseteq ToSet(fwd)
  <2> HIDE DEF T, fwd
  <2>1. IsInjective(fwd)
    BY <1>1, <1>2, IncreasingOnce
  <2>2. ToSet(FilterNeighs(s, fwd)) \subseteq ToSet(fwd) /\ ToSet(FilterNeighs(s, fwd)) = F
    BY <1>2, <2>1, FilterFacts
  <2>3. QED  BY <2>2
<1>4. V = {r} \cup F \cup (IF s.k = 1 THEN {} ELSE TwoSteps(s.g, r, F, s.k, s.q))
  BY DEF RootVertices
<1> HIDE DEF F, V, fwd
<1>5. \A w \in F : w \in T /\ w > r /\ are_neighs(s.g, r, w) /\ w \in V
  BY <1>2, <1>3, <1>4
<1>6. ASSUME NEW w \in TwoSteps(s.g, r, F, s.k, s.q)
      PROVE  w \in T /\ w > r /\ \E c \in F : are_neighs(s.g, r, c) /\ are_neighs(s.g, c, w)
  <2>1. w \in T /\ w > r /\ {c \in F : are_neighs(s.g, c, w)} # {}
    BY <1>6 DEF TwoSteps
  <2>2. QED  BY <1>5, <2>1
<1>7. ASSUME NEW w \in V, w # r, w \notin F
      PROVE  s.k # 1 /\ w \in TwoSteps(s.g, r, F, s.k, s.q)
  BY <1>4, <1>7
<1>8. ASSUME NEW w \in V
      PROVE  \/ w = r
             \/ /\ w \in T /\ w > r
                /\ \/ are_neighs(s.g, r, w)
                   \/ s.k # 1 /\ \E c \in V : are_neighs(s.g, r, c) /\ are_neighs(s.g, c, w)
  BY <1>5, <1>6, <1>7
<1>9. QED  BY <1>8 DEF V

LEMMA RootedFacts ==
  ASSUME NEW s, KplexSystem(s), NEW x, Rooted(s, x)
  PROVE  /\ x.sub \in Seq(DOMAIN s.g) /\ IsInjective(x.sub) /\ 1 \in DOMAIN x.sub
         /\ ToSet(x.kplex) \subseteq DOMAIN x.sub /\ 1 \in ToSet(x.kplex)
         /\ x.sub[1] \in DOMAIN s.g /\ x.sub[1] \in Low(x) /\ Low(x) \subseteq ToSet(x.sub)
         /\ \A w \in ToSet(x.sub) : w \in DOMAIN s.g /\ w >= x.sub[1]
         /\ \A w \in ToSet(x.sub) : w # x.sub[1] => w > x.sub[1]
<1>1. x \in KplexTypes(s) /\ NodeView(s, x, ToSet(x.kplex), ToSet(x.cands), ToSet(x.excluded))
  BY ViewFacts DEF Rooted, Placed, KplexSound
<1>2. x.sub \in Seq(DOMAIN s.g) /\ IsInjective(x.sub)
  BY <1>1 DEF KplexTypes
<1>3. ToSet(x.kplex) \subseteq DOMAIN x.sub /\ 1 \in ToSet(x.kplex)
  BY <1>1 DEF NodeView
<1>4. x.sub[1] \in DOMAIN s.g /\ 1 \in DOMAIN x.sub
  BY <1>2, <1>3
<1>5. x.sub[1] \in Low(x) /\ Low(x) \subseteq ToSet(x.sub)
  BY <1>3 DEF Low, VerticesAt, ToSet
<1>6. ToSet(x.sub) = RootVertices(s, x.sub[1]) /\ DOMAIN s.g \subseteq Nat
  BY AllFacts DEF Rooted
<1>7. \A w \in ToSet(x.sub) : w = x.sub[1] \/ (w \in DOMAIN s.g /\ w > x.sub[1])
  <2> DEFINE r == x.sub[1]
  <2>1. r \in DOMAIN s.g
    BY <1>4
  <2> HIDE DEF r
  <2>2. \A w \in RootVertices(s, r) : w = r \/ (w \in DOMAIN s.g /\ w > r)
    BY <2>1, RootVerticesFacts
  <2>3. QED  BY <1>6, <2>2 DEF r
<1>8. QED  BY <1>2, <1>3, <1>4, <1>5, <1>6, <1>7

\* The first node of root v.
FirstNode(s, v, x) ==
  /\ x.sub[1] = v /\ Len(x.sub) = RootSize(s.g, v, s.k, s.q)
  /\ Len(x.sub) < 256 => /\ Rooted(s, x)
                         /\ \A T : LargePlex(s, T, v) /\ Wide(s, All(s), T) => Covers(x, T)

LEMMA RootCovers ==
  ASSUME NEW s, KplexSystem(s), NEW v \in DOMAIN s.g
  PROVE  \/ KplexRoot(s, v) = <<>> /\ \A T : ~ LargePlex(s, T, v)
         \/ \E x \in KplexNodes(s) : KplexRoot(s, v) = <<x>> /\ FirstNode(s, v, x)
<1>1. RootKids(s, v, KplexRoot(s, v))
  BY KplexRootFacts
<1>2. CASE KplexRoot(s, v) = <<>> /\ fwd_degree(s.g, v) + s.k < s.q
  BY <1>2, FilterKeeps
<1>3. ASSUME NEW x \in KplexNodes(s), KplexRoot(s, v) = <<x>>, x.sub[1] = v,
             ToSet(x.sub) = RootVertices(s, v), x = KplexInit(s, x.sub)
      PROVE  FirstNode(s, v, x)
  <2>1. x \in KplexTypes(s) /\ Len(x.sub) = RootSize(s.g, v, s.k, s.q)
        /\ (Len(x.sub) < 256 => KplexSound(s, x))
    BY <1>3 DEF KplexNodes
  <2> DEFINE sub == x.sub
             y == Bare(s, sub)
  <2>2. sub \in Seq(DOMAIN s.g) /\ sub # <<>> /\ IsInjective(sub)
    BY <2>1 DEF KplexTypes
  <2>3. x = Count(s, y, 1)
    BY <1>3 DEF KplexInit, Bare
  <2> HIDE DEF sub
  <2>4. IsBare(s, sub, y)
    BY <2>2, BareFacts
  <2> HIDE DEF y
  <2>5. y \in KplexTypes(s) /\ y.sub = sub /\ y.kplex = <<>> /\ ToSet(y.cands) = DOMAIN sub \ {1}
        /\ ToSet(y.kplex) = {}
    BY <2>4 DEF IsBare
  <2>6. 1 \in DOMAIN sub
    BY <2>2
  <2>7. CountMakes(s, y, 1, x)
    <3>1. 1 \in DOMAIN y.sub
      BY <2>5, <2>6
    <3>2. QED  BY <2>3, <2>5, <3>1, CountFields
  <2>8. x.kplex = Append(y.kplex, 1) /\ x.cands = y.cands /\ ToSet(x.kplex) = ToSet(y.kplex) \cup {1}
    BY <2>7 DEF CountMakes
  <2>9. IsInjective(x.kplex) /\ x.kplex # <<>> /\ x.kplex[1] = 1
    <3>1. x.kplex = <<1>>
      BY <2>5, <2>8
    <3> DEFINE p == x.kplex
    <3> HIDE DEF p
    <3>2. p = <<1>>
      BY <3>1 DEF p
    <3>3. IsInjective(p) /\ p # <<>> /\ p[1] = 1
      BY <3>2 DEF IsInjective
    <3>4. QED  BY <3>3 DEF p
  <2>10. ToSet(x.kplex) = {1} /\ ToSet(x.cands) = DOMAIN x.sub \ {1}
    BY <2>5, <2>8 DEF sub
  <2>11. ASSUME Len(x.sub) < 256 PROVE Rooted(s, x)
    BY <1>3, <2>1, <2>9, <2>11 DEF Rooted, Placed
  <2>12. ASSUME Len(x.sub) < 256, NEW T, LargePlex(s, T, v), Wide(s, All(s), T)
         PROVE  Covers(x, T)
    <3>1. T \subseteq ToSet(x.sub) /\ v \in T
      BY <1>3, <2>12, SecondKeeps DEF LargePlex
    <3>2. 1 \in Indices(x.sub, T) /\ Indices(x.sub, T) \subseteq DOMAIN x.sub
      BY <1>3, <2>6, <3>1 DEF Indices, sub
    <3>3. QED  BY <2>10, <3>1, <3>2 DEF Covers, Holds
  <2>13. QED  BY <1>3, <2>1, <2>11, <2>12 DEF FirstNode
<1>4. QED  BY <1>1, <1>2, <1>3 DEF RootKids

LEMMA CoversFacts ==
  ASSUME NEW s, KplexSystem(s), NEW x, Rooted(s, x)
  PROVE  /\ Covers(x, Low(x)) /\ Indices(x.sub, Low(x)) = ToSet(x.kplex)
         /\ \A T : Covers(x, T) => /\ T \subseteq ToSet(x.sub) /\ x.sub[1] \in T
                                   /\ \A a \in T : a >= x.sub[1]
                                   /\ Low(x) \subseteq T
<1>1. /\ x.sub \in Seq(DOMAIN s.g) /\ IsInjective(x.sub) /\ 1 \in DOMAIN x.sub
      /\ ToSet(x.kplex) \subseteq DOMAIN x.sub /\ 1 \in ToSet(x.kplex)
      /\ \A w \in ToSet(x.sub) : w >= x.sub[1]
  BY RootedFacts
<1>2. Indices(x.sub, Low(x)) = ToSet(x.kplex) /\ Low(x) \subseteq ToSet(x.sub)
  BY <1>1, IndicesFacts DEF Low
<1>3. Covers(x, Low(x))
  BY <1>2 DEF Covers, Holds
<1>4. ASSUME NEW T, Covers(x, T)
      PROVE  /\ T \subseteq ToSet(x.sub) /\ x.sub[1] \in T
             /\ \A a \in T : a >= x.sub[1]
             /\ Low(x) \subseteq T
  <2>1. T \subseteq ToSet(x.sub) /\ ToSet(x.kplex) \subseteq Indices(x.sub, T)
    BY <1>4 DEF Covers, Holds
  <2>2. \A e \in ToSet(x.kplex) : x.sub[e] \in T
    BY <2>1 DEF Indices
  <2>3. QED  BY <1>1, <2>1, <2>2 DEF Low, VerticesAt
<1>5. QED  BY <1>2, <1>3, <1>4

\* The last test of IsReallyMaximal tests what it is meant to test.
LEMMA CanAddVertexFacts ==
  ASSUME NEW s, KplexSystem(s), NEW x, Rooted(s, x), NEW n \in DOMAIN s.g, n \notin Low(x)
  PROVE  CanAddVertex(s, x, n) <=> IsPlex(s, All(s), Low(x) \cup {n})
<1> DEFINE sub == x.sub
           K == ToSet(x.kplex)
           L == Low(x)
           A == All(s)
           away == {e \in K : ~ are_neighs(s.g, n, sub[e])}
           cnt(v) == Cardinality(Away(s, A, L, v))
           more(v) == Cardinality(Away(s, A, L \cup {n}, v))
<1>1. /\ sub \in Seq(DOMAIN s.g) /\ IsInjective(sub) /\ K \subseteq DOMAIN sub /\ L = VerticesAt(sub, K)
      /\ L \subseteq DOMAIN s.g /\ \A e \in K : sub[e] \in L /\ sub[e] \in DOMAIN s.g
  <2>1. sub \in Seq(DOMAIN s.g) /\ IsInjective(sub) /\ K \subseteq DOMAIN sub
    BY RootedFacts
  <2>2. L = VerticesAt(sub, K)
    BY DEF Low
  <2>3. \A e \in DOMAIN sub : sub[e] \in DOMAIN s.g
    BY <2>1
  <2>4. QED  BY <2>1, <2>2, <2>3 DEF VerticesAt
<1>2. SameAs(s, sub, K, L)
  <2> HIDE DEF sub, K, L
  <2>1. QED  BY <1>1, SameAsFacts
<1>3. IsFiniteSet(K) /\ IsFiniteSet(L) /\ (IsPlex(s, sub, K) <=> IsPlex(s, A, L))
  BY <1>2 DEF SameAs
<1>4. IsPlex(s, sub, K) /\ Placed(s, x) /\ s.k \in Nat
  BY DEF Rooted, Placed, KplexSound, KplexSystem
<1>5. \A e \in K : x.counters[e] = cnt(sub[e])
  <2>1. \A e \in DOMAIN sub : x.counters[e] = Cardinality(Away(s, sub, K, e))
    BY <1>4, CounterFacts
  <2> HIDE DEF K, L
  <2>2. \A e \in DOMAIN sub : cnt(sub[e]) = Cardinality(Away(s, sub, K, e))
    <3> HIDE DEF sub
    <3>1. QED  BY <1>1, SameAway
  <2>3. QED  BY <1>1, <2>1, <2>2
<1>6. Cardinality(away) = cnt(n)
  <2>1. away \subseteq K
    OBVIOUS
  <2>2. \A v \in DOMAIN s.g : Apart(s, A, n, v) <=> ~ are_neighs(s.g, n, v)
    BY AllFacts
  <2>3. Away(s, A, L, n) = VerticesAt(sub, away)
    BY <1>1, <2>2 DEF Away, VerticesAt
  <2> HIDE DEF away, K, L, sub
  <2>4. IsFiniteSet(away) /\ away \subseteq DOMAIN sub
    BY <1>1, <1>3, <2>1, FS_Subset
  <2>5. Cardinality(VerticesAt(sub, away)) = Cardinality(away)
    BY <1>1, <2>4, ImageCount
  <2>6. QED  BY <2>3, <2>5
<1>7. ASSUME NEW v
      PROVE  /\ cnt(v) \in Nat
             /\ more(v) = IF Apart(s, A, v, n) THEN cnt(v) + 1 ELSE cnt(v)
  <2> HIDE DEF L
  <2>1. n \notin L
    BY DEF L
  <2>2. QED  BY <1>3, <2>1, AwayFacts
<1>8. /\ Apart(s, A, n, n)
      /\ \A e \in K : e \in away <=> Apart(s, A, sub[e], n)
  <2>1. \A a, b \in DOMAIN s.g : Apart(s, A, a, b) <=> ~ are_neighs(s.g, a, b)
    BY AllFacts
  <2>2. \A a, b \in DOMAIN s.g : (Apart(s, A, a, b) <=> Apart(s, A, b, a)) /\ Apart(s, A, a, a)
    BY AllFacts
  <2>3. QED  BY <1>1, <2>1, <2>2
<1>9. \A v \in L : cnt(v) <= s.k
  BY <1>3, <1>4 DEF IsPlex
<1>10. CanAddVertex(s, x, n) <=>
         (\A e \in away : x.counters[e] + 1 <= s.k) /\ Cardinality(away) + 1 <= s.k
  BY DEF CanAddVertex
<1>11. IsPlex(s, A, L \cup {n}) <=> (\A v \in L : more(v) <= s.k) /\ more(n) <= s.k
  BY DEF IsPlex
<1>12. \A v \in L : \E e \in K : v = sub[e]
  BY <1>1 DEF VerticesAt
<1>13. away \subseteq K
  OBVIOUS
<1> HIDE DEF cnt, more, away, K, L, sub
<1>14. ASSUME CanAddVertex(s, x, n), NEW v \in L PROVE more(v) <= s.k
  <2>1. PICK e \in K : v = sub[e]
    BY <1>12, <1>14
  <2>2. CASE e \in away
    BY <1>4, <1>5, <1>7, <1>8, <1>10, <1>14, <2>1, <2>2
  <2>3. CASE e \notin away
    BY <1>7, <1>8, <1>9, <1>14, <2>1, <2>3
  <2>4. QED  BY <2>2, <2>3
<1>15. ASSUME CanAddVertex(s, x, n) PROVE more(n) <= s.k
  BY <1>6, <1>7, <1>8, <1>10, <1>15
<1>16. ASSUME \A v \in L : more(v) <= s.k, more(n) <= s.k PROVE CanAddVertex(s, x, n)
  <2>1. ASSUME NEW e \in away PROVE x.counters[e] + 1 <= s.k
    BY <1>1, <1>5, <1>7, <1>8, <1>13, <1>16, <2>1
  <2>2. Cardinality(away) + 1 <= s.k
    BY <1>6, <1>7, <1>8, <1>16
  <2>3. QED  BY <1>10, <2>1, <2>2
<1>17. QED  BY <1>11, <1>14, <1>15, <1>16 DEF L

\* The number of vertices of a node's kplex, and what it is.
LEMMA LowFacts ==
  ASSUME NEW s, KplexSystem(s), NEW x, Rooted(s, x)
  PROVE  /\ SameAs(s, x.sub, ToSet(x.kplex), Low(x))
         /\ Low(x) \subseteq DOMAIN s.g /\ IsFiniteSet(Low(x)) /\ IsPlex(s, All(s), Low(x))
         /\ Cardinality(Low(x)) = Len(x.kplex) /\ Len(x.kplex) \in Nat
         /\ \A v \in Low(x) : \E e \in ToSet(x.kplex) : e \in DOMAIN x.sub /\ v = x.sub[e]
<1> DEFINE sub == x.sub
           K == ToSet(x.kplex)
<1>1. sub \in Seq(DOMAIN s.g) /\ IsInjective(sub) /\ K \subseteq DOMAIN sub
  BY RootedFacts
<1>2. IsPlex(s, sub, K) /\ Cardinality(K) = Len(x.kplex) /\ Len(x.kplex) \in Nat
  <2>1. NodeView(s, x, ToSet(x.kplex), ToSet(x.cands), ToSet(x.excluded))
    BY ViewFacts DEF Rooted
  <2>2. QED  BY <2>1 DEF NodeView
<1>3. Low(x) = VerticesAt(sub, K)
  BY DEF Low
<1> HIDE DEF sub, K
<1>4. SameAs(s, sub, K, Low(x))
  BY <1>1, <1>3, SameAsFacts
<1>5. /\ Low(x) \subseteq DOMAIN s.g /\ IsFiniteSet(Low(x)) /\ IsPlex(s, All(s), Low(x))
      /\ Cardinality(Low(x)) = Cardinality(K)
  BY <1>2, <1>4 DEF SameAs
<1>6. \A v \in Low(x) : \E e \in K : e \in DOMAIN sub /\ v = sub[e]
  BY <1>1, <1>3 DEF VerticesAt
<1>7. QED  BY <1>2, <1>4, <1>5, <1>6 DEF sub, K

\* Where the recursion stops, a vertex of the subgraph that could be added has
\* no neighbour in the kplex.
LEMMA NothingJoins ==
  ASSUME NEW s, KplexSystem(s), NEW x, Rooted(s, x), IsMaximal(s, x),
         NEW c \in ToSet(x.sub) \ Low(x), IsPlex(s, All(s), Low(x) \cup {c})
  PROVE  Len(x.kplex) + 1 <= s.k /\ \A v \in Low(x) : Apart(s, All(s), v, c)
<1> DEFINE sub == x.sub
           K == ToSet(x.kplex)
           C == ToSet(x.cands)
           E == ToSet(x.excluded)
<1>1. /\ sub \in Seq(DOMAIN s.g) /\ IsInjective(sub) /\ K \subseteq DOMAIN sub
      /\ Low(x) = VerticesAt(sub, K) /\ Placed(s, x) /\ s.k \in Nat
  BY RootedFacts DEF Low, Rooted, KplexSystem
<1>2. NodeView(s, x, K, C, E)
  BY <1>1, ViewFacts
<1>3. /\ IsFiniteSet(K) /\ Cardinality(K) = Len(x.kplex) /\ Len(x.kplex) \in Nat
      /\ C \cup E = CanJoin(s, sub, K)
  BY <1>2 DEF NodeView
<1>4. PICK e \in DOMAIN sub : sub[e] = c
  BY DEF ToSet
<1>5. e \notin K /\ VerticesAt(sub, K \cup {e}) = Low(x) \cup {c}
  BY <1>1, <1>4 DEF VerticesAt
<1> HIDE DEF sub, K, C, E
<1>6. IsPlex(s, sub, K \cup {e})
  <2> DEFINE R == K \cup {e}
  <2>1. R \subseteq DOMAIN sub /\ VerticesAt(sub, R) = Low(x) \cup {c}
    BY <1>1, <1>5
  <2> HIDE DEF R
  <2>2. SameAs(s, sub, R, VerticesAt(sub, R))
    BY <1>1, <2>1, SameAsFacts
  <2>3. QED  BY <2>1, <2>2 DEF SameAs, R
<1>7. e \in C \cup E
  BY <1>3, <1>5, <1>6 DEF CanJoin
<1>8. /\ Cardinality(K) + 1 > s.k => (IsMaximal(s, x) <=> C \cup E = {})
      /\ ~ (Cardinality(K) + 1 > s.k) =>
           (IsMaximal(s, x) <=> \A a \in C \cup E : x.counters[a] = Cardinality(K))
  BY <1>1, <1>2, MaximalMeans
<1>9. ~ (Cardinality(K) + 1 > s.k) /\ x.counters[e] = Cardinality(K)
  BY <1>7, <1>8
<1>10. Away(s, sub, K, e) = K
  <2> DEFINE R == Away(s, sub, K, e)
  <2>1. x.counters[e] = Cardinality(R)
    BY <1>1, CounterFacts DEF sub, K
  <2>2. R \subseteq K
    BY DEF Away
  <2> HIDE DEF R
  <2>3. R = K
    BY <1>3, <1>9, <2>1, <2>2, FS_Subset
  <2>4. QED  BY <2>3 DEF R
<1>11. ASSUME NEW v \in Low(x) PROVE Apart(s, All(s), v, c)
  <2>1. PICK a \in K : v = sub[a]
    BY <1>1, <1>11 DEF VerticesAt
  <2>2. Apart(s, sub, e, a)
    BY <1>10 DEF Away
  <2>3. Apart(s, All(s), c, v)
    BY <1>1, <1>4, <2>1, <2>2, SameApart
  <2>4. c \in DOMAIN s.g /\ v \in DOMAIN s.g
    BY <1>1, <1>4, <2>1
  <2>5. QED  BY <2>3, <2>4, AllFacts
<1>12. Len(x.kplex) + 1 <= s.k
  BY <1>1, <1>3, <1>9
<1>13. QED  BY <1>11, <1>12

\* m numbers of a sequence without repetition.
LEMMA NamesCount ==
  ASSUME NEW T, NEW p \in Seq(T), IsInjective(p), NEW m \in Nat, m <= Len(p)
  PROVE  IsFiniteSet(Names(p, m)) /\ Cardinality(Names(p, m)) = m
<1> DEFINE f == [j \in 1..m |-> p[j]]
<1>1. 1..m \subseteq DOMAIN p
  OBVIOUS
<1>2. f \in Bijection(1..m, Names(p, m))
  BY <1>1 DEF Bijection, Injection, Surjection, IsInjective, Names
<1>3. IsFiniteSet(1..m) /\ Cardinality(1..m) = m
  <2>1. 1 \in Int /\ m \in Int
    OBVIOUS
  <2>2. QED  BY <2>1, FS_Interval
<1>4. QED  BY <1>2, <1>3, FS_Bijection DEF ExistsBijection

\* A vertex before the root that could be added has no neighbour in the kplex
\* of a solution, which then has fewer than k vertices.
LEMMA NothingBefore ==
  ASSUME NEW s, KplexSystem(s), NEW x, Rooted(s, x), IsReallyMaximal(s, x),
         NEW n \in DOMAIN s.g, n < x.sub[1], IsPlex(s, All(s), Low(x) \cup {n})
  PROVE  Len(x.kplex) < s.k /\ \A v \in Low(x) : Apart(s, All(s), n, v)
<1> DEFINE sub == x.sub
           p == x.kplex
           K == ToSet(p)
           away == {i \in K : ~ are_neighs(s.g, n, sub[i])}
<1>1. /\ sub \in Seq(DOMAIN s.g) /\ IsInjective(sub) /\ K \subseteq DOMAIN sub
      /\ \A w \in ToSet(sub) : w \in DOMAIN s.g /\ w >= sub[1]
      /\ sub[1] \in DOMAIN s.g /\ Low(x) \subseteq ToSet(sub)
  BY RootedFacts
<1>2. DOMAIN s.g \subseteq Nat /\ SimpleGraph(s.g) /\ s.k \in Nat
  BY AllFacts DEF KplexSystem
<1>3. n \notin Low(x)
  BY <1>1, <1>2
<1>4. CanAddVertex(s, x, n)
  BY <1>3, CanAddVertexFacts
<1>5. Cardinality(away) + 1 <= s.k
  BY <1>4 DEF CanAddVertex
<1>6. p \in Seq(Nat) /\ IsInjective(p) /\ IsFiniteSet(K)
  <2>1. x \in KplexTypes(s) /\ IsInjective(x.kplex)
    BY DEF Rooted, Placed, KplexSound
  <2>2. x.kplex \in Seq(Nat)
    BY <2>1 DEF KplexTypes
  <2>3. IsFiniteSet(ToSet(x.kplex))
    BY <2>1, SubTypes
  <2>4. QED  BY <2>1, <2>2, <2>3
<1>7. \A m \in 1..s.k : m <= Len(p) =>
        \A z \in ToSet(neighs(s.g, sub[p[m]])) : z < sub[1] => ~ CanAddVertex(s, x, z)
  BY DEF IsReallyMaximal
<1>8. ASSUME NEW m \in 1..s.k, m <= Len(p) PROVE p[m] \in away
  <2>1. p[m] \in K /\ p[m] \in DOMAIN sub
    <3>1. m \in 1..Len(p)
      BY <1>2, <1>6, <1>8
    <3> HIDE DEF p
    <3>2. p[m] \in ToSet(p)
      BY <1>6, <3>1, SeqFacts
    <3>3. QED  BY <1>1, <3>2
  <2> DEFINE w == sub[p[m]]
  <2>2. w \in DOMAIN s.g
    BY <1>1, <2>1
  <2>3. n \notin ToSet(neighs(s.g, w))
    BY <1>4, <1>7, <1>8
  <2> HIDE DEF w
  <2>4. ~ are_neighs(s.g, w, n)
    BY <1>2, <2>2, <2>3, NeighsFacts
  <2>5. ~ are_neighs(s.g, n, w)
    BY <1>2, <2>2, <2>4, Symmetry
  <2>6. QED  BY <2>1, <2>5 DEF w
<1>9. away \subseteq K
  OBVIOUS
<1> HIDE DEF away, K
<1>10. IsFiniteSet(away) /\ Cardinality(away) \in Nat
  BY <1>6, <1>9, FS_Subset, FS_CardinalityType
<1>11. Len(p) \in Nat /\ DOMAIN p = 1..Len(p) /\ K = {p[m] : m \in 1..Len(p)}
  <2> HIDE DEF p
  <2>1. QED  BY <1>6, SeqFacts DEF K
<1>12. Len(p) < s.k
  <2>1. SUFFICES ASSUME s.k <= Len(p) PROVE FALSE
    BY <1>2, <1>11
  <2>2. Names(p, s.k) \subseteq away
    <3>1. \A m \in 1..s.k : m <= Len(p)
      BY <1>2, <1>11, <2>1
    <3>2. QED  BY <1>8, <3>1 DEF Names
  <2> HIDE DEF p
  <2>3. Cardinality(Names(p, s.k)) = s.k
    BY <1>2, <1>6, <2>1, NamesCount
  <2>4. Cardinality(Names(p, s.k)) <= Cardinality(away)
    BY <1>10, <2>2, FS_Subset
  <2>5. QED  BY <1>2, <1>5, <1>10, <2>3, <2>4
<1>13. ASSUME NEW v \in Low(x) PROVE Apart(s, All(s), n, v)
  <2>1. PICK e \in K : v = sub[e]
    BY <1>13 DEF Low, VerticesAt, K
  <2>2. PICK m \in 1..Len(p) : e = p[m]
    BY <1>11, <2>1
  <2>3. m \in 1..s.k /\ m <= Len(p)
    BY <1>2, <1>11, <1>12
  <2>4. ~ are_neighs(s.g, n, v)
    BY <1>8, <2>1, <2>2, <2>3 DEF away
  <2>5. v \in DOMAIN s.g
    BY <1>1, <1>13
  <2>6. QED  BY <2>4, <2>5, AllFacts
<1>14. QED  BY <1>12, <1>13

\* A k-plex of diameter 2 of the graph.
KplexOf(s, T) == T \subseteq DOMAIN s.g /\ IsPlex(s, All(s), T) /\ Wide(s, All(s), T)

\* What the search is to find.
Wanted(s, T) ==
  /\ KplexOf(s, T) /\ T # {} /\ Cardinality(T) >= s.q
  /\ \A R : KplexOf(s, R) /\ T \subseteq R => R = T

\* A path of three vertices is a 2-plex.
LEMMA PathPlex ==
  ASSUME NEW s, KplexSystem(s), s.k >= 2, NEW r \in DOMAIN s.g, NEW w \in DOMAIN s.g,
         NEW c \in DOMAIN s.g, are_neighs(s.g, r, c), are_neighs(s.g, c, w)
  PROVE  IsPlex(s, All(s), {r, w} \cup {c})
<1> DEFINE L == {r, w} \cup {c}
<1>1. /\ \A a, b \in DOMAIN s.g : Apart(s, All(s), a, b) <=> ~ are_neighs(s.g, a, b)
      /\ \A a, b \in DOMAIN s.g : Apart(s, All(s), a, b) <=> Apart(s, All(s), b, a)
  BY AllFacts
<1>2. ASSUME NEW v \in L
      PROVE  Away(s, All(s), L, v) \subseteq {r} \cup {w} \/ Away(s, All(s), L, v) \subseteq {c} \cup {c}
  BY <1>1, <1>2 DEF Away
<1>3. \A a, b : IsFiniteSet({a} \cup {b}) /\ Cardinality({a} \cup {b}) <= 2
  <2>1. ASSUME NEW a, NEW b PROVE IsFiniteSet({a} \cup {b}) /\ Cardinality({a} \cup {b}) <= 2
    <3>1. IsFiniteSet({a}) /\ Cardinality({a}) = 1
      BY FS_Singleton
    <3>2. /\ IsFiniteSet({a} \cup {b})
          /\ Cardinality({a} \cup {b}) = IF b \in {a} THEN Cardinality({a}) ELSE Cardinality({a}) + 1
      BY <3>1, FS_AddElement
    <3>3. QED  BY <3>1, <3>2
  <2>2. QED  BY <2>1
<1>4. ASSUME NEW v \in L PROVE Cardinality(Away(s, All(s), L, v)) <= s.k
  <2> DEFINE A == Away(s, All(s), L, v)
  <2>1. PICK a, b : A \subseteq {a} \cup {b}
    BY <1>2, <1>4
  <2> HIDE DEF A
  <2>2. IsFiniteSet({a} \cup {b}) /\ Cardinality({a} \cup {b}) <= 2
    BY <1>3
  <2>3. IsFiniteSet(A) /\ Cardinality(A) <= Cardinality({a} \cup {b})
    BY <2>1, <2>2, FS_Subset
  <2>4. Cardinality(A) \in Nat /\ Cardinality({a} \cup {b}) \in Nat /\ s.k \in Nat
    BY <2>2, <2>3, FS_CardinalityType DEF KplexSystem
  <2>5. Cardinality(A) <= s.k
    BY <2>2, <2>3, <2>4
  <2>6. QED  BY <2>5 DEF A
<1>5. QED  BY <1>4 DEF IsPlex

\* HasDiameterTwo is right for the k-plexes to which nothing can be added.
LEMMA SolutionWide ==
  ASSUME NEW s, KplexSystem(s), NEW x, Rooted(s, x), IsReallyMaximal(s, x)
  PROVE  Wide(s, All(s), Low(x))
<1> DEFINE L == Low(x)
           r == x.sub[1]
<1>1. /\ L \subseteq DOMAIN s.g /\ IsFiniteSet(L) /\ IsPlex(s, All(s), L)
      /\ Cardinality(L) = Len(x.kplex) /\ Len(x.kplex) \in Nat
  BY LowFacts
<1>2. /\ Len(x.kplex) + 2 > 2 * s.k \/ s.k = 2
         \/ \A u, v \in L : are_neighs(s.g, u, v)
                            \/ \E c \in L : are_neighs(s.g, u, c) /\ are_neighs(s.g, v, c)
      /\ IsMaximal(s, x)
  BY DEF IsReallyMaximal, HasDiameterTwo, Low, VerticesAt
<1>3. s.k \in Nat
  BY DEF KplexSystem
<1>4. \A a, b \in DOMAIN s.g :
        /\ Apart(s, All(s), a, b) <=> ~ are_neighs(s.g, a, b)
        /\ are_neighs(s.g, a, b) <=> are_neighs(s.g, b, a)
        /\ ~ are_neighs(s.g, a, a)
  BY AllFacts, Symmetry DEF KplexSystem
<1>5. CASE Len(x.kplex) + 2 > 2 * s.k
  BY <1>1, <1>5, ManyWide
<1>6. CASE \A u, v \in L : are_neighs(s.g, u, v)
                           \/ \E c \in L : are_neighs(s.g, u, c) /\ are_neighs(s.g, v, c)
  <2>1. ASSUME NEW u \in L, NEW v \in L, Apart(s, All(s), u, v)
        PROVE  \E c \in L : ~ Apart(s, All(s), u, c) /\ ~ Apart(s, All(s), c, v)
    BY <1>1, <1>4, <1>6, <2>1
  <2>2. QED  BY <2>1 DEF Wide
<1>7. CASE s.k = 2 /\ ~ (Len(x.kplex) + 2 > 2 * s.k)
  <2>1. SUFFICES ASSUME NEW a \in L, NEW b \in L, a # b, Apart(s, All(s), a, b) PROVE FALSE
    BY DEF Wide
  <2>2. r \in L /\ r \in DOMAIN s.g /\ L \subseteq ToSet(x.sub)
    BY RootedFacts
  <2>3. L = {a, b}
    <3>1. {a} \cup {b} \in SUBSET L
      BY <2>1
    <3>2. IsFiniteSet({a} \cup {b}) /\ Cardinality({a} \cup {b}) = 2
      BY <2>1, TwoElements
    <3>3. Cardinality({a} \cup {b}) <= Cardinality(L)
      BY <1>1, <3>1, FS_Subset
    <3>4. Cardinality({a} \cup {b}) = Cardinality(L)
      <4> DEFINE n == Cardinality(L)
      <4>1. n \in Nat /\ ~ (n + 2 > 2 * s.k) /\ s.k = 2
        BY <1>1, <1>7
      <4>2. 2 <= n
        BY <3>2, <3>3
      <4> HIDE DEF n
      <4>3. n = 2
        BY <4>1, <4>2
      <4>4. QED  BY <3>2, <4>3 DEF n
    <3>5. {a} \cup {b} = L
      <4> HIDE DEF L
      <4>1. QED  BY <1>1, <3>1, <3>4, FS_Subset
    <3>6. QED  BY <3>5
  <2>4. PICK w \in L : w # r /\ ~ are_neighs(s.g, r, w) /\ L = {r, w}
    BY <1>1, <1>4, <2>1, <2>2, <2>3
  <2>5. ToSet(x.sub) = RootVertices(s, r)
    BY DEF Rooted
  <2>6. w \in RootVertices(s, r)
    BY <2>2, <2>4, <2>5
  <2>7. PICK c \in RootVertices(s, r) : are_neighs(s.g, r, c) /\ are_neighs(s.g, c, w)
    <3> HIDE DEF r, L
    <3>1. QED  BY <2>2, <2>4, <2>6, RootVerticesFacts
  <2>8. c \in DOMAIN s.g /\ c \notin L /\ c \in ToSet(x.sub) \ Low(x)
    <3>1. c \in ToSet(x.sub)
      BY <2>5, <2>7
    <3>2. c \in DOMAIN s.g
      BY <3>1, RootedFacts
    <3>3. c # r /\ c # w
      BY <1>1, <1>4, <2>4, <2>7, <3>2
    <3>4. QED  BY <2>4, <3>1, <3>2, <3>3
  <2>9. IsPlex(s, All(s), L \cup {c})
    <3>1. w \in DOMAIN s.g /\ s.k >= 2
      BY <1>1, <1>7, <2>4
    <3> HIDE DEF r, L
    <3>2. QED  BY <2>2, <2>4, <2>7, <2>8, <3>1, PathPlex
  <2>10. \A v \in Low(x) : Apart(s, All(s), v, c)
    BY <1>2, <2>8, <2>9, NothingJoins
  <2>11. QED  BY <1>4, <2>2, <2>7, <2>8, <2>10
<1>8. QED  BY <1>2, <1>5, <1>6, <1>7

\* A node that IsSolution accepts holds what the search is to find.
LEMMA SolutionWanted ==
  ASSUME NEW s, KplexSystem(s), NEW x, Rooted(s, x), IsReallyMaximal(s, x)
  PROVE  Wanted(s, Low(x))
<1> DEFINE L == Low(x)
           r == x.sub[1]
<1>1. /\ L \subseteq DOMAIN s.g /\ IsFiniteSet(L) /\ IsPlex(s, All(s), L)
      /\ Cardinality(L) = Len(x.kplex) /\ Len(x.kplex) \in Nat
  BY LowFacts
<1>2. /\ r \in L /\ r \in DOMAIN s.g /\ L \subseteq ToSet(x.sub) /\ IsInjective(x.sub)
      /\ x.sub \in Seq(DOMAIN s.g) /\ \A w \in ToSet(x.sub) : w \in DOMAIN s.g /\ w >= r
  BY RootedFacts
<1>3. Wide(s, All(s), L)
  BY SolutionWide
<1>4. IsMaximal(s, x) /\ Cardinality(L) >= s.q
  BY <1>1 DEF IsReallyMaximal
<1>5. s.k \in Nat /\ s.q \in Nat /\ DOMAIN s.g \subseteq Nat /\ IsFiniteSet(DOMAIN s.g)
  BY AllFacts DEF KplexSystem
<1>6. \A a, b \in DOMAIN s.g : Apart(s, All(s), a, b) <=> Apart(s, All(s), b, a)
  BY AllFacts
<1>7. ToSet(x.sub) = RootVertices(s, r)
  BY DEF Rooted
<1>8. ASSUME NEW R, KplexOf(s, R), L \subseteq R, R # L
      PROVE  FALSE
  <2>1. R \subseteq DOMAIN s.g /\ IsPlex(s, All(s), R) /\ Wide(s, All(s), R) /\ IsFiniteSet(R)
    BY <1>5, <1>8, FS_Subset DEF KplexOf
  <2>2. Cardinality(R) >= s.q
    <3>1. Cardinality(L) <= Cardinality(R)
      BY <1>8, <2>1, FS_Subset
    <3>2. Cardinality(R) \in Nat
      BY <2>1, FS_CardinalityType
    <3>3. QED  BY <1>1, <1>4, <1>5, <3>1, <3>2
  <2>3. \A n \in R : IsPlex(s, All(s), L \cup {n})
    <3>1. \A n \in R : L \cup {n} \in SUBSET R
      BY <1>8
    <3>2. QED  BY <2>1, <3>1, PlexPart
  <2>4. CASE \A a \in R : r <= a
    <3>1. R \subseteq ToSet(x.sub)
      <4>1. LargePlex(s, R, r)
        BY <1>2, <1>8, <2>1, <2>2, <2>4 DEF LargePlex
      <4>2. R \subseteq RootVertices(s, r)
        BY <2>1, <4>1, SecondKeeps
      <4>3. QED  BY <1>7, <4>2
    <3> DEFINE S == Indices(x.sub, R)
               K == ToSet(x.kplex)
    <3>2. S \subseteq DOMAIN x.sub /\ VerticesAt(x.sub, S) = R
      BY <1>2, <3>1, IndicesFacts
    <3>3. SameAs(s, x.sub, S, R)
      <4> HIDE DEF S
      <4>1. QED  BY <1>2, <3>2, SameAsFacts
    <3>4. IsPlex(s, x.sub, S) /\ Wide(s, x.sub, S)
      BY <2>1, <3>3 DEF SameAs
    <3>5. K \subseteq S
      <4>1. K \subseteq DOMAIN x.sub
        BY RootedFacts
      <4>2. \A e \in K : x.sub[e] \in R
        BY <1>8 DEF Low, VerticesAt
      <4>3. QED  BY <4>1, <4>2 DEF Indices
    <3>6. Placed(s, x) /\ NodeView(s, x, K, ToSet(x.cands), ToSet(x.excluded))
      BY ViewFacts DEF Rooted
    <3>7. S = K
      <4> HIDE DEF S, K
      <4>1. QED  BY <1>4, <3>2, <3>4, <3>5, <3>6, MaximalFull
    <3>8. QED  BY <1>8, <3>2, <3>7 DEF Low
  <2>5. ASSUME NEW n \in R, ~ (r <= n) PROVE FALSE
    <3>1. n \in DOMAIN s.g /\ n < r
      BY <1>2, <1>5, <2>1, <2>5
    <3>2. Len(x.kplex) < s.k /\ \A v \in L : Apart(s, All(s), n, v)
      BY <2>3, <2>5, <3>1, NothingBefore
    <3>3. n # r /\ r \in R /\ Apart(s, All(s), n, r)
      BY <1>2, <1>5, <1>8, <3>1, <3>2
    <3>4. PICK c \in R : ~ Apart(s, All(s), n, c) /\ ~ Apart(s, All(s), c, r)
      BY <2>1, <2>5, <3>3 DEF Wide
    <3>5. c \notin L /\ c \in DOMAIN s.g
      BY <2>1, <3>2, <3>4
    <3>6. ~ (c < r)
      <4>1. ASSUME c < r PROVE FALSE
        <5>1. \A v \in L : Apart(s, All(s), c, v)
          BY <2>3, <3>5, <4>1, NothingBefore
        <5>2. QED  BY <1>2, <3>4, <5>1
      <4>2. QED  BY <4>1
    <3>7. c \in ToSet(x.sub)
      <4> DEFINE U == L \cup {c}
      <4>1. LargePlex(s, U, r)
        <5>1. U \subseteq DOMAIN s.g /\ IsPlex(s, All(s), U) /\ r \in U
          BY <1>1, <1>2, <2>3, <3>5
        <5>2. \A a \in U : r <= a
          BY <1>2, <1>5, <3>5, <3>6
        <5>3. Cardinality(U) >= s.q
          <6>1. Cardinality(U) = Cardinality(L) + 1
            BY <1>1, <3>5, FS_AddElement
          <6>2. QED  BY <1>1, <1>4, <1>5, <6>1
        <5>4. QED  BY <5>1, <5>2, <5>3 DEF LargePlex
      <4>2. c \in NextTo(s, U, r)
        BY <1>2, <1>6, <3>4, <3>5 DEF NextTo
      <4>3. c \in Filtered(s.g, fwd_neighs(s.g, r), s.k, s.q)
        <5> HIDE DEF U
        <5>1. QED  BY <4>1, <4>2, FilterKeeps
      <4>4. QED  BY <1>7, <4>3 DEF RootVertices
    <3>8. \A v \in L : Apart(s, All(s), v, c)
      BY <1>4, <2>3, <3>5, <3>7, NothingJoins
    <3>9. QED  BY <1>2, <1>6, <3>4, <3>5, <3>8
  <2>6. QED  BY <2>4, <2>5
<1>9. QED  BY <1>1, <1>2, <1>3, <1>4, <1>8 DEF Wanted, KplexOf

\* k is small, or q so large that a k-plex of more than q vertices has diameter 2.
Enough(s) == s.k <= 2 \/ 2 * s.k <= s.q + 2

\* Then nothing can be added to what is wanted, but to a single vertex that is
\* not adjacent.
LEMMA NothingMore ==
  ASSUME NEW s, KplexSystem(s), Enough(s), NEW T, Wanted(s, T), NEW v \in DOMAIN s.g, v \notin T,
         IsPlex(s, All(s), T \cup {v}),
         Cardinality(T) >= 2 \/ \E a \in T : ~ Apart(s, All(s), a, v)
  PROVE  FALSE
<1> DEFINE U == T \cup {v}
           n == Cardinality(T)
<1>1. T \subseteq DOMAIN s.g /\ T # {} /\ Cardinality(T) >= s.q
  BY DEF Wanted, KplexOf
<1>2. IsFiniteSet(T) /\ s.k \in Nat \ {0} /\ s.q \in Nat
  BY <1>1, AllFacts, FS_Subset DEF KplexSystem
<1>3. n \in Nat /\ n # 0 /\ n >= s.q /\ Cardinality(U) = n + 1
  BY <1>1, <1>2, FS_CardinalityType, FS_EmptySet, FS_AddElement
<1>4. U \subseteq DOMAIN s.g /\ IsPlex(s, All(s), U)
  BY <1>1
<1>5. Wide(s, All(s), U)
  <2>1. CASE n >= 2
    <3>1. Cardinality(U) + 2 > 2 * s.k
      <4> HIDE DEF n, U
      <4>1. n + 1 + 2 > 2 * s.k
        BY <1>2, <1>3, <2>1 DEF Enough
      <4>2. QED  BY <1>3, <4>1
    <3> HIDE DEF U
    <3>2. QED  BY <1>4, <3>1, ManyWide
  <2>2. CASE ~ (n >= 2)
    <3>1. n = 1
      <4> HIDE DEF n
      <4>1. QED  BY <1>3, <2>2
    <3>2. PICK a : T = {a}
      BY <1>2, <3>1, FS_Singleton
    <3>3. ~ Apart(s, All(s), a, v) /\ ~ Apart(s, All(s), v, a)
      BY <1>1, <2>2, <3>2, AllFacts
    <3>4. QED  BY <3>2, <3>3 DEF Wide
  <2>3. QED  BY <2>1, <2>2
<1>6. KplexOf(s, U) /\ T \subseteq U /\ U # T
  BY <1>4, <1>5 DEF KplexOf
<1> HIDE DEF U
<1>7. QED  BY <1>6 DEF Wanted

\* What is wanted is sought below its root.
LEMMA WantedSought ==
  ASSUME NEW s, KplexSystem(s), Enough(s), NEW x, Rooted(s, x), NEW T, Wanted(s, T),
         T \subseteq ToSet(x.sub), x.sub[1] \in T
  PROVE  Sought(s, x.sub, Indices(x.sub, T))
<1> DEFINE sub == x.sub
           S == Indices(sub, T)
           r == sub[1]
<1>1. /\ sub \in Seq(DOMAIN s.g) /\ IsInjective(sub) /\ r \in DOMAIN s.g
  BY RootedFacts
<1>2. S \subseteq DOMAIN sub /\ VerticesAt(sub, S) = T
  BY <1>1, IndicesFacts
<1>3. SameAs(s, sub, S, T)
  <2> HIDE DEF sub, S
  <2>1. SameAs(s, sub, S, VerticesAt(sub, S))
    BY <1>1, <1>2, SameAsFacts
  <2>2. QED  BY <1>2, <2>1
<1>4. T \subseteq DOMAIN s.g /\ IsPlex(s, All(s), T) /\ Wide(s, All(s), T) /\ Cardinality(T) >= s.q
  BY DEF Wanted, KplexOf
<1>5. IsPlex(s, sub, S) /\ Wide(s, sub, S) /\ Cardinality(S) >= s.q
  BY <1>3, <1>4 DEF SameAs
<1>6. ASSUME NEW e \in CanJoin(s, sub, S) PROVE FALSE
  <2> DEFINE v == sub[e]
             R == S \cup {e}
  <2>1. e \in DOMAIN sub /\ e \notin S /\ IsPlex(s, sub, R)
    BY <1>6 DEF CanJoin
  <2>2. v \in DOMAIN s.g /\ v \notin T /\ v \in ToSet(sub)
    BY <1>1, <2>1 DEF Indices, ToSet
  <2>3. VerticesAt(sub, R) = T \cup {v} /\ R \subseteq DOMAIN sub
    BY <1>2, <2>1 DEF VerticesAt
  <2>4. IsPlex(s, All(s), T \cup {v})
    <3> HIDE DEF R, sub, S, v
    <3>1. SameAs(s, sub, R, VerticesAt(sub, R))
      BY <1>1, <2>3, SameAsFacts
    <3>2. QED  BY <2>1, <2>3, <3>1 DEF SameAs
  <2> HIDE DEF v, S, R
  <2>5. ~ (Cardinality(T) >= 2) /\ \A a \in T : Apart(s, All(s), a, v)
    BY <2>2, <2>4, NothingMore
  <2>6. r \in T /\ ToSet(sub) = RootVertices(s, r)
    BY DEF Rooted
  <2>7. T = {r}
    <3>1. IsFiniteSet(T)
      BY <1>3 DEF SameAs
    <3>2. {r} \in SUBSET T /\ IsFiniteSet({r}) /\ Cardinality({r}) = 1
      BY <2>6, FS_Singleton
    <3>3. 1 <= Cardinality(T) /\ Cardinality(T) \in Nat
      BY <3>1, <3>2, FS_Subset, FS_CardinalityType
    <3>4. Cardinality({r}) = Cardinality(T)
      BY <2>5, <3>2, <3>3
    <3>5. {r} = T
      BY <3>1, <3>2, <3>4, FS_Subset
    <3>6. QED  BY <3>5
  <2>8. v # r /\ ~ are_neighs(s.g, r, v)
    BY <1>1, <2>2, <2>5, <2>6, AllFacts
  <2>9. v \in RootVertices(s, r)
    BY <2>2, <2>6
  <2> HIDE DEF r, sub
  <2>10. s.k # 1 /\ \E c \in RootVertices(s, r) : are_neighs(s.g, r, c) /\ are_neighs(s.g, c, v)
    BY <1>1, <2>8, <2>9, RootVerticesFacts
  <2>11. PICK c \in RootVertices(s, r) : are_neighs(s.g, r, c) /\ are_neighs(s.g, c, v)
    BY <2>10
  <2>12. c \in DOMAIN s.g
    <3>1. c \in ToSet(x.sub)
      BY <2>6, <2>11 DEF sub
    <3>2. QED  BY <3>1, RootedFacts
  <2>13. c \notin T
    BY <2>7, <2>11, <2>12, Symmetry DEF KplexSystem
  <2>14. s.k >= 2 /\ s.k \in Nat
    BY <2>10 DEF KplexSystem
  <2>15. IsPlex(s, All(s), {r, v} \cup {c})
    BY <1>1, <2>2, <2>11, <2>12, <2>14, PathPlex
  <2>16. IsPlex(s, All(s), T \cup {c})
    <3> DEFINE P == {r, v} \cup {c}
    <3>1. T \cup {c} \in SUBSET P
      BY <2>7
    <3>2. P \subseteq DOMAIN s.g
      BY <1>1, <2>2, <2>12
    <3>3. IsFiniteSet(P)
      <4> HIDE DEF P
      <4>1. QED  BY <3>2, AllFacts, FS_Subset
    <3> HIDE DEF P
    <3>4. IsPlex(s, All(s), P)
      BY <2>15 DEF P
    <3>5. QED  BY <3>1, <3>3, <3>4, PlexPart
  <2>17. ~ Apart(s, All(s), r, c)
    BY <1>1, <2>11, <2>12, AllFacts
  <2>18. QED  BY <2>6, <2>12, <2>13, <2>16, <2>17, NothingMore
<1>7. QED  BY <1>2, <1>5, <1>6 DEF Sought

\* Where the recursion stops with what is wanted, IsSolution accepts it.
LEMMA WantedAccepted ==
  ASSUME NEW s, KplexSystem(s), Enough(s), NEW x, Rooted(s, x), Wanted(s, Low(x)), IsMaximal(s, x)
  PROVE  IsReallyMaximal(s, x)
<1> DEFINE L == Low(x)
           p == x.kplex
           sub == x.sub
           r == sub[1]
<1>1. /\ L \subseteq DOMAIN s.g /\ IsFiniteSet(L) /\ Cardinality(L) = Len(p) /\ Len(p) \in Nat
  BY LowFacts
<1>2. /\ sub \in Seq(DOMAIN s.g) /\ r \in L /\ \A w \in ToSet(sub) : w \in DOMAIN s.g /\ w >= r
      /\ L \subseteq ToSet(sub) /\ ToSet(p) \subseteq DOMAIN sub
  BY RootedFacts
<1>3. s.k \in Nat \ {0} /\ s.q \in Nat /\ DOMAIN s.g \subseteq Nat /\ SimpleGraph(s.g)
  BY AllFacts DEF KplexSystem
<1>4. Wide(s, All(s), L) /\ Cardinality(L) >= s.q
  BY DEF Wanted, KplexOf
<1>5. \A a, b \in DOMAIN s.g :
        /\ Apart(s, All(s), a, b) <=> ~ are_neighs(s.g, a, b)
        /\ are_neighs(s.g, a, b) <=> are_neighs(s.g, b, a)
  BY <1>3, AllFacts, Symmetry
<1>6. Len(p) # 0
  BY <1>1, <1>2, FS_EmptySet
<1>7. HasDiameterTwo(s, x)
  <2>1. CASE s.k = 1
    <3> DEFINE n == Len(p)
    <3>1. n \in Nat /\ n # 0
      BY <1>1, <1>6
    <3> HIDE DEF n
    <3>2. n + 2 > 2 * s.k
      BY <2>1, <3>1
    <3>3. QED  BY <3>2 DEF HasDiameterTwo, n
  <2>2. CASE s.k = 2
    BY <2>2 DEF HasDiameterTwo
  <2>3. CASE s.k # 1 /\ s.k # 2
    <3>1. Cardinality(L) # 1
      <4> DEFINE n == Cardinality(L)
      <4>1. n \in Nat /\ n >= s.q
        BY <1>1, <1>4
      <4> HIDE DEF n
      <4>2. n # 1
        BY <1>3, <2>3, <4>1 DEF Enough
      <4>3. QED  BY <4>2 DEF n
    <3>2. ASSUME NEW u \in L PROVE \E c \in L : are_neighs(s.g, u, c)
      <4>1. PICK w \in L : w # u
        <5>1. L # {u}
          BY <3>1, FS_Singleton
        <5>2. QED  BY <3>2, <5>1
      <4>2. \/ ~ Apart(s, All(s), u, w)
            \/ \E c \in L : ~ Apart(s, All(s), u, c) /\ ~ Apart(s, All(s), c, w)
        BY <1>4, <3>2, <4>1 DEF Wide
      <4> HIDE DEF L
      <4>3. QED  BY <1>1, <1>5, <3>2, <4>1, <4>2
    <3>3. ASSUME NEW u \in L, NEW v \in L
          PROVE  are_neighs(s.g, u, v) \/ \E c \in L : are_neighs(s.g, u, c) /\ are_neighs(s.g, v, c)
      <4>1. CASE u = v
        BY <3>2, <4>1
      <4>2. CASE u # v
        <5>1. \/ ~ Apart(s, All(s), u, v)
              \/ \E c \in L : ~ Apart(s, All(s), u, c) /\ ~ Apart(s, All(s), c, v)
          BY <1>4, <3>3, <4>2 DEF Wide
        <5> HIDE DEF L
        <5>2. QED  BY <1>1, <1>5, <3>3, <5>1
      <4>3. QED  BY <4>1, <4>2
    <3>4. QED  BY <3>3 DEF HasDiameterTwo, Low, VerticesAt
  <2>4. QED  BY <2>1, <2>2, <2>3
<1>8. ASSUME NEW m \in 1..s.k, m <= Len(p), NEW n \in ToSet(neighs(s.g, sub[p[m]])), n < r,
             CanAddVertex(s, x, n)
      PROVE  FALSE
  <2>1. x \in KplexTypes(s)
    BY DEF Rooted, Placed, KplexSound
  <2>2. p \in Seq(Nat)
    BY <2>1 DEF KplexTypes
  <2>3. p[m] \in ToSet(p)
    <3>1. m \in 1..Len(p)
      BY <1>1, <1>3, <1>8
    <3> HIDE DEF p
    <3>2. QED  BY <2>2, <3>1, SeqFacts
  <2> DEFINE w == sub[p[m]]
  <2>4. w \in L /\ w \in DOMAIN s.g
    BY <1>2, <2>3 DEF Low, VerticesAt
  <2>5. n \in ToSet(neighs(s.g, w))
    BY <1>8
  <2> HIDE DEF w
  <2>6. n \in DOMAIN s.g /\ are_neighs(s.g, w, n)
    BY <1>3, <2>4, <2>5, NeighsFacts
  <2>7. n \notin L
    BY <1>2, <1>3, <1>8, <2>6
  <2>8. IsPlex(s, All(s), L \cup {n})
    BY <1>8, <2>6, <2>7, CanAddVertexFacts
  <2>9. ~ Apart(s, All(s), w, n)
    BY <1>5, <2>4, <2>6
  <2> HIDE DEF L
  <2>10. Wanted(s, L)
    BY DEF L
  <2>11. QED  BY <2>4, <2>6, <2>7, <2>8, <2>9, <2>10, NothingMore
<1>9. Len(p) >= s.q
  BY <1>1, <1>4
<1>10. QED  BY <1>7, <1>8, <1>9 DEF IsReallyMaximal

\* What is below a node is what its kplex is or what is below one of its
\* children, and below one only.
CoverKids(s, x, kids) ==
  /\ \A z \in ToSet(kids) : Rooted(s, z) /\ z.sub = x.sub
  /\ \A z \in ToSet(kids) : \A T : Covers(z, T) => Covers(x, T) /\ T # Low(x)
  /\ \A y, z \in ToSet(kids) : \A T : Covers(y, T) /\ Covers(z, T) => y = z
  /\ Enough(s) =>
       \A T : Wanted(s, T) /\ Covers(x, T) =>
         \/ IsReallyMaximal(s, x) /\ T = Low(x)
         \/ \E z \in ToSet(kids) : Covers(z, T)

LEMMA CoverKidsFacts ==
  ASSUME NEW s, KplexSystem(s), NEW x, Rooted(s, x), NEW T, NEW kids \in Seq(T),
         kids = KplexChildren(s, x)
  PROVE  CoverKids(s, x, kids)
<1> DEFINE D == DOMAIN x.sub
           K == ToSet(x.kplex)
           I(R) == Indices(x.sub, R)
<1>1. Placed(s, x) /\ ToSet(x.sub) = RootVertices(s, x.sub[1])
  BY DEF Rooted
<1>2. KidsAdd(s, x, kids)
  BY <1>1, KidsAddFacts
<1>3. /\ \A m \in 1..Len(kids) : Placed(s, kids[m]) /\ kids[m].sub = x.sub
      /\ \A m \in 1..Len(kids) : \A S \in SUBSET D : Holds(kids[m], S) => Holds(x, S) /\ S # K
      /\ \A m, n \in 1..Len(kids) : \A S \in SUBSET D :
           Holds(kids[m], S) /\ Holds(kids[n], S) => m = n
      /\ \A S : Sought(s, x.sub, S) /\ Holds(x, S) =>
           \/ IsMaximal(s, x) /\ S = K
           \/ \E m \in 1..Len(kids) : Holds(kids[m], S)
  BY <1>2 DEF KidsAdd
<1>4. \A z \in ToSet(kids) : \E m \in 1..Len(kids) : z = kids[m]
  BY DEF ToSet
<1>5. \A m \in 1..Len(kids) : kids[m] \in ToSet(kids)
  BY DEF ToSet
<1>6. I(Low(x)) = K /\ Covers(x, Low(x))
  BY CoversFacts
<1>7. \A R : I(R) \in SUBSET D
  BY DEF Indices
<1>8. \A m \in 1..Len(kids) : \A R : Covers(kids[m], R) <=> R \subseteq ToSet(x.sub) /\ Holds(kids[m], I(R))
  BY <1>3 DEF Covers
<1>9. \A R : Covers(x, R) <=> R \subseteq ToSet(x.sub) /\ Holds(x, I(R))
  BY DEF Covers
<1>10. \A m \in 1..Len(kids) : Rooted(s, kids[m]) /\ kids[m].sub = x.sub
  BY <1>1, <1>3 DEF Rooted
<1>11. \A R : Covers(x, R) => x.sub[1] \in R
  BY CoversFacts
<1>12. ASSUME Enough(s), NEW R, Wanted(s, R), Covers(x, R)
       PROVE  \/ IsReallyMaximal(s, x) /\ R = Low(x)
              \/ \E z \in ToSet(kids) : Covers(z, R)
  <2>1. R \subseteq ToSet(x.sub) /\ Holds(x, I(R)) /\ x.sub[1] \in R
    BY <1>9, <1>11, <1>12
  <2>2. Sought(s, x.sub, I(R))
    BY <1>12, <2>1, WantedSought
  <2>3. CASE IsMaximal(s, x) /\ I(R) = K
    <3>1. R = Low(x)
      <4>1. IsInjective(x.sub)
        BY RootedFacts
      <4>2. VerticesAt(x.sub, I(R)) = R
        BY <2>1, <4>1, IndicesFacts
      <4>3. QED  BY <2>3, <4>2 DEF Low
    <3>2. IsReallyMaximal(s, x)
      BY <1>12, <2>3, <3>1, WantedAccepted
    <3>3. QED  BY <3>1, <3>2
  <2>4. CASE \E m \in 1..Len(kids) : Holds(kids[m], I(R))
    BY <1>5, <1>8, <2>1, <2>4
  <2>5. QED  BY <1>3, <2>1, <2>2, <2>3, <2>4
<1> HIDE DEF I, D, K
<1>13. ASSUME NEW z \in ToSet(kids), NEW R, Covers(z, R) PROVE Covers(x, R) /\ R # Low(x)
  BY <1>3, <1>4, <1>6, <1>7, <1>8, <1>9, <1>13
<1>14. ASSUME NEW y \in ToSet(kids), NEW z \in ToSet(kids), NEW R, Covers(y, R), Covers(z, R)
       PROVE  y = z
  <2>1. PICK m \in 1..Len(kids), n \in 1..Len(kids) : y = kids[m] /\ z = kids[n]
    BY <1>4, <1>14
  <2>2. Holds(kids[m], I(R)) /\ Holds(kids[n], I(R))
    BY <1>8, <1>14, <2>1
  <2>3. I(R) \in SUBSET D
    BY <1>7
  <2>4. \A S \in SUBSET D : Holds(kids[m], S) /\ Holds(kids[n], S) => m = n
    BY <1>3
  <2>5. m = n
    BY <2>2, <2>3, <2>4
  <2>6. QED  BY <2>1, <2>5
<1>15. \A z \in ToSet(kids) : Rooted(s, z) /\ z.sub = x.sub
  BY <1>4, <1>10
<1>16. QED  BY <1>12, <1>13, <1>14, <1>15 DEF CoverKids

-----------------------------------------------------------------------
(* What is still to be found *)

\* P are the nodes that are still to be visited and V those that have been,
\* below the roots before r.
Shares(s, P, V, r) ==
  /\ \A x \in P \cup V : Rooted(s, x)
  /\ \A x, y \in P : \A T : Covers(x, T) /\ Covers(y, T) => x = y
  /\ \A x \in P, v \in V : ~ Covers(x, Low(v))
  /\ \A v, w \in V : Low(v) = Low(w) => v = w
  /\ Enough(s) =>
       \A T : Wanted(s, T) /\ (\E a \in T : a < r) =>
         \/ \E x \in P : Covers(x, T)
         \/ \E v \in V : IsReallyMaximal(s, v) /\ Low(v) = T

LEMMA VisitShares ==
  ASSUME NEW s, KplexSystem(s), NEW P, NEW V, NEW r, NEW x, Shares(s, P \cup {x}, V, r), x \notin P,
         NEW kids, CoverKids(s, x, kids)
  PROVE  Shares(s, P \cup ToSet(kids), V \cup {x}, r)
<1> DEFINE Q == ToSet(kids)
<1>1. /\ \A y \in P \cup {x} \cup V : Rooted(s, y)
      /\ \A y, z \in P \cup {x} : \A T : Covers(y, T) /\ Covers(z, T) => y = z
      /\ \A y \in P \cup {x}, v \in V : ~ Covers(y, Low(v))
      /\ \A v, w \in V : Low(v) = Low(w) => v = w
      /\ Enough(s) =>
           \A T : Wanted(s, T) /\ (\E a \in T : a < r) =>
             \/ \E y \in P \cup {x} : Covers(y, T)
             \/ \E v \in V : IsReallyMaximal(s, v) /\ Low(v) = T
  BY Zenon DEF Shares
<1>2. /\ \A z \in Q : Rooted(s, z)
      /\ \A z \in Q : \A T : Covers(z, T) => Covers(x, T) /\ T # Low(x)
      /\ \A y, z \in Q : \A T : Covers(y, T) /\ Covers(z, T) => y = z
      /\ Enough(s) =>
           \A T : Wanted(s, T) /\ Covers(x, T) =>
             \/ IsReallyMaximal(s, x) /\ T = Low(x)
             \/ \E z \in Q : Covers(z, T)
  BY DEF CoverKids
<1> HIDE DEF Q
<1>3. Rooted(s, x) /\ Covers(x, Low(x))
  BY <1>1, CoversFacts
<1>4. \A y \in P \cup Q \cup (V \cup {x}) : Rooted(s, y)
  BY <1>1, <1>2
<1>5. \A y, z \in P \cup Q : \A T : Covers(y, T) /\ Covers(z, T) => y = z
  BY <1>1, <1>2
<1>6. \A y \in P \cup Q, v \in V \cup {x} : ~ Covers(y, Low(v))
  BY <1>1, <1>2, <1>3
<1>7. \A v, w \in V \cup {x} : Low(v) = Low(w) => v = w
  BY <1>1, <1>3
<1>8. ASSUME Enough(s), NEW T, Wanted(s, T), \E a \in T : a < r
      PROVE  \/ \E y \in P \cup Q : Covers(y, T)
             \/ \E v \in V \cup {x} : IsReallyMaximal(s, v) /\ Low(v) = T
  BY <1>1, <1>2, <1>8
<1>9. QED  BY <1>4, <1>5, <1>6, <1>7, <1>8, Zenon DEF Shares, Q

\* The next root.
LEMMA RootShares ==
  ASSUME NEW s, KplexSystem(s), NEW V, NEW r \in DOMAIN s.g, Shares(s, {}, V, r),
         \A v \in V : v.sub[1] < r
  PROVE  /\ (\A T : ~ LargePlex(s, T, r)) => Shares(s, {}, V, r + 1)
         /\ \A x : Rooted(s, x) /\ x.sub[1] = r
                   /\ (\A T : LargePlex(s, T, r) /\ Wide(s, All(s), T) => Covers(x, T))
                   => Shares(s, {x}, V, r + 1)
<1>1. /\ \A y \in V : Rooted(s, y)
      /\ \A v, w \in V : Low(v) = Low(w) => v = w
      /\ Enough(s) =>
           \A T : Wanted(s, T) /\ (\E a \in T : a < r) =>
             \E v \in V : IsReallyMaximal(s, v) /\ Low(v) = T
  BY DEF Shares
<1>2. ASSUME NEW T, Wanted(s, T), \E a \in T : a < r + 1, ~ \E a \in T : a < r
      PROVE  LargePlex(s, T, r) /\ Wide(s, All(s), T)
  <2>1. T \subseteq DOMAIN s.g /\ IsPlex(s, All(s), T) /\ Wide(s, All(s), T) /\ Cardinality(T) >= s.q
    BY <1>2 DEF Wanted, KplexOf
  <2>2. DOMAIN s.g \subseteq Nat
    BY AllFacts
  <2>3. r \in T /\ \A a \in T : r <= a
    BY <1>2, <2>1, <2>2
  <2>4. QED  BY <2>1, <2>3 DEF LargePlex
<1>3. ASSUME \A T : ~ LargePlex(s, T, r) PROVE Shares(s, {}, V, r + 1)
  BY <1>1, <1>2, <1>3 DEF Shares
<1>4. ASSUME NEW x, Rooted(s, x), x.sub[1] = r,
             \A T : LargePlex(s, T, r) /\ Wide(s, All(s), T) => Covers(x, T)
      PROVE  Shares(s, {x}, V, r + 1)
  <2>1. ASSUME NEW v \in V PROVE ~ Covers(x, Low(v))
    <3>1. Rooted(s, v) /\ v.sub[1] < r
      BY <1>1, <2>1
    <3>2. v.sub[1] \in Low(v) /\ v.sub[1] \in DOMAIN s.g
      BY <3>1, RootedFacts
    <3>3. Covers(x, Low(v)) => v.sub[1] >= r
      BY <1>4, <3>2, CoversFacts
    <3>4. DOMAIN s.g \subseteq Nat
      BY AllFacts
    <3>5. QED  BY <3>1, <3>2, <3>3, <3>4
  <2>2. ASSUME Enough(s), NEW T, Wanted(s, T), \E a \in T : a < r + 1
        PROVE  \/ \E y \in {x} : Covers(y, T)
               \/ \E v \in V : IsReallyMaximal(s, v) /\ Low(v) = T
    BY <1>1, <1>2, <1>4, <2>2
  <2>3. QED  BY <1>1, <1>4, <2>1, <2>2 DEF Shares
<1>5. QED  BY <1>3, <1>4
=======================================================================
