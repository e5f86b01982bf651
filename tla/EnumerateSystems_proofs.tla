-------------------- MODULE EnumerateSystems_proofs --------------------
(***************************************************************************)
(* Proofs about EnumerateSystems, for every file: the degeneracy order is  *)
(* a permutation, the search for maximal cliques lists each of them once,  *)
(* and the search for k-plexes visits no node twice, keeps in each node    *)
(* what the graph says it should, and lists each maximal k-plex of         *)
(* diameter 2 once.  Nodes that are sent arrive as they were.              *)
(***************************************************************************)
EXTENDS EnumerateSystems, Systems_proofs
-----------------------------------------------------------------------
(* The input file *)

LEMMA PairFacts ==
  ASSUME NEW T, NEW p \in T \X T
  PROVE  /\ p = <<p[1], p[2]>> /\ p[1] \in T /\ p[2] \in T
         /\ p \in Seq(T) /\ Len(p) = 2
<1>1. p = <<p[1], p[2]>> /\ p[1] \in T /\ p[2] \in T
  OBVIOUS
<1>2. ASSUME NEW x \in T, NEW y \in T PROVE <<x, y>> \in Seq(T) /\ Len(<<x, y>>) = 2
  <2>1. <<x, y>> \in Seq(T)
    OBVIOUS
  <2>2. Len(<<x, y>>) = 2
    OBVIOUS
  <2>3. QED  BY <2>1, <2>2
<1>3. <<p[1], p[2]>> \in Seq(T) /\ Len(<<p[1], p[2]>>) = 2
  BY <1>1, <1>2
<1>4. QED  BY <1>1, <1>3

\* A sequence and then two elements.
LEMMA ConcatTwo ==
  ASSUME NEW T, NEW a \in Seq(T), NEW b \in Seq(T), NEW n \in Nat, Len(a) = n, Len(b) = 2
  PROVE  /\ a \o b \in Seq(T) /\ Len(a \o b) = n + 2
         /\ \A y \in 1..n : (a \o b)[y] = a[y]
         /\ (a \o b)[n + 1] = b[1] /\ (a \o b)[n + 2] = b[2]
<1> DEFINE c == a \o b
<1>1. /\ c \in Seq(T) /\ Len(c) = n + 2
      /\ \A x \in 1..(n + 2) : c[x] = IF x <= n THEN a[x] ELSE b[x - n]
  <2>1. /\ c \in Seq(T) /\ Len(c) = Len(a) + Len(b)
        /\ \A x \in 1..(Len(a) + Len(b)) : c[x] = IF x <= Len(a) THEN a[x] ELSE b[x - Len(a)]
    BY ConcatProperties
  <2> HIDE DEF c
  <2>2. QED  BY <2>1
<1> HIDE DEF c
<1>2. \A y \in 1..n : y \in 1..(n + 2) /\ y <= n
  OBVIOUS
<1>3. /\ n + 1 \in 1..(n + 2) /\ n + 2 \in 1..(n + 2) /\ ~ (n + 1 <= n) /\ ~ (n + 2 <= n)
      /\ n + 1 - n = 1 /\ n + 2 - n = 2
  OBVIOUS
<1>4. QED  BY <1>1, <1>2, <1>3 DEF c

\* The numbers of pairs, one after the other.
LEMMA FlattenFacts ==
  ASSUME NEW T, NEW s \in Seq(T \X T)
  PROVE  /\ FlattenSeq(s) \in Seq(T) /\ Len(FlattenSeq(s)) = 2 * Len(s)
         /\ \A m \in 1..Len(s) : /\ FlattenSeq(s)[2 * m - 1] = s[m][1]
                                 /\ FlattenSeq(s)[2 * m] = s[m][2]
<1> DEFINE n == Len(s)
<1>1. n \in Nat /\ \A m \in 1..n : s[m] \in T \X T
  OBVIOUS
<1>2. CASE n = 0
  <2>1. s = <<>>
    BY <1>2
  <2>2. FlattenSeq(s) = <<>>
    BY <1>2, <2>1 DEF FlattenSeq
  <2>3. FlattenSeq(s) \in Seq(T) /\ Len(FlattenSeq(s)) = 0
    BY <2>2
  <2>4. QED  BY <1>2, <2>3
<1>3. CASE n # 0
  <2> DEFINE Good(r, m) == /\ r \in Seq(T) /\ Len(r) = 2 * m
                           /\ \A x \in 1..m : r[2 * x - 1] = s[x][1] /\ r[2 * x] = s[x][2]
  <2>1. PICK f : FlattenTurns(f, s, n)
    <3>1. n \in Nat \ {0}
      BY <1>1, <1>3
    <3>4. \A m \in 1..n : s[m] \in Seq(T)
      BY <1>1, PairFacts
    <3> HIDE DEF n
    <3>2. n = Len(s)
      BY DEF n
    <3>3. QED  BY <3>1, <3>2, <3>4, FlattenLoop
  <2> DEFINE P == {m \in 0..n : m = 0 \/ Good(f[m], m)}
  <2>2. ASSUME NEW p \in T \X T
        PROVE  p \in Seq(T) /\ Len(p) = 2
    BY PairFacts
  <2>3. 0 \in P
    BY <1>1
  <2>4. ASSUME NEW m \in 0..(n - 1), m \in P PROVE m + 1 \in P
    <3>1. m + 1 \in 1..n /\ m \in Nat
      BY <1>1
    <3>2. s[m + 1] \in T \X T /\ s[m + 1] \in Seq(T) /\ Len(s[m + 1]) = 2
      BY <1>1, <2>2, <3>1
    <3>3. CASE m = 0
      <4>1. f[1] = s[1] /\ 1 \in 1..n
        BY <2>1, <3>1, <3>3 DEF FlattenTurns
      <4>2. Good(f[1], 1)
        BY <3>2, <3>3, <4>1
      <4>3. QED  BY <3>3, <4>1, <4>2
    <3>4. CASE m # 0
      <4>1. f[m + 1] = f[m] \o s[m + 1]
        <5>1. m + 1 \in 2..n /\ m + 1 - 1 = m
          BY <1>1, <3>1, <3>4
        <5>2. ASSUME NEW k \in 2..n, k - 1 = m PROVE f[k] = f[m] \o s[k]
          <6>1. f[k] = f[k - 1] \o s[k]
            BY <2>1 DEF FlattenTurns
          <6>2. QED  BY <5>2, <6>1
        <5> DEFINE q == m + 1
        <5>3. q \in 2..n /\ q - 1 = m
          BY <5>1
        <5> HIDE DEF q
        <5>4. f[q] = f[m] \o s[q]
          BY <5>2, <5>3
        <5>5. QED  BY <5>4 DEF q
      <4>2. f[m] \in Seq(T) /\ Len(f[m]) = 2 * m
            /\ \A x \in 1..m : f[m][2 * x - 1] = s[x][1] /\ f[m][2 * x] = s[x][2]
        BY <2>4, <3>4
      <4> DEFINE a == f[m]
                 b == s[m + 1]
      <4>3. a \in Seq(T) /\ b \in Seq(T) /\ Len(a) = 2 * m /\ Len(b) = 2
        BY <3>2, <4>2
      <4> HIDE DEF a, b
      <4>4. /\ a \o b \in Seq(T) /\ Len(a \o b) = 2 * (m + 1)
            /\ \A y \in 1..(2 * m) : (a \o b)[y] = a[y]
            /\ (a \o b)[2 * m + 1] = b[1] /\ (a \o b)[2 * m + 2] = b[2]
        <5>1. 2 * m \in Nat /\ 2 * m + 2 = 2 * (m + 1)
          BY <3>1
        <5>2. QED  BY <4>3, <5>1, ConcatTwo
      <4>5. ASSUME NEW x \in 1..(m + 1)
            PROVE  (a \o b)[2 * x - 1] = s[x][1] /\ (a \o b)[2 * x] = s[x][2]
        <5>1. CASE x = m + 1
          <6>1. 2 * x - 1 = 2 * m + 1 /\ 2 * x = 2 * m + 2
            BY <3>1, <5>1
          <6>2. QED  BY <4>4, <5>1, <6>1 DEF b
        <5>2. CASE x # m + 1
          <6>1. x \in 1..m /\ 2 * x - 1 \in 1..(2 * m) /\ 2 * x \in 1..(2 * m)
            BY <3>1, <5>2
          <6>2. QED  BY <4>2, <4>4, <6>1 DEF a
        <5>3. QED  BY <5>1, <5>2
      <4>6. Good(f[m + 1], m + 1)
        BY <4>1, <4>4, <4>5 DEF a, b
      <4> HIDE DEF Good
      <4>7. QED  BY <3>1, <4>6
    <3>5. QED  BY <3>3, <3>4
  <2>5. n \in P
    <3> HIDE DEF P
    <3>1. \A m \in 0..n : m \in P
      BY <1>1, <2>3, <2>4, Induct
    <3>2. QED  BY <1>1, <3>1
  <2>6. Good(f[n], n)
    BY <1>3, <2>5
  <2>7. QED  BY <2>1, <2>6 DEF FlattenTurns
<1>4. QED  BY <1>2, <1>3

\* They are read in twos again.
LEMMA PairsAgain ==
  ASSUME NEW T, NEW s \in Seq(T \X T), NEW numbers, numbers = FlattenSeq(s)
  PROVE  ToSet(InPairs(numbers)) = ToSet(s)
<1> DEFINE n == Len(s)
<1>1. /\ n \in Nat /\ DOMAIN s = 1..n /\ numbers \in Seq(T) /\ Len(numbers) = 2 * n
      /\ \A m \in 1..n : /\ s[m] \in T \X T
                         /\ numbers[2 * m - 1] = s[m][1] /\ numbers[2 * m] = s[m][2]
  <2>1. n \in Nat /\ DOMAIN s = 1..n /\ \A m \in 1..n : s[m] \in T \X T
    OBVIOUS
  <2>2. QED  BY <2>1, FlattenFacts
<1>2. Len(numbers) \div 2 = n
  <2>1. ASSUME NEW x \in Nat PROVE (2 * x) \div 2 = x
    OBVIOUS
  <2> HIDE DEF n
  <2>2. QED  BY <1>1, <2>1
<1>3. InPairs(numbers) = [m \in 1..n |-> <<numbers[2 * m - 1], numbers[2 * m]>>]
  BY <1>2 DEF InPairs
<1>4. \A m \in 1..n : <<numbers[2 * m - 1], numbers[2 * m]>> = s[m]
  BY <1>1
<1>5. DOMAIN InPairs(numbers) = 1..n /\ \A m \in 1..n : InPairs(numbers)[m] = s[m]
  BY <1>3, <1>4
<1>6. QED  BY <1>1, <1>5 DEF ToSet

\* The end of a file.
LEMMA EndOfFile ==
  ASSUME NEW T, NEW a \in Seq(T), NEW b \in Seq(T)
  PROVE  SubSeq(a \o b, Len(a) + 1, Len(a \o b)) = b
<1> DEFINE m == Len(a)
           n == Len(b)
           c == a \o b
           t == SubSeq(c, m + 1, Len(c))
<1>1. /\ m \in Nat /\ n \in Nat /\ c \in Seq(T) /\ Len(c) = m + n
      /\ \A x \in 1..(m + n) : c[x] = IF x <= m THEN a[x] ELSE b[x - m]
  OBVIOUS
<1> HIDE DEF c
<1>2. \A x \in (m + 1)..(m + n) : c[x] \in T
  BY <1>1
<1>3. m + 1 \in Int /\ m + n \in Int
  BY <1>1
<1>4. /\ SubSeq(c, m + 1, m + n) \in Seq(T)
      /\ Len(SubSeq(c, m + 1, m + n)) = IF m + 1 <= m + n THEN m + n - (m + 1) + 1 ELSE 0
      /\ \A x \in 1..(m + n - (m + 1) + 1) : SubSeq(c, m + 1, m + n)[x] = c[m + 1 + x - 1]
  BY <1>2, <1>3, SubSeqProperties
<1>5. t \in Seq(T) /\ Len(t) = n /\ \A x \in 1..n : t[x] = c[m + x]
  <2>1. m + n - (m + 1) + 1 = n /\ (m + 1 <= m + n <=> n # 0)
    BY <1>1
  <2>2. \A x \in 1..n : m + 1 + x - 1 = m + x
    BY <1>1
  <2>3. QED  BY <1>1, <1>4, <2>1, <2>2
<1>6. \A x \in 1..n : m + x \in 1..(m + n) /\ ~ (m + x <= m) /\ m + x - m = x
  BY <1>1
<1>7. \A x \in 1..n : t[x] = b[x]
  BY <1>1, <1>5, <1>6
<1> HIDE DEF t
<1>8. t = b
  BY <1>5, <1>7
<1>9. QED  BY <1>8 DEF t, c
-----------------------------------------------------------------------
LEMMA SetsOfTwo ==
  ASSUME NEW a, NEW b, NEW c, NEW e
  PROVE  {a, b} = {c, e} <=> (a = c /\ b = e) \/ (a = e /\ b = c)
<1>1. ASSUME {a, b} = {c, e} PROVE (a = c /\ b = e) \/ (a = e /\ b = c)
  <2>1. a \in {c, e} /\ b \in {c, e} /\ c \in {a, b} /\ e \in {a, b}
    BY <1>1
  <2>2. QED  BY <2>1
<1>2. ASSUME (a = c /\ b = e) \/ (a = e /\ b = c) PROVE {a, b} = {c, e}
  BY <1>2
<1>3. QED  BY <1>1, <1>2

\* The simple graph in which two vertices are neighbours if they differ and some
\* pair names them, counted from base.
IsGraphOf(g, n, base, pairs) ==
  /\ SimpleGraph(g) /\ DOMAIN g = 0..(n - 1) /\ size(g) = n
  /\ \A a, b \in 0..(n - 1) :
       are_neighs(g, a, b)
         <=> a # b /\ \E p \in pairs : {p[1], p[2]} = {a + base, b + base}

LEMMA ReadEdgeListFacts ==
  ASSUME NEW n \in Nat, NEW one_based, NEW numbers, NEW base,
         base = IF one_based THEN 1 ELSE 0,
         NEW pairs, pairs = ToSet(InPairs(numbers)), pairs \subseteq Int \X Int,
         NEW g, g = ReadEdgeList(n, one_based, numbers)
  PROVE  IsGraphOf(g, n, base, pairs)
<1> DEFINE edges == {{p[1] - base, p[2] - base} : p \in pairs}
           V == 0..(n - 1)
           Adj(v) == {w \in 0..n-1 \ {v} : {v, w} \in edges}
<1>1. g = [v \in V |-> Ascending(Adj(v), n)]
  BY DEF ReadEdgeList
<1>2. base \in Int
  OBVIOUS
<1>3. ASSUME NEW v \in V
      PROVE  /\ g[v] \in Seq(V) /\ Increasing(g[v]) /\ ToSet(g[v]) = Adj(v)
             /\ \A w \in V : are_neighs(g, v, w) <=> w \in Adj(v)
  <2>1. Adj(v) \subseteq V
    OBVIOUS
  <2>2. g[v] = Ascending(Adj(v), n)
    BY <1>1
  <2> HIDE DEF Adj
  <2>3. g[v] \in Seq(V) /\ Increasing(g[v]) /\ ToSet(g[v]) = Adj(v)
    BY <2>1, <2>2, AscendingFacts
  <2>4. \A w : are_neighs(g, v, w) <=> w \in ToSet(g[v])
    BY DEF are_neighs, ToSet
  <2>5. QED  BY <2>3, <2>4
<1>4. DOMAIN g = V /\ size(g) = n
  <2>1. DOMAIN g = V
    BY <1>1
  <2>2. Cardinality(0..(n - 1)) = n
    <3>1. 0 \in Int /\ n - 1 \in Int /\ (0 > n - 1 <=> n = 0) /\ n - 1 - 0 + 1 = n
      OBVIOUS
    <3>2. Cardinality(0..(n - 1)) = IF 0 > n - 1 THEN 0 ELSE n - 1 - 0 + 1
      BY <3>1, FS_Interval
    <3>3. QED  BY <3>1, <3>2
  <2>3. QED  BY <2>1, <2>2 DEF size
<1>5. ASSUME NEW a \in V, NEW b \in V
      PROVE  {a, b} \in edges <=> \E p \in pairs : {p[1], p[2]} = {a + base, b + base}
  <2>1. ASSUME NEW p \in pairs
        PROVE  {a, b} = {p[1] - base, p[2] - base} <=> {p[1], p[2]} = {a + base, b + base}
    <3>1. p[1] \in Int /\ p[2] \in Int /\ a \in Int /\ b \in Int
      OBVIOUS
    <3>2. a = p[1] - base <=> p[1] = a + base
      BY <1>2, <3>1
    <3>3. b = p[1] - base <=> p[1] = b + base
      BY <1>2, <3>1
    <3>4. a = p[2] - base <=> p[2] = a + base
      BY <1>2, <3>1
    <3>5. b = p[2] - base <=> p[2] = b + base
      BY <1>2, <3>1
    <3> DEFINE x == p[1]
               y == p[2]
               ab == {a, b}
               xy == {x, y}
    <3>6. ab = {x - base, y - base}
            <=> (a = x - base /\ b = y - base) \/ (a = y - base /\ b = x - base)
      BY SetsOfTwo
    <3>7. xy = {a + base, b + base}
            <=> (x = a + base /\ y = b + base) \/ (x = b + base /\ y = a + base)
      BY SetsOfTwo
    <3>8. ab = {x - base, y - base} <=> xy = {a + base, b + base}
      <4> HIDE DEF ab, xy
      <4>1. QED  BY <3>2, <3>3, <3>4, <3>5, <3>6, <3>7
    <3>9. QED  BY <3>8
  <2>2. QED  BY <2>1
<1>6. ASSUME NEW a \in V, NEW b \in V
      PROVE  are_neighs(g, a, b)
               <=> a # b /\ \E p \in pairs : {p[1], p[2]} = {a + base, b + base}
  <2>1. b \in Adj(a) <=> a # b /\ {a, b} \in edges
    OBVIOUS
  <2> HIDE DEF Adj, edges
  <2>2. QED  BY <1>3, <1>5, <2>1
<1>7. SimpleGraph(g)
  <2>1. size(g) \in Nat /\ g \in [0..(size(g) - 1) -> Seq(0..(size(g) - 1))]
    <3>1. g \in [V -> Seq(V)]
      <4> HIDE DEF Adj
      <4>1. \A v \in V : g[v] \in Seq(V)
        BY <1>3
      <4>2. QED  BY <1>1, <4>1
    <3>2. QED  BY <1>4, <3>1
  <2>2. \A v \in DOMAIN g : \A a, b \in DOMAIN g[v] : a < b => g[v][a] < g[v][b]
    BY <1>3, <1>4 DEF Increasing
  <2>3. \A v, w \in DOMAIN g : are_neighs(g, v, w) => v # w /\ are_neighs(g, w, v)
    <3>1. ASSUME NEW v \in V, NEW w \in V PROVE are_neighs(g, v, w) <=> v # w /\ {v, w} \in edges
      <4> HIDE DEF edges, V, Adj
      <4>1. {v, w} \in edges <=> \E p \in pairs : {p[1], p[2]} = {v + base, w + base}
        BY <1>5, <3>1
      <4>2. QED  BY <1>6, <3>1, <4>1
    <3>2. \A v, w \in V : {v, w} = {w, v}
      OBVIOUS
    <3>3. ASSUME NEW v \in V, NEW w \in V, are_neighs(g, v, w)
          PROVE  v # w /\ are_neighs(g, w, v)
      <4> HIDE DEF edges, V
      <4>1. v # w /\ {v, w} \in edges /\ {w, v} \in edges
        BY <3>1, <3>2, <3>3
      <4>2. QED  BY <3>1, <4>1
    <3> HIDE DEF edges, V
    <3>4. QED  BY <1>4, <3>3
  <2>4. QED  BY <2>1, <2>2, <2>3 DEF SimpleGraph
<1>8. QED  BY <1>4, <1>6, <1>7 DEF IsGraphOf

\* The graph that is read from the file of a task is its graph.
LEMMA FileFacts ==
  ASSUME task \in Tasks, NEW g, g = ReadFastGraph(File(task))
  PROVE  /\ SimpleGraph(g) /\ DOMAIN g = 0..(task.n - 1) /\ size(g) = task.n
         /\ task.n \in Nat /\ task.base \in {0, 1}
         /\ \A a, b \in DOMAIN g : are_neighs(g, a, b) <=> Joined(a, b)
<1> DEFINE n == task.n
           base == task.base
           pairs == task.pairs
           T == Nat
           P == FlattenSeq(pairs)
<1>1. /\ n \in Nat /\ base \in {0, 1} /\ (task.format = "nde" => base = 0)
      /\ pairs \in Seq(T \X T)
  <2>1. /\ n \in Nat /\ base \in {0, 1} /\ (task.format = "nde" => base = 0)
        /\ pairs \in Seq((base..base + n - 1) \X (base..base + n - 1))
    BY TasksAssumption
  <2>2. (base..base + n - 1) \subseteq T
    BY <2>1
  <2>3. ((base..base + n - 1) \X (base..base + n - 1)) \subseteq T \X T
    BY <2>2
  <2> HIDE DEF base, n, pairs, T
  <2>4. QED  BY <2>1, <2>3, SeqMonotonic
<1> HIDE DEF pairs
<1>2. /\ P \in Seq(T) /\ Len(P) = 2 * Len(pairs) /\ ToSet(InPairs(P)) = ToSet(pairs)
      /\ ToSet(pairs) \subseteq Int \X Int
  <2>1. P \in Seq(T) /\ Len(P) = 2 * Len(pairs) /\ ToSet(InPairs(P)) = ToSet(pairs)
    BY <1>1, FlattenFacts, PairsAgain
  <2>2. ToSet(pairs) \subseteq T \X T
    BY <1>1, SeqFacts
  <2>3. QED  BY <2>1, <2>2
<1> HIDE DEF P
<1>3. g = ReadEdgeList(n, base = 1, P)
  <2>1. CASE task.format = "nde"
    <3> DEFINE U == Nat \cup {Cardinality({m \in DOMAIN task.pairs :
                                v - 1 \in {task.pairs[m][1], task.pairs[m][2]}}) : v \in 1..n}
               deg(v) == Cardinality({m \in DOMAIN task.pairs :
                                v - 1 \in {task.pairs[m][1], task.pairs[m][2]}})
               D == [v \in 1..n |-> <<v - 1, deg(v)>>]
               H == FlattenSeq(D)
               F == <<n>> \o H \o P
    <3>1. F = File(task)
      BY <2>1 DEF File, P, pairs
    <3>2. D \in Seq(U \X U) /\ Len(D) = n
      <4>1. ASSUME NEW v \in 1..n PROVE <<v - 1, deg(v)>> \in U \X U
        <5>1. deg(v) \in U
          OBVIOUS
        <5>2. v - 1 \in U
          BY <1>1
        <5> HIDE DEF deg, U
        <5>3. QED  BY <5>1, <5>2
      <4> HIDE DEF deg, U
      <4>2. QED  BY <1>1, <4>1
    <3>3. T \subseteq U
      OBVIOUS
    <3> HIDE DEF U, deg, D
    <3>4. H \in Seq(U) /\ Len(H) = 2 * n
      BY <3>2, FlattenFacts
    <3>5. P \in Seq(U) /\ <<n>> \in Seq(U) /\ Len(<<n>>) = 1
      <4>1. P \in Seq(U)
        BY <1>2, <3>3, SeqMonotonic
      <4>2. n \in U
        BY <1>1, <3>3
      <4>3. QED  BY <4>1, <4>2
    <3> HIDE DEF H
    <3>6. <<n>> \o H \in Seq(U) /\ Len(<<n>> \o H) = 2 * n + 1 /\ (<<n>> \o H)[1] = n
      <4> DEFINE a == <<n>>
      <4>1. a \in Seq(U) /\ Len(a) = 1 /\ a[1] = n
        BY <3>5
      <4> HIDE DEF a
      <4>2. /\ a \o H \in Seq(U) /\ Len(a \o H) = Len(a) + Len(H)
            /\ \A x \in 1..(Len(a) + Len(H)) : (a \o H)[x] = IF x <= Len(a) THEN a[x] ELSE H[x - Len(a)]
        BY <3>4, <4>1, ConcatProperties
      <4>3. 1 \in 1..(Len(a) + Len(H)) /\ 1 <= Len(a)
        BY <1>1, <3>4, <4>1
      <4>4. (a \o H)[1] = a[1]
        BY <4>2, <4>3
      <4>5. a \o H \in Seq(U) /\ Len(a \o H) = 2 * n + 1 /\ (a \o H)[1] = n
        BY <1>1, <3>4, <4>1, <4>2, <4>4
      <4>6. QED  BY <4>5 DEF a
    <3> DEFINE A == <<n>> \o H
    <3>7. A \in Seq(U) /\ Len(A) = 2 * n + 1 /\ A[1] = n /\ F = A \o P
      BY <3>6
    <3> HIDE DEF A, F
    <3>8. F[1] = n
      <4>1. /\ Len(A) \in Nat /\ Len(P) \in Nat
            /\ \A x \in 1..(Len(A) + Len(P)) : (A \o P)[x] = IF x <= Len(A) THEN A[x] ELSE P[x - Len(A)]
        BY <3>5, <3>7, ConcatProperties, LenProperties
      <4>2. 1 \in 1..(Len(A) + Len(P)) /\ 1 <= Len(A)
        BY <1>1, <3>7, <4>1
      <4>3. QED  BY <3>7, <4>1, <4>2
    <3>9. SubSeq(F, 2 * n + 2, Len(F)) = P
      <4>1. SubSeq(A \o P, Len(A) + 1, Len(A \o P)) = P
        BY <3>5, <3>7, EndOfFile
      <4>2. Len(A) + 1 = 2 * n + 2
        BY <1>1, <3>7
      <4>3. QED  BY <3>7, <4>1, <4>2
    <3>10. g = ReadNde(F)
      BY <2>1, <3>1 DEF ReadFastGraph
    <3>11. g = ReadEdgeList(n, FALSE, P)
      BY <3>8, <3>9, <3>10 DEF ReadNde
    <3>12. (base = 1) = FALSE
      BY <1>1, <2>1
    <3>13. QED  BY <3>11, <3>12
  <2>2. CASE task.format # "nde"
    <3> DEFINE A == <<n, Len(pairs)>>
               F == A \o P
    <3>1. F = File(task)
      BY <2>2 DEF File, P, pairs
    <3>2. Len(pairs) \in Nat
      BY <1>1, LenProperties
    <3>3. A \in Seq(T) /\ Len(A) = 2 /\ A[1] = n
      BY <1>1, <3>2
    <3> HIDE DEF A
    <3>4. F[1] = n
      <4>1. /\ Len(P) \in Nat
            /\ \A x \in 1..(Len(A) + Len(P)) : (A \o P)[x] = IF x <= Len(A) THEN A[x] ELSE P[x - Len(A)]
        BY <1>2, <3>3, ConcatProperties, LenProperties
      <4>2. 1 \in 1..(Len(A) + Len(P)) /\ 1 <= Len(A)
        BY <3>3, <4>1
      <4>3. QED  BY <3>3, <4>1, <4>2
    <3>5. SubSeq(F, 3, Len(F)) = P
      <4>1. SubSeq(A \o P, Len(A) + 1, Len(A \o P)) = P
        BY <1>2, <3>3, EndOfFile
      <4>2. Len(A) + 1 = 3
        BY <3>3
      <4>3. QED  BY <4>1, <4>2
    <3> HIDE DEF F
    <3>6. g = ReadOlympiadsFormat(F, base = 1)
      BY <2>2, <3>1 DEF ReadFastGraph
    <3>7. QED  BY <3>4, <3>5, <3>6 DEF ReadOlympiadsFormat
  <2>3. QED  BY <2>1, <2>2
<1> DEFINE S == ToSet(pairs)
<1>4. base = IF base = 1 THEN 1 ELSE 0
  BY <1>1
<1>5. IsGraphOf(g, n, base, S)
  <2>1. S = ToSet(InPairs(P)) /\ S \subseteq Int \X Int
    BY <1>2
  <2> DEFINE one_based == base = 1
  <2>2. g = ReadEdgeList(n, one_based, P) /\ base = IF one_based THEN 1 ELSE 0
    BY <1>3, <1>4
  <2> HIDE DEF n, base, S, one_based
  <2>3. QED  BY <1>1, <2>1, <2>2, ReadEdgeListFacts
<1>6. ASSUME NEW a, NEW b
      PROVE  Joined(a, b) <=> a # b /\ \E p \in S : {p[1], p[2]} = {a + base, b + base}
  BY DEF Joined, ToSet, pairs
<1>7. QED  BY <1>1, <1>5, <1>6 DEF IsGraphOf
-----------------------------------------------------------------------
(* The permuted graph *)

\* h is g with the vertices renamed.
IsPermuted(h, g, order) ==
  /\ SimpleGraph(h) /\ DOMAIN h = DOMAIN g
  /\ \A a, b \in DOMAIN g : are_neighs(h, a, b) <=> are_neighs(g, order[a + 1], order[b + 1])

\* An order names each vertex at one position.
LEMMA OrderFacts ==
  ASSUME NEW g, SimpleGraph(g), NEW order \in Seq(DOMAIN g), IsInjective(order),
         ToSet(order) = DOMAIN g
  PROVE  /\ Len(order) = size(g)
         /\ \A a \in DOMAIN g : order[a + 1] \in DOMAIN g
         /\ \A a, b \in DOMAIN g : order[a + 1] = order[b + 1] => a = b
         /\ \A v \in DOMAIN g : \E a \in DOMAIN g : order[a + 1] = v
<1>1. size(g) \in Nat /\ DOMAIN g = 0..(size(g) - 1)
  BY Symmetry
<1>2. Len(order) = size(g)
  BY CountOnce DEF size
<1>3. DOMAIN order = 1..size(g) /\ \A m \in 1..size(g) : order[m] \in DOMAIN g
  BY <1>2
<1>4. \A a \in DOMAIN g : a + 1 \in 1..size(g) /\ a \in Int
  BY <1>1
<1>5. \A a, b \in DOMAIN g : order[a + 1] = order[b + 1] => a = b
  <2>1. ASSUME NEW a \in DOMAIN g, NEW b \in DOMAIN g, order[a + 1] = order[b + 1]
        PROVE  a = b
    <3>1. a + 1 = b + 1
      BY <1>3, <1>4, <2>1 DEF IsInjective
    <3>2. QED  BY <1>4, <3>1
  <2>2. QED  BY <2>1
<1>6. ASSUME NEW v \in DOMAIN g PROVE \E a \in DOMAIN g : order[a + 1] = v
  <2>1. PICK m \in 1..size(g) : order[m] = v
    BY <1>3 DEF ToSet
  <2>2. m - 1 \in DOMAIN g /\ m - 1 + 1 = m
    BY <1>1
  <2>3. QED  BY <2>1, <2>2
<1>7. QED  BY <1>2, <1>3, <1>4, <1>5, <1>6

LEMMA PermuteFacts ==
  ASSUME NEW g, SimpleGraph(g), NEW order \in Seq(DOMAIN g), IsInjective(order),
         ToSet(order) = DOMAIN g
  PROVE  IsPermuted(Permute(g, order), g, order)
<1> DEFINE h == Permute(g, order)
           V == DOMAIN g
           n == size(g)
           pos == [v \in V |-> CHOOSE a \in V : order[a + 1] = v]
           adj(a) == neighs(g, order[a + 1])
           moved(a) == [m \in DOMAIN adj(a) |-> pos[adj(a)[m]]]
<1>1. /\ n \in Nat /\ V = 0..(n - 1)
      /\ \A v, w \in V : are_neighs(g, v, w) <=> are_neighs(g, w, v)
      /\ \A v \in V : ~ are_neighs(g, v, v)
  BY Symmetry
<1>2. /\ \A a \in V : order[a + 1] \in V
      /\ \A a, b \in V : order[a + 1] = order[b + 1] => a = b
      /\ \A v \in V : \E a \in V : order[a + 1] = v
  BY OrderFacts
<1>3. ASSUME NEW v \in V PROVE pos[v] \in V /\ order[pos[v] + 1] = v
  BY <1>2
<1>4. h = [a \in V |-> Sorted(moved(a), n)]
  BY DEF Permute
<1> HIDE DEF pos, h
<1>5. ASSUME NEW a \in V
      PROVE  /\ h[a] \in Seq(V) /\ Increasing(h[a])
             /\ ToSet(h[a]) = {b \in V : are_neighs(g, order[a + 1], order[b + 1])}
  <2> DEFINE v == order[a + 1]
             B == {b \in V : are_neighs(g, v, order[b + 1])}
  <2>1. v \in V
    BY <1>2
  <2>2. adj(a) \in Seq(V) /\ ToSet(adj(a)) = {w \in V : are_neighs(g, v, w)}
    BY <2>1, NeighsFacts DEF neighs
  <2>3. ToSet(moved(a)) = {pos[w] : w \in ToSet(adj(a))}
    BY DEF ToSet
  <2>4. ASSUME NEW b \in B PROVE b \in ToSet(moved(a))
    <3>1. order[b + 1] \in V /\ order[b + 1] \in ToSet(adj(a))
      BY <1>2, <2>2
    <3>2. pos[order[b + 1]] = b
      <4> DEFINE w == order[b + 1]
                 c == pos[w]
      <4>1. c \in V /\ order[c + 1] = w
        BY <1>3, <3>1
      <4> HIDE DEF c
      <4>2. c = b
        BY <1>2, <4>1
      <4>3. QED  BY <4>2 DEF c
    <3> HIDE DEF adj, moved
    <3>3. QED  BY <2>3, <3>1, <3>2
  <2>5. ASSUME NEW b \in ToSet(moved(a)) PROVE b \in B
    <3>1. PICK w \in ToSet(adj(a)) : b = pos[w]
      BY <2>3
    <3>2. w \in V /\ are_neighs(g, v, w)
      BY <2>2, <3>1
    <3>3. b \in V /\ order[b + 1] = w
      BY <1>3, <3>1, <3>2
    <3>4. QED  BY <3>2, <3>3
  <2>6. ToSet(moved(a)) = B /\ B \subseteq 0..(n - 1)
    <3> HIDE DEF moved
    <3>1. B \subseteq V
      OBVIOUS
    <3>2. QED  BY <1>1, <2>4, <2>5, <3>1
  <2>7. h[a] = Ascending(B, n)
    BY <1>4, <2>6 DEF Sorted
  <2> HIDE DEF B
  <2>8. h[a] \in Seq(0..(n - 1)) /\ Increasing(h[a]) /\ ToSet(h[a]) = B
    <3> HIDE DEF n, h
    <3>1. n \in Nat /\ B \subseteq 0..(n - 1)
      BY <1>1, <2>6
    <3>2. /\ Ascending(B, n) \in Seq(0..(n - 1)) /\ Increasing(Ascending(B, n))
          /\ ToSet(Ascending(B, n)) = B
      BY <3>1, AscendingFacts
    <3>3. QED  BY <2>7, <3>2
  <2>9. QED  BY <1>1, <2>8 DEF B
<1>6. DOMAIN h = V /\ size(h) = n
  BY <1>4 DEF size
<1>7. ASSUME NEW a \in V, NEW b \in V
      PROVE  are_neighs(h, a, b) <=> are_neighs(g, order[a + 1], order[b + 1])
  <2>1. are_neighs(h, a, b) <=> b \in ToSet(h[a])
    BY DEF are_neighs, ToSet
  <2>2. QED  BY <1>5, <2>1
<1>8. SimpleGraph(h)
  <2>1. size(h) \in Nat /\ h \in [0..(size(h) - 1) -> Seq(0..(size(h) - 1))]
    <3>1. h \in [V -> Seq(V)]
      <4> HIDE DEF moved
      <4>1. QED  BY <1>4, <1>5
    <3>2. QED  BY <1>1, <1>6, <3>1
  <2>2. \A v \in DOMAIN h : \A a, b \in DOMAIN h[v] : a < b => h[v][a] < h[v][b]
    BY <1>5, <1>6 DEF Increasing
  <2>3. \A v, w \in DOMAIN h : are_neighs(h, v, w) => v # w /\ are_neighs(h, w, v)
    <3>1. ASSUME NEW v \in V, NEW w \in V, are_neighs(h, v, w)
          PROVE  v # w /\ are_neighs(h, w, v)
      <4>1. are_neighs(g, order[v + 1], order[w + 1])
        BY <1>7, <3>1
      <4>2. order[v + 1] \in V /\ order[w + 1] \in V
        BY <1>2
      <4>3. are_neighs(g, order[w + 1], order[v + 1]) /\ v # w
        BY <1>1, <4>1, <4>2
      <4>4. QED  BY <1>7, <4>3
    <3> HIDE DEF V
    <3>2. QED  BY <1>6, <3>1
  <2>4. QED  BY <2>1, <2>2, <2>3 DEF SimpleGraph
<1>9. QED  BY <1>6, <1>7, <1>8 DEF IsPermuted, h

Vertices == DOMAIN graph

OrderTypes ==
  /\ SimpleGraph(graph)
  /\ d \in [Vertices -> Seq(Vertices)]
  /\ degs \in [Vertices -> Vertices]
  /\ positions \in [Vertices -> Nat \ {0}]
  /\ used = ToSet(perm)
  /\ perm \in Seq(Vertices)
  /\ IsInjective(perm)
  /\ j \in Nat
  /\ pushed \in 0..size(graph)
  /\ at \in Nat

\* The second loop begins when the first has ended; at a neighbour it is in a
\* turn of a vertex taken.
OrderPhases ==
  /\ perm # <<>> => pushed = size(graph)
  /\ at # 0 => perm # <<>> /\ at <= degree(graph, Last(perm)) + 1
  /\ pushed < size(graph) => j = 0

OrderInv == OrderTypes /\ OrderPhases /\ EachPlaced /\ NothingElse /\ LeastFirst
-----------------------------------------------------------------------
(* Graphs and sequences *)

LEMMA GraphFacts ==
  ASSUME NEW g, SimpleGraph(g)
  PROVE  /\ size(g) \in Nat /\ DOMAIN g = 0..(size(g) - 1)
         /\ IsFiniteSet(DOMAIN g)
         /\ \A v \in DOMAIN g :
              /\ g[v] \in Seq(DOMAIN g) /\ DOMAIN g[v] = 1..Len(g[v])
              /\ degree(g, v) = Len(g[v]) /\ Len(g[v]) \in Nat
              /\ neighs(g, v) = g[v]
              /\ IsInjective(g[v])
<1>1. /\ size(g) \in Nat /\ DOMAIN g = 0..(size(g) - 1)
      /\ g \in [0..(size(g) - 1) -> Seq(0..(size(g) - 1))]
  BY DEF SimpleGraph
<1>2. IsFiniteSet(DOMAIN g)
  <2>1. 0 \in Int /\ size(g) - 1 \in Int
    BY <1>1
  <2>2. QED  BY <1>1, <2>1, FS_Interval
<1>3. ASSUME NEW v \in DOMAIN g
      PROVE  /\ g[v] \in Seq(DOMAIN g) /\ DOMAIN g[v] = 1..Len(g[v])
             /\ degree(g, v) = Len(g[v]) /\ Len(g[v]) \in Nat
             /\ neighs(g, v) = g[v]
             /\ IsInjective(g[v])
  <2>1. g[v] \in Seq(DOMAIN g)
    BY <1>1
  <2>2. DOMAIN g[v] = 1..Len(g[v]) /\ Len(g[v]) \in Nat
    BY <2>1
  <2>3. IsInjective(g[v])
    <3>1. SUFFICES ASSUME NEW a \in DOMAIN g[v], NEW b \in DOMAIN g[v], g[v][a] = g[v][b]
                   PROVE  a = b
      BY DEF IsInjective
    <3>2. \A x, y \in DOMAIN g[v] : x < y => g[v][x] < g[v][y]
      BY DEF SimpleGraph
    <3>3. a \in Int /\ b \in Int /\ g[v][a] \in Int
      BY <1>1, <2>1, <2>2
    <3>4. QED  BY <3>1, <3>2, <3>3
  <2>4. QED  BY <2>1, <2>2, <2>3 DEF degree, neighs
<1>4. QED  BY <1>1, <1>2, <1>3

\* The degree is the number of the neighbours.
LEMMA DegreeCounts ==
  ASSUME NEW v \in Vertices, SimpleGraph(graph)
  PROVE  degree(graph, v) = DegreeIn(v, Vertices)
<1>1. /\ graph[v] \in Seq(Vertices) /\ degree(graph, v) = Len(graph[v])
      /\ IsInjective(graph[v])
  BY GraphFacts DEF Vertices
<1>2. {w \in Vertices : are_neighs(graph, v, w)} = ToSet(graph[v])
  BY <1>1 DEF are_neighs, ToSet
<1>3. QED  BY <1>1, <1>2, CountOnce DEF DegreeIn

\* A neighbour less is one less to count.
LEMMA DegreeWithout ==
  ASSUME NEW v, NEW S, NEW x \in S, IsFiniteSet(S)
  PROVE  /\ DegreeIn(v, S) \in Nat
         /\ DegreeIn(v, S \ {x}) = DegreeIn(v, S) - (IF are_neighs(graph, v, x) THEN 1 ELSE 0)
<1> DEFINE N == {w \in S : are_neighs(graph, v, w)}
           M == {w \in S \ {x} : are_neighs(graph, v, w)}
<1>1. IsFiniteSet(N) /\ Cardinality(N) \in Nat
  BY FS_Subset, FS_CardinalityType
<1>2. M = N \ {x} /\ (x \in N <=> are_neighs(graph, v, x))
  OBVIOUS
<1>3. Cardinality(M) = IF x \in N THEN Cardinality(N) - 1 ELSE Cardinality(N)
  BY <1>1, <1>2, FS_RemoveElement
<1>4. QED  BY <1>1, <1>2, <1>3 DEF DegreeIn

\* There is a bucket for each degree.
LEMMA DegreeHasBucket ==
  ASSUME NEW v \in Vertices, SimpleGraph(graph)
  PROVE  degree(graph, v) \in Vertices
<1> DEFINE S == Vertices \ {v}
           N == {w \in S : are_neighs(graph, v, w)}
<1>1. /\ size(graph) \in Nat /\ Vertices = 0..(size(graph) - 1) /\ IsFiniteSet(Vertices)
      /\ Cardinality(Vertices) = size(graph)
  BY GraphFacts DEF Vertices, size
<1>2. ~ are_neighs(graph, v, v)
  BY DEF SimpleGraph, Vertices
<1>3. IsFiniteSet(S) /\ Cardinality(S) = size(graph) - 1
  <2>1. /\ IsFiniteSet(Vertices \ {v})
        /\ Cardinality(Vertices \ {v}) = Cardinality(Vertices) - 1
    BY <1>1, FS_RemoveElement
  <2>2. QED  BY <1>1, <2>1
<1>4. Cardinality(N) \in Nat /\ Cardinality(N) <= Cardinality(S)
  BY <1>3, FS_Subset, FS_CardinalityType
<1>5. degree(graph, v) = DegreeIn(v, Vertices)
  BY DegreeCounts
<1>6. DegreeIn(v, Vertices) = Cardinality(N)
  BY <1>1, <1>2, DegreeWithout DEF DegreeIn
<1>7. QED  BY <1>1, <1>3, <1>4, <1>5, <1>6
-----------------------------------------------------------------------
(* The steps *)

LEMMA OrderInitHolds == SimpleGraph(graph) /\ OrderInit => OrderInv
<1> SUFFICES ASSUME SimpleGraph(graph), OrderInit PROVE OrderInv
  OBVIOUS
<1>1. Vertices = 0..(size(graph) - 1) /\ size(graph) \in Nat
  BY GraphFacts DEF Vertices
<1>2. OrderTypes
  BY <1>1 DEF OrderTypes, OrderInit, Vertices, ToSet, IsInjective
<1>3. OrderPhases /\ EachPlaced /\ NothingElse /\ LeastFirst
  BY <1>1 DEF OrderPhases, OrderInit, EachPlaced, NothingElse, LeastFirst, Left, Vertices
<1>4. QED  BY <1>2, <1>3 DEF OrderInv

LEMMA PushVertexKeeps ==
  ASSUME OrderInv, PushVertex, UNCHANGED graph
  PROVE  OrderInv'
<1> DEFINE v == pushed
           k == degree(graph, v)
<1>1. /\ Vertices = 0..(size(graph) - 1) /\ size(graph) \in Nat
      /\ v \in Vertices /\ k \in Vertices /\ v \in Nat
  <2>1. /\ SimpleGraph(graph) /\ pushed \in 0..size(graph) /\ pushed < size(graph)
    BY DEF OrderInv, OrderTypes, PushVertex
  <2>2. Vertices = 0..(size(graph) - 1) /\ size(graph) \in Nat
    BY <2>1, GraphFacts DEF Vertices
  <2>3. v \in Vertices /\ v \in Nat
    BY <2>1, <2>2
  <2>4. QED  BY <2>1, <2>2, <2>3, DegreeHasBucket
<1>2. /\ perm = <<>> /\ used = {} /\ Left = Vertices /\ at = 0 /\ j = 0
      /\ UNCHANGED <<used, perm, j, at, graph>> /\ pushed' = v + 1
      /\ Left' = Left /\ Vertices' = Vertices
  <2>1. pushed < size(graph) /\ UNCHANGED <<used, perm, j, at, graph>> /\ pushed' = v + 1
    BY DEF PushVertex
  <2>2. perm = <<>> /\ j = 0 /\ at = 0
    BY <1>1, <2>1 DEF OrderInv, OrderPhases
  <2>3. used = {}
    BY <2>2 DEF OrderInv, OrderTypes, ToSet
  <2>4. QED  BY <2>1, <2>2, <2>3 DEF Left, Vertices
<1>3. /\ d' = [d EXCEPT ![k] = Append(d[k], v)]
      /\ degs' = [degs EXCEPT ![v] = k]
      /\ positions' = [positions EXCEPT ![v] = Len(d[k]) + 1]
      /\ DOMAIN d = Vertices /\ DOMAIN degs = Vertices /\ DOMAIN positions = Vertices
      /\ \A x \in Vertices : d[x] \in Seq(Vertices) /\ DOMAIN d[x] = 1..Len(d[x])
  BY DEF PushVertex, OrderInv, OrderTypes
<1>4. /\ Append(d[k], v) \in Seq(Vertices) /\ Len(d[k]) \in Nat
      /\ DOMAIN Append(d[k], v) = 1..(Len(d[k]) + 1)
      /\ \A m \in 1..Len(d[k]) : Append(d[k], v)[m] = d[k][m]
      /\ Append(d[k], v)[Len(d[k]) + 1] = v
  BY <1>1, <1>3, AppendProperties
<1> HIDE DEF v, k
<1>5. /\ d' \in [Vertices -> Seq(Vertices)] /\ degs' \in [Vertices -> Vertices]
      /\ positions' \in [Vertices -> Nat \ {0}] /\ DOMAIN d' = Vertices
      /\ d'[k] = Append(d[k], v) /\ \A x \in Vertices \ {k} : d'[x] = d[x]
      /\ degs'[v] = k /\ \A x \in Vertices \ {v} : degs'[x] = degs[x]
      /\ positions'[v] = Len(d[k]) + 1
      /\ \A x \in Vertices \ {v} : positions'[x] = positions[x]
  BY <1>1, <1>3, <1>4 DEF OrderInv, OrderTypes
<1>6. OrderTypes'
  BY <1>1, <1>2, <1>5 DEF OrderInv, OrderTypes, PushVertex, v
<1>7. OrderPhases'
  BY <1>1, <1>2 DEF OrderPhases
<1>8. \A S : \A x \in Vertices : ~ NotLowered(x) /\ ~ NotLowered(x)' /\ DegreeIn(x, S)' = DegreeIn(x, S)
  BY <1>2 DEF NotLowered, DegreeIn
<1>9. EachPlaced'
  <2>1. SUFFICES ASSUME NEW x \in Left', x < v + 1
                 PROVE  /\ degs'[x] = DegreeIn(x, Left)
                        /\ positions'[x] \in DOMAIN d'[degs'[x]]
                        /\ d'[degs'[x]][positions'[x]] = x
                        /\ degs'[x] >= j'
    <3>1. SUFFICES ASSUME NEW x \in Left', (x < pushed)'
                   PROVE  (/\ degs[x] = DegreeIn(x, Left) + (IF NotLowered(x) THEN 1 ELSE 0)
                           /\ positions[x] \in DOMAIN d[degs[x]]
                           /\ d[degs[x]][positions[x]] = x
                           /\ degs[x] + (IF at # 0 /\ ~ NotLowered(x) THEN 1 ELSE 0) >= j)'
      BY DEF EachPlaced
    <3>2. /\ degs'[x] = DegreeIn(x, Left) /\ positions'[x] \in DOMAIN d'[degs'[x]]
          /\ d'[degs'[x]][positions'[x]] = x /\ degs'[x] >= j'
      BY <1>2, <2>1, <3>1
    <3>3. DegreeIn(x, Left)' = DegreeIn(x, Left) /\ DegreeIn(x, Left) \in Nat
          /\ ~ NotLowered(x)' /\ at' = 0
      <4>1. DegreeIn(x, Left)' = DegreeIn(x, Left)
        BY <1>2 DEF DegreeIn
      <4>2. x \in Vertices /\ degs'[x] \in Vertices
        BY <1>2, <1>5, <3>1
      <4>3. QED  BY <1>1, <1>2, <1>8, <3>2, <4>1, <4>2
    <3>4. QED  BY <3>2, <3>3
  <2>2. x \in Vertices /\ x \in Nat
    BY <1>1, <1>2
  <2>3. CASE x = v
    <3>1. degree(graph, v) = DegreeIn(v, Vertices)
      BY <1>1, DegreeCounts DEF OrderInv, OrderTypes
    <3>2. QED  BY <1>1, <1>2, <1>4, <1>5, <2>3, <3>1 DEF k
  <2>4. CASE x # v
    <3>1. x < pushed /\ x \in Left
      BY <1>1, <1>2, <2>1, <2>2, <2>4 DEF v
    <3>2. /\ degs[x] = DegreeIn(x, Left) /\ positions[x] \in DOMAIN d[degs[x]]
          /\ d[degs[x]][positions[x]] = x /\ degs[x] \in Nat
      <4>1. degs[x] \in Vertices /\ degs[x] = DegreeIn(x, Left) + 0
        BY <1>8, <2>2, <3>1 DEF OrderInv, EachPlaced, OrderTypes
      <4>2. DegreeIn(x, Left) \in Nat
        BY <1>2, <2>2, GraphFacts, DegreeWithout DEF OrderInv, OrderTypes, Vertices
      <4>3. QED  BY <1>1, <3>1, <4>1, <4>2 DEF OrderInv, EachPlaced
    <3>3. degs'[x] = degs[x] /\ positions'[x] = positions[x] /\ degs[x] \in Vertices
      BY <1>5, <2>2, <2>4 DEF OrderInv, OrderTypes
    <3>4. positions[x] \in 1..Len(d[degs[x]])
      BY <1>3, <3>2, <3>3
    <3>5. CASE degs[x] = k
      <4>1. positions[x] \in 1..Len(d[k]) /\ d'[degs'[x]] = Append(d[k], v)
        BY <1>5, <3>3, <3>4, <3>5
      <4>2. positions[x] \in DOMAIN Append(d[k], v)
        BY <1>4, <4>1
      <4>3. Append(d[k], v)[positions[x]] = x
        BY <1>4, <3>2, <3>5, <4>1
      <4>4. QED  BY <1>2, <3>2, <3>3, <4>1, <4>2, <4>3
    <3>6. CASE degs[x] # k
      BY <1>2, <1>5, <3>2, <3>3, <3>6
    <3>7. QED  BY <3>5, <3>6
  <2>5. QED  BY <2>3, <2>4
<1>10. NothingElse'
  <2>1. SUFFICES ASSUME NEW x \in Vertices, NEW m \in DOMAIN d'[x]
                 PROVE  /\ d'[x][m] \in Left /\ d'[x][m] < v + 1
                        /\ degs'[d'[x][m]] = x /\ positions'[d'[x][m]] = m
    BY <1>2, <1>5 DEF NothingElse
  <2>2. CASE x = k /\ m = Len(d[k]) + 1
    BY <1>1, <1>2, <1>4, <1>5, <2>2
  <2>3. CASE ~ (x = k /\ m = Len(d[k]) + 1)
    <3>1. m \in DOMAIN d[x] /\ d'[x][m] = d[x][m]
      BY <1>3, <1>4, <1>5, <2>1, <2>3
    <3>2. /\ d[x][m] \in Left /\ d[x][m] < v
          /\ degs[d[x][m]] = x /\ positions[d[x][m]] = m
      BY <1>3, <3>1 DEF OrderInv, NothingElse, v
    <3>3. d[x][m] # v /\ d[x][m] \in Vertices
      BY <1>1, <1>2, <3>2
    <3>4. QED  BY <1>1, <1>5, <3>1, <3>2, <3>3, SMTT(30)
  <2>4. QED  BY <2>2, <2>3
<1>11. LeastFirst'
  BY <1>2 DEF LeastFirst
<1>12. QED  BY <1>6, <1>7, <1>9, <1>10, <1>11 DEF OrderInv

\* A vertex is left while the order is not complete, and its bucket is not
\* below j.
LEMMA SearchEndsHolds ==
  ASSUME OrderInv, Searching
  PROVE  SearchEnds /\ j \in Vertices
<1>1. /\ Vertices = 0..(size(graph) - 1) /\ size(graph) \in Nat /\ IsFiniteSet(Vertices)
      /\ Cardinality(Vertices) = size(graph)
  BY GraphFacts DEF OrderInv, OrderTypes, Vertices, size
<1>2. PICK v \in Left : TRUE
  <2>1. Cardinality(ToSet(perm)) = Len(perm)
    BY CountOnce DEF OrderInv, OrderTypes
  <2>2. Vertices # ToSet(perm) /\ ToSet(perm) \subseteq Vertices
    <3>1. perm \in Seq(Vertices) /\ Len(perm) < size(graph) /\ Len(perm) \in Nat
      BY DEF OrderInv, OrderTypes, Searching
    <3>2. ToSet(perm) \subseteq Vertices
      BY <3>1 DEF ToSet
    <3>3. QED  BY <1>1, <2>1, <3>1, <3>2
  <2>3. QED  BY <2>2 DEF OrderInv, OrderTypes, Left, Vertices
<1>3. v \in Vertices /\ v < pushed /\ at = 0 /\ j \in Nat
  BY <1>1 DEF Left, Vertices, Searching, OrderInv, OrderTypes
<1>4. degs[v] \in Vertices /\ DOMAIN d = Vertices
  BY <1>3 DEF OrderInv, OrderTypes
<1>5. positions[v] \in DOMAIN d[degs[v]] /\ degs[v] + 0 >= j
  BY <1>3 DEF OrderInv, EachPlaced
<1>6. degs[v] >= j /\ j \in Vertices
  BY <1>1, <1>3, <1>4, <1>5
<1>7. d[degs[v]] # <<>>
  BY <1>5
<1>8. QED  BY <1>4, <1>6, <1>7 DEF SearchEnds

LEMMA NextBucketKeeps ==
  ASSUME OrderInv, NextBucket, UNCHANGED graph
  PROVE  OrderInv'
<1>1. /\ Vertices = 0..(size(graph) - 1) /\ size(graph) \in Nat
      /\ at = 0 /\ pushed = size(graph) /\ d[j] = <<>> /\ j \in Nat
      /\ UNCHANGED <<graph, d, degs, positions, used, perm, pushed, at>> /\ j' = j + 1
  BY GraphFacts DEF OrderInv, OrderTypes, Vertices, NextBucket, Searching
<1>2. Vertices' = Vertices /\ Left' = Left /\ \A x \in Vertices : NotLowered(x)' = NotLowered(x)
  BY <1>1 DEF Vertices, Left, NotLowered
<1>3. OrderTypes' /\ OrderPhases'
  BY <1>1, <1>2 DEF OrderInv, OrderTypes, OrderPhases
<1>4. EachPlaced'
  <2>1. SUFFICES ASSUME NEW x \in Left, x < pushed
                 PROVE  /\ degs[x] = DegreeIn(x, Left)' + (IF NotLowered(x)' THEN 1 ELSE 0)
                        /\ positions[x] \in DOMAIN d[degs[x]]
                        /\ d[degs[x]][positions[x]] = x
                        /\ degs[x] >= j + 1
    <3>1. ASSUME NEW x \in Left PROVE degs[x] \in Vertices
      BY DEF Left, OrderInv, OrderTypes, Vertices
    <3>2. QED  BY <1>1, <1>2, <2>1, <3>1 DEF EachPlaced
  <2>2. DegreeIn(x, Left)' = DegreeIn(x, Left)
    BY <1>1, <1>2 DEF DegreeIn
  <2>3. x \in Vertices /\ degs[x] \in Vertices
    BY DEF Left, Vertices, OrderInv, OrderTypes
  <2>4. /\ degs[x] = DegreeIn(x, Left) + (IF NotLowered(x) THEN 1 ELSE 0)
        /\ positions[x] \in DOMAIN d[degs[x]] /\ d[degs[x]][positions[x]] = x
        /\ degs[x] + 0 >= j
    BY <1>1, <2>1 DEF OrderInv, EachPlaced
  <2>5. degs[x] # j
    BY <1>1, <2>4
  <2>6. QED  BY <1>1, <1>2, <2>2, <2>3, <2>4, <2>5
<1>5. NothingElse' /\ LeastFirst'
  BY <1>1, <1>2 DEF OrderInv, NothingElse, LeastFirst, DegreeIn
<1>6. QED  BY <1>3, <1>4, <1>5 DEF OrderInv

LEMMA SkipUsedKeeps ==
  ASSUME OrderInv, SkipUsed, UNCHANGED graph
  PROVE  OrderInv'
<1>1. PICK w \in used : AtNeighbour(w)
  BY DEF SkipUsed
<1>2. /\ at \in Nat \ {0} /\ at <= degree(graph, Last(perm))
      /\ w = neighs(graph, Last(perm))[at]
      /\ UNCHANGED <<graph, d, degs, positions, used, perm, j, pushed>> /\ at' = at + 1
  BY <1>1 DEF OrderInv, OrderTypes, SkipUsed, AtNeighbour
<1>3. perm \in Seq(Vertices) /\ perm # <<>> /\ Last(perm) \in Vertices
  <2>1. perm \in Seq(Vertices) /\ perm # <<>>
    BY <1>2 DEF OrderInv, OrderTypes, OrderPhases
  <2>2. QED  BY <2>1, EmptySeq DEF Last
<1>4. /\ degree(graph, Last(perm)) \in Nat
      /\ DOMAIN neighs(graph, Last(perm)) = 1..degree(graph, Last(perm))
  BY <1>3, GraphFacts DEF OrderInv, OrderTypes, Vertices
<1>5. Vertices' = Vertices /\ Left' = Left /\ \A x \in Left : NotLowered(x)' = NotLowered(x)
  <2>1. ASSUME NEW x \in Left, NEW m \in DOMAIN neighs(graph, Last(perm)),
               neighs(graph, Last(perm))[m] = x
        PROVE  m >= at <=> m >= at + 1
    <3>1. m # at
      BY <1>2, <2>1 DEF Left
    <3>2. QED  BY <1>2, <1>4, <3>1
  <2>2. QED  BY <1>2, <2>1 DEF NotLowered, Left, Vertices
<1>6. OrderTypes' /\ OrderPhases'
  BY <1>2, <1>3, <1>4, <1>5 DEF OrderInv, OrderTypes, OrderPhases
<1>7. EachPlaced'
  <2>1. ASSUME NEW x \in Left PROVE DegreeIn(x, Left)' = DegreeIn(x, Left)
    BY <1>2, <1>5 DEF DegreeIn
  <2>2. at' # 0 /\ at # 0
    BY <1>2
  <2>3. QED  BY <1>2, <1>5, <2>1, <2>2 DEF OrderInv, EachPlaced
<1>8. NothingElse' /\ LeastFirst'
  BY <1>2, <1>5 DEF OrderInv, NothingElse, LeastFirst, DegreeIn
<1>9. QED  BY <1>6, <1>7, <1>8 DEF OrderInv

LEMMA EndTurnKeeps ==
  ASSUME OrderInv, EndTurn, UNCHANGED graph
  PROVE  OrderInv'
<1>1. /\ at \in Nat \ {0} /\ at > degree(graph, Last(perm)) /\ j \in Nat
      /\ UNCHANGED <<graph, d, degs, positions, used, perm, pushed>> /\ at' = 0
      /\ j' = IF j > 0 THEN j - 1 ELSE 0
  BY DEF OrderInv, OrderTypes, EndTurn
<1>2. perm \in Seq(Vertices) /\ perm # <<>> /\ Last(perm) \in Vertices
  <2>1. perm \in Seq(Vertices) /\ perm # <<>>
    BY <1>1 DEF OrderInv, OrderTypes, OrderPhases
  <2>2. QED  BY <2>1, EmptySeq DEF Last
<1>3. /\ degree(graph, Last(perm)) \in Nat
      /\ DOMAIN neighs(graph, Last(perm)) = 1..degree(graph, Last(perm))
      /\ Vertices = 0..(size(graph) - 1) /\ size(graph) \in Nat
  BY <1>2, GraphFacts DEF OrderInv, OrderTypes, Vertices
<1>4. /\ Vertices' = Vertices /\ Left' = Left
      /\ \A x \in Left : ~ NotLowered(x)' /\ ~ NotLowered(x)
  BY <1>1, <1>3 DEF NotLowered, Left, Vertices
<1>5. OrderTypes' /\ OrderPhases'
  BY <1>1, <1>2, <1>4 DEF OrderInv, OrderTypes, OrderPhases
<1>6. EachPlaced'
  <2>1. SUFFICES ASSUME NEW x \in Left, x < pushed
                 PROVE  /\ degs[x] = DegreeIn(x, Left)'
                        /\ positions[x] \in DOMAIN d[degs[x]]
                        /\ d[degs[x]][positions[x]] = x
                        /\ degs[x] >= j'
    <3>1. ASSUME NEW x \in Left PROVE degs[x] \in Nat
      BY <1>3 DEF Left, OrderInv, OrderTypes, Vertices
    <3>2. QED  BY <1>1, <1>4, <2>1, <3>1 DEF EachPlaced
  <2>2. DegreeIn(x, Left)' = DegreeIn(x, Left)
    BY <1>1, <1>4 DEF DegreeIn
  <2>3. x \in Vertices /\ degs[x] \in Nat /\ DegreeIn(x, Left) \in Nat
    <3>1. x \in Vertices /\ degs[x] \in Nat
      BY <1>3 DEF Left, Vertices, OrderInv, OrderTypes
    <3>2. IsFiniteSet(Left)
      BY GraphFacts, FS_Subset DEF Left, OrderInv, OrderTypes
    <3>3. QED  BY <3>1, <3>2, DegreeWithout
  <2>4. /\ degs[x] = DegreeIn(x, Left) + 0
        /\ positions[x] \in DOMAIN d[degs[x]] /\ d[degs[x]][positions[x]] = x
        /\ degs[x] + 1 >= j
    BY <1>1, <1>4, <2>1 DEF OrderInv, EachPlaced
  <2>5. QED  BY <1>1, <2>2, <2>3, <2>4
<1>7. NothingElse' /\ LeastFirst'
  BY <1>1, <1>4 DEF OrderInv, NothingElse, LeastFirst, DegreeIn
<1>8. QED  BY <1>5, <1>6, <1>7 DEF OrderInv

LEMMA TakeVertexKeeps ==
  ASSUME OrderInv, TakeVertex, UNCHANGED graph
  PROVE  OrderInv'
<1> DEFINE v == Last(d[j])
           len == Len(d[j])
<1>1. /\ Vertices = 0..(size(graph) - 1) /\ size(graph) \in Nat
      /\ at = 0 /\ pushed = size(graph) /\ j \in Vertices
      /\ UNCHANGED <<graph, degs, positions, pushed, j>> /\ at' = 1
      /\ d' = [d EXCEPT ![j] = Front(d[j])] /\ perm' = Append(perm, v)
      /\ used' = used \cup {v}
  BY GraphFacts, SearchEndsHolds DEF OrderInv, OrderTypes, Vertices, TakeVertex, Searching
<1>2. d[j] \in Seq(Vertices) /\ d[j] # <<>> /\ DOMAIN d = Vertices
  BY <1>1 DEF OrderInv, OrderTypes, TakeVertex
<1>3. len \in Nat \ {0} /\ v = d[j][len] /\ DOMAIN d[j] = 1..len
  BY <1>2, EmptySeq DEF Last
<1>4. /\ Front(d[j]) \in Seq(Vertices) /\ DOMAIN Front(d[j]) = 1..(len - 1)
      /\ \A m \in 1..(len - 1) : Front(d[j])[m] = d[j][m]
  <2>1. \A m \in 1..(len - 1) : d[j][m] \in Vertices
    BY <1>2, <1>3
  <2>2. len - 1 \in Int /\ 1 \in Int
    BY <1>3
  <2>3. /\ SubSeq(d[j], 1, len - 1) \in Seq(Vertices)
        /\ Len(SubSeq(d[j], 1, len - 1)) = IF 1 <= len - 1 THEN len - 1 - 1 + 1 ELSE 0
        /\ \A m \in 1..(len - 1 - 1 + 1) : SubSeq(d[j], 1, len - 1)[m] = d[j][1 + m - 1]
    BY <2>1, <2>2, SubSeqProperties
  <2>4. QED  BY <1>3, <2>3 DEF Front
<1>5. /\ v \in Left /\ v \in Vertices /\ v \notin used /\ degs[v] = j /\ positions[v] = len
  BY <1>1, <1>2, <1>3 DEF OrderInv, NothingElse, Left, Vertices
<1> HIDE DEF v, len
<1>6. /\ perm \in Seq(Vertices) /\ Len(perm) \in Nat /\ DOMAIN perm = 1..Len(perm)
      /\ used = ToSet(perm)
  BY DEF OrderInv, OrderTypes
<1>7. /\ perm' \in Seq(Vertices) /\ DOMAIN perm' = 1..(Len(perm) + 1)
      /\ \A p \in 1..Len(perm) : perm'[p] = perm[p]
      /\ perm'[Len(perm) + 1] = v /\ Last(perm)' = v /\ perm' # <<>>
  <2>1. /\ perm' \in Seq(Vertices) /\ Len(perm') = Len(perm) + 1 /\ perm' # <<>>
        /\ \A p \in 1..Len(perm) : perm'[p] = perm[p]
        /\ perm'[Len(perm) + 1] = v
    BY <1>1, <1>5, <1>6, AppendProperties, SMTT(30)
  <2>2. Last(perm)' = v
    BY <2>1 DEF Last
  <2>3. QED  BY <2>1, <2>2
<1>8. Vertices' = Vertices /\ Left' = Left \ {v}
  BY <1>1 DEF Vertices, Left
<1>9. d' \in [Vertices -> Seq(Vertices)] /\ d'[j] = Front(d[j])
      /\ \A x \in Vertices \ {j} : d'[x] = d[x]
  BY <1>1, <1>2, <1>4 DEF OrderInv, OrderTypes
<1>10. used' = ToSet(perm') /\ IsInjective(perm')
  <2>1. used' = ToSet(perm')
    <3>1. \A x \in ToSet(perm') : x \in ToSet(perm) \cup {v}
      BY <1>6, <1>7 DEF ToSet
    <3>2. \A x \in ToSet(perm) \cup {v} : x \in ToSet(perm')
      BY <1>6, <1>7 DEF ToSet
    <3>3. QED  BY <1>1, <1>6, <3>1, <3>2
  <2>2. ASSUME NEW a \in DOMAIN perm', NEW b \in DOMAIN perm', perm'[a] = perm'[b]
        PROVE  a = b
    <3>1. \A p \in 1..Len(perm) : perm'[p] \in used /\ perm'[p] # v
      BY <1>5, <1>6, <1>7 DEF ToSet
    <3>2. \A p, q \in 1..Len(perm) : perm[p] = perm[q] => p = q
      BY <1>6 DEF OrderInv, OrderTypes, IsInjective
    <3>3. QED  BY <1>6, <1>7, <2>2, <3>1, <3>2
  <2>3. QED  BY <2>1, <2>2 DEF IsInjective
<1>11. OrderTypes'
  BY <1>1, <1>7, <1>8, <1>9, <1>10 DEF OrderInv, OrderTypes
<1>12. /\ degree(graph, v) \in Nat /\ DOMAIN neighs(graph, v) = 1..degree(graph, v)
       /\ neighs(graph, v) = graph[v]
  BY <1>5, GraphFacts DEF OrderInv, OrderTypes, Vertices
<1>13. OrderPhases'
  BY <1>1, <1>7, <1>12 DEF OrderPhases
<1>14. ASSUME NEW x \in Left' PROVE NotLowered(x)' <=> are_neighs(graph, x, v)
  <2>1. NotLowered(x)' <=> \E m \in DOMAIN graph[v] : m >= 1 /\ graph[v][m] = x
    BY <1>1, <1>7, <1>12 DEF NotLowered, neighs
  <2>2. NotLowered(x)' <=> are_neighs(graph, v, x)
    BY <1>12, <2>1 DEF are_neighs
  <2>3. x \in DOMAIN graph /\ v \in DOMAIN graph
    BY <1>5, <1>8 DEF Left, Vertices
  <2>4. QED  BY <2>2, <2>3 DEF OrderInv, OrderTypes, SimpleGraph
<1>15. IsFiniteSet(Left)
  BY GraphFacts, FS_Subset DEF Left, OrderInv, OrderTypes
<1>16. EachPlaced'
  <2>1. SUFFICES ASSUME NEW x \in Left', x < pushed
                 PROVE  /\ degs[x] = DegreeIn(x, Left') + (IF NotLowered(x)' THEN 1 ELSE 0)
                        /\ positions[x] \in DOMAIN d'[degs[x]]
                        /\ d'[degs[x]][positions[x]] = x
                        /\ degs[x] >= j
    <3>1. ASSUME NEW x \in Left'
          PROVE  degs[x] \in Nat /\ DegreeIn(x, Left)' = DegreeIn(x, Left')
      BY <1>1, <1>8 DEF Left, OrderInv, OrderTypes, Vertices, DegreeIn
    <3>2. j \in Nat
      BY <1>1
    <3>3. SUFFICES ASSUME NEW x \in Left', x < pushed
                   PROVE  /\ degs[x] = DegreeIn(x, Left)' + (IF NotLowered(x)' THEN 1 ELSE 0)
                          /\ positions[x] \in DOMAIN d'[degs[x]]
                          /\ d'[degs[x]][positions[x]] = x
                          /\ degs[x] + (IF at' # 0 /\ ~ NotLowered(x)' THEN 1 ELSE 0) >= j
      BY <1>1 DEF EachPlaced
    <3>4. QED  BY <2>1, <3>1, <3>2, <3>3
  <2>2. x \in Left /\ x # v /\ x \in Vertices /\ degs[x] \in Vertices
    BY <1>8 DEF Left, OrderInv, OrderTypes, Vertices
  <2>3. /\ degs[x] = DegreeIn(x, Left) + 0
        /\ positions[x] \in DOMAIN d[degs[x]] /\ d[degs[x]][positions[x]] = x
        /\ degs[x] + 0 >= j
    BY <1>1, <2>1, <2>2 DEF OrderInv, EachPlaced, NotLowered
  <2>4. /\ DegreeIn(x, Left) \in Nat
        /\ DegreeIn(x, Left') = DegreeIn(x, Left) - (IF are_neighs(graph, x, v) THEN 1 ELSE 0)
    BY <1>5, <1>8, <1>15, DegreeWithout
  <2>5. positions[x] \in DOMAIN d'[degs[x]] /\ d'[degs[x]][positions[x]] = x
    <3>1. CASE degs[x] = j
      <4>1. positions[x] \in 1..len /\ positions[x] # len
        BY <1>3, <2>2, <2>3, <3>1
      <4>2. positions[x] \in 1..(len - 1)
        BY <1>3, <4>1
      <4>3. QED  BY <1>4, <1>9, <2>3, <3>1, <4>2
    <3>2. CASE degs[x] # j
      BY <1>9, <2>2, <2>3, <3>2
    <3>3. QED  BY <3>1, <3>2
  <2>6. QED  BY <1>1, <1>14, <2>2, <2>3, <2>4, <2>5
<1>17. NothingElse'
  <2>1. SUFFICES ASSUME NEW k \in Vertices, NEW m \in DOMAIN d'[k]
                 PROVE  /\ d'[k][m] \in Left' /\ d'[k][m] < pushed
                        /\ degs[d'[k][m]] = k /\ positions[d'[k][m]] = m
    BY <1>1, <1>9 DEF NothingElse
  <2>2. m \in DOMAIN d[k] /\ d'[k][m] = d[k][m] /\ (k = j => m # len)
    <3>1. CASE k = j
      <4>1. m \in 1..(len - 1) /\ d'[k][m] = d[j][m]
        BY <1>4, <1>9, <2>1, <3>1
      <4>2. QED  BY <1>3, <3>1, <4>1
    <3>2. CASE k # j
      BY <1>9, <2>1, <3>2
    <3>3. QED  BY <3>1, <3>2
  <2>3. /\ d[k][m] \in Left /\ d[k][m] < pushed
        /\ degs[d[k][m]] = k /\ positions[d[k][m]] = m
    BY <1>2, <2>2 DEF OrderInv, NothingElse
  <2>4. d[k][m] # v
    BY <1>5, <2>2, <2>3
  <2>5. QED  BY <1>8, <2>2, <2>3, <2>4
<1>18. LeastFirst'
  <2>1. SUFFICES ASSUME NEW p \in DOMAIN perm',
                        NEW x \in Vertices \ {perm'[q] : q \in 1..(p - 1)}
                 PROVE  DegreeIn(perm'[p], Vertices \ {perm'[q] : q \in 1..(p - 1)})
                          <= DegreeIn(x, Vertices \ {perm'[q] : q \in 1..(p - 1)})
    BY <1>1, SMTT(30) DEF LeastFirst, Vertices, DegreeIn
  <2>2. {perm'[q] : q \in 1..(p - 1)} = {perm[q] : q \in 1..(p - 1)}
    BY <1>6, <1>7
  <2>3. CASE p \in DOMAIN perm
    BY <1>6, <1>7, <2>1, <2>2, <2>3 DEF OrderInv, LeastFirst, Vertices
  <2>4. CASE p \notin DOMAIN perm
    <3>1. p = Len(perm) + 1 /\ perm'[p] = v /\ p - 1 = Len(perm)
      BY <1>6, <1>7, <2>4
    <3>2. Vertices \ {perm'[q] : q \in 1..(p - 1)} = Left
      BY <1>6, <2>2, <3>1 DEF Left, ToSet, Vertices
    <3>3. ASSUME NEW y \in Left PROVE degs[y] = DegreeIn(y, Left) /\ degs[y] >= j
      <4>1. y \in Vertices /\ degs[y] \in Vertices /\ DegreeIn(y, Left) \in Nat
        BY <1>15, DegreeWithout DEF Left, Vertices, OrderInv, OrderTypes
      <4>2. y < pushed
        BY <1>1, <4>1
      <4>3. degs[y] = DegreeIn(y, Left) + 0 /\ degs[y] + 0 >= j
        BY <1>1, <4>2 DEF OrderInv, EachPlaced, NotLowered
      <4>4. QED  BY <1>1, <4>1, <4>3
    <3>4. QED  BY <1>5, <2>1, <3>1, <3>2, <3>3
  <2>5. QED  BY <2>3, <2>4
<1>19. QED  BY <1>11, <1>13, <1>16, <1>17, <1>18 DEF OrderInv

LEMMA LowerDegreeKeeps ==
  ASSUME OrderInv, LowerDegree, UNCHANGED graph
  PROVE  OrderInv'
<1>1. PICK w \in DOMAIN graph \ used :
        LET bucket == d[degs[w]]
            last == Len(bucket)
            low == degs[w] - 1
        IN  /\ AtNeighbour(w)
            /\ d' = [d EXCEPT ![degs[w]] = Front([bucket EXCEPT
                                                    ![positions[w]] = bucket[last]]),
                              ![low] = Append(@, w)]
            /\ positions' = [positions EXCEPT ![bucket[last]] = positions[w],
                                              ![w] = Len(d[low]) + 1]
            /\ degs' = [degs EXCEPT ![w] = low]
            /\ at' = at + 1
            /\ UNCHANGED <<used, perm, j, pushed>>
  BY DEF LowerDegree
<1> DEFINE k == degs[w]
           b == d[k]
           last == Len(b)
           u == b[last]
           pw == positions[w]
           low == k - 1
           ex == [b EXCEPT ![pw] = u]
           N == neighs(graph, Last(perm))
<1>2. /\ Vertices = 0..(size(graph) - 1) /\ size(graph) \in Nat
      /\ w \in Left /\ w \in Vertices /\ at \in Nat \ {0}
      /\ pushed = size(graph) /\ w < pushed /\ j \in Nat
      /\ UNCHANGED <<graph, used, perm, j, pushed>> /\ at' = at + 1
      /\ perm \in Seq(Vertices) /\ perm # <<>>
  <2>1. /\ Vertices = 0..(size(graph) - 1) /\ size(graph) \in Nat
    BY GraphFacts DEF OrderInv, OrderTypes, Vertices
  <2>2. w \in Left /\ w \in Vertices /\ at \in Nat \ {0} /\ perm \in Seq(Vertices) /\ perm # <<>>
    BY <1>1 DEF Left, Vertices, AtNeighbour, OrderInv, OrderTypes, OrderPhases
  <2>3. pushed = size(graph) /\ j \in Nat
    BY <2>2 DEF OrderInv, OrderTypes, OrderPhases
  <2>4. QED  BY <1>1, <2>1, <2>2, <2>3
<1>3. /\ degree(graph, Last(perm)) \in Nat /\ N = graph[Last(perm)]
      /\ DOMAIN N = 1..degree(graph, Last(perm)) /\ IsInjective(N)
      /\ at \in DOMAIN N /\ N[at] = w
  <2>1. Last(perm) \in Vertices
    BY <1>2, EmptySeq DEF Last
  <2>2. /\ degree(graph, Last(perm)) \in Nat /\ N = graph[Last(perm)]
        /\ DOMAIN N = 1..degree(graph, Last(perm)) /\ IsInjective(N)
    BY <2>1, GraphFacts DEF OrderInv, OrderTypes, Vertices
  <2>3. /\ at \in 1..degree(graph, Last(perm)) /\ N[at] = w
    <3>1. at # 0 /\ at <= degree(graph, Last(perm)) /\ w = N[at]
      BY <1>1 DEF AtNeighbour
    <3>2. at \in Nat /\ degree(graph, Last(perm)) \in Nat
      BY <1>2, <2>2
    <3> HIDE DEF N
    <3>3. at \in 1..degree(graph, Last(perm))
      BY <3>1, <3>2
    <3>4. QED  BY <3>1, <3>3
  <2>4. at \in DOMAIN N
    BY <2>2, <2>3
  <2>5. QED  BY <2>2, <2>3, <2>4
<1>4. NotLowered(w)
  BY <1>2, <1>3 DEF NotLowered
<1>5. /\ k \in Vertices /\ DOMAIN d = Vertices /\ pw \in Nat
      /\ DOMAIN positions = Vertices /\ DOMAIN degs = Vertices
      /\ \A x \in Vertices : d[x] \in Seq(Vertices) /\ DOMAIN d[x] = 1..Len(d[x]) /\ Len(d[x]) \in Nat
      /\ \A x \in Vertices : degs[x] \in Vertices /\ positions[x] \in Nat
  BY <1>2 DEF OrderInv, OrderTypes
<1>6. IsFiniteSet(Left) /\ DegreeIn(w, Left) \in Nat
  BY <1>2, GraphFacts, FS_Subset, DegreeWithout DEF Left, OrderInv, OrderTypes
<1>7. /\ k = DegreeIn(w, Left) + 1 /\ pw \in DOMAIN b /\ b[pw] = w /\ k + 0 >= j
  BY <1>2, <1>4 DEF OrderInv, EachPlaced
<1>8. /\ low \in Vertices /\ low # k /\ low + 1 = k /\ low = DegreeIn(w, Left)
      /\ last \in Nat \ {0} /\ pw \in 1..last /\ DOMAIN b = 1..last /\ b \in Seq(Vertices)
  <2>1. low \in Vertices /\ low # k /\ low + 1 = k /\ low = DegreeIn(w, Left)
    <3>1. DegreeIn(w, Left) \in Nat /\ k = DegreeIn(w, Left) + 1
      BY <1>6, <1>7
    <3>2. low = DegreeIn(w, Left) /\ low # k /\ low + 1 = k /\ low \in Nat
      BY <3>1
    <3>3. k \in 0..(size(graph) - 1) /\ size(graph) \in Nat
      BY <1>2, <1>5
    <3>4. low \in 0..(size(graph) - 1)
      BY <3>2, <3>3
    <3>5. QED  BY <1>2, <3>2, <3>4
  <2>2. b \in Seq(Vertices) /\ last \in Nat /\ DOMAIN b = 1..last
    BY <1>5
  <2>3. QED  BY <1>7, <2>1, <2>2
<1>9. u \in Left /\ u \in Vertices /\ degs[u] = k /\ positions[u] = last
  BY <1>5, <1>8 DEF OrderInv, NothingElse, Left, Vertices
<1>10. /\ Front(ex) \in Seq(Vertices) /\ DOMAIN Front(ex) = 1..(last - 1)
       /\ \A m \in 1..(last - 1) : Front(ex)[m] = IF m = pw THEN u ELSE b[m]
  <2>1. /\ ex \in Seq(Vertices) /\ Len(ex) = last
        /\ \A m \in 1..last : ex[m] = IF m = pw THEN u ELSE b[m]
    BY <1>8, <1>9, ExceptSeq
  <2>2. \A m \in 1..(last - 1) : ex[m] \in Vertices
    BY <1>8, <2>1
  <2>3. last - 1 \in Int /\ 1 \in Int
    BY <1>8
  <2>4. /\ SubSeq(ex, 1, last - 1) \in Seq(Vertices)
        /\ Len(SubSeq(ex, 1, last - 1)) = IF 1 <= last - 1 THEN last - 1 - 1 + 1 ELSE 0
        /\ \A m \in 1..(last - 1 - 1 + 1) : SubSeq(ex, 1, last - 1)[m] = ex[1 + m - 1]
    BY <2>2, <2>3, SubSeqProperties
  <2>5. QED  BY <1>8, <2>1, <2>4 DEF Front
<1>11. /\ Append(d[low], w) \in Seq(Vertices) /\ DOMAIN Append(d[low], w) = 1..(Len(d[low]) + 1)
       /\ \A m \in 1..Len(d[low]) : Append(d[low], w)[m] = d[low][m]
       /\ Append(d[low], w)[Len(d[low]) + 1] = w
  BY <1>2, <1>5, <1>8, AppendProperties
<1>12. /\ d' = [d EXCEPT ![k] = Front(ex), ![low] = Append(@, w)]
       /\ positions' = [positions EXCEPT ![u] = pw, ![w] = Len(d[low]) + 1]
       /\ degs' = [degs EXCEPT ![w] = low]
  BY <1>1
<1> HIDE DEF k, b, last, u, pw, low, ex, N
<1>13. /\ d'[k] = Front(ex) /\ d'[low] = Append(d[low], w) /\ DOMAIN d' = Vertices
       /\ \A x \in Vertices \ {k, low} : d'[x] = d[x]
  BY <1>5, <1>8, <1>12
<1>14. /\ degs'[w] = low /\ \A x \in Vertices \ {w} : degs'[x] = degs[x]
       /\ positions'[w] = Len(d[low]) + 1 /\ (u # w => positions'[u] = pw)
       /\ \A x \in Vertices \ {w, u} : positions'[x] = positions[x]
  BY <1>2, <1>5, <1>9, <1>12
<1>15. /\ d' \in [Vertices -> Seq(Vertices)] /\ degs' \in [Vertices -> Vertices]
       /\ positions' \in [Vertices -> Nat \ {0}]
  <2>1. d' \in [Vertices -> Seq(Vertices)]
    BY <1>5, <1>8, <1>10, <1>11, <1>12, <1>13
  <2>2. degs' \in [Vertices -> Vertices]
    BY <1>5, <1>8, <1>12, <1>14
  <2>3. pw \in Nat \ {0} /\ Len(d[low]) + 1 \in Nat \ {0}
    BY <1>5, <1>8
  <2>4. positions \in [Vertices -> Nat \ {0}]
    BY DEF OrderInv, OrderTypes
  <2>5. QED  BY <1>2, <1>9, <1>12, <2>1, <2>2, <2>3, <2>4
<1>16. Vertices' = Vertices /\ Left' = Left
  BY <1>2 DEF Vertices, Left
<1>17. OrderTypes' /\ OrderPhases'
  <2>1. OrderTypes'
    BY <1>2, <1>15, <1>16, SMTT(30) DEF OrderInv, OrderTypes
  <2>2. at <= degree(graph, Last(perm))
    BY <1>2, <1>3
  <2>3. at + 1 <= degree(graph, Last(perm)) + 1
    BY <1>2, <1>3, <2>2
  <2>4. OrderPhases'
    BY <1>2, <2>3 DEF OrderInv, OrderPhases
  <2>5. QED  BY <2>1, <2>4
<1>18. ASSUME NEW x \in Left
       PROVE  /\ x = w => ~ NotLowered(x)'
              /\ x # w => (NotLowered(x)' <=> NotLowered(x))
  <2>1. NotLowered(x)' <=> \E m \in DOMAIN N : m >= at + 1 /\ N[m] = x
    BY <1>2 DEF NotLowered, N
  <2>2. NotLowered(x) <=> \E m \in DOMAIN N : m >= at /\ N[m] = x
    BY <1>2 DEF NotLowered, N
  <2>3. \A m \in DOMAIN N : m \in Nat /\ (N[m] = w => m = at)
    BY <1>3 DEF IsInjective
  <2>4. QED  BY <1>2, <1>3, <2>1, <2>2, <2>3
<1>19. EachPlaced'
  <2>1. SUFFICES ASSUME NEW x \in Left
                 PROVE  /\ degs'[x] = DegreeIn(x, Left) + (IF NotLowered(x)' THEN 1 ELSE 0)
                        /\ positions'[x] \in DOMAIN d'[degs'[x]]
                        /\ d'[degs'[x]][positions'[x]] = x
                        /\ degs'[x] + (IF ~ NotLowered(x)' THEN 1 ELSE 0) >= j
    <3>1. ASSUME NEW x \in Left PROVE DegreeIn(x, Left)' = DegreeIn(x, Left)
      BY <1>2, <1>16 DEF DegreeIn
    <3>2. at' # 0
      BY <1>2
    <3>3. QED  BY <1>2, <1>16, <2>1, <3>1, <3>2 DEF EachPlaced
  <2>2. x \in Vertices /\ x < pushed
    BY <1>2 DEF Left, Vertices
  <2>3. CASE x = w
    <3>1. ~ NotLowered(x)'
      BY <1>18, <2>3
    <3>2. degs'[x] = DegreeIn(x, Left) /\ DegreeIn(x, Left) \in Nat /\ degs'[x] + 1 >= j
      BY <1>6, <1>7, <1>8, <1>14, <2>3
    <3>3. positions'[x] \in DOMAIN d'[degs'[x]] /\ d'[degs'[x]][positions'[x]] = x
      BY <1>5, <1>8, <1>11, <1>13, <1>14, <2>3
    <3>4. QED  BY <3>1, <3>2, <3>3
  <2>4. CASE x # w
    <3>1. /\ degs[x] = DegreeIn(x, Left) + (IF NotLowered(x) THEN 1 ELSE 0)
          /\ positions[x] \in DOMAIN d[degs[x]] /\ d[degs[x]][positions[x]] = x
          /\ degs[x] + (IF at # 0 /\ ~ NotLowered(x) THEN 1 ELSE 0) >= j
      BY <2>2 DEF OrderInv, EachPlaced
    <3>2. /\ degs'[x] = DegreeIn(x, Left) + (IF NotLowered(x)' THEN 1 ELSE 0)
          /\ degs'[x] + (IF ~ NotLowered(x)' THEN 1 ELSE 0) >= j
      <4>1. at # 0 /\ degs'[x] = degs[x]
        BY <1>2, <1>14, <2>2, <2>4
      <4>2. CASE NotLowered(x)
        BY <1>18, <2>4, <3>1, <4>1, <4>2
      <4>3. CASE ~ NotLowered(x)
        BY <1>18, <2>4, <3>1, <4>1, <4>3
      <4>4. QED  BY <4>2, <4>3
    <3>3. degs'[x] = degs[x] /\ degs[x] \in Vertices
      BY <1>5, <1>14, <2>2, <2>4
    <3>4. positions'[x] \in DOMAIN d'[degs[x]] /\ d'[degs[x]][positions'[x]] = x
      <4>1. CASE degs[x] = k /\ x = u
        <5>1. positions'[x] = pw /\ pw # last
          BY <1>7, <1>9, <1>14, <2>4, <4>1 DEF pw, u
        <5>2. pw \in 1..(last - 1)
          BY <1>8, <5>1
        <5>3. QED  BY <1>10, <1>13, <4>1, <5>1, <5>2
      <4>2. CASE degs[x] = k /\ x # u
        <5>1. positions'[x] = positions[x] /\ positions[x] \in 1..last
              /\ b[positions[x]] = x
          BY <1>8, <1>14, <2>2, <2>4, <3>1, <4>2 DEF b
        <5>2. positions[x] # last /\ positions[x] # pw
          BY <1>7, <2>4, <4>2, <5>1 DEF u
        <5>3. positions[x] \in 1..(last - 1)
          BY <1>8, <5>1, <5>2
        <5>4. QED  BY <1>10, <1>13, <4>2, <5>1, <5>2, <5>3
      <4>3. CASE degs[x] # k
        <5>1. x # u
          BY <1>9, <4>3
        <5>2. positions'[x] = positions[x] /\ positions[x] \in 1..Len(d[degs[x]])
          BY <1>5, <1>14, <2>2, <2>4, <3>1, <3>3, <5>1
        <5>3. CASE degs[x] = low
          <6>1. positions[x] \in 1..(Len(d[low]) + 1)
            BY <1>5, <1>8, <5>2, <5>3
          <6>2. QED  BY <1>11, <1>13, <3>1, <5>2, <5>3, <6>1
        <5>4. CASE degs[x] # low
          BY <1>13, <3>1, <3>3, <4>3, <5>2, <5>4
        <5>5. QED  BY <5>3, <5>4
      <4>4. QED  BY <4>1, <4>2, <4>3
    <3>5. QED  BY <3>2, <3>3, <3>4
  <2>5. QED  BY <2>3, <2>4
<1>20. NothingElse'
  <2>1. SUFFICES ASSUME NEW y \in Vertices, NEW m \in DOMAIN d'[y]
                 PROVE  /\ d'[y][m] \in Left
                        /\ degs'[d'[y][m]] = y /\ positions'[d'[y][m]] = m
    <3>1. \A x \in Left : x < pushed
      BY <1>2 DEF Left, Vertices
    <3>2. QED  BY <1>2, <1>13, <1>16, <2>1, <3>1 DEF NothingElse
  <2>2. ASSUME NEW z \in Vertices, NEW q \in DOMAIN d[z]
        PROVE  /\ d[z][q] \in Left /\ d[z][q] \in Vertices
               /\ degs[d[z][q]] = z /\ positions[d[z][q]] = q
    BY <1>5, <2>2 DEF OrderInv, NothingElse, Left, Vertices
  <2>3. CASE y = k /\ m = pw
    <3>1. m \in 1..(last - 1) /\ d'[y][m] = u
      BY <1>10, <1>13, <2>1, <2>3
    <3>2. u # w
      BY <1>8, <1>9, <2>3, <3>1 DEF pw
    <3>3. QED  BY <1>9, <1>14, <2>3, <3>1, <3>2
  <2>4. CASE y = k /\ m # pw
    <3>1. m \in 1..(last - 1) /\ d'[y][m] = b[m]
      BY <1>10, <1>13, <2>1, <2>4
    <3>2. m \in DOMAIN d[y] /\ d'[y][m] = d[y][m] /\ m # last
      BY <1>8, <2>4, <3>1 DEF b
    <3>3. d[y][m] # w /\ d[y][m] # u
      BY <1>9, <2>2, <2>4, <3>2 DEF pw
    <3>4. QED  BY <1>14, <2>2, <3>2, <3>3
  <2>5. CASE y = low /\ m = Len(d[low]) + 1
    BY <1>2, <1>11, <1>13, <1>14, <2>5
  <2>6. CASE y # k /\ ~ (y = low /\ m = Len(d[low]) + 1)
    <3>1. m \in DOMAIN d[y] /\ d'[y][m] = d[y][m]
      <4>1. CASE y = low
        <5>1. m \in 1..(Len(d[low]) + 1) /\ m # Len(d[low]) + 1
          BY <1>11, <1>13, <2>1, <2>6, <4>1
        <5>2. m \in 1..Len(d[low]) /\ DOMAIN d[low] = 1..Len(d[low])
          <6>1. Len(d[low]) \in Nat /\ DOMAIN d[low] = 1..Len(d[low])
            BY <1>5, <1>8
          <6>2. QED  BY <5>1, <6>1
        <5>3. QED  BY <1>11, <1>13, <4>1, <5>2
      <4>2. CASE y # low
        BY <1>13, <2>1, <2>6, <4>2
      <4>3. QED  BY <4>1, <4>2
    <3>2. d[y][m] # w /\ d[y][m] # u
      BY <1>9, <2>2, <2>6, <3>1 DEF k
    <3>3. QED  BY <1>14, <2>2, <3>1, <3>2
  <2>7. QED  BY <2>3, <2>4, <2>5, <2>6
<1>21. LeastFirst'
  BY <1>2 DEF OrderInv, LeastFirst, DegreeIn
<1>22. QED  BY <1>17, <1>19, <1>20, <1>21 DEF OrderInv

LEMMA OrderStepKeeps ==
  ASSUME OrderInv, [OrderStep]_<<graph, ordervars>>
  PROVE  OrderInv'
<1>1. CASE UNCHANGED <<graph, ordervars>>
  <2>1. /\ UNCHANGED <<graph, d, degs, positions, used, perm, j, pushed, at>>
        /\ Vertices' = Vertices /\ Left' = Left
    BY <1>1 DEF ordervars, Vertices, Left
  <2>2. OrderTypes' /\ OrderPhases' /\ NothingElse'
    BY <2>1 DEF OrderInv, OrderTypes, OrderPhases, NothingElse
  <2>3. ASSUME NEW x \in Left
        PROVE  DegreeIn(x, Left)' = DegreeIn(x, Left) /\ NotLowered(x)' = NotLowered(x)
    BY <2>1 DEF DegreeIn, NotLowered
  <2>4. EachPlaced'
    BY <2>1, <2>3 DEF OrderInv, EachPlaced
  <2>5. LeastFirst'
    BY <2>1 DEF OrderInv, LeastFirst, DegreeIn
  <2>6. QED  BY <2>2, <2>4, <2>5 DEF OrderInv
<1>2. QED
  BY <1>1, PushVertexKeeps, NextBucketKeeps, TakeVertexKeeps, SkipUsedKeeps,
     LowerDegreeKeeps, EndTurnKeeps DEF OrderStep
-----------------------------------------------------------------------
(* The search for cliques *)

\* The turns of ReportAll.
ReportTurns(f, seq, T) ==
  /\ f \in [0..Len(seq) -> Seq(T)]
  /\ f[0] = found
  /\ \A m \in 1..Len(seq) : f[m] = Append(f[m - 1], seq[m].clique)
  /\ found' = f[Len(seq)]

LEMMA ReportLoop ==
  ASSUME NEW T, system.kind = "clique", NEW S, NEW seq \in Seq(S),
         \A m \in 1..Len(seq) : seq[m].clique \in T,
         found \in Seq(T), Enumerator!ReportAll(seq)
  PROVE  \E f : ReportTurns(f, seq, T)
<1> DEFINE n == Len(seq)
           X == Seq(T)
           G == [m \in 1..n |-> [c \in X |-> Append(c, seq[m].clique)]]
           Loop(f) == f = [m \in 0..Len(seq) |->
                             IF m = 0 THEN found
                             ELSE IF IsSolution(system, seq[m])
                             THEN Append(f[m - 1], NodeToItem(system, seq[m]))
                             ELSE f[m - 1]]
           F == CHOOSE f : Loop(f)
<1>1. n \in Nat
  OBVIOUS
<1>2. G \in [1..n -> [X -> X]]
  <2>1. ASSUME NEW m \in 1..n PROVE [c \in X |-> Append(c, seq[m].clique)] \in [X -> X]
    <3>1. \A c \in X : Append(c, seq[m].clique) \in X
      OBVIOUS
    <3>2. QED  BY <3>1
  <2>2. QED  BY <2>1
<1>3. PICK h : LoopOf(h, n, X, found, G)
  <2> HIDE DEF G, X, n
  <2>1. found \in X
    BY DEF X
  <2>2. QED  BY <1>1, <1>2, <2>1, LoopExists
<1>4. \A m \in 1..n : IsSolution(system, seq[m]) /\ NodeToItem(system, seq[m]) = seq[m].clique
  BY DEF IsSolution, NodeToItem
<1>5. /\ h \in [0..n -> X] /\ h[0] = found
      /\ \A m \in 1..n : h[m] = Append(h[m - 1], seq[m].clique)
  <2>1. h \in [0..n -> X] /\ h[0] = found /\ \A m \in 1..n : h[m] = G[m][h[m - 1]]
    BY <1>3 DEF LoopOf
  <2>2. ASSUME NEW m \in 1..n PROVE h[m] = Append(h[m - 1], seq[m].clique)
    <3>1. m - 1 \in 0..n
      BY <1>1
    <3>2. h[m - 1] \in X
      BY <2>1, <3>1
    <3>3. QED  BY <2>1, <3>2
  <2>3. QED  BY <2>1, <2>2
<1>6. Loop(h)
  <2>1. ASSUME NEW m \in 0..n
        PROVE  h[m] = IF m = 0 THEN found
                      ELSE IF IsSolution(system, seq[m])
                      THEN Append(h[m - 1], NodeToItem(system, seq[m])) ELSE h[m - 1]
    <3>1. CASE m = 0
      BY <1>5, <3>1
    <3>2. CASE m # 0
      <4>1. m \in 1..n
        BY <1>1, <3>2
      <4>2. QED  BY <1>4, <1>5, <3>2, <4>1
    <3>3. QED  BY <3>1, <3>2
  <2>2. h = [m \in 0..n |-> h[m]]
    BY <1>5
  <2>3. QED  BY <2>1, <2>2
<1>7. Loop(F)
  BY <1>6
<1>8. found' = F[n]
  BY DEF Enumerator!ReportAll
<1> HIDE DEF F
<1>9. F[0] = found
  <2>1. 0 \in 0..Len(seq)
    BY <1>1
  <2>2. QED  BY <1>7, <2>1
<1>10. ASSUME NEW m \in 1..n PROVE F[m] = Append(F[m - 1], seq[m].clique)
  <2>1. m \in 0..Len(seq) /\ m # 0
    BY <1>1
  <2>2. QED  BY <1>4, <1>7, <2>1
<1>11. F \in [0..n -> X]
  <2> DEFINE P == {m \in 0..n : F[m] \in X}
  <2>1. 0 \in P
    BY <1>1, <1>9
  <2>2. ASSUME NEW m \in 0..(n - 1), m \in P PROVE m + 1 \in P
    <3> DEFINE q == m + 1
    <3>1. q \in 1..n /\ q - 1 = m /\ q \in 0..n
      BY <1>1
    <3> HIDE DEF q
    <3>2. F[q] = Append(F[q - 1], seq[q].clique)
      BY <1>10, <3>1
    <3>3. F[q - 1] \in X
      BY <2>2, <3>1
    <3>4. F[q] \in X
      BY <3>1, <3>2, <3>3
    <3>5. QED  BY <3>1, <3>4 DEF q
  <2>3. \A m \in 0..n : m \in P
    <3> HIDE DEF P
    <3>1. QED  BY <1>1, <2>1, <2>2, Induct
  <2>4. \A m \in 0..n : F[m] \in X
    BY <2>3
  <2>5. F = [m \in 0..n |-> F[m]]
    BY <1>7
  <2>6. QED  BY <2>4, <2>5
<1>12. ReportTurns(F, seq, T)
  BY <1>8, <1>9, <1>10, <1>11 DEF ReportTurns
<1>13. QED  BY <1>12

\* The nodes reported give their cliques.
LEMMA ReportFacts ==
  ASSUME NEW T, system.kind = "clique", NEW S, NEW seq \in Seq(S),
         \A m \in 1..Len(seq) : seq[m].clique \in T,
         visited \in Seq(S), found \in Seq(T), Len(found) = Len(visited),
         \A m \in 1..Len(visited) : found[m] = visited[m].clique,
         Enumerator!ReportAll(seq)
  PROVE  /\ visited' = visited \o seq
         /\ found' \in Seq(T) /\ Len(found') = Len(visited')
         /\ \A m \in 1..Len(visited') : found'[m] = visited'[m].clique
<1> DEFINE n == Len(seq)
           v == Len(visited)
           all == visited \o seq
<1>1. visited' = all
  BY DEF Enumerator!ReportAll
<1>2. /\ n \in Nat /\ v \in Nat /\ Len(all) = v + n
      /\ \A m \in 1..(v + n) : all[m] = IF m <= v THEN visited[m] ELSE seq[m - v]
  BY ConcatProperties, LenProperties
<1>3. PICK f : ReportTurns(f, seq, T)
  BY ReportLoop
<1>4. /\ f \in [0..n -> Seq(T)] /\ f[0] = found
      /\ \A m \in 1..n : f[m] = Append(f[m - 1], seq[m].clique)
      /\ found' = f[n]
  BY <1>3 DEF ReportTurns
<1> HIDE DEF all
<1> DEFINE Good(c, m) == /\ c \in Seq(T) /\ Len(c) = v + m
                         /\ \A x \in 1..(v + m) : c[x] = all[x].clique
           P == {m \in 0..n : Good(f[m], m)}
<1>5. 0 \in P
  <2>1. \A x \in 1..v : x \in 1..(v + n) /\ all[x] = visited[x]
    BY <1>2
  <2>2. QED  BY <1>2, <1>4, <2>1
<1>6. ASSUME NEW m \in 0..(n - 1), m \in P PROVE m + 1 \in P
  <2> DEFINE q == m + 1
             c == f[m]
             e == seq[q].clique
  <2>1. q \in 1..n /\ q - 1 = m /\ q \in 0..n /\ m \in Nat /\ m \in 0..n
    BY <1>2
  <2>2. c \in Seq(T) /\ Len(c) = v + m /\ \A x \in 1..(v + m) : c[x] = all[x].clique
    BY <1>6
  <2> HIDE DEF q, c
  <2>3. e \in T /\ f[q] = Append(c, e)
    BY <1>4, <2>1 DEF c
  <2>4. all[v + q] = seq[q]
    <3> DEFINE z == v + q
    <3>1. z \in 1..(v + n) /\ ~ (z <= v) /\ z - v = q
      <4> HIDE DEF n, v
      <4>1. QED  BY <1>2, <2>1
    <3>2. \A x \in 1..(v + n) : all[x] = IF x <= v THEN visited[x] ELSE seq[x - v]
      BY <1>2
    <3> HIDE DEF n, v, z
    <3>3. all[z] = seq[z - v]
      BY <3>1, <3>2
    <3>4. all[z] = seq[q]
      BY <3>1, <3>3
    <3>5. QED  BY <3>4 DEF z
  <2> HIDE DEF e
  <2>5. /\ Append(c, e) \in Seq(T) /\ Len(Append(c, e)) = v + q
        /\ \A x \in 1..(v + m) : Append(c, e)[x] = c[x]
        /\ Append(c, e)[v + q] = e
    <3>1. v + m + 1 = v + q
      BY <1>2, <2>1
    <3>2. QED  BY <2>2, <2>3, <3>1, AppendProperties
  <2>6. \A x \in 1..(v + q) : x \in 1..(v + m) \/ x = v + q
    <3> DEFINE z == v + q
               y == v + m
    <3>1. z = y + 1 /\ z \in Nat /\ y \in Nat
      <4> HIDE DEF n, v
      <4>1. q = m + 1 /\ m \in Nat /\ v \in Nat
        BY <1>2, <2>1 DEF q
      <4>2. QED  BY <4>1
    <3> HIDE DEF z, y
    <3>2. \A x \in 1..z : x \in 1..y \/ x = z
      BY <3>1
    <3>3. QED  BY <3>2 DEF z, y
  <2>7. Good(f[q], q)
    BY <2>2, <2>3, <2>4, <2>5, <2>6 DEF e
  <2> HIDE DEF Good
  <2>8. QED  BY <2>1, <2>7 DEF q
<1>7. n \in P
  <2> HIDE DEF P
  <2>1. \A m \in 0..n : m \in P
    BY <1>2, <1>5, <1>6, Induct
  <2>2. QED  BY <1>2, <2>1
<1>8. Good(f[n], n)
  BY <1>7
<1>9. Good(found', n)
  BY <1>4, <1>8
<1>10. visited \o seq = all
  BY DEF all
<1> HIDE DEF n, v
<1>11. QED  BY <1>1, <1>2, <1>9, <1>10
-----------------------------------------------------------------------
(* The invariant *)

\* The nodes that the roots before m list, and those that the nodes of S list.
FromRoots(g, m) == UNION {KidsOfRoot(g, r) : r \in 0..(m - 1)}

FromNodes(g, S) == UNION {KidsOfNode(g, x) : x \in S}

\* What has been visited: the nodes that the roots opened list, and those that
\* the nodes popped list.  A node visited is on the stack until it is popped.
Visiting(g) ==
  /\ nodes \in Seq(CliqueNode(g)) /\ visited \in Seq(CliqueNode(g))
  /\ IsInjective(nodes) /\ IsInjective(visited) /\ ToSet(nodes) \subseteq ToSet(visited)
  /\ ToSet(visited) = FromRoots(g, i) \cup FromNodes(g, ToSet(visited) \ ToSet(nodes))

\* Each node visited has given its clique.
Reported(g) ==
  /\ found \in Seq(Seq(DOMAIN g)) /\ Len(found) = Len(visited)
  /\ \A m \in 1..Len(visited) : found[m] = visited[m].clique

\* Where RunInternal is.
Control(g) ==
  /\ i \in 0..size(g) /\ calls = <<>>
  /\ nodes # <<>> => running
  /\ system # <<>> /\ ~ running => i = size(g)

NotBegun == ~ running /\ i = 0 /\ nodes = <<>> /\ calls = <<>> /\ visited = <<>> /\ found = <<>>

Searched ==
  IF system = <<>> THEN NotBegun
  ELSE /\ Ordered /\ system = [kind |-> "clique", g |-> Permute(graph, perm)]
       /\ Visiting(system.g) /\ Reported(system.g) /\ Control(system.g)

\* The system of the k-plex search, and where its recursion is: no two of the
\* nodes that calls have left are below one another, none is above one visited,
\* and what has been visited is of roots before i.
KplexSystemOfTask ==
  [kind |-> "d2kplex", g |-> Permute(graph, perm), k |-> task.k, q |-> task.q,
   pivoting |-> task.pivoting, mod |-> 256]

Recursing(s) ==
  /\ nodes = <<>> /\ i \in 0..size(s.g)
  /\ calls \in Seq(Seq(KplexNodes(s))) /\ visited \in Seq(KplexNodes(s))
  /\ Disjoint(calls, visited, i)

KplexSearched ==
  IF system = <<>> THEN NotBegun
  ELSE Ordered /\ system = KplexSystemOfTask /\ Recursing(system)

Inv ==
  /\ task \in Tasks /\ graph = ReadFastGraph(File(task))
  /\ OrderInv
  /\ task.kind = "clique" => Searched
  /\ task.kind = "d2kplex" => KplexSearched

\* A system is being enumerated.
LEMMA HasSystem == ASSUME NEW h, NEW k PROVE [kind |-> k, g |-> h] # <<>>
<1>1. "kind" \in DOMAIN [kind |-> k, g |-> h] /\ DOMAIN <<>> = {}
  OBVIOUS
<1>2. QED  BY <1>1

LEMMA HasKplexSystem == KplexSystemOfTask # <<>>
<1>1. "kind" \in DOMAIN KplexSystemOfTask
  BY DEF KplexSystemOfTask
<1>2. DOMAIN <<>> = {}
  OBVIOUS
<1>3. QED  BY <1>1, <1>2

LEMMA OrderNamesAll ==
  ASSUME OrderInv, Ordered
  PROVE  perm \in Seq(DOMAIN graph) /\ IsInjective(perm) /\ ToSet(perm) = DOMAIN graph
<1>1. /\ perm \in Seq(DOMAIN graph) /\ IsInjective(perm) /\ Len(perm) = size(graph)
      /\ SimpleGraph(graph)
  BY DEF OrderInv, OrderTypes, Ordered, Vertices
<1>2. IsFiniteSet(DOMAIN graph) /\ Cardinality(ToSet(perm)) = Len(perm)
  BY <1>1, GraphFacts, CountOnce
<1>3. ToSet(perm) \subseteq DOMAIN graph
  BY <1>1 DEF ToSet
<1>4. Cardinality(ToSet(perm)) = Cardinality(DOMAIN graph)
  BY <1>1, <1>2 DEF size
<1>5. ToSet(perm) = DOMAIN graph
  BY <1>2, <1>3, <1>4, FS_Subset
<1>6. QED  BY <1>1, <1>5

\* The graph that is searched.
LEMMA SearchedGraph ==
  ASSUME OrderInv, Ordered
  PROVE  IsPermuted(Permute(graph, perm), graph, perm)
<1>1. SimpleGraph(graph)
  BY DEF OrderInv, OrderTypes
<1>2. QED  BY <1>1, OrderNamesAll, PermuteFacts

LEMMA InitHolds == Init => Inv
<1> SUFFICES ASSUME Init PROVE Inv
  OBVIOUS
<1>1. task \in Tasks /\ graph = ReadFastGraph(File(task)) /\ OrderInit /\ Enumerator!Init
  BY DEF Init
<1>2. SimpleGraph(graph)
  BY <1>1, FileFacts
<1>3. OrderInv
  BY <1>1, <1>2, OrderInitHolds
<1>4. Searched
  BY <1>1 DEF Enumerator!Init, Searched, NotBegun
<1>5. KplexSearched
  BY <1>1 DEF Enumerator!Init, KplexSearched, NotBegun
<1>6. QED  BY <1>1, <1>3, <1>4, <1>5 DEF Inv
-----------------------------------------------------------------------
(* The steps *)

\* The task and the graph stay.
LEMMA InputStays ==
  ASSUME Inv, UNCHANGED <<task, graph>>
  PROVE  task' \in Tasks /\ graph' = ReadFastGraph(File(task))'
<1>1. task \in Tasks /\ graph = ReadFastGraph(File(task)) /\ task' = task /\ graph' = graph
  BY DEF Inv
<1>2. ReadFastGraph(File(task))' = ReadFastGraph(File(task))
  BY <1>1 DEF ReadFastGraph
<1>3. QED  BY <1>1, <1>2

LEMMA SearchedStays ==
  ASSUME Searched, UNCHANGED <<graph, ordervars, seqvars>>
  PROVE  Searched'
BY SMTT(30) DEF Searched, NotBegun, Visiting, Reported, Control, FromRoots, FromNodes, Ordered,
       ordervars, seqvars

LEMMA KplexSearchedStays ==
  ASSUME KplexSearched, UNCHANGED <<task, graph, ordervars, seqvars>>
  PROVE  KplexSearched'
<1>1. CASE system = <<>>
  <2>1. NotBegun /\ system' = <<>>
    BY <1>1 DEF KplexSearched, seqvars
  <2>2. NotBegun'
    BY <2>1 DEF NotBegun, seqvars
  <2>3. QED  BY <2>1, <2>2 DEF KplexSearched
<1>2. CASE system # <<>>
  <2>1. Ordered /\ system = KplexSystemOfTask /\ Recursing(system) /\ system' = system
    BY <1>2 DEF KplexSearched, seqvars
  <2>2. Ordered' /\ KplexSystemOfTask' = KplexSystemOfTask
    BY <2>1 DEF Ordered, KplexSystemOfTask, ordervars
  <2>3. Recursing(system)'
    BY <2>1 DEF Recursing, seqvars
  <2>4. QED  BY <1>2, <2>1, <2>2, <2>3 DEF KplexSearched
<1>3. QED  BY <1>1, <1>2

\* The order is complete before the search begins, and then has no step left.
LEMMA OrderVertexKeeps ==
  ASSUME Inv, OrderVertex
  PROVE  Inv'
<1>1. OrderStep /\ UNCHANGED <<task, graph, seqvars>>
  BY DEF OrderVertex, OrderStep
<1>2. OrderInv'
  BY <1>1, OrderStepKeeps DEF Inv
<1>3. ASSUME task.kind = "clique" PROVE Searched'
  <2>1. CASE system = <<>>
    BY <1>1, <1>3, <2>1 DEF Inv, Searched, NotBegun, seqvars
  <2>2. CASE system # <<>>
    <3>1. pushed = size(graph) /\ at = 0 /\ Len(perm) = size(graph)
      BY <1>3, <2>2 DEF Inv, Searched, Ordered
    <3>2. size(graph) \in Nat
      BY GraphFacts DEF Inv, OrderInv, OrderTypes
    <3>3. QED
      BY <1>1, <3>1, <3>2 DEF OrderStep, PushVertex, NextBucket, TakeVertex, SkipUsed,
         LowerDegree, EndTurn, Searching, AtNeighbour
  <2>3. QED  BY <2>1, <2>2
<1>4. ASSUME task.kind = "d2kplex" PROVE KplexSearched'
  <2>1. CASE system = <<>>
    BY <1>1, <1>4, <2>1 DEF Inv, KplexSearched, NotBegun, seqvars
  <2>2. CASE system # <<>>
    <3>1. pushed = size(graph) /\ at = 0 /\ Len(perm) = size(graph)
      BY <1>4, <2>2 DEF Inv, KplexSearched, Ordered
    <3>2. size(graph) \in Nat
      BY GraphFacts DEF Inv, OrderInv, OrderTypes
    <3>3. QED
      BY <1>1, <3>1, <3>2 DEF OrderStep, PushVertex, NextBucket, TakeVertex, SkipUsed,
         LowerDegree, EndTurn, Searching, AtNeighbour
  <2>3. QED  BY <2>1, <2>2
<1>5. QED  BY <1>1, <1>2, <1>3, <1>4, InputStays DEF Inv

LEMMA RunKeeps ==
  ASSUME Inv, MakeEnumerableSystemAndRun
  PROVE  Inv'
<1>1. /\ task.kind = "commutable" \/ Ordered
      /\ system = <<>> /\ system' = Constructed /\ running' = TRUE
      /\ UNCHANGED <<task, graph, ordervars, i, nodes, calls, visited, found>>
  BY DEF MakeEnumerableSystemAndRun, Enumerator!Run
<1>2. OrderInv'
  BY <1>1, OrderStepKeeps DEF Inv
<1>3. ASSUME task.kind = "clique" PROVE Searched'
  <2> DEFINE g == Permute(graph, perm)
  <2>1. Ordered /\ NotBegun
    BY <1>1, <1>3 DEF Inv, Searched
  <2>2. system' = [kind |-> "clique", g |-> g] /\ system' # <<>> /\ system'.g = g
    <3>1. system' = [kind |-> "clique", g |-> g]
      BY <1>1, <1>3 DEF Constructed
    <3>2. QED  BY <3>1, HasSystem
  <2>3. g' = g /\ Ordered'
    BY <1>1, <2>1 DEF Ordered, ordervars
  <2>4. /\ i' = 0 /\ nodes' = <<>> /\ calls' = <<>> /\ visited' = <<>> /\ found' = <<>>
        /\ size(g) \in Nat
    BY <1>1, <2>1, SearchedGraph, Symmetry DEF NotBegun, IsPermuted, Inv
  <2> HIDE DEF g
  <2>5. Visiting(g)'
    <3>1. ToSet(<<>>) = {} /\ IsInjective(<<>>)
      BY DEF ToSet, IsInjective
    <3>2. 0..(0 - 1) = {}
      OBVIOUS
    <3>3. FromRoots(g, 0) = {} /\ FromNodes(g, {} \ {}) = {}
      BY <3>2 DEF FromRoots, FromNodes
    <3>4. /\ ToSet(nodes') = {} /\ ToSet(visited') = {}
          /\ IsInjective(nodes') /\ IsInjective(visited')
      BY <2>4, <3>1
    <3>5. FromRoots(g, i)' = {} /\ FromNodes(g, ToSet(visited) \ ToSet(nodes))' = {}
      <4>1. FromRoots(g, i)' = FromRoots(g, i')
        BY <2>3 DEF FromRoots
      <4>2. FromNodes(g, ToSet(visited) \ ToSet(nodes))' = FromNodes(g, {} \ {})
        BY <2>3, <3>4 DEF FromNodes
      <4>3. QED  BY <2>4, <3>3, <4>1, <4>2
    <3>6. nodes' \in Seq(CliqueNode(g)) /\ visited' \in Seq(CliqueNode(g))
      BY <2>4
    <3>7. QED  BY <2>3, <3>4, <3>5, <3>6 DEF Visiting
  <2>6. Reported(g)' /\ Control(g)'
    BY <1>1, <2>2, <2>3, <2>4 DEF Reported, Control
  <2>7. QED  BY <2>2, <2>3, <2>5, <2>6 DEF Searched, g
<1>4. ASSUME task.kind = "d2kplex" PROVE KplexSearched'
  <2>1. Ordered /\ NotBegun
    BY <1>1, <1>4 DEF Inv, KplexSearched
  <2>2. system' = KplexSystemOfTask /\ system' # <<>> /\ system'.g = Permute(graph, perm)
    <3>1. system' = KplexSystemOfTask
      BY <1>1, <1>4 DEF Constructed, KplexSystemOfTask
    <3>2. system'.g = Permute(graph, perm)
      BY <3>1 DEF KplexSystemOfTask
    <3>3. QED  BY <3>1, <3>2, HasKplexSystem
  <2>3. KplexSystemOfTask' = KplexSystemOfTask /\ Ordered'
    BY <1>1, <2>1 DEF Ordered, KplexSystemOfTask, ordervars
  <2>4. i' = 0 /\ nodes' = <<>> /\ calls' = <<>> /\ visited' = <<>>
    BY <1>1, <2>1 DEF NotBegun
  <2>5. size(system'.g) \in Nat
    BY <2>1, <2>2, SearchedGraph, Symmetry DEF IsPermuted, Inv
  <2>6. Recursing(system)'
    <3>1. \A T : <<>> \in Seq(T)
      OBVIOUS
    <3>2. Disjoint(<<>>, <<>>, 0)
      BY DEF Disjoint, IsInjective
    <3>3. 0 \in 0..size(system'.g)
      BY <2>5
    <3>4. QED  BY <2>4, <3>1, <3>2, <3>3 DEF Recursing
  <2>7. QED  BY <2>2, <2>3, <2>6 DEF KplexSearched
<1>5. QED  BY <1>1, <1>2, <1>3, <1>4, InputStays DEF Inv

\* A node on top of a stack without repetitions.
LEMMA TopFacts ==
  ASSUME NEW T, NEW s \in Seq(T), s # <<>>, IsInjective(s)
  PROVE  /\ Front(s) \in Seq(T) /\ Last(s) \in ToSet(s) /\ Last(s) \in T
         /\ IsInjective(Front(s)) /\ ToSet(Front(s)) = ToSet(s) \ {Last(s)}
<1> DEFINE n == Len(s)
<1>1. n \in Nat \ {0} /\ DOMAIN s = 1..n /\ \A m \in 1..n : s[m] \in T
  BY EmptySeq
<1>2. /\ Front(s) \in Seq(T) /\ DOMAIN Front(s) = 1..(n - 1)
      /\ \A m \in 1..(n - 1) : Front(s)[m] = s[m]
  <2>1. n - 1 \in Int /\ 1 \in Int
    BY <1>1
  <2>2. /\ SubSeq(s, 1, n - 1) \in Seq(T)
        /\ Len(SubSeq(s, 1, n - 1)) = IF 1 <= n - 1 THEN n - 1 - 1 + 1 ELSE 0
        /\ \A m \in 1..(n - 1 - 1 + 1) : SubSeq(s, 1, n - 1)[m] = s[1 + m - 1]
    BY <1>1, <2>1, SubSeqProperties
  <2>3. QED  BY <1>1, <2>2 DEF Front
<1>3. n \in 1..n /\ Last(s) = s[n] /\ \A m \in 1..n : m \in 1..(n - 1) <=> m # n
  <2>1. Last(s) = s[n]
    BY DEF Last
  <2> HIDE DEF n
  <2>2. QED  BY <1>1, <2>1
<1>4. \A m \in 1..n : s[m] = Last(s) => m = n
  BY <1>1, <1>3 DEF IsInjective
<1>5. IsInjective(Front(s))
  BY <1>1, <1>2 DEF IsInjective
<1>6. ToSet(Front(s)) = {s[m] : m \in 1..(n - 1)} /\ ToSet(s) = {s[m] : m \in 1..n}
  BY <1>1, <1>2 DEF ToSet
<1> HIDE DEF n
<1>7. {s[m] : m \in 1..(n - 1)} = {s[m] : m \in 1..n} \ {Last(s)}
  <2>1. \A m \in 1..(n - 1) : m \in 1..n
    BY <1>1
  <2>2. QED  BY <1>3, <1>4, <2>1
<1>8. QED  BY <1>1, <1>2, <1>3, <1>5, <1>6, <1>7

\* The roots after i are not among those before.
LEMMA NextRootFacts ==
  ASSUME NEW g, SimpleGraph(g), NEW m \in Nat, m < size(g), NEW V, NEW S,
         S \subseteq CliqueNode(g), V = FromRoots(g, m) \cup FromNodes(g, S)
  PROVE  /\ V \cap KidsOfRoot(g, m) = {}
         /\ V \cup KidsOfRoot(g, m) = FromRoots(g, m + 1) \cup FromNodes(g, S)
<1>1. size(g) \in Nat /\ DOMAIN g = 0..(size(g) - 1)
  BY Symmetry
<1>2. /\ m \in DOMAIN g /\ \A r \in 0..(m - 1) : r \in DOMAIN g /\ r # m
      /\ 0..(m + 1 - 1) = 0..(m - 1) \cup {m}
  BY <1>1
<1>3. V \cap KidsOfRoot(g, m) = {}
  BY <1>2, ParentsDiffer DEF FromRoots, FromNodes
<1>4. FromRoots(g, m + 1) = FromRoots(g, m) \cup KidsOfRoot(g, m)
  BY <1>2 DEF FromRoots
<1>5. QED  BY <1>3, <1>4

\* The nodes that x lists are not among those listed by others.
ListsMore(g, m, S, x) ==
  /\ (FromRoots(g, m) \cup FromNodes(g, S)) \cap KidsOfNode(g, x) = {}
  /\ FromRoots(g, m) \cup FromNodes(g, S) \cup KidsOfNode(g, x)
       = FromRoots(g, m) \cup FromNodes(g, S \cup {x})

LEMMA NextNodeFacts ==
  ASSUME NEW g, SimpleGraph(g), NEW m \in Nat, m <= size(g), NEW S, S \subseteq CliqueNode(g),
         NEW x \in CliqueNode(g), x \notin S
  PROVE  ListsMore(g, m, S, x)
<1>1. size(g) \in Nat /\ DOMAIN g = 0..(size(g) - 1)
  BY Symmetry
<1>2. \A r \in 0..(m - 1) : r \in DOMAIN g
  BY <1>1
<1>3. \A y \in S : y \in CliqueNode(g) /\ y # x
  OBVIOUS
<1>4. (FromRoots(g, m) \cup FromNodes(g, S)) \cap KidsOfNode(g, x) = {}
  BY <1>2, <1>3, ParentsDiffer DEF FromRoots, FromNodes
<1>5. FromNodes(g, S \cup {x}) = FromNodes(g, S) \cup KidsOfNode(g, x)
  BY DEF FromNodes
<1>6. QED  BY <1>4, <1>5 DEF ListsMore
-----------------------------------------------------------------------
\* What a step of the search finds.
LEMMA SearchFacts ==
  ASSUME Inv, task.kind = "clique", system # <<>>
  PROVE  /\ SimpleGraph(system.g) /\ system.kind = "clique"
         /\ Ordered /\ system = [kind |-> "clique", g |-> Permute(graph, perm)]
         /\ Visiting(system.g) /\ Reported(system.g) /\ Control(system.g)
         /\ size(system.g) \in Nat /\ DOMAIN system.g = 0..(size(system.g) - 1)
         /\ ~ CanUseRecursion(system) /\ MaxRoots(system) = size(system.g)
<1>1. /\ Ordered /\ system = [kind |-> "clique", g |-> Permute(graph, perm)]
      /\ Visiting(system.g) /\ Reported(system.g) /\ Control(system.g) /\ OrderInv
  BY DEF Inv, Searched
<1>2. SimpleGraph(system.g) /\ system.kind = "clique"
  BY <1>1, SearchedGraph DEF IsPermuted
<1>3. size(system.g) \in Nat /\ DOMAIN system.g = 0..(size(system.g) - 1)
  BY <1>2, Symmetry
<1>4. ~ CanUseRecursion(system) /\ MaxRoots(system) = size(system.g)
  BY <1>2 DEF CanUseRecursion, MaxRoots
<1>5. QED  BY <1>1, <1>2, <1>3, <1>4

\* The nodes that a call lists, none of them visited before, are reported.
LEMMA ReportKeeps ==
  ASSUME Inv, task.kind = "clique", system # <<>>,
         NEW g, g = system.g, NEW seq, NEW K, Lists(seq, K), K \subseteq CliqueNode(g),
         ToSet(visited) \cap K = {}, Enumerator!ReportAll(seq), system' = system
  PROVE  /\ visited' \in Seq(CliqueNode(g)) /\ IsInjective(visited')
         /\ ToSet(visited') = ToSet(visited) \cup K
         /\ Reported(g)'
<1>1. SimpleGraph(g) /\ system.kind = "clique" /\ Visiting(g) /\ Reported(g) /\ g' = g
  BY SearchFacts
<1>2. seq \in Seq(CliqueNode(g)) /\ IsInjective(seq) /\ ToSet(seq) = K
  <2>1. seq \in Seq(K) /\ IsInjective(seq) /\ ToSet(seq) = K
    BY DEF Lists
  <2>2. QED  BY <2>1
<1>3. \A x \in CliqueNode(g) : x.clique \in Seq(DOMAIN g)
  BY <1>1, NodeFacts
<1>4. \A m \in 1..Len(seq) : seq[m].clique \in Seq(DOMAIN g)
  BY <1>2, <1>3
<1>5. /\ visited \in Seq(CliqueNode(g)) /\ IsInjective(visited)
      /\ found \in Seq(Seq(DOMAIN g)) /\ Len(found) = Len(visited)
      /\ \A m \in 1..Len(visited) : found[m] = visited[m].clique
  BY <1>1 DEF Visiting, Reported
<1>6. /\ visited' = visited \o seq
      /\ found' \in Seq(Seq(DOMAIN g)) /\ Len(found') = Len(visited')
      /\ \A m \in 1..Len(visited') : found'[m] = visited'[m].clique
  BY <1>1, <1>2, <1>4, <1>5, ReportFacts
<1>7. /\ visited' \in Seq(CliqueNode(g)) /\ IsInjective(visited')
      /\ ToSet(visited') = ToSet(visited) \cup K
  BY <1>2, <1>5, <1>6, ConcatFacts
<1>8. QED  BY <1>1, <1>6, <1>7 DEF Reported

LEMMA PushRootKeeps ==
  ASSUME Inv, task.kind = "clique", system # <<>>, Enumerator!PushRoot,
         UNCHANGED <<task, graph, ordervars>>, NEW g, g = system.g
  PROVE  Searched'
<1> DEFINE K == KidsOfRoot(g, i)
           seq == CliqueRoot(g, i)
           V == ToSet(visited)
<1>1. /\ SimpleGraph(g) /\ system.kind = "clique" /\ Ordered
      /\ system = [kind |-> "clique", g |-> Permute(graph, perm)]
      /\ Visiting(g) /\ Control(g) /\ size(g) \in Nat /\ DOMAIN g = 0..(size(g) - 1)
      /\ MaxRoots(system) = size(g)
  BY SearchFacts
<1>2. /\ running /\ i < size(g) /\ nodes = <<>> /\ calls = <<>>
      /\ nodes' = seq /\ Enumerator!ReportAll(seq) /\ i' = i + 1
      /\ UNCHANGED <<system, running, calls>> /\ system' = system
  BY <1>1 DEF Enumerator!PushRoot, Enumerator!NextRoot, GetRoot
<1>3. i \in Nat /\ i \in DOMAIN g /\ i + 1 \in 0..size(g)
  BY <1>1, <1>2 DEF Control
<1>4. Lists(seq, K) /\ K \subseteq CliqueNode(g)
  BY <1>1, <1>3, RootListed DEF KidsOfRoot
<1> HIDE DEF seq
<1>5. ToSet(nodes) = {} /\ V = FromRoots(g, i) \cup FromNodes(g, V)
  <2>1. ToSet(nodes) = {}
    BY <1>2 DEF ToSet
  <2>2. V = FromRoots(g, i) \cup FromNodes(g, V \ ToSet(nodes))
    BY <1>1 DEF Visiting
  <2>3. V \ ToSet(nodes) = V
    BY <2>1
  <2>4. QED  BY <2>1, <2>2, <2>3
<1>6. V \subseteq CliqueNode(g)
  BY <1>1, SeqFacts DEF Visiting
<1> HIDE DEF V, K
<1>7. V \cap K = {} /\ V \cup K = FromRoots(g, i + 1) \cup FromNodes(g, V)
  BY <1>1, <1>2, <1>3, <1>5, <1>6, NextRootFacts DEF K
<1>8. /\ visited' \in Seq(CliqueNode(g)) /\ IsInjective(visited')
      /\ ToSet(visited') = V \cup K /\ Reported(g)'
  BY <1>2, <1>4, <1>7, ReportKeeps DEF V
<1>9. nodes' \in Seq(CliqueNode(g)) /\ IsInjective(nodes') /\ ToSet(nodes') = K
  <2>1. seq \in Seq(K) /\ IsInjective(seq) /\ ToSet(seq) = K
    BY <1>4 DEF Lists
  <2>2. QED  BY <1>2, <1>4, <2>1
<1>10. system'.g = g
  BY <1>2
<1>11. Visiting(g)'
  <2>1. ToSet(visited') \ ToSet(nodes') = V
    BY <1>7, <1>8, <1>9
  <2>2. ToSet(visited') = FromRoots(g, i') \cup FromNodes(g, V)
    BY <1>2, <1>7, <1>8
  <2>3. QED  BY <1>8, <1>9, <1>10, <2>1, <2>2 DEF Visiting, FromRoots, FromNodes
<1>12. Control(g)'
  BY <1>1, <1>2, <1>3, <1>10 DEF Control
<1>13. QED  BY <1>1, <1>2, <1>8, <1>10, <1>11, <1>12 DEF Searched, Ordered, ordervars

LEMMA PopNodeKeeps ==
  ASSUME Inv, task.kind = "clique", system # <<>>, Enumerator!PopNode,
         UNCHANGED <<task, graph, ordervars>>, NEW g, g = system.g
  PROVE  Searched'
<1> DEFINE x == Last(nodes)
           K == KidsOfNode(g, x)
           seq == CliqueChildren(g, x)
           V == ToSet(visited)
           N == ToSet(nodes)
<1>1. /\ SimpleGraph(g) /\ system.kind = "clique" /\ Ordered
      /\ system = [kind |-> "clique", g |-> Permute(graph, perm)]
      /\ Visiting(g) /\ Control(g) /\ size(g) \in Nat
  BY SearchFacts
<1>2. /\ nodes # <<>> /\ nodes' = Front(nodes) \o seq /\ Enumerator!ReportAll(seq)
      /\ UNCHANGED <<system, running, i, calls>> /\ system' = system
  <2>1. ListChildren(system, x) = seq
    BY <1>1 DEF ListChildren
  <2>2. QED
    BY <2>1 DEF Enumerator!PopNode, Enumerator!Last, Enumerator!Front, Last, Front
<1>3. /\ Front(nodes) \in Seq(CliqueNode(g)) /\ x \in N /\ x \in CliqueNode(g)
      /\ IsInjective(Front(nodes)) /\ ToSet(Front(nodes)) = N \ {x}
  BY <1>1, <1>2, TopFacts DEF Visiting
<1>4. Lists(seq, K) /\ K \subseteq CliqueNode(g)
  BY <1>1, <1>3, ChildrenListed DEF KidsOfNode
<1>5. /\ V \subseteq CliqueNode(g) /\ N \subseteq V
      /\ V = FromRoots(g, i) \cup FromNodes(g, V \ N)
  BY <1>1, SeqFacts DEF Visiting
<1>6. i \in Nat /\ i <= size(g)
  BY <1>1 DEF Control
<1> HIDE DEF x, K, seq
<1>7. V \cap K = {} /\ V \cup K = FromRoots(g, i) \cup FromNodes(g, (V \ N) \cup {x})
  <2> HIDE DEF V, N
  <2>1. V \ N \subseteq CliqueNode(g) /\ x \notin V \ N
    BY <1>3, <1>5
  <2> DEFINE S == V \ N
  <2>2. S \subseteq CliqueNode(g) /\ x \notin S /\ V = FromRoots(g, i) \cup FromNodes(g, S)
    BY <1>5, <2>1
  <2> HIDE DEF S
  <2>3. /\ (FromRoots(g, i) \cup FromNodes(g, S)) \cap K = {}
        /\ FromRoots(g, i) \cup FromNodes(g, S) \cup K
             = FromRoots(g, i) \cup FromNodes(g, S \cup {x})
    <3>1. SimpleGraph(g) /\ x \in CliqueNode(g)
      BY <1>1, <1>3
    <3>2. i \in Nat /\ i <= size(g) /\ S \subseteq CliqueNode(g) /\ x \notin S
      BY <1>6, <2>2
    <3>3. ListsMore(g, i, S, x)
      BY <3>1, <3>2, NextNodeFacts
    <3>4. QED  BY <3>3 DEF K, ListsMore
  <2>4. QED  BY <2>2, <2>3 DEF S
<1>8. /\ visited' \in Seq(CliqueNode(g)) /\ IsInjective(visited')
      /\ ToSet(visited') = V \cup K /\ Reported(g)'
  BY <1>2, <1>4, <1>7, ReportKeeps
<1>9. /\ nodes' \in Seq(CliqueNode(g)) /\ IsInjective(nodes')
      /\ ToSet(nodes') = (N \ {x}) \cup K
  <2>1. seq \in Seq(CliqueNode(g)) /\ IsInjective(seq) /\ ToSet(seq) = K
    <3>1. seq \in Seq(K) /\ IsInjective(seq) /\ ToSet(seq) = K
      BY <1>4 DEF Lists
    <3>2. QED  BY <1>4, <3>1
  <2>2. ToSet(Front(nodes)) \cap ToSet(seq) = {}
    BY <1>3, <1>5, <1>7, <2>1
  <2>3. QED  BY <1>2, <1>3, <2>1, <2>2, ConcatFacts
<1>10. system'.g = g
  BY <1>2
<1> HIDE DEF V, N
<1>11. Visiting(g)'
  <2>1. ToSet(visited') \ ToSet(nodes') = (V \ N) \cup {x}
    BY <1>3, <1>5, <1>7, <1>8, <1>9
  <2>2. ToSet(nodes') \subseteq ToSet(visited')
    BY <1>5, <1>8, <1>9
  <2>3. ToSet(visited') = FromRoots(g, i') \cup FromNodes(g, ToSet(visited') \ ToSet(nodes'))
    BY <1>2, <1>7, <1>8, <2>1
  <2>4. QED  BY <1>8, <1>9, <1>10, <2>2, <2>3 DEF Visiting, FromRoots, FromNodes
<1>12. Control(g)'
  BY <1>1, <1>2, <1>10 DEF Control
<1>13. QED  BY <1>1, <1>2, <1>8, <1>10, <1>11, <1>12 DEF Searched, Ordered, ordervars

-----------------------------------------------------------------------
(* The steps of the recursion *)

\* What a step of the k-plex search finds.
LEMMA KplexFacts ==
  ASSUME Inv, task.kind = "d2kplex", system # <<>>
  PROVE  /\ Ordered /\ system = KplexSystemOfTask /\ KplexSystem(system)
         /\ system.kind = "d2kplex" /\ system.g = Permute(graph, perm) /\ system.k = task.k
         /\ system.q = task.q
         /\ nodes = <<>> /\ Recursing(system) /\ Nodelike(KplexNodes(system))
         /\ size(system.g) \in Nat /\ DOMAIN system.g = 0..(size(system.g) - 1)
         /\ CanUseRecursion(system) /\ MaxRoots(system) = size(system.g)
<1>1. Ordered /\ system = KplexSystemOfTask /\ Recursing(system) /\ OrderInv /\ task \in Tasks
  BY DEF Inv, KplexSearched
<1>2. /\ system.kind = "d2kplex" /\ system.g = Permute(graph, perm) /\ system.k = task.k
      /\ system.q = task.q /\ system.pivoting = task.pivoting /\ system.mod = 256
  BY <1>1 DEF KplexSystemOfTask
<1>3. task.k \in Nat \ {0} /\ task.q \in Nat /\ task.pivoting \in BOOLEAN
  BY <1>1, TasksAssumption
<1>4. SimpleGraph(system.g)
  BY <1>1, <1>2, SearchedGraph DEF IsPermuted
<1>5. KplexSystem(system)
  BY <1>2, <1>3, <1>4 DEF KplexSystem
<1>6. size(system.g) \in Nat /\ DOMAIN system.g = 0..(size(system.g) - 1)
  BY <1>4, Symmetry
<1>7. CanUseRecursion(system) /\ MaxRoots(system) = size(system.g)
  BY <1>2 DEF CanUseRecursion, MaxRoots
<1>8. nodes = <<>>
  BY <1>1 DEF Recursing
<1>9. Nodelike(KplexNodes(system))
  BY DEF Nodelike, KplexNodes, KplexTypes
<1>10. QED  BY <1>1, <1>2, <1>5, <1>6, <1>7, <1>8, <1>9

LEMMA RecursingKeeps ==
  ASSUME Inv, task.kind = "d2kplex", system # <<>>, system' = system,
         UNCHANGED <<task, graph, ordervars>>, Recursing(system)'
  PROVE  KplexSearched'
<1>1. Ordered /\ system = KplexSystemOfTask
  BY KplexFacts
<1>2. Ordered' /\ KplexSystemOfTask' = KplexSystemOfTask
  BY <1>1 DEF Ordered, KplexSystemOfTask, ordervars
<1>3. QED  BY <1>1, <1>2 DEF KplexSearched

LEMMA CallRootKeeps ==
  ASSUME Inv, task.kind = "d2kplex", system # <<>>, Enumerator!CallRoot,
         UNCHANGED <<task, graph, ordervars>>
  PROVE  KplexSearched'
<1> DEFINE T == KplexNodes(system)
           roots == KplexRoot(system, i)
<1>1. /\ KplexSystem(system) /\ system.kind = "d2kplex" /\ Recursing(system) /\ Nodelike(T)
      /\ size(system.g) \in Nat /\ DOMAIN system.g = 0..(size(system.g) - 1)
      /\ MaxRoots(system) = size(system.g)
  BY KplexFacts
<1>2. /\ i < size(system.g) /\ nodes = <<>> /\ calls = <<>>
      /\ calls' = [r \in DOMAIN roots |-> KplexChildren(system, roots[r])]
      /\ visited' = visited \o roots
      /\ i' = i + 1 /\ system' = system /\ nodes' = nodes
  <2>1. \A x : ListChildren(system, x) = KplexChildren(system, x)
    BY <1>1 DEF ListChildren
  <2>2. GetRoot(system, i) = roots
    BY <1>1 DEF GetRoot
  <2> HIDE DEF roots
  <2>3. QED
    BY <1>1, <2>1, <2>2 DEF Enumerator!CallRoot, Enumerator!NextRoot, Enumerator!ReportAll
<1>3. i \in Nat /\ i \in DOMAIN system.g /\ i' \in 0..size(system.g)
  BY <1>1, <1>2 DEF Recursing
<1>4. visited \in Seq(T) /\ Disjoint(<<>>, visited, i)
  BY <1>1, <1>2 DEF Recursing
<1>5. RootKids(system, i, roots)
  BY <1>1, <1>3, KplexRootFacts
<1>6. \A x \in T : x.sub[1] \in Nat
  BY <1>1, NodeFirst
<1> HIDE DEF T, roots
<1>7. Disjoint(<<>>, visited, i') /\ \A x \in T : x.sub[1] = i => Apartness(<<>>, visited, x)
  BY <1>2, <1>3, <1>4, <1>6, NextRootDisjoint
<1>8. CASE roots = <<>>
  <2>1. visited' = visited
    BY <1>2, <1>4, <1>8
  <2>2. calls' = <<>>
    BY <1>2, <1>8
  <2>3. Recursing(system)'
    BY <1>2, <1>3, <1>4, <1>7, <2>1, <2>2 DEF Recursing, T
  <2>4. QED  BY <1>2, <2>3, RecursingKeeps
<1>9. CASE roots # <<>>
  <2>1. PICK x \in T : roots = <<x>> /\ x.sub[1] = i
    BY <1>5, <1>9 DEF RootKids, T
  <2> DEFINE kids == KplexChildren(system, x)
  <2>2. KidsOf(system, x, kids)
    BY <1>1, <2>1, KplexChildrenFacts DEF T
  <2> HIDE DEF kids
  <2>3. /\ kids \in Seq(T) /\ \A m \in 1..Len(kids) : kids[m].sub = x.sub /\ Longer(x, kids[m])
        /\ \A m, n \in 1..Len(kids) :
             m # n => kids[m].kplex[Len(x.kplex) + 1] # kids[n].kplex[Len(x.kplex) + 1]
    BY <2>2 DEF KidsOf, T
  <2>4. visited' = Append(visited, x)
    BY <1>2, <1>4, <2>1, ConcatOne
  <2>5. calls' = Append(<<>>, kids)
    BY <1>2, <2>1 DEF kids
  <2>6. visited' \in Seq(T) /\ calls' \in Seq(Seq(T))
    BY <1>4, <2>1, <2>3, <2>4, <2>5
  <2>7. <<>> \in Seq(Seq(T)) /\ x.sub[1] < i' /\ Apartness(<<>>, visited, x) /\ x \in T
    BY <1>2, <1>3, <1>7, <2>1
  <2>8. Disjoint(Append(<<>>, kids), Append(visited, x), i')
    BY <1>1, <1>4, <1>7, <2>3, <2>7, VisitDisjoint DEF T
  <2>9. Recursing(system)'
    BY <1>2, <1>3, <2>4, <2>5, <2>6, <2>8 DEF Recursing, T
  <2>10. QED  BY <1>2, <2>9, RecursingKeeps
<1>10. QED  BY <1>8, <1>9

LEMMA CallChildKeeps ==
  ASSUME Inv, task.kind = "d2kplex", system # <<>>, Enumerator!CallChild,
         UNCHANGED <<task, graph, ordervars>>
  PROVE  KplexSearched'
<1> DEFINE T == KplexNodes(system)
           x == Head(calls[Len(calls)])
           R == [calls EXCEPT ![Len(calls)] = Tail(@)]
           kids == KplexChildren(system, x)
<1>1. /\ KplexSystem(system) /\ system.kind = "d2kplex" /\ Recursing(system) /\ Nodelike(T)
  BY KplexFacts
<1>2. /\ calls # <<>> /\ calls[Len(calls)] # <<>>
      /\ calls' = Append(R, kids)
      /\ visited' = visited \o <<x>>
      /\ i' = i /\ system' = system /\ nodes' = nodes
  <2>1. \A y : ListChildren(system, y) = KplexChildren(system, y)
    BY <1>1 DEF ListChildren
  <2>2. QED
    BY <2>1 DEF Enumerator!CallChild, Enumerator!ReportAll, Enumerator!Last
<1>3. /\ nodes = <<>> /\ i \in 0..size(system.g)
      /\ visited \in Seq(T) /\ calls \in Seq(Seq(T)) /\ Disjoint(calls, visited, i)
  BY <1>1 DEF Recursing
<1> HIDE DEF T, kids
<1>4. /\ R \in Seq(Seq(T)) /\ Disjoint(R, visited, i) /\ Apartness(R, visited, x)
      /\ x \in T /\ x.sub[1] < i
  BY <1>2, <1>3, TakeDisjoint
<1> HIDE DEF x, R
<1>5. KidsOf(system, x, kids)
  BY <1>1, <1>4, KplexChildrenFacts DEF T, kids
<1>6. /\ kids \in Seq(T) /\ \A m \in 1..Len(kids) : kids[m].sub = x.sub /\ Longer(x, kids[m])
      /\ \A m, n \in 1..Len(kids) :
           m # n => kids[m].kplex[Len(x.kplex) + 1] # kids[n].kplex[Len(x.kplex) + 1]
  BY <1>5 DEF KidsOf, T
<1>7. visited' = Append(visited, x)
  BY <1>2, <1>3, <1>4, ConcatOne
<1>8. visited' \in Seq(T) /\ calls' \in Seq(Seq(T))
  BY <1>2, <1>3, <1>4, <1>6, <1>7
<1>9. Disjoint(Append(R, kids), Append(visited, x), i)
  BY <1>1, <1>3, <1>4, <1>6, VisitDisjoint
<1>10. Recursing(system)'
  BY <1>2, <1>3, <1>7, <1>8, <1>9 DEF Recursing, T
<1>11. QED  BY <1>2, <1>10, RecursingKeeps

LEMMA ReturnKeeps ==
  ASSUME Inv, task.kind = "d2kplex", system # <<>>, Enumerator!Return,
         UNCHANGED <<task, graph, ordervars>>
  PROVE  KplexSearched'
<1> DEFINE T == KplexNodes(system)
<1>1. calls # <<>> /\ calls' = Front(calls) /\ UNCHANGED <<system, i, nodes, visited>>
  BY DEF Enumerator!Return, Enumerator!Front, Front
<1>2. Recursing(system)
  BY KplexFacts
<1>3. calls \in Seq(Seq(T)) /\ Disjoint(calls, visited, i)
  BY <1>2 DEF Recursing
<1> HIDE DEF T
<1>4. calls' \in Seq(Seq(T)) /\ Disjoint(calls', visited, i)
  BY <1>1, <1>3, FrontDisjoint
<1>5. Recursing(system)'
  BY <1>1, <1>2, <1>4 DEF Recursing, T
<1>6. QED  BY <1>1, <1>5, RecursingKeeps
-----------------------------------------------------------------------
\* The search for cliques does not call itself, that for k-plexes uses no stack.
LEMMA RunInternalKeeps ==
  ASSUME Inv, RunInternal
  PROVE  Inv'
<1>1. Enumerator!Step /\ UNCHANGED <<task, graph, ordervars>>
  BY DEF RunInternal
<1>2. OrderInv'
  BY <1>1, OrderStepKeeps DEF Inv
<1>3. ASSUME task.kind = "clique" PROVE Searched'
  <2>1. CASE system = <<>>
    <3>1. NotBegun
      BY <1>3, <2>1 DEF Inv, Searched
    <3>2. QED
      BY <1>1, <3>1 DEF NotBegun, Enumerator!Step, Enumerator!PushRoot, Enumerator!PopNode,
         Enumerator!CallRoot, Enumerator!CallChild, Enumerator!Return, Enumerator!Finish,
         Enumerator!NextRoot
  <2>2. CASE system # <<>>
    <3>1. ~ CanUseRecursion(system) /\ calls = <<>>
      BY <1>3, <2>2, SearchFacts DEF Control
    <3>2. ~ Enumerator!CallRoot /\ ~ Enumerator!CallChild /\ ~ Enumerator!Return
      BY <3>1 DEF Enumerator!CallRoot, Enumerator!CallChild, Enumerator!Return
    <3>3. CASE Enumerator!PushRoot
      BY <1>1, <1>3, <2>2, <3>3, PushRootKeeps
    <3>4. CASE Enumerator!PopNode
      BY <1>1, <1>3, <2>2, <3>4, PopNodeKeeps
    <3>5. CASE Enumerator!Finish
      <4>1. /\ i = size(system.g) /\ nodes = <<>> /\ calls = <<>> /\ running' = FALSE
            /\ UNCHANGED <<system, i, nodes, calls, visited, found>>
        BY <1>3, <2>2, <3>5, SearchFacts DEF Enumerator!Finish
      <4>2. /\ Ordered /\ system = [kind |-> "clique", g |-> Permute(graph, perm)]
            /\ Visiting(system.g) /\ Reported(system.g) /\ Control(system.g)
        BY <1>3, <2>2, SearchFacts
      <4>3. Visiting(system.g)' /\ Reported(system.g)' /\ Control(system.g)'
        BY <4>1, <4>2 DEF Visiting, Reported, Control, FromRoots, FromNodes
      <4>4. QED  BY <1>1, <4>1, <4>2, <4>3 DEF Searched, Ordered, ordervars
    <3>6. QED  BY <1>1, <3>2, <3>3, <3>4, <3>5 DEF Enumerator!Step
  <2>3. QED  BY <2>1, <2>2
<1>4. ASSUME task.kind = "d2kplex" PROVE KplexSearched'
  <2>1. CASE system = <<>>
    <3>1. NotBegun
      BY <1>4, <2>1 DEF Inv, KplexSearched
    <3>2. QED
      BY <1>1, <3>1 DEF NotBegun, Enumerator!Step, Enumerator!PushRoot, Enumerator!PopNode,
         Enumerator!CallRoot, Enumerator!CallChild, Enumerator!Return, Enumerator!Finish,
         Enumerator!NextRoot
  <2>2. CASE system # <<>>
    <3>1. nodes = <<>> /\ CanUseRecursion(system)
      BY <1>4, <2>2, KplexFacts
    <3>2. ~ Enumerator!PushRoot /\ ~ Enumerator!PopNode
      BY <3>1 DEF Enumerator!PushRoot, Enumerator!PopNode
    <3>3. CASE Enumerator!CallRoot
      BY <1>1, <1>4, <2>2, <3>3, CallRootKeeps
    <3>4. CASE Enumerator!CallChild
      BY <1>1, <1>4, <2>2, <3>4, CallChildKeeps
    <3>5. CASE Enumerator!Return
      BY <1>1, <1>4, <2>2, <3>5, ReturnKeeps
    <3>6. CASE Enumerator!Finish
      <4>1. UNCHANGED <<system, i, nodes, calls, visited>>
        BY <3>6 DEF Enumerator!Finish
      <4>2. QED  BY <1>1, <1>4, <2>2, <4>1, RecursingKeeps, KplexFacts DEF Recursing
    <3>7. QED  BY <1>1, <3>2, <3>3, <3>4, <3>5, <3>6 DEF Enumerator!Step
  <2>3. QED  BY <2>1, <2>2
<1>5. QED  BY <1>1, <1>2, <1>3, <1>4, InputStays DEF Inv

LEMMA StepKeeps ==
  ASSUME Inv, [Next]_vars
  PROVE  Inv'
<1>1. CASE UNCHANGED vars
  <2>1. UNCHANGED <<task, graph, ordervars, seqvars>>
    BY <1>1 DEF vars
  <2>2. OrderInv'
    BY <2>1, OrderStepKeeps DEF Inv
  <2>3. QED  BY <2>1, <2>2, InputStays, SearchedStays, KplexSearchedStays DEF Inv
<1>2. CASE Done
  <2>1. UNCHANGED <<task, graph, ordervars, seqvars>>
    BY <1>2 DEF Done, vars
  <2>2. OrderInv'
    BY <2>1, OrderStepKeeps DEF Inv
  <2>3. QED  BY <2>1, <2>2, InputStays, SearchedStays, KplexSearchedStays DEF Inv
<1>3. QED
  BY <1>1, <1>2, OrderVertexKeeps, RunKeeps, RunInternalKeeps DEF Next
-----------------------------------------------------------------------
(* The solutions *)

\* The vertices of the input file that a set of the permuted graph stands for.
Named(C) == {perm[v + 1] : v \in C}

\* In a 1-plex all vertices are joined.
LEMMA OnePlexes ==
  ASSUME task \in Tasks, NEW S, S \subseteq 0..(task.n - 1)
  PROVE  IsKplex(S, 1) <=> \A a, b \in S : a # b => Joined(a, b)
<1>1. IsFiniteSet(S)
  <2>1. task.n \in Nat
    BY TasksAssumption
  <2>2. 0 \in Int /\ task.n - 1 \in Int
    BY <2>1
  <2>3. IsFiniteSet(0..(task.n - 1))
    BY <2>2, FS_Interval
  <2>4. QED  BY <2>3, FS_Subset
<1> DEFINE Missed(a) == {b \in S : ~ Joined(a, b)}
<1>2. ASSUME NEW a \in S
      PROVE  Cardinality(Missed(a)) <= 1 <=> \A b \in S : a # b => Joined(a, b)
  <2>1. a \in Missed(a)
    BY DEF Joined
  <2>2. IsFiniteSet(Missed(a)) /\ Cardinality(Missed(a)) \in Nat
    BY <1>1, FS_Subset, FS_CardinalityType
  <2>3. Cardinality(Missed(a) \ {a}) = Cardinality(Missed(a)) - 1 /\ IsFiniteSet(Missed(a) \ {a})
    <3> HIDE DEF Missed
    <3>1. QED  BY <2>1, <2>2, FS_RemoveElement
  <2>4. Cardinality(Missed(a) \ {a}) = 0 <=> Missed(a) \ {a} = {}
    <3> HIDE DEF Missed
    <3>1. QED  BY <2>3, FS_EmptySet
  <2>5. Missed(a) \ {a} = {} <=> \A b \in S : a # b => Joined(a, b)
    OBVIOUS
  <2>6. Cardinality(Missed(a)) # 0
    <3> HIDE DEF Missed
    <3>1. QED  BY <2>1, <2>2, FS_EmptySet
  <2> HIDE DEF Missed
  <2>7. QED  BY <2>2, <2>3, <2>4, <2>5, <2>6
<1>3. IsKplex(S, 1) <=> \A a \in S : Cardinality(Missed(a)) <= 1
  BY DEF IsKplex
<1> HIDE DEF Missed
<1>4. QED  BY <1>2, <1>3

\* What the task asks for, in the words of the graph.
LEMMA SolutionsAreCliques ==
  ASSUME task \in Tasks, graph = ReadFastGraph(File(task)), task.kind = "clique"
  PROVE  /\ \A S \in Solutions : IsMaximalClique(graph, S)
         /\ \A S : IsMaximalClique(graph, S) => S \in Solutions
<1>1. /\ SimpleGraph(graph) /\ DOMAIN graph = 0..(task.n - 1)
      /\ \A a, b \in DOMAIN graph : are_neighs(graph, a, b) <=> Joined(a, b)
  BY FileFacts
<1> DEFINE F == {S \in Sets : IsKplex(S, 1)}
<1>2. ASSUME NEW S PROVE S \in F <=> S # {} /\ IsClique(graph, S)
  <2>1. S \in Sets <=> S # {} /\ S \subseteq DOMAIN graph
    <3>1. Sets = (SUBSET DOMAIN graph) \ {{}}
      BY <1>1 DEF Sets
    <3>2. QED  BY <3>1
  <2>2. ASSUME S \subseteq DOMAIN graph PROVE IsKplex(S, 1) <=> IsClique(graph, S)
    BY <1>1, <2>2, OnePlexes DEF IsClique
  <2>3. IsClique(graph, S) => S \subseteq DOMAIN graph
    BY DEF IsClique
  <2>4. QED  BY <2>1, <2>2, <2>3
<1>3. Solutions = {S \in F : \A T \in F : S \subseteq T => S = T}
  BY DEF Solutions, MaximalOf
<1> HIDE DEF F
<1>4. \A v, w \in DOMAIN graph : are_neighs(graph, v, w) <=> are_neighs(graph, w, v)
  BY <1>1, Symmetry
<1>5. ASSUME NEW S \in Solutions PROVE IsMaximalClique(graph, S)
  <2>1. S # {} /\ IsClique(graph, S) /\ \A T \in F : S \subseteq T => S = T
    BY <1>2, <1>3
  <2>2. ASSUME NEW w \in DOMAIN graph \ S, AdjacentTo(graph, w, S) PROVE FALSE
    <3>1. IsClique(graph, S \cup {w})
      BY <1>4, <2>1, <2>2 DEF IsClique, AdjacentTo
    <3>2. S \cup {w} \in F
      BY <1>2, <3>1
    <3>3. QED  BY <2>1, <2>2, <3>2
  <2>3. QED  BY <2>1, <2>2 DEF IsMaximalClique
<1>6. ASSUME NEW S, IsMaximalClique(graph, S) PROVE S \in Solutions
  <2>1. IsClique(graph, S) /\ S # {} /\ \A w \in DOMAIN graph \ S : ~ AdjacentTo(graph, w, S)
    BY <1>6 DEF IsMaximalClique
  <2>2. ASSUME NEW T \in F, S \subseteq T, S # T PROVE FALSE
    <3>1. IsClique(graph, T)
      BY <1>2
    <3>2. PICK w \in T : w \notin S
      BY <2>2
    <3>3. w \in DOMAIN graph \ S /\ AdjacentTo(graph, w, S)
      BY <2>2, <3>1, <3>2 DEF IsClique, AdjacentTo
    <3>4. QED  BY <2>1, <3>3
  <2>3. QED  BY <1>2, <1>3, <2>1, <2>2
<1>7. QED  BY <1>5, <1>6

\* The permuted graph has the cliques of the graph, renamed.
LEMMA NamedFacts ==
  ASSUME OrderInv, Ordered, NEW h, h = Permute(graph, perm)
  PROVE  /\ \A C : C \subseteq DOMAIN h =>
              (IsMaximalClique(h, C) <=> IsMaximalClique(graph, Named(C)))
         /\ \A S : S \subseteq DOMAIN graph =>
              \E C \in SUBSET DOMAIN h : Named(C) = S
         /\ \A B, C : B \subseteq DOMAIN h /\ C \subseteq DOMAIN h /\ Named(B) = Named(C)
              => B = C
<1>1. /\ DOMAIN h = DOMAIN graph
      /\ \A a, b \in DOMAIN graph :
           are_neighs(h, a, b) <=> are_neighs(graph, perm[a + 1], perm[b + 1])
  BY SearchedGraph DEF IsPermuted
<1> DEFINE V == DOMAIN graph
           name == [a \in V |-> perm[a + 1]]
<1>2. /\ \A a \in V : name[a] \in V
      /\ \A a, b \in V : name[a] = name[b] => a = b
      /\ \A v \in V : \E a \in V : name[a] = v
  <2>1. SimpleGraph(graph)
    BY DEF OrderInv, OrderTypes
  <2>2. perm \in Seq(DOMAIN graph) /\ IsInjective(perm) /\ ToSet(perm) = DOMAIN graph
    BY OrderNamesAll
  <2>3. QED  BY <2>1, <2>2, OrderFacts
<1>3. \A a, b \in V : are_neighs(h, a, b) <=> are_neighs(graph, name[a], name[b])
  BY <1>1
<1>4. ASSUME NEW C, C \subseteq V PROVE Named(C) = {name[v] : v \in C}
  BY <1>4 DEF Named
<1> HIDE DEF name, V
<1>5. ASSUME NEW C, C \subseteq V
      PROVE  /\ Named(C) \subseteq V
             /\ \A a \in V : name[a] \in Named(C) <=> a \in C
  <2>1. Named(C) = {name[v] : v \in C}
    BY <1>4, <1>5
  <2>2. QED  BY <1>2, <1>5, <2>1
<1>6. ASSUME NEW C, C \subseteq V
      PROVE  IsMaximalClique(h, C) <=> IsMaximalClique(graph, Named(C))
  <2>1. Named(C) = {name[v] : v \in C} /\ Named(C) \subseteq V
    BY <1>4, <1>5, <1>6
  <2>2. Named(C) = {} <=> C = {}
    BY <2>1
  <2>3. IsClique(h, C) <=> IsClique(graph, Named(C))
    <3>1. ASSUME IsClique(h, C), NEW x \in Named(C), NEW y \in Named(C), x # y
          PROVE  are_neighs(graph, x, y)
      <4>1. PICK a \in C, b \in C : x = name[a] /\ y = name[b]
        BY <2>1
      <4>2. a # b /\ a \in V /\ b \in V
        BY <1>6, <3>1, <4>1
      <4>3. QED  BY <1>3, <3>1, <4>1, <4>2 DEF IsClique
    <3>2. ASSUME IsClique(graph, Named(C)), NEW a \in C, NEW b \in C, a # b
          PROVE  are_neighs(h, a, b)
      <4>1. name[a] \in Named(C) /\ name[b] \in Named(C) /\ a \in V /\ b \in V
        BY <1>6, <2>1
      <4>2. name[a] # name[b]
        BY <1>2, <3>2, <4>1
      <4>3. QED  BY <1>3, <3>2, <4>1, <4>2 DEF IsClique
    <3>3. QED  BY <1>1, <1>6, <2>1, <3>1, <3>2 DEF IsClique, V
  <2>4. ASSUME NEW w \in V PROVE AdjacentTo(h, w, C) <=> AdjacentTo(graph, name[w], Named(C))
    BY <1>3, <1>6, <2>1 DEF AdjacentTo
  <2>5. (\E w \in V \ C : AdjacentTo(h, w, C))
          <=> \E v \in V \ Named(C) : AdjacentTo(graph, v, Named(C))
    <3>1. ASSUME NEW w \in V \ C, AdjacentTo(h, w, C)
          PROVE  \E v \in V \ Named(C) : AdjacentTo(graph, v, Named(C))
      <4>1. name[w] \in V \ Named(C)
        BY <1>2, <1>5, <1>6
      <4>2. QED  BY <2>4, <3>1, <4>1
    <3>2. ASSUME NEW v \in V \ Named(C), AdjacentTo(graph, v, Named(C))
          PROVE  \E w \in V \ C : AdjacentTo(h, w, C)
      <4>1. PICK w \in V : name[w] = v
        BY <1>2
      <4>2. w \notin C
        BY <1>5, <1>6, <3>2, <4>1
      <4>3. QED  BY <2>4, <3>2, <4>1, <4>2
    <3>3. QED  BY <3>1, <3>2
  <2>6. QED  BY <1>1, <2>2, <2>3, <2>5 DEF IsMaximalClique, V
<1>7. ASSUME NEW S, S \subseteq V PROVE \E C \in SUBSET V : Named(C) = S
  <2> DEFINE C == {a \in V : name[a] \in S}
  <2>1. C \subseteq V
    OBVIOUS
  <2>2. Named(C) = {name[v] : v \in C}
    BY <1>4, <2>1
  <2>3. Named(C) = S
    BY <1>2, <1>7, <2>2
  <2>4. QED  BY <2>1, <2>3
<1>8. ASSUME NEW B, NEW C, B \subseteq V, C \subseteq V, Named(B) = Named(C)
      PROVE  B = C
  <2>1. \A a \in V : a \in B <=> a \in C
    BY <1>5, <1>8
  <2>2. QED  BY <1>8, <2>1
<1>9. DOMAIN h = V /\ DOMAIN graph = V
  BY <1>1 DEF V
<1>10. QED  BY <1>6, <1>7, <1>8, <1>9
-----------------------------------------------------------------------
(* What the invariant implies *)

LEMMA NoNodeTwice ==
  ASSUME Inv, task.kind = "clique"
  PROVE  NodesFormForest
<1>1. CASE system = <<>>
  <2>1. visited = <<>>
    BY <1>1 DEF Inv, Searched, NotBegun
  <2>2. visited \in Seq({}) /\ IsInjective(visited)
    BY <2>1 DEF IsInjective
  <2>3. QED  BY <2>2, CountOnce DEF NodesFormForest
<1>2. CASE system # <<>>
  <2>1. visited \in Seq(CliqueNode(system.g)) /\ IsInjective(visited)
    BY <1>2, SearchFacts DEF Visiting
  <2>2. QED  BY <2>1, CountOnce DEF NodesFormForest
<1>3. QED  BY <1>1, <1>2

LEMMA EachOnce ==
  ASSUME Inv, task.kind = "clique"
  PROVE  EachSolutionOnce
<1> SUFFICES ASSUME Finished
             PROVE  /\ {Input(found[m]) : m \in DOMAIN found} = Solutions
                    /\ Len(found) = Cardinality(Solutions)
  BY DEF EachSolutionOnce
<1>1. system # <<>> /\ ~ running
  BY DEF Finished
<1>2. PICK g : g = system.g
  OBVIOUS
<1>3. /\ SimpleGraph(g) /\ Ordered /\ g = Permute(graph, perm)
      /\ Visiting(g) /\ Reported(g) /\ Control(g) /\ OrderInv
      /\ DOMAIN g = 0..(size(g) - 1)
  BY <1>1, <1>2, SearchFacts DEF Inv
<1>4. ToSet(visited) = CliqueNode(g)
  <2>1. nodes = <<>> /\ i = size(g)
    BY <1>1, <1>3 DEF Control
  <2>2. ToSet(nodes) = {}
    BY <2>1 DEF ToSet
  <2>3. /\ ToSet(visited) = FromRoots(g, size(g)) \cup FromNodes(g, ToSet(visited) \ ToSet(nodes))
        /\ visited \in Seq(CliqueNode(g))
    BY <1>3, <2>1 DEF Visiting
  <2>4. ToSet(visited) \ ToSet(nodes) = ToSet(visited)
    BY <2>2
  <2>5. \A r \in DOMAIN g : KidsOfRoot(g, r) \subseteq ToSet(visited)
    BY <1>3, <2>3 DEF FromRoots
  <2>6. \A x \in ToSet(visited) \cap CliqueNode(g) : KidsOfNode(g, x) \subseteq ToSet(visited)
    BY <2>3, <2>4 DEF FromNodes
  <2>7. CliqueNode(g) \subseteq ToSet(visited)
    BY <1>3, <2>5, <2>6, AllReached
  <2>8. ToSet(visited) \subseteq CliqueNode(g)
    BY <2>3, SeqFacts
  <2>9. QED  BY <2>7, <2>8
<1> DEFINE n == Len(found)
           F == [m \in 1..n |-> Input(found[m])]
<1>5. /\ n \in Nat /\ DOMAIN found = 1..n /\ n = Len(visited)
      /\ \A m \in 1..n : found[m] = visited[m].clique
      /\ \A m \in 1..n : visited[m] \in CliqueNode(g)
      /\ \A x \in CliqueNode(g) : \E m \in 1..n : visited[m] = x
      /\ \A m, q \in 1..n : visited[m] = visited[q] => m = q
  <2>1. /\ found \in Seq(Seq(DOMAIN g)) /\ n = Len(visited)
        /\ \A m \in 1..n : found[m] = visited[m].clique
    BY <1>3 DEF Reported
  <2>2. visited \in Seq(CliqueNode(g)) /\ IsInjective(visited)
    BY <1>3 DEF Visiting
  <2>3. DOMAIN visited = 1..n
    BY <2>1, <2>2
  <2>4. n \in Nat /\ DOMAIN found = 1..n
    BY <2>1
  <2>5. \A m \in 1..n : visited[m] \in CliqueNode(g)
    BY <2>2, <2>3
  <2>6. \A x \in CliqueNode(g) : \E m \in 1..n : visited[m] = x
    BY <1>4, <2>3 DEF ToSet
  <2>7. \A m, q \in 1..n : visited[m] = visited[q] => m = q
    BY <2>2, <2>3 DEF IsInjective
  <2>8. QED  BY <2>1, <2>4, <2>5, <2>6, <2>7
<1>6. \A m \in 1..n : F[m] = Named(ToSet(visited[m].clique))
  BY <1>5 DEF Input, Named
<1> HIDE DEF F, n
<1>7. \A x \in CliqueNode(g) :
        IsMaximalClique(g, ToSet(x.clique)) /\ ToSet(x.clique) \subseteq DOMAIN g
  BY <1>3, NodeFacts
<1>8. /\ \A S \in Solutions : IsMaximalClique(graph, S)
      /\ \A S : IsMaximalClique(graph, S) => S \in Solutions
  BY SolutionsAreCliques DEF Inv
<1>9. /\ \A C : C \subseteq DOMAIN g =>
           (IsMaximalClique(g, C) <=> IsMaximalClique(graph, Named(C)))
      /\ \A S : S \subseteq DOMAIN graph => \E C \in SUBSET DOMAIN g : Named(C) = S
      /\ \A B, C : B \subseteq DOMAIN g /\ C \subseteq DOMAIN g /\ Named(B) = Named(C)
           => B = C
  BY <1>3, NamedFacts
<1>10. ASSUME NEW m \in 1..n PROVE F[m] \in Solutions
  BY <1>5, <1>6, <1>7, <1>8, <1>9
<1>11. ASSUME NEW S \in Solutions PROVE \E m \in 1..n : F[m] = S
  <2>1. IsMaximalClique(graph, S) /\ S \subseteq DOMAIN graph
    BY <1>8 DEF IsMaximalClique, IsClique
  <2>2. PICK C \in SUBSET DOMAIN g : Named(C) = S
    BY <1>9, <2>1
  <2>3. IsMaximalClique(g, C)
    BY <1>9, <2>1, <2>2
  <2>4. PICK x \in CliqueNode(g) : ToSet(x.clique) = C
    BY <1>3, <2>3, NodeExists
  <2>5. PICK m \in 1..n : visited[m] = x
    BY <1>5
  <2>6. QED  BY <1>6, <2>2, <2>4, <2>5
<1>12. ASSUME NEW m \in 1..n, NEW q \in 1..n, F[m] = F[q] PROVE m = q
  <2>1. visited[m] \in CliqueNode(g) /\ visited[q] \in CliqueNode(g)
    BY <1>5
  <2>2. Named(ToSet(visited[m].clique)) = Named(ToSet(visited[q].clique))
    BY <1>6, <1>12
  <2>3. ToSet(visited[m].clique) = ToSet(visited[q].clique)
    BY <1>7, <1>9, <2>1, <2>2
  <2>4. visited[m] = visited[q]
    BY <1>3, <2>1, <2>3, NodeUnique
  <2>5. QED  BY <1>5, <2>4
<1>13. DOMAIN F = 1..n
  BY DEF F
<1>14. {Input(found[m]) : m \in DOMAIN found} = Solutions
  <2>1. \A m \in 1..n : Input(found[m]) = F[m]
    BY DEF F
  <2>2. QED  BY <1>5, <1>10, <1>11, <2>1
<1>15. n = Cardinality(Solutions)
  <2>1. F \in [1..n -> Solutions]
    BY <1>10 DEF F
  <2>2. F \in Bijection(1..n, Solutions)
    BY <1>11, <1>12, <1>13, <2>1 DEF Bijection, Injection, Surjection, IsInjective
  <2>3. IsFiniteSet(1..n) /\ Cardinality(1..n) = n
    <3>1. n \in Nat
      BY <1>5
    <3>2. 1 \in Int /\ n \in Int
      BY <3>1
    <3>3. QED  BY <3>1, <3>2, FS_Interval
  <2>4. QED  BY <2>2, <2>3, FS_Bijection DEF ExistsBijection
<1>16. QED  BY <1>14, <1>15 DEF n
LEMMA KplexNoNodeTwice ==
  ASSUME Inv, task.kind = "d2kplex"
  PROVE  NodesFormForest
<1>1. CASE system = <<>>
  <2>1. visited = <<>>
    BY <1>1 DEF Inv, KplexSearched, NotBegun
  <2>2. visited \in Seq({}) /\ IsInjective(visited)
    BY <2>1 DEF IsInjective
  <2>3. QED  BY <2>2, CountOnce DEF NodesFormForest
<1>2. CASE system # <<>>
  <2>1. Recursing(system)
    BY <1>2, KplexFacts
  <2>2. visited \in Seq(KplexNodes(system)) /\ IsInjective(visited)
    BY <2>1 DEF Recursing, Disjoint
  <2>3. QED  BY <2>2, CountOnce DEF NodesFormForest
<1>3. QED  BY <1>1, <1>2

Renamed(name, S) == {name[c] : c \in S}

\* Vertices of a subgraph, under other names, are a k-plex if they were one.
LEMMA PlexNamed ==
  ASSUME NEW s, NEW sub, NEW name, NEW S, S \subseteq DOMAIN sub, IsFiniteSet(S),
         \A a, b \in DOMAIN sub : name[a] = name[b] => a = b,
         \A a, b \in DOMAIN sub : Joined(name[a], name[b]) <=> ~ Apart(s, sub, a, b)
  PROVE  IsKplex(Renamed(name, S), s.k) <=> IsPlex(s, sub, S)
<1> DEFINE Image == {name[c] : c \in S}
           Missed(x) == {b \in Image : ~ Joined(x, b)}
<1>1. ASSUME NEW a \in S PROVE Cardinality(Missed(name[a])) = Cardinality(Away(s, sub, S, a))
  <2> DEFINE A == Away(s, sub, S, a)
             M == Missed(name[a])
             f == [b \in A |-> name[b]]
  <2>1. A \subseteq S /\ \A b \in S : b \in A <=> ~ Joined(name[a], name[b])
    BY DEF Away
  <2>2. \A b \in A : name[b] \in M
    BY <2>1
  <2>3. \A x \in M : \E b \in A : name[b] = x
    BY <2>1
  <2>4. IsFiniteSet(A)
    BY <2>1, FS_Subset
  <2> HIDE DEF A, M
  <2>5. f \in Bijection(A, M)
    <3>1. f \in [A -> M]
      BY <2>2
    <3>2. \A b, c \in A : f[b] = f[c] => b = c
      BY <2>1
    <3>3. \A x \in M : \E b \in A : f[b] = x
      BY <2>3
    <3>4. QED  BY <3>1, <3>2, <3>3 DEF Bijection, Injection, Surjection, IsInjective
  <2>6. Cardinality(M) = Cardinality(A)
    BY <2>4, <2>5, FS_Bijection DEF ExistsBijection
  <2>7. QED  BY <2>6 DEF A, M
<1>2. IsKplex(Image, s.k) <=> \A a \in S : Cardinality(Missed(name[a])) <= s.k
  <2>1. IsKplex(Image, s.k) <=> \A x \in Image : Cardinality(Missed(x)) <= s.k
    BY DEF IsKplex
  <2> HIDE DEF Missed
  <2>2. QED  BY <2>1
<1> HIDE DEF Missed
<1>3. IsKplex(Image, s.k) <=> IsPlex(s, sub, S)
  BY <1>1, <1>2 DEF IsPlex
<1>4. QED  BY <1>3 DEF Renamed

\* A subgraph has no more vertices than the graph.
LEMMA SubSize ==
  ASSUME Inv, task.kind = "d2kplex", system # <<>>, NEW x \in KplexNodes(system)
  PROVE  Len(x.sub) <= task.n /\ Len(x.sub) \in Nat /\ task.n \in Nat
<1>1. KplexSystem(system) /\ system.g = Permute(graph, perm) /\ Ordered
  BY KplexFacts
<1>2. task \in Tasks /\ OrderInv /\ graph = ReadFastGraph(File(task)) /\ task.n \in Nat
  BY TasksAssumption DEF Inv
<1>3. DOMAIN system.g = 0..(task.n - 1)
  <2>1. DOMAIN graph = 0..(task.n - 1)
    BY <1>2, FileFacts
  <2>2. DOMAIN system.g = DOMAIN graph
    BY <1>1, <1>2, SearchedGraph DEF IsPermuted
  <2>3. QED  BY <2>1, <2>2
<1>4. x.sub \in Seq(DOMAIN system.g) /\ IsInjective(x.sub)
  BY DEF KplexNodes, KplexTypes
<1>5. IsFiniteSet(DOMAIN system.g) /\ Cardinality(DOMAIN system.g) = task.n
  <2>1. 0 \in Int /\ task.n - 1 \in Int
    BY <1>2
  <2>2. IsFiniteSet(0..(task.n - 1)) /\
        Cardinality(0..(task.n - 1)) = IF 0 > task.n - 1 THEN 0 ELSE task.n - 1 - 0 + 1
    BY <2>1, FS_Interval
  <2>3. QED  BY <1>2, <1>3, <2>2
<1>6. Cardinality(ToSet(x.sub)) = Len(x.sub)
  BY <1>4, CountOnce
<1>7. ToSet(x.sub) \subseteq DOMAIN system.g /\ Len(x.sub) \in Nat
  BY <1>4, SeqFacts
<1>8. Cardinality(ToSet(x.sub)) <= task.n
  BY <1>5, <1>7, FS_Subset
<1>9. QED  BY <1>2, <1>6, <1>7, <1>8

\* The node visited last.
LEMMA LastNodeFacts ==
  ASSUME Inv, task.kind = "d2kplex", visited # <<>>, NEW x, x = Last(visited)
  PROVE  /\ system # <<>> /\ KplexSystem(system) /\ x \in KplexNodes(system)
         /\ Len(x.sub) <= task.n
<1>1. system # <<>>
  BY DEF Inv, KplexSearched, NotBegun
<1>2. KplexSystem(system) /\ Recursing(system) /\ system.g = Permute(graph, perm) /\ Ordered
  BY <1>1, KplexFacts
<1>3. visited \in Seq(KplexNodes(system))
  BY <1>2 DEF Recursing
<1>4. x \in KplexNodes(system)
  <2> DEFINE T == KplexNodes(system)
  <2>1. visited \in Seq(T)
    BY <1>3
  <2> HIDE DEF T
  <2>2. Len(visited) \in Nat \ {0}
    BY <2>1, EmptySeq
  <2>3. Len(visited) \in 1..Len(visited)
    BY <2>2
  <2>4. visited[Len(visited)] \in T
    BY <2>1, <2>3
  <2>5. QED  BY <2>4 DEF Last, T
<1>5. Len(x.sub) <= task.n
  BY <1>1, <1>4, SubSize
<1>6. QED  BY <1>1, <1>2, <1>4, <1>5

\* The vertices of the subgraph of a node, as the file numbers them.
LEMMA SubNames ==
  ASSUME Inv, task.kind = "d2kplex", system # <<>>, NEW sub \in Seq(DOMAIN system.g),
         IsInjective(sub), NEW name, name = [e \in DOMAIN sub |-> perm[sub[e] + 1]]
  PROVE  /\ \A a, b \in DOMAIN sub : name[a] = name[b] => a = b
         /\ \A a, b \in DOMAIN sub : Joined(name[a], name[b]) <=> ~ Apart(system, sub, a, b)
<1>1. Ordered /\ system.g = Permute(graph, perm) /\ OrderInv /\ task \in Tasks
      /\ graph = ReadFastGraph(File(task))
  BY KplexFacts DEF Inv
<1>2. /\ DOMAIN system.g = DOMAIN graph
      /\ \A a, b \in DOMAIN graph :
           are_neighs(system.g, a, b) <=> are_neighs(graph, perm[a + 1], perm[b + 1])
  BY <1>1, SearchedGraph DEF IsPermuted
<1> DEFINE V == DOMAIN graph
<1>3. /\ \A a \in V : perm[a + 1] \in V
      /\ \A a, b \in V : perm[a + 1] = perm[b + 1] => a = b
  <2>1. SimpleGraph(graph)
    BY <1>1 DEF OrderInv, OrderTypes
  <2>2. perm \in Seq(DOMAIN graph) /\ IsInjective(perm) /\ ToSet(perm) = DOMAIN graph
    BY <1>1, OrderNamesAll
  <2>3. QED  BY <2>1, <2>2, OrderFacts
<1>4. \A a, b \in V : are_neighs(graph, a, b) <=> Joined(a, b)
  BY <1>1, FileFacts
<1>5. \A e \in DOMAIN sub : sub[e] \in V /\ name[e] = perm[sub[e] + 1]
  BY <1>2
<1> HIDE DEF V
<1>6. \A a, b \in DOMAIN sub : name[a] = name[b] => a = b
  BY <1>3, <1>5 DEF IsInjective
<1>7. ASSUME NEW a \in DOMAIN sub, NEW b \in DOMAIN sub
      PROVE  Joined(name[a], name[b]) <=> ~ Apart(system, sub, a, b)
  <2>1. are_neighs(system.g, sub[a], sub[b]) <=> are_neighs(graph, perm[sub[a] + 1], perm[sub[b] + 1])
    BY <1>2, <1>5, <1>7 DEF V
  <2>2. name[a] \in V /\ name[b] \in V
    BY <1>3, <1>5, <1>7
  <2>3. are_neighs(graph, name[a], name[b]) <=> Joined(name[a], name[b])
    BY <1>4, <2>2
  <2>4. QED  BY <1>5, <1>7, <2>1, <2>3 DEF Apart
<1>8. QED  BY <1>6, <1>7

LEMMA LastNodeSound ==
  ASSUME Inv, task.n < 256
  PROVE  KplexNodeSound
<1> SUFFICES ASSUME task.kind = "d2kplex", visited # <<>>
             PROVE  KplexNodeSound
  BY DEF KplexNodeSound
<1> DEFINE x == Last(visited)
           kplex == ToSet(x.kplex)
           name == [e \in DOMAIN x.sub |-> perm[x.sub[e] + 1]]
           Missed(e) == {c \in kplex : ~ Joined(perm[x.sub[e] + 1], perm[x.sub[c] + 1])}
<1>1. /\ system # <<>> /\ KplexSystem(system) /\ x \in KplexNodes(system)
      /\ Len(x.sub) <= task.n
  BY LastNodeFacts
<1>2. x \in KplexTypes(system) /\ Len(x.sub) = RootSize(system.g, x.sub[1], system.k, system.q)
      /\ x.sub \in Seq(DOMAIN system.g) /\ IsInjective(x.sub)
      /\ kplex \subseteq DOMAIN x.sub /\ x.kplex \in Seq(Nat)
  BY <1>1 DEF KplexNodes, KplexTypes
<1>3. KplexSound(system, x)
  <2>1. task.n \in Nat
    BY TasksAssumption DEF Inv
  <2>2. Len(x.sub) \in Nat
    <3>1. x.sub \in Seq(DOMAIN system.g)
      BY <1>2
    <3>2. QED  BY <3>1
  <2> DEFINE l == Len(x.sub)
             n == task.n
  <2>3. l \in Nat /\ n \in Nat /\ l <= n /\ n < 256
    BY <1>1, <2>1, <2>2
  <2> HIDE DEF l, n
  <2>4. l < 256
    BY <2>3
  <2>5. QED  BY <1>1, <2>4 DEF KplexNodes, l
<1>4. system.k = task.k /\ system.q = task.q
  BY <1>1, KplexFacts
<1> HIDE DEF x
<1>5. /\ \A a, b \in DOMAIN x.sub : name[a] = name[b] => a = b
      /\ \A a, b \in DOMAIN x.sub : Joined(name[a], name[b]) <=> ~ Apart(system, x.sub, a, b)
  <2> DEFINE sub == x.sub
             nm == [e \in DOMAIN sub |-> perm[sub[e] + 1]]
  <2>1. /\ Inv /\ task.kind = "d2kplex" /\ system # <<>>
        /\ sub \in Seq(DOMAIN system.g) /\ IsInjective(sub)
    BY <1>1, <1>2
  <2> HIDE DEF sub
  <2>2. nm = [e \in DOMAIN sub |-> perm[sub[e] + 1]]
    OBVIOUS
  <2> HIDE DEF nm
  <2>3. /\ \A a, b \in DOMAIN sub : nm[a] = nm[b] => a = b
        /\ \A a, b \in DOMAIN sub : Joined(nm[a], nm[b]) <=> ~ Apart(system, sub, a, b)
    BY <2>1, <2>2, SubNames
  <2>4. nm = name
    BY DEF nm, sub
  <2>5. QED  BY <2>3, <2>4 DEF sub
<1>6. \A e \in DOMAIN x.sub : name[e] = perm[x.sub[e] + 1]
  OBVIOUS
<1>7. ASSUME NEW e \in DOMAIN x.sub PROVE Missed(e) = Away(system, x.sub, kplex, e)
  BY <1>2, <1>5, <1>6, <1>7 DEF Away
<1> HIDE DEF name, Missed
<1>8. ASSUME NEW e \in DOMAIN x.sub
      PROVE  /\ x.counters[e] = Cardinality(Missed(e))
             /\ x.counters[e] <= task.k =>
                  {x.non_neighs[e][m] : m \in 1..x.counters[e]} = Missed(e)
  <2>1. /\ x.counters[e] = Cardinality(Away(system, x.sub, kplex, e))
        /\ x.counters[e] <= system.k =>
             Names(x.non_neighs[e], x.counters[e]) = Away(system, x.sub, kplex, e)
    BY <1>3 DEF KplexSound, Counted
  <2>2. Missed(e) = Away(system, x.sub, kplex, e)
    BY <1>7
  <2>3. QED  BY <1>4, <2>1, <2>2 DEF Names
<1>9. ASSUME NEW e \in DOMAIN x.sub \ kplex
      PROVE  IsPlex(system, x.sub, kplex \cup {e}) <=>
               IsKplex({perm[x.sub[c] + 1] : c \in kplex \cup {e}}, task.k)
  <2> DEFINE S == kplex \cup {e}
  <2>1. S \subseteq DOMAIN x.sub
    BY <1>2
  <2>2. IsFiniteSet(S)
    <3>1. IsFiniteSet(DOMAIN x.sub)
      <4>1. DOMAIN x.sub = 1..Len(x.sub) /\ Len(x.sub) \in Nat
        BY <1>2
      <4>2. 1 \in Int /\ Len(x.sub) \in Int
        BY <4>1
      <4>3. QED  BY <4>1, <4>2, FS_Interval
    <3>2. QED  BY <2>1, <3>1, FS_Subset
  <2>3. Renamed(name, S) = {perm[x.sub[c] + 1] : c \in S}
    BY <1>6, <2>1 DEF Renamed
  <2> HIDE DEF S
  <2>4. IsKplex(Renamed(name, S), system.k) <=> IsPlex(system, x.sub, S)
    BY <1>5, <2>1, <2>2, PlexNamed
  <2>5. IsKplex({perm[x.sub[c] + 1] : c \in S}, task.k) <=> IsPlex(system, x.sub, S)
    BY <1>4, <2>3, <2>4
  <2>6. QED  BY <2>5 DEF S
<1>10. /\ ToSet(x.cands) \cap ToSet(x.excluded) = {}
       /\ ToSet(x.cands) \cup ToSet(x.excluded) = CanJoin(system, x.sub, kplex)
  BY <1>3 DEF KplexSound
<1>11. CanJoin(system, x.sub, kplex) =
         {e \in DOMAIN x.sub \ kplex :
            IsKplex({perm[x.sub[c] + 1] : c \in kplex \cup {e}}, task.k)}
  BY <1>9 DEF CanJoin
<1>12. Len(x.sub) = RootSize(system.g, x.sub[1], task.k, task.q)
  BY <1>2, <1>4
<1>13. QED  BY <1>8, <1>10, <1>11, <1>12 DEF KplexNodeSound, x, Missed
-----------------------------------------------------------------------
(* What the search for k-plexes has found, and what it has still to find *)

\* The nodes that the calls C are still to call back with.
Pending(C) == UNION {ToSet(C[a]) : a \in 1..Len(C)}

\* F holds the k-plexes of the nodes of V that IsSolution accepts, each once.
Gathered(s, V, F) ==
  /\ F \in Seq(Seq(DOMAIN s.g))
  /\ \A m \in 1..Len(F) : \E v \in V : IsReallyMaximal(s, v) /\ ToSet(F[m]) = Low(v)
  /\ \A v \in V : IsReallyMaximal(s, v) => \E m \in 1..Len(F) : ToSet(F[m]) = Low(v)
  /\ \A m, n \in 1..Len(F) : ToSet(F[m]) = ToSet(F[n]) => m = n

LEMMA ItemFacts ==
  ASSUME NEW s, KplexSystem(s), NEW x, Rooted(s, x)
  PROVE  ToItem(x) \in Seq(DOMAIN s.g) /\ ToSet(ToItem(x)) = Low(x)
<1> DEFINE p == x.kplex
           V == DOMAIN s.g
           item == ToItem(x)
<1>1. p \in Seq(Nat) /\ x.sub \in Seq(V) /\ ToSet(p) \subseteq DOMAIN x.sub
  BY DEF Rooted, Placed, KplexSound, KplexTypes
<1>2. Len(p) \in Nat /\ DOMAIN p = 1..Len(p) /\ \A m \in 1..Len(p) : p[m] \in DOMAIN x.sub
  BY <1>1 DEF ToSet
<1>3. item = [m \in 1..Len(p) |-> x.sub[p[m]]]
  BY <1>2 DEF ToItem
<1>4. \A m \in 1..Len(p) : x.sub[p[m]] \in V
  BY <1>1, <1>2
<1> HIDE DEF V
<1>5. item \in Seq(V)
  BY <1>2, <1>3, <1>4
<1>6. ToSet(item) = {x.sub[p[m]] : m \in 1..Len(p)}
  BY <1>3 DEF ToSet
<1>7. Low(x) = {x.sub[p[m]] : m \in 1..Len(p)}
  BY <1>2 DEF Low, VerticesAt, ToSet
<1>8. QED  BY <1>5, <1>6, <1>7 DEF V

\* What ReportSolution adds to what was found.
Reporting(s, x, F) == IF IsReallyMaximal(s, x) THEN Append(F, ToItem(x)) ELSE F

LEMMA GatherOne ==
  ASSUME NEW s, KplexSystem(s), NEW V, NEW F, Gathered(s, V, F), NEW x, Rooted(s, x),
         \A v \in V : Low(v) # Low(x), NEW H, H = Reporting(s, x, F)
  PROVE  Gathered(s, V \cup {x}, H)
<1> DEFINE T == Seq(DOMAIN s.g)
           item == ToItem(x)
           n == Len(F)
<1>1. item \in T /\ ToSet(item) = Low(x)
  BY ItemFacts
<1>2. /\ F \in Seq(T)
      /\ \A m \in 1..n : \E v \in V : IsReallyMaximal(s, v) /\ ToSet(F[m]) = Low(v)
      /\ \A v \in V : IsReallyMaximal(s, v) => \E m \in 1..n : ToSet(F[m]) = Low(v)
      /\ \A m, k \in 1..n : ToSet(F[m]) = ToSet(F[k]) => m = k
  BY DEF Gathered
<1>3. CASE ~ IsReallyMaximal(s, x)
  <2>1. H = F
    BY <1>3 DEF Reporting
  <2>2. QED  BY <1>2, <1>3, <2>1 DEF Gathered
<1>4. CASE IsReallyMaximal(s, x)
  <2>1. H = Append(F, item)
    BY <1>4 DEF Reporting
  <2> HIDE DEF item, T
  <2>2. /\ H \in Seq(T) /\ Len(H) = n + 1 /\ n \in Nat
        /\ \A m \in 1..n : H[m] = F[m] /\ m # n + 1
        /\ H[n + 1] = item
    BY <1>1, <1>2, <2>1
  <2> HIDE DEF n
  <2>3. n + 1 \in 1..(n + 1) /\ \A m \in 1..(n + 1) : m \in 1..n \/ m = n + 1
    BY <2>2
  <2>4. \A m \in 1..n : m \in 1..(n + 1)
    BY <2>2
  <2>5. \A m \in 1..n : ToSet(F[m]) # ToSet(item)
    BY <1>1, <1>2
  <2>6. \A m \in 1..(n + 1) : \E v \in V \cup {x} : IsReallyMaximal(s, v) /\ ToSet(H[m]) = Low(v)
    BY <1>1, <1>2, <1>4, <2>2, <2>3
  <2>7. \A v \in V \cup {x} : IsReallyMaximal(s, v) => \E m \in 1..(n + 1) : ToSet(H[m]) = Low(v)
    BY <1>1, <1>2, <2>2, <2>3, <2>4
  <2>8. ASSUME NEW m \in 1..(n + 1), NEW k \in 1..(n + 1), ToSet(H[m]) = ToSet(H[k])
        PROVE  m = k
    BY <1>2, <2>2, <2>3, <2>5, <2>8
  <2>9. QED  BY <2>2, <2>6, <2>7, <2>8 DEF Gathered, T
<1>5. QED  BY <1>3, <1>4

\* ReportAll for one node and for none.
LEMMA ReportOne ==
  ASSUME system.kind = "d2kplex", NEW x, Enumerator!ReportAll(<<x>>)
  PROVE  found' = Reporting(system, x, found)
<1> DEFINE Loop(f) == f = [m \in 0..Len(<<x>>) |->
                             IF m = 0 THEN found
                             ELSE IF IsSolution(system, <<x>>[m])
                             THEN Append(f[m - 1], NodeToItem(system, <<x>>[m]))
                             ELSE f[m - 1]]
           F == CHOOSE f : Loop(f)
           h == [m \in 0..1 |-> IF m = 0 THEN found ELSE Reporting(system, x, found)]
<1>1. (IsSolution(system, x) <=> IsReallyMaximal(system, x)) /\ NodeToItem(system, x) = ToItem(x)
  BY DEF IsSolution, NodeToItem
<1>2. Len(<<x>>) = 1 /\ <<x>>[1] = x /\ 0..1 = {0, 1} /\ h[0] = found
      /\ h[1] = Reporting(system, x, found) /\ 1 - 1 = 0
  OBVIOUS
<1>3. Loop(h)
  BY <1>1, <1>2 DEF Reporting
<1>4. Loop(F)
  BY <1>3
<1>5. found' = F[1]
  BY <1>2 DEF Enumerator!ReportAll
<1> HIDE DEF F
<1>6. F[0] = found
  BY <1>2, <1>4
<1>7. F[1] = Reporting(system, x, found)
  BY <1>1, <1>2, <1>4, <1>6 DEF Reporting
<1>8. QED  BY <1>5, <1>7

LEMMA ReportNone ==
  ASSUME Enumerator!ReportAll(<<>>)
  PROVE  found' = found
<1> DEFINE Loop(f) == f = [m \in 0..Len(<<>>) |->
                             IF m = 0 THEN found
                             ELSE IF IsSolution(system, <<>>[m])
                             THEN Append(f[m - 1], NodeToItem(system, <<>>[m]))
                             ELSE f[m - 1]]
           F == CHOOSE f : Loop(f)
           h == [m \in 0..0 |-> found]
<1>1. Len(<<>>) = 0 /\ 0..0 = {0} /\ h[0] = found
  OBVIOUS
<1>2. Loop(h)
  BY <1>1
<1>3. Loop(F)
  BY <1>2
<1>4. found' = F[0]
  BY <1>1 DEF Enumerator!ReportAll
<1> HIDE DEF F
<1>5. F[0] = found
  BY <1>1, <1>3
<1>6. QED  BY <1>4, <1>5

LEMMA PendingIn ==
  ASSUME NEW T, NEW C \in Seq(Seq(T))
  PROVE  \A y : y \in Pending(C) <=> \E a \in 1..Len(C) : y \in ToSet(C[a])
BY DEF Pending

\* What a call that begins, calls back or returns leaves pending.
LEMMA PendingMore ==
  ASSUME NEW T, NEW C \in Seq(Seq(T)), NEW kids \in Seq(T)
  PROVE  Pending(Append(C, kids)) = Pending(C) \cup ToSet(kids)
<1> DEFINE L == Len(C)
           D == Append(C, kids)
<1>1. /\ L \in Nat /\ Len(D) = L + 1 /\ D[L + 1] = kids /\ \A a \in 1..L : D[a] = C[a]
      /\ D \in Seq(Seq(T))
  OBVIOUS
<1>2. /\ \A y : y \in Pending(C) <=> \E a \in 1..L : y \in ToSet(C[a])
      /\ \A y : y \in Pending(D) <=> \E a \in 1..(L + 1) : y \in ToSet(D[a])
  <2> HIDE DEF D
  <2>1. QED  BY <1>1, PendingIn
<1> HIDE DEF D, L
<1>3. L + 1 \in 1..(L + 1) /\ (\A a \in 1..L : a \in 1..(L + 1))
      /\ \A a \in 1..(L + 1) : a = L + 1 \/ a \in 1..L
  BY <1>1
<1>4. \A y : y \in Pending(D) <=> y \in Pending(C) \cup ToSet(kids)
  BY <1>1, <1>2, <1>3
<1>5. QED  BY <1>4 DEF D

LEMMA HeadAndTail ==
  ASSUME NEW T, NEW p \in Seq(T), p # <<>>
  PROVE  Tail(p) \in Seq(T) /\ ToSet(p) = ToSet(Tail(p)) \cup {Head(p)}
<1> DEFINE n == Len(p)
           q == Tail(p)
<1>1. /\ n \in Nat \ {0} /\ q \in Seq(T) /\ Len(q) = n - 1
      /\ Head(p) = p[1] /\ \A m \in 1..Len(q) : q[m] = p[m + 1]
  BY EmptySeq, HeadTailProperties
<1>2. DOMAIN p = 1..n /\ DOMAIN q = 1..Len(q)
  BY <1>1
<1> HIDE DEF n, q
<1>3. /\ 1 \in 1..n /\ \A m \in 1..n : m = 1 \/ (m - 1 \in 1..(n - 1) /\ m - 1 + 1 = m)
      /\ \A m \in 1..(n - 1) : m + 1 \in 1..n
  BY <1>1
<1>4. /\ \A y : y \in ToSet(p) <=> \E m \in 1..n : y = p[m]
      /\ \A y : y \in ToSet(q) <=> \E m \in 1..(n - 1) : y = q[m]
  BY <1>1, <1>2 DEF ToSet
<1>5. \A y : y \in ToSet(p) <=> y \in ToSet(q) \cup {p[1]}
  <2>1. \A m \in 1..(n - 1) : q[m] = p[m + 1]
    BY <1>1
  <2>2. ASSUME NEW m \in 1..n PROVE p[m] \in ToSet(q) \cup {p[1]}
    <3>1. CASE m = 1
      BY <3>1
    <3>2. CASE m # 1
      <4>1. m - 1 \in 1..(n - 1) /\ m - 1 + 1 = m
        BY <1>3, <3>2
      <4>2. q[m - 1] = p[m]
        BY <2>1, <4>1
      <4>3. QED  BY <1>4, <4>1, <4>2
    <3>3. QED  BY <3>1, <3>2
  <2>3. ASSUME NEW m \in 1..(n - 1) PROVE q[m] \in ToSet(p)
    BY <1>3, <1>4, <2>1
  <2>4. p[1] \in ToSet(p)
    BY <1>3, <1>4
  <2>5. QED  BY <1>4, <2>2, <2>3, <2>4
<1>6. QED  BY <1>1, <1>5 DEF q

LEMMA PendingLess ==
  ASSUME NEW T, Nodelike(T), NEW C \in Seq(Seq(T)), NEW V, NEW r, Disjoint(C, V, r),
         C # <<>>, C[Len(C)] # <<>>, NEW x, x = Head(C[Len(C)]),
         NEW R, R = [C EXCEPT ![Len(C)] = Tail(@)]
  PROVE  Pending(C) = Pending(R) \cup {x} /\ x \notin Pending(R)
<1> DEFINE L == Len(C)
           p == C[L]
<1>1. R \in Seq(Seq(T)) /\ Apartness(R, V, x) /\ x \in T
  BY TakeDisjoint
<1>2. x \notin Pending(R)
  <2>1. Descends(x, x)
    BY <1>1, DescendsFacts
  <2>2. \A a \in 1..Len(R) : \A m \in 1..Len(R[a]) : R[a][m] # x
    BY <1>1, <2>1 DEF Apartness
  <2>3. ASSUME NEW a \in 1..Len(R) PROVE x \notin ToSet(R[a])
    <3>1. R[a] \in Seq(T)
      BY <1>1
    <3>2. DOMAIN R[a] = 1..Len(R[a])
      BY <3>1
    <3>3. QED  BY <2>2, <3>2 DEF ToSet
  <2>4. QED  BY <1>1, <2>3, PendingIn
<1>3. L \in Nat \ {0} /\ DOMAIN C = 1..L /\ \A a \in 1..L : C[a] \in Seq(T)
  BY EmptySeq
<1>4. L \in 1..L
  BY <1>3
<1>5. p \in Seq(T) /\ p # <<>> /\ x = Head(p)
  BY <1>3, <1>4
<1>6. DOMAIN R = 1..L /\ R[L] = Tail(p) /\ \A a \in 1..L : a # L => R[a] = C[a]
  BY <1>3, <1>4
<1>7. Len(R) = L
  <2> HIDE DEF L
  <2>1. DOMAIN R = 1..Len(R) /\ Len(R) \in Nat
    BY <1>1, SeqFacts
  <2>2. 1..Len(R) = 1..L
    BY <1>6, <2>1
  <2> DEFINE n == Len(R)
  <2>3. n \in Nat /\ 1..n = 1..L
    BY <2>1, <2>2
  <2> HIDE DEF n
  <2>4. n = L
    BY <1>3, <2>3
  <2>5. QED  BY <2>4 DEF n
<1>8. p = C[L]
  OBVIOUS
<1> HIDE DEF p
<1>9. ToSet(p) = ToSet(Tail(p)) \cup {x}
  BY <1>5, HeadAndTail
<1>10. /\ \A y : y \in Pending(C) <=> \E a \in 1..L : y \in ToSet(C[a])
       /\ \A y : y \in Pending(R) <=> \E a \in 1..L : y \in ToSet(R[a])
  BY <1>1, <1>7, PendingIn
<1> HIDE DEF L
<1>11. ASSUME NEW a \in 1..L, NEW y \in ToSet(C[a]) PROVE y \in Pending(R) \cup {x}
  <2>1. CASE a = L
    BY <1>4, <1>6, <1>8, <1>9, <1>10, <1>11, <2>1
  <2>2. CASE a # L
    BY <1>6, <1>10, <1>11, <2>2
  <2>3. QED  BY <2>1, <2>2
<1>12. ASSUME NEW a \in 1..L, NEW y \in ToSet(R[a]) PROVE y \in Pending(C)
  <2>1. CASE a = L
    BY <1>4, <1>6, <1>8, <1>9, <1>10, <1>12, <2>1
  <2>2. CASE a # L
    BY <1>6, <1>10, <1>12, <2>2
  <2>3. QED  BY <2>1, <2>2
<1>13. x \in Pending(C)
  BY <1>4, <1>8, <1>9, <1>10
<1>14. \A y : y \in Pending(C) <=> y \in Pending(R) \cup {x}
  BY <1>10, <1>11, <1>12, <1>13
<1>15. QED  BY <1>2, <1>14

LEMMA PendingFront ==
  ASSUME NEW T, NEW C \in Seq(Seq(T)), C # <<>>, C[Len(C)] = <<>>
  PROVE  Pending(Front(C)) = Pending(C)
<1> DEFINE L == Len(C)
           D == Front(C)
<1>1. L \in Nat \ {0}
  BY EmptySeq
<1>2. Len(D) = L - 1 /\ (\A m \in 1..(L - 1) : D[m] = C[m]) /\ D \in Seq(Seq(T))
  <2>1. L - 1 \in Int /\ 1 \in Int
    BY <1>1
  <2>2. /\ SubSeq(C, 1, L - 1) \in Seq(Seq(T))
        /\ Len(SubSeq(C, 1, L - 1)) = IF 1 <= L - 1 THEN L - 1 - 1 + 1 ELSE 0
        /\ \A m \in 1..(L - 1 - 1 + 1) : SubSeq(C, 1, L - 1)[m] = C[1 + m - 1]
    BY <1>1, <2>1, SubSeqProperties
  <2>3. D = SubSeq(C, 1, L - 1)
    BY DEF Front
  <2> HIDE DEF D, L
  <2>4. L - 1 - 1 + 1 = L - 1 /\ \A m \in 1..(L - 1) : 1 + m - 1 = m
    BY <1>1
  <2>5. Len(D) = L - 1
    BY <1>1, <2>2, <2>3, <2>4
  <2>6. \A m \in 1..(L - 1) : D[m] = C[m]
    BY <2>2, <2>3, <2>4
  <2>7. QED  BY <2>2, <2>3, <2>5, <2>6
<1>3. C[L] = <<>> /\ ToSet(<<>>) = {}
  BY DEF ToSet
<1>4. /\ \A y : y \in Pending(C) <=> \E a \in 1..L : y \in ToSet(C[a])
      /\ \A y : y \in Pending(D) <=> \E a \in 1..(L - 1) : y \in ToSet(D[a])
  <2> HIDE DEF D
  <2>1. QED  BY <1>2, PendingIn
<1> HIDE DEF D, L
<1>5. (\A a \in 1..(L - 1) : a \in 1..L) /\ \A a \in 1..L : a = L \/ a \in 1..(L - 1)
  BY <1>1
<1>6. \A y : y \in Pending(D) <=> y \in Pending(C)
  BY <1>2, <1>3, <1>4, <1>5
<1>7. QED  BY <1>6 DEF D

\* A node is visited and its children become pending.
LEMMA VisitOne ==
  ASSUME NEW s, KplexSystem(s), NEW P, NEW V, NEW r, NEW x \in KplexNodes(s),
         Shares(s, P \cup {x}, V, r), x \notin P, NEW F, Gathered(s, V, F),
         NEW kids, kids = KplexChildren(s, x)
  PROVE  /\ Shares(s, P \cup ToSet(kids), V \cup {x}, r)
         /\ Gathered(s, V \cup {x}, Reporting(s, x, F))
<1> DEFINE T == KplexNodes(s)
<1>1. Rooted(s, x) /\ \A v \in V : ~ Covers(x, Low(v))
  BY DEF Shares
<1>2. kids \in Seq(T)
  BY KplexChildrenFacts DEF KidsOf
<1> HIDE DEF T
<1>3. CoverKids(s, x, kids)
  BY <1>1, <1>2, CoverKidsFacts
<1>4. Shares(s, P \cup ToSet(kids), V \cup {x}, r)
  BY <1>3, VisitShares
<1>5. Covers(x, Low(x))
  BY <1>1, CoversFacts
<1>6. \A v \in V : Low(v) # Low(x)
  BY <1>1, <1>5
<1>7. Gathered(s, V \cup {x}, Reporting(s, x, F))
  BY <1>1, <1>6, GatherOne
<1>8. QED  BY <1>4, <1>7

Sharing(s) ==
  /\ Shares(s, Pending(calls), ToSet(visited), i)
  /\ Gathered(s, ToSet(visited), found)
  /\ ~ running => i = size(s.g) /\ calls = <<>>

\* As long as the counters of the nodes cannot overflow.
KplexFound == task.kind = "d2kplex" /\ task.n < 256 /\ system # <<>> => Sharing(system)

\* Before the first root.
LEMMA SharesFirst ==
  ASSUME NEW s, KplexSystem(s)
  PROVE  Shares(s, {}, {}, 0) /\ Gathered(s, {}, <<>>)
<1>1. Gathered(s, {}, <<>>)
  <2>1. <<>> \in Seq(Seq(DOMAIN s.g)) /\ Len(<<>>) = 0 /\ 1..0 = {}
    OBVIOUS
  <2>2. QED  BY <2>1 DEF Gathered
<1>2. ASSUME NEW T, Wanted(s, T), NEW a \in T, a < 0 PROVE FALSE
  <2>1. a \in Nat
    BY <1>2, AllFacts DEF Wanted, KplexOf
  <2>2. QED  BY <1>2, <2>1
<1>3. Shares(s, {}, {}, 0)
  BY <1>2 DEF Shares
<1>4. QED  BY <1>1, <1>3

\* What is not changed stays.
LEMMA SharingStays ==
  ASSUME Inv, KplexFound, UNCHANGED <<task, seqvars>>
  PROVE  KplexFound'
<1>1. UNCHANGED <<task, system, running, i, nodes, calls, visited, found>>
  BY DEF seqvars
<1>2. ASSUME Sharing(system) PROVE Sharing(system)'
  BY <1>1, <1>2 DEF Sharing
<1>3. QED  BY <1>1, <1>2 DEF KplexFound

LEMMA SystemOfTask ==
  ASSUME task \in Tasks, task.kind = "d2kplex", OrderInv, Ordered, NEW s, s = KplexSystemOfTask
  PROVE  KplexSystem(s)
<1>1. /\ s.g = Permute(graph, perm) /\ s.k = task.k /\ s.q = task.q
      /\ s.pivoting = task.pivoting /\ s.mod = 256
  BY DEF KplexSystemOfTask
<1>2. task.k \in Nat \ {0} /\ task.q \in Nat /\ task.pivoting \in BOOLEAN
  BY TasksAssumption
<1>3. SimpleGraph(s.g)
  BY <1>1, SearchedGraph DEF IsPermuted
<1>4. QED  BY <1>1, <1>2, <1>3 DEF KplexSystem

LEMMA RunShares ==
  ASSUME Inv, MakeEnumerableSystemAndRun
  PROVE  KplexFound'
<1>1. /\ system = <<>> /\ system' = Constructed /\ running' = TRUE
      /\ UNCHANGED <<task, graph, ordervars, i, nodes, calls, visited, found>>
      /\ task.kind = "commutable" \/ Ordered
  BY DEF MakeEnumerableSystemAndRun, Enumerator!Run
<1>2. ASSUME task.kind = "d2kplex" PROVE Sharing(system)'
  <2>1. i = 0 /\ calls = <<>> /\ visited = <<>> /\ found = <<>>
    BY <1>1, <1>2 DEF Inv, KplexSearched, NotBegun
  <2>2. system' = KplexSystemOfTask
    BY <1>1, <1>2 DEF Constructed, KplexSystemOfTask
  <2>3. Ordered /\ OrderInv /\ task \in Tasks
    BY <1>1, <1>2 DEF Inv
  <2>4. KplexSystem(system')
    BY <1>2, <2>2, <2>3, SystemOfTask
  <2>5. Shares(system', {}, {}, 0) /\ Gathered(system', {}, <<>>)
    BY <2>4, SharesFirst
  <2>6. Pending(<<>>) = {} /\ ToSet(<<>>) = {}
    BY DEF Pending, ToSet
  <2>7. calls' = <<>> /\ visited' = <<>> /\ found' = <<>> /\ i' = 0 /\ running' = TRUE
    BY <1>1, <2>1
  <2>8. Shares(system', Pending(calls'), ToSet(visited'), i')
        /\ Gathered(system', ToSet(visited'), found')
    BY <2>5, <2>6, <2>7
  <2>9. QED  BY <2>7, <2>8 DEF Sharing
<1>3. QED  BY <1>1, <1>2 DEF KplexFound

LEMMA CallRootShares ==
  ASSUME Inv, task.kind = "d2kplex", task.n < 256, system # <<>>, Sharing(system),
         Enumerator!CallRoot, UNCHANGED task
  PROVE  Sharing(system)'
<1> DEFINE s == system
           T == KplexNodes(s)
           roots == KplexRoot(s, i)
           V == ToSet(visited)
<1>1. /\ KplexSystem(s) /\ s.kind = "d2kplex" /\ Recursing(s)
      /\ size(s.g) \in Nat /\ DOMAIN s.g = 0..(size(s.g) - 1)
      /\ MaxRoots(s) = size(s.g)
  BY KplexFacts
<1>2. /\ i < size(s.g) /\ calls = <<>>
      /\ calls' = [r \in DOMAIN roots |-> KplexChildren(s, roots[r])]
      /\ visited' = visited \o roots /\ Enumerator!ReportAll(roots)
      /\ i' = i + 1 /\ system' = s /\ running /\ running' = running
  <2>1. \A x : ListChildren(s, x) = KplexChildren(s, x)
    BY <1>1 DEF ListChildren
  <2>2. GetRoot(s, i) = roots
    BY <1>1 DEF GetRoot
  <2> HIDE DEF roots
  <2>3. QED
    BY <1>1, <2>1, <2>2 DEF Enumerator!CallRoot, Enumerator!NextRoot, Enumerator!ReportAll
<1>3. i \in DOMAIN s.g /\ visited \in Seq(T) /\ Disjoint(<<>>, visited, i)
  BY <1>1, <1>2 DEF Recursing
<1>4. Pending(<<>>) = {}
  BY DEF Pending
<1>5. Shares(s, {}, V, i) /\ Gathered(s, V, found)
  BY <1>2, <1>4 DEF Sharing
<1>6. \A v \in V : v.sub[1] < i
  <2> HIDE DEF T
  <2>1. DOMAIN visited = 1..Len(visited)
    BY <1>3
  <2>2. QED  BY <1>3, <2>1 DEF Disjoint, ToSet
<1>7. /\ (\A S : ~ LargePlex(s, S, i)) => Shares(s, {}, V, i')
      /\ \A x : Rooted(s, x) /\ x.sub[1] = i
                /\ (\A S : LargePlex(s, S, i) /\ Wide(s, All(s), S) => Covers(x, S))
                => Shares(s, {x}, V, i')
  <2> HIDE DEF s, V
  <2>1. QED  BY <1>1, <1>2, <1>3, <1>5, <1>6, RootShares
<1>8. CASE roots = <<>> /\ \A S : ~ LargePlex(s, S, i)
  <2>1. found' = found
    BY <1>2, <1>8, ReportNone
  <2>2. visited' = visited /\ calls' = <<>>
    BY <1>2, <1>3, <1>8
  <2>3. Shares(s, {}, V, i')
    BY <1>7, <1>8
  <2>4. QED  BY <1>2, <1>4, <1>5, <2>1, <2>2, <2>3 DEF Sharing
<1>9. ASSUME NEW x \in T, roots = <<x>>, FirstNode(s, i, x) PROVE Sharing(system)'
  <2> DEFINE kids == KplexChildren(s, x)
  <2>1. Len(x.sub) < 256
    <3> DEFINE l == Len(x.sub)
               n == task.n
    <3>1. l <= n /\ l \in Nat /\ n \in Nat /\ n < 256
      BY <1>9, SubSize
    <3> HIDE DEF l, n
    <3>2. l < 256
      BY <3>1
    <3>3. QED  BY <3>2 DEF l
  <2>2. Shares(s, {x}, V, i')
    BY <1>7, <1>9, <2>1 DEF FirstNode
  <2>3. found' = Reporting(s, x, found)
    BY <1>1, <1>2, <1>9, ReportOne
  <2>4. visited' = Append(visited, x)
    BY <1>2, <1>3, <1>9, ConcatOne
  <2>5. calls' = Append(<<>>, kids)
    BY <1>2, <1>9
  <2>6. kids \in Seq(T)
    BY <1>1, <1>9, KplexChildrenFacts DEF KidsOf
  <2>7. Shares(s, {} \cup ToSet(kids), V \cup {x}, i') /\ Gathered(s, V \cup {x}, Reporting(s, x, found))
    <3> DEFINE ks == kids
               N == {}
               r == i'
    <3>1. N \cup {x} = {x} /\ x \notin N
      OBVIOUS
    <3>2. ks = KplexChildren(s, x) /\ Shares(s, N \cup {x}, V, r)
      BY <2>2, <3>1
    <3> HIDE DEF ks, V, s, N, r
    <3>3. KplexSystem(s) /\ x \in KplexNodes(s) /\ Gathered(s, V, found)
      BY <1>1, <1>5, <1>9 DEF T
    <3>4. Shares(s, N \cup ToSet(ks), V \cup {x}, r) /\ Gathered(s, V \cup {x}, Reporting(s, x, found))
      BY <3>1, <3>2, <3>3, VisitOne
    <3>5. QED  BY <3>4 DEF ks, s, N, r
  <2> HIDE DEF kids, T
  <2>8. ToSet(visited') = V \cup {x}
    <3>1. ToSet(Append(visited, x)) = ToSet(visited) \cup {x}
      BY <1>3, <1>9, AppendFacts
    <3>2. QED  BY <2>4, <3>1
  <2>9. Pending(calls') = {} \cup ToSet(kids)
    <3>1. <<>> \in Seq(Seq(T))
      OBVIOUS
    <3>2. QED  BY <1>4, <2>5, <2>6, <3>1, PendingMore
  <2>10. QED  BY <1>2, <2>3, <2>7, <2>8, <2>9 DEF Sharing
<1>10. QED
  <2>1. \/ roots = <<>> /\ \A S : ~ LargePlex(s, S, i)
        \/ \E x \in T : roots = <<x>> /\ FirstNode(s, i, x)
    BY <1>1, <1>3, RootCovers
  <2>2. QED  BY <1>8, <1>9, <2>1

LEMMA CallChildShares ==
  ASSUME Inv, task.kind = "d2kplex", task.n < 256, system # <<>>, Sharing(system),
         Enumerator!CallChild
  PROVE  Sharing(system)'
<1> DEFINE s == system
           T == KplexNodes(s)
           x == Head(calls[Len(calls)])
           R == [calls EXCEPT ![Len(calls)] = Tail(@)]
           kids == KplexChildren(s, x)
           V == ToSet(visited)
<1>1. KplexSystem(s) /\ s.kind = "d2kplex" /\ Recursing(s) /\ Nodelike(T)
  BY KplexFacts
<1>2. /\ calls # <<>> /\ calls[Len(calls)] # <<>>
      /\ calls' = Append(R, kids)
      /\ visited' = visited \o <<x>> /\ Enumerator!ReportAll(<<x>>)
      /\ i' = i /\ system' = s /\ running' = running
  <2>1. \A y : ListChildren(s, y) = KplexChildren(s, y)
    BY <1>1 DEF ListChildren
  <2>2. QED
    BY <2>1 DEF Enumerator!CallChild, Enumerator!ReportAll, Enumerator!Last
<1>3. visited \in Seq(T) /\ calls \in Seq(Seq(T)) /\ Disjoint(calls, visited, i)
  BY <1>1 DEF Recursing
<1>4. Shares(s, Pending(calls), V, i) /\ Gathered(s, V, found)
  BY DEF Sharing
<1>5. running
  BY <1>2 DEF Sharing
<1> HIDE DEF T, kids, V
<1>6. R \in Seq(Seq(T)) /\ x \in T
  BY <1>2, <1>3, TakeDisjoint
<1>7. Pending(calls) = Pending(R) \cup {x} /\ x \notin Pending(R)
  BY <1>1, <1>2, <1>3, PendingLess
<1> HIDE DEF x, R
<1>8. found' = Reporting(s, x, found)
  BY <1>1, <1>2, ReportOne
<1>9. kids \in Seq(T)
  BY <1>1, <1>6, KplexChildrenFacts DEF KidsOf, kids, T
<1>10. Shares(s, Pending(R) \cup ToSet(kids), V \cup {x}, i)
       /\ Gathered(s, V \cup {x}, Reporting(s, x, found))
  <2> DEFINE P == Pending(R)
  <2>1. x \notin P /\ Shares(s, P \cup {x}, V, i)
    BY <1>4, <1>7
  <2> HIDE DEF P, s
  <2>2. KplexSystem(s) /\ x \in KplexNodes(s) /\ kids = KplexChildren(s, x)
    BY <1>1, <1>6 DEF T, kids
  <2>3. Shares(s, P \cup ToSet(kids), V \cup {x}, i)
        /\ Gathered(s, V \cup {x}, Reporting(s, x, found))
    BY <1>4, <2>1, <2>2, VisitOne
  <2>4. QED  BY <2>3 DEF P
<1>11. ToSet(visited') = V \cup {x}
  <2>1. visited' = Append(visited, x)
    BY <1>2, <1>3, <1>6, ConcatOne
  <2>2. ToSet(Append(visited, x)) = ToSet(visited) \cup {x}
    BY <1>3, <1>6, AppendFacts
  <2>3. QED  BY <2>1, <2>2 DEF V
<1>12. Pending(calls') = Pending(R) \cup ToSet(kids)
  BY <1>2, <1>6, <1>9, PendingMore
<1>13. QED  BY <1>2, <1>5, <1>8, <1>10, <1>11, <1>12 DEF Sharing

LEMMA ReturnShares ==
  ASSUME Inv, task.kind = "d2kplex", system # <<>>, Sharing(system), Enumerator!Return
  PROVE  Sharing(system)'
<1> DEFINE T == KplexNodes(system)
<1>1. /\ calls # <<>> /\ calls[Len(calls)] = <<>> /\ calls' = Front(calls)
      /\ UNCHANGED <<system, running, i, nodes, visited, found>>
  BY DEF Enumerator!Return, Enumerator!Front, Enumerator!Last, Front
<1>2. calls \in Seq(Seq(T))
  BY KplexFacts DEF Recursing
<1> HIDE DEF T
<1>3. Pending(calls') = Pending(calls)
  BY <1>1, <1>2, PendingFront
<1>4. running
  BY <1>1 DEF Sharing
<1>5. Shares(system, Pending(calls), ToSet(visited), i) /\ Gathered(system, ToSet(visited), found)
  BY DEF Sharing
<1>6. QED  BY <1>1, <1>3, <1>4, <1>5 DEF Sharing

LEMMA InternalShares ==
  ASSUME Inv, KplexFound, RunInternal
  PROVE  KplexFound'
<1>1. Enumerator!Step /\ UNCHANGED <<task, graph, ordervars>>
  BY DEF RunInternal
<1>2. ASSUME task.kind = "d2kplex", task.n < 256, system # <<>> PROVE Sharing(system)'
  <2>1. Sharing(system)
    BY <1>2 DEF KplexFound
  <2>2. nodes = <<>> /\ CanUseRecursion(system) /\ MaxRoots(system) = size(system.g)
    BY <1>2, KplexFacts
  <2>3. ~ Enumerator!PushRoot /\ ~ Enumerator!PopNode
    BY <2>2 DEF Enumerator!PushRoot, Enumerator!PopNode
  <2>4. CASE Enumerator!CallRoot
    BY <1>1, <1>2, <2>1, <2>4, CallRootShares
  <2>5. CASE Enumerator!CallChild
    BY <1>2, <2>1, <2>5, CallChildShares
  <2>6. CASE Enumerator!Return
    BY <1>2, <2>1, <2>6, ReturnShares
  <2>7. CASE Enumerator!Finish
    <3>1. i = size(system.g) /\ calls = <<>> /\ UNCHANGED <<system, i, calls, visited, found>>
      BY <2>2, <2>7 DEF Enumerator!Finish
    <3>2. Shares(system, Pending(calls), ToSet(visited), i) /\ Gathered(system, ToSet(visited), found)
      BY <2>1 DEF Sharing
    <3>3. QED  BY <3>1, <3>2 DEF Sharing
  <2>8. QED  BY <1>1, <2>3, <2>4, <2>5, <2>6, <2>7 DEF Enumerator!Step
<1>3. ASSUME task.kind = "d2kplex", system = <<>> PROVE FALSE
  <2>1. NotBegun
    BY <1>3 DEF Inv, KplexSearched
  <2>2. QED
    BY <1>1, <2>1 DEF NotBegun, Enumerator!Step, Enumerator!PushRoot, Enumerator!PopNode,
       Enumerator!CallRoot, Enumerator!CallChild, Enumerator!Return, Enumerator!Finish,
       Enumerator!NextRoot
<1>4. task' = task
  BY <1>1
<1>5. QED  BY <1>2, <1>3, <1>4 DEF KplexFound

LEMMA FoundKeeps ==
  ASSUME Inv, KplexFound, [Next]_vars
  PROVE  KplexFound'
<1>1. CASE UNCHANGED <<task, seqvars>>
  BY <1>1, SharingStays
<1>2. CASE MakeEnumerableSystemAndRun
  BY <1>2, RunShares
<1>3. CASE RunInternal
  BY <1>3, InternalShares
<1>4. UNCHANGED vars \/ Done \/ OrderVertex => UNCHANGED <<task, seqvars>>
  BY DEF vars, Done, OrderVertex
<1>5. QED  BY <1>1, <1>2, <1>3, <1>4 DEF Next

-----------------------------------------------------------------------
(* The solutions of the search for k-plexes *)

\* What the vertices of the file that C stands for are.
SameNamed(s, C) ==
  /\ Named(C) \subseteq DOMAIN s.g
  /\ IsKplex(Named(C), s.k) <=> IsPlex(s, All(s), C)
  /\ Diameter2(Named(C)) <=> Wide(s, All(s), C)
  /\ Cardinality(Named(C)) = Cardinality(C)
  /\ Named(C) = {} <=> C = {}

LEMMA NamedPlexes ==
  ASSUME Inv, task.kind = "d2kplex", system # <<>>, NEW s, s = system
  PROVE  /\ DOMAIN s.g = 0..(task.n - 1)
         /\ \A C : C \subseteq DOMAIN s.g => SameNamed(s, C)
         /\ \A B, C : B \subseteq DOMAIN s.g /\ C \subseteq DOMAIN s.g
                      => (Named(B) \subseteq Named(C) <=> B \subseteq C)
         /\ \A S : S \subseteq DOMAIN s.g => \E C \in SUBSET DOMAIN s.g : Named(C) = S
<1> DEFINE V == DOMAIN s.g
           name == [a \in V |-> perm[a + 1]]
<1>1. Ordered /\ s.g = Permute(graph, perm) /\ KplexSystem(s) /\ OrderInv /\ task \in Tasks
      /\ graph = ReadFastGraph(File(task))
  BY KplexFacts DEF Inv
<1>2. /\ V = DOMAIN graph
      /\ \A a, b \in V : are_neighs(s.g, a, b) <=> are_neighs(graph, perm[a + 1], perm[b + 1])
  BY <1>1, SearchedGraph DEF IsPermuted
<1>3. /\ \A a \in V : name[a] \in V
      /\ \A a, b \in V : name[a] = name[b] => a = b
      /\ \A v \in V : \E a \in V : name[a] = v
  <2>1. SimpleGraph(graph)
    BY <1>1 DEF OrderInv, OrderTypes
  <2>2. perm \in Seq(DOMAIN graph) /\ IsInjective(perm) /\ ToSet(perm) = DOMAIN graph
    BY <1>1, OrderNamesAll
  <2>3. /\ \A a \in V : perm[a + 1] \in V
        /\ \A a, b \in V : perm[a + 1] = perm[b + 1] => a = b
        /\ \A v \in V : \E a \in V : perm[a + 1] = v
    BY <1>2, <2>1, <2>2, OrderFacts
  <2>4. QED  BY <2>3
<1>4. V = 0..(task.n - 1) /\ \A a, b \in V : are_neighs(graph, a, b) <=> Joined(a, b)
  BY <1>1, <1>2, FileFacts
<1>5. \A a, b \in V : are_neighs(s.g, a, b) <=> are_neighs(graph, name[a], name[b])
  BY <1>2
<1>6. ASSUME NEW C, C \subseteq V PROVE Named(C) = {name[v] : v \in C} /\ Named(C) = Renamed(name, C)
  BY <1>6 DEF Named, Renamed
<1>7. /\ DOMAIN All(s) = V /\ IsFiniteSet(V)
      /\ \A a, b \in V : Apart(s, All(s), a, b) <=> ~ are_neighs(s.g, a, b)
  BY <1>1, AllFacts
<1> HIDE DEF name, V
<1>8. \A a, b \in V : Joined(name[a], name[b]) <=> ~ Apart(s, All(s), a, b)
  BY <1>3, <1>4, <1>5, <1>7
<1>9. ASSUME NEW C, C \subseteq V
      PROVE  Named(C) \subseteq V /\ \A a \in V : name[a] \in Named(C) <=> a \in C
  BY <1>3, <1>6, <1>9
<1>10. ASSUME NEW C, C \subseteq V PROVE SameNamed(s, C)
  <2>1. Named(C) = {name[v] : v \in C} /\ Named(C) \subseteq V
    BY <1>6, <1>9, <1>10
  <2>2. IsFiniteSet(C)
    BY <1>7, <1>10, FS_Subset
  <2>3. IsKplex(Named(C), s.k) <=> IsPlex(s, All(s), C)
    <3>1. C \subseteq DOMAIN All(s)
      BY <1>7, <1>10
    <3>2. /\ \A a, b \in DOMAIN All(s) : name[a] = name[b] => a = b
          /\ \A a, b \in DOMAIN All(s) : Joined(name[a], name[b]) <=> ~ Apart(s, All(s), a, b)
      BY <1>3, <1>7, <1>8
    <3> DEFINE sub == All(s)
    <3> HIDE DEF sub
    <3>3. IsKplex(Renamed(name, C), s.k) <=> IsPlex(s, sub, C)
      BY <2>2, <3>1, <3>2, PlexNamed DEF sub
    <3>4. QED  BY <1>6, <1>10, <3>3 DEF sub
  <2>4. Cardinality(Named(C)) = Cardinality(C)
    <3> DEFINE f == [a \in C |-> name[a]]
    <3>1. f \in Bijection(C, Named(C))
      <4>1. f \in [C -> Named(C)]
        BY <2>1
      <4>2. \A a, b \in C : f[a] = f[b] => a = b
        BY <1>3, <1>10
      <4>3. \A v \in Named(C) : \E a \in C : f[a] = v
        BY <2>1
      <4>4. QED  BY <4>1, <4>2, <4>3 DEF Bijection, Injection, Surjection, IsInjective
    <3>2. QED  BY <2>2, <3>1, FS_Bijection DEF ExistsBijection
  <2>5. ASSUME Diameter2(Named(C)) PROVE Wide(s, All(s), C)
    <3>1. ASSUME NEW a \in C, NEW b \in C, a # b, Apart(s, All(s), a, b)
          PROVE  \E c \in C : ~ Apart(s, All(s), a, c) /\ ~ Apart(s, All(s), c, b)
      <4>1. a \in V /\ b \in V /\ name[a] \in Named(C) /\ name[b] \in Named(C)
        BY <1>10, <2>1
      <4>2. name[a] # name[b] /\ ~ Joined(name[a], name[b])
        BY <1>3, <1>8, <3>1, <4>1
      <4>3. PICK v \in Named(C) : Joined(name[a], v) /\ Joined(v, name[b])
        BY <2>5, <4>1, <4>2 DEF Diameter2
      <4>4. PICK c \in C : v = name[c]
        BY <2>1
      <4>5. c \in V
        BY <1>10
      <4>6. QED  BY <1>8, <4>1, <4>3, <4>4, <4>5
    <3>2. QED  BY <3>1 DEF Wide
  <2>6. ASSUME Wide(s, All(s), C) PROVE Diameter2(Named(C))
    <3>1. ASSUME NEW u \in Named(C), NEW w \in Named(C), u # w, ~ Joined(u, w)
          PROVE  \E v \in Named(C) : Joined(u, v) /\ Joined(v, w)
      <4>1. PICK a \in C, b \in C : u = name[a] /\ w = name[b]
        BY <2>1
      <4>2. a # b /\ a \in V /\ b \in V
        BY <1>10, <3>1, <4>1
      <4>3. Apart(s, All(s), a, b)
        BY <1>8, <3>1, <4>1, <4>2
      <4>4. PICK c \in C : ~ Apart(s, All(s), a, c) /\ ~ Apart(s, All(s), c, b)
        BY <2>6, <4>2, <4>3 DEF Wide
      <4>5. c \in V /\ name[c] \in Named(C)
        BY <1>10, <2>1
      <4>6. QED  BY <1>8, <4>1, <4>2, <4>4, <4>5
    <3>2. QED  BY <3>1 DEF Diameter2
  <2>7. Named(C) = {} <=> C = {}
    BY <2>1
  <2>8. QED  BY <2>1, <2>3, <2>4, <2>5, <2>6, <2>7 DEF SameNamed, V
<1>11. ASSUME NEW B, NEW C, B \subseteq V, C \subseteq V
       PROVE  Named(B) \subseteq Named(C) <=> B \subseteq C
  <2>1. Named(B) = {name[v] : v \in B}
    BY <1>6, <1>11
  <2>2. \A a \in V : name[a] \in Named(C) <=> a \in C
    BY <1>9, <1>11
  <2>3. QED  BY <1>11, <2>1, <2>2
<1>12. ASSUME NEW S, S \subseteq V PROVE \E C \in SUBSET V : Named(C) = S
  <2> DEFINE C == {a \in V : name[a] \in S}
  <2>1. C \subseteq V
    OBVIOUS
  <2>2. Named(C) = {name[v] : v \in C}
    BY <1>6, <2>1
  <2>3. Named(C) = S
    <3>1. \A v \in S : v \in V /\ \E a \in V : name[a] = v
      BY <1>3, <1>12
    <3>2. \A v \in S : v \in Named(C)
      BY <2>2, <3>1
    <3>3. \A v \in Named(C) : v \in S
      BY <2>2
    <3>4. QED  BY <3>2, <3>3
  <2>4. QED  BY <2>1, <2>3
<1>13. QED  BY <1>4, <1>10, <1>11, <1>12 DEF V

\* What the search is to find is what the task asks for.
LEMMA WantedNamed ==
  ASSUME Inv, task.kind = "d2kplex", system # <<>>, NEW s, s = system
  PROVE  /\ \A C : C \subseteq DOMAIN s.g => (Wanted(s, C) <=> Named(C) \in Solutions)
         /\ \A S \in Solutions : \E C \in SUBSET DOMAIN s.g : Named(C) = S
         /\ \A B, C : B \subseteq DOMAIN s.g /\ C \subseteq DOMAIN s.g /\ Named(B) = Named(C)
                      => B = C
<1> DEFINE V == DOMAIN s.g
           F == {S \in Sets : IsKplex(S, task.k) /\ Diameter2(S)}
<1>1. /\ V = 0..(task.n - 1)
      /\ \A C : C \subseteq V => SameNamed(s, C)
      /\ \A B, C : B \subseteq V /\ C \subseteq V => (Named(B) \subseteq Named(C) <=> B \subseteq C)
      /\ \A S : S \subseteq V => \E C \in SUBSET V : Named(C) = S
  BY NamedPlexes
<1>2. s.k = task.k /\ s.q = task.q
  BY KplexFacts
<1>3. Solutions = {S \in F : (\A T \in F : S \subseteq T => S = T) /\ Cardinality(S) >= task.q}
  BY DEF Solutions, MaximalOf
<1>4. Sets = (SUBSET V) \ {{}}
  BY <1>1 DEF Sets
<1>5. \A S : S \in F <=> S \subseteq V /\ S # {} /\ IsKplex(S, s.k) /\ Diameter2(S)
  BY <1>2, <1>4
<1> HIDE DEF F, V
<1>6. ASSUME NEW C, C \subseteq V
      PROVE  /\ Named(C) \in F <=> KplexOf(s, C) /\ C # {}
             /\ Cardinality(Named(C)) = Cardinality(C)
  <2>1. SameNamed(s, C)
    BY <1>1, <1>6
  <2>2. QED  BY <1>5, <1>6, <2>1 DEF SameNamed, KplexOf, V
<1>7. ASSUME NEW C, C \subseteq V PROVE Wanted(s, C) <=> Named(C) \in Solutions
  <2>1. ASSUME Wanted(s, C) PROVE Named(C) \in Solutions
    <3>1. Named(C) \in F /\ Cardinality(Named(C)) >= task.q
      BY <1>2, <1>6, <1>7, <2>1 DEF Wanted
    <3>2. ASSUME NEW T \in F, Named(C) \subseteq T PROVE Named(C) = T
      <4>1. PICK R \in SUBSET V : Named(R) = T
        BY <1>1, <1>5
      <4>2. KplexOf(s, R) /\ C \subseteq R
        BY <1>1, <1>6, <1>7, <3>2, <4>1
      <4>3. R = C
        BY <2>1, <4>2 DEF Wanted
      <4>4. QED  BY <4>1, <4>3
    <3>3. QED  BY <1>3, <3>1, <3>2
  <2>2. ASSUME Named(C) \in Solutions PROVE Wanted(s, C)
    <3>1. Named(C) \in F /\ (\A T \in F : Named(C) \subseteq T => Named(C) = T)
          /\ Cardinality(Named(C)) >= task.q
      BY <1>3, <2>2
    <3>2. KplexOf(s, C) /\ C # {} /\ Cardinality(C) >= s.q
      BY <1>2, <1>6, <1>7, <3>1
    <3>3. ASSUME NEW R, KplexOf(s, R), C \subseteq R PROVE R = C
      <4>1. R \subseteq V /\ R # {}
        BY <3>2, <3>3 DEF KplexOf, V
      <4>2. Named(R) \in F /\ Named(C) \subseteq Named(R)
        BY <1>1, <1>6, <1>7, <3>3, <4>1
      <4>3. Named(C) = Named(R)
        BY <3>1, <4>2
      <4>4. R \subseteq C
        BY <1>1, <1>7, <4>1, <4>3
      <4>5. QED  BY <3>3, <4>4
    <3>4. QED  BY <3>2, <3>3 DEF Wanted
  <2>3. QED  BY <2>1, <2>2
<1>8. \A S \in Solutions : \E C \in SUBSET V : Named(C) = S
  BY <1>1, <1>3, <1>5
<1>9. ASSUME NEW B, NEW C, B \subseteq V, C \subseteq V, Named(B) = Named(C) PROVE B = C
  <2>1. B \subseteq C /\ C \subseteq B
    BY <1>1, <1>9
  <2>2. QED  BY <2>1
<1>10. QED  BY <1>7, <1>8, <1>9 DEF V

\* What was found are solutions, none of them twice.
ItemsAreSolutions ==
  LET items == {Input(found[m]) : m \in DOMAIN found}
  IN  items \subseteq Solutions /\ Len(found) = Cardinality(items)

\* The items as sets of vertices.
LEMMA ItemsNamed ==
  ASSUME Inv, KplexFound, task.kind = "d2kplex", task.n < 256, system # <<>>,
         NEW s, s = system
  PROVE  /\ KplexSystem(s) /\ Shares(s, Pending(calls), ToSet(visited), i)
         /\ DOMAIN found = 1..Len(found) /\ Len(found) \in Nat
         /\ \A m \in 1..Len(found) :
              /\ Input(found[m]) = Named(ToSet(found[m])) /\ ToSet(found[m]) \subseteq DOMAIN s.g
              /\ \E v \in ToSet(visited) : /\ Rooted(s, v) /\ IsReallyMaximal(s, v)
                                           /\ ToSet(found[m]) = Low(v)
         /\ \A v \in ToSet(visited) :
              IsReallyMaximal(s, v) => \E m \in 1..Len(found) : ToSet(found[m]) = Low(v)
         /\ \A m, n \in 1..Len(found) : ToSet(found[m]) = ToSet(found[n]) => m = n
<1> DEFINE T == DOMAIN s.g
<1>1. KplexSystem(s) /\ Shares(s, Pending(calls), ToSet(visited), i) /\ Gathered(s, ToSet(visited), found)
  BY KplexFacts DEF KplexFound, Sharing
<1>2. /\ found \in Seq(Seq(T))
      /\ \A m \in 1..Len(found) : \E v \in ToSet(visited) : IsReallyMaximal(s, v) /\ ToSet(found[m]) = Low(v)
      /\ \A v \in ToSet(visited) :
           IsReallyMaximal(s, v) => \E m \in 1..Len(found) : ToSet(found[m]) = Low(v)
      /\ \A m, n \in 1..Len(found) : ToSet(found[m]) = ToSet(found[n]) => m = n
  BY <1>1 DEF Gathered
<1>3. \A v \in ToSet(visited) : Rooted(s, v)
  BY <1>1 DEF Shares
<1> HIDE DEF T
<1>4. DOMAIN found = 1..Len(found) /\ Len(found) \in Nat
  BY <1>2
<1>5. ASSUME NEW m \in 1..Len(found)
      PROVE  Input(found[m]) = Named(ToSet(found[m])) /\ ToSet(found[m]) \subseteq T
  <2>1. found[m] \in Seq(T)
    BY <1>2
  <2>2. ToSet(found[m]) \subseteq T
    BY <2>1, SeqFacts
  <2>3. Input(found[m]) = Named(ToSet(found[m]))
    BY DEF Input, Named
  <2>4. QED  BY <2>2, <2>3
<1>6. QED  BY <1>1, <1>2, <1>3, <1>4, <1>5 DEF T

LEMMA ItemsSound ==
  ASSUME Inv, KplexFound, task.kind = "d2kplex", task.n < 256
  PROVE  ItemsAreSolutions
<1> DEFINE n == Len(found)
           items == {Input(found[m]) : m \in DOMAIN found}
<1>1. CASE system = <<>>
  <2>1. found = <<>>
    BY <1>1 DEF Inv, KplexSearched, NotBegun
  <2>2. items = {} /\ n = 0
    BY <2>1
  <2>3. Cardinality({}) = 0
    BY FS_EmptySet
  <2>4. QED  BY <2>2, <2>3 DEF ItemsAreSolutions
<1>2. CASE system # <<>>
  <2> DEFINE s == system
             V == ToSet(visited)
             F == [m \in 1..n |-> Input(found[m])]
  <2>1. /\ KplexSystem(s) /\ DOMAIN found = 1..n /\ n \in Nat
        /\ \A m \in 1..n :
             /\ Input(found[m]) = Named(ToSet(found[m])) /\ ToSet(found[m]) \subseteq DOMAIN s.g
             /\ \E v \in V : Rooted(s, v) /\ IsReallyMaximal(s, v) /\ ToSet(found[m]) = Low(v)
        /\ \A m, l \in 1..n : ToSet(found[m]) = ToSet(found[l]) => m = l
    BY <1>2, ItemsNamed
  <2>2. /\ \A C : C \subseteq DOMAIN s.g => (Wanted(s, C) <=> Named(C) \in Solutions)
        /\ \A B, C : B \subseteq DOMAIN s.g /\ C \subseteq DOMAIN s.g /\ Named(B) = Named(C)
                     => B = C
    BY <1>2, WantedNamed
  <2> HIDE DEF n, s, V
  <2>3. ASSUME NEW m \in 1..n PROVE F[m] \in Solutions
    <3>1. PICK v \in V : Rooted(s, v) /\ IsReallyMaximal(s, v) /\ ToSet(found[m]) = Low(v)
      BY <2>1
    <3>2. Wanted(s, Low(v))
      BY <2>1, <3>1, SolutionWanted
    <3>3. QED  BY <2>1, <2>2, <3>1, <3>2
  <2>4. ASSUME NEW m \in 1..n, NEW l \in 1..n, F[m] = F[l] PROVE m = l
    <3>1. Named(ToSet(found[m])) = Named(ToSet(found[l]))
      BY <2>1, <2>4
    <3>2. ToSet(found[m]) = ToSet(found[l])
      BY <2>1, <2>2, <3>1
    <3>3. QED  BY <2>1, <3>2
  <2>5. items = {F[m] : m \in 1..n} /\ F \in [1..n -> items] /\ \A y \in items : \E m \in 1..n : F[m] = y
    BY <2>1
  <2> HIDE DEF items, F
  <2>6. F \in Bijection(1..n, items)
    BY <2>4, <2>5 DEF Bijection, Injection, Surjection, IsInjective
  <2>7. IsFiniteSet(1..n) /\ Cardinality(1..n) = n
    <3>1. n \in Nat
      BY <2>1
    <3>2. 1 \in Int /\ n \in Int
      BY <3>1
    <3>3. IsFiniteSet(1..n) /\ Cardinality(1..n) = IF 1 > n THEN 0 ELSE n - 1 + 1
      BY <3>2, FS_Interval
    <3>4. QED  BY <3>1, <3>3
  <2>8. n = Cardinality(items)
    BY <2>6, <2>7, FS_Bijection DEF ExistsBijection
  <2>9. items \subseteq Solutions
    BY <2>3, <2>5
  <2>10. QED  BY <2>8, <2>9 DEF ItemsAreSolutions, items, n
<1>3. QED  BY <1>1, <1>2

\* When nothing is pending and no root is left, all has been found.
LEMMA AllKplexesOnce ==
  ASSUME Inv, KplexFound, task.kind = "d2kplex", task.n < 256,
         task.k <= 2 \/ 2 * task.k <= task.q + 2
  PROVE  EachSolutionOnce
<1> DEFINE items == {Input(found[m]) : m \in DOMAIN found}
<1> SUFFICES ASSUME Finished PROVE items = Solutions /\ Len(found) = Cardinality(Solutions)
  BY DEF EachSolutionOnce
<1>1. items \subseteq Solutions /\ Len(found) = Cardinality(items)
  BY ItemsSound DEF ItemsAreSolutions
<1> DEFINE s == system
           V == ToSet(visited)
<1>2. system # <<>> /\ ~ running
  BY DEF Finished
<1>3. i = size(s.g) /\ calls = <<>>
  BY <1>2 DEF KplexFound, Sharing
<1>4. /\ KplexSystem(s) /\ Shares(s, Pending(calls), V, i)
      /\ DOMAIN found = 1..Len(found)
      /\ \A m \in 1..Len(found) : Input(found[m]) = Named(ToSet(found[m]))
      /\ \A v \in V :
           IsReallyMaximal(s, v) => \E m \in 1..Len(found) : ToSet(found[m]) = Low(v)
  BY <1>2, ItemsNamed
<1>5. /\ \A C : C \subseteq DOMAIN s.g => (Wanted(s, C) <=> Named(C) \in Solutions)
      /\ \A S \in Solutions : \E C \in SUBSET DOMAIN s.g : Named(C) = S
  BY <1>2, WantedNamed
<1>6. Enough(s)
  BY <1>2, KplexFacts DEF Enough
<1>7. size(s.g) \in Nat /\ DOMAIN s.g = 0..(size(s.g) - 1)
  BY <1>2, KplexFacts
<1>8. Pending(calls) = {}
  BY <1>3 DEF Pending
<1> HIDE DEF s, V
<1>9. \A T : Wanted(s, T) /\ (\E a \in T : a < i) =>
        \E v \in V : IsReallyMaximal(s, v) /\ Low(v) = T
  BY <1>4, <1>6, <1>8 DEF Shares
<1>10. ASSUME NEW S \in Solutions PROVE S \in items
  <2>1. PICK C \in SUBSET DOMAIN s.g : Named(C) = S
    BY <1>5
  <2>2. Wanted(s, C)
    BY <1>5, <2>1
  <2>3. \E a \in C : a < i
    <3>1. C # {} /\ C \subseteq 0..(size(s.g) - 1)
      BY <1>7, <2>1, <2>2 DEF Wanted
    <3>2. QED  BY <1>3, <1>7, <3>1
  <2>4. PICK v \in V : IsReallyMaximal(s, v) /\ Low(v) = C
    BY <1>9, <2>2, <2>3
  <2>5. PICK m \in 1..Len(found) : ToSet(found[m]) = C
    BY <1>4, <2>4
  <2>6. QED  BY <1>4, <2>1, <2>5
<1> HIDE DEF items
<1>11. items = Solutions
  BY <1>1, <1>10
<1>12. QED  BY <1>1, <1>11
-----------------------------------------------------------------------
(* Nodes as an array *)

\* What SerializeNodes writes, DeserializeNodes reads.
Arrive(s, objects) ==
  DeserializeNodes(s, SerializeNodes(s, objects)) = [out |-> objects, in |-> <<>>]

LEMMA CliquesTravel ==
  ASSUME NEW s, s.kind = "clique", SimpleGraph(s.g), NEW given \in Seq(CliqueNode(s.g)),
         NEW objects, objects = [m \in DOMAIN given |-> Object(s, given[m])]
  PROVE  Arrive(s, objects)
<1> DEFINE Des == DeserializePair(DeserializeInts, DeserializeInt)
           Part(o) == SerializePair(SerializeInts(o[1]), SerializeInt(o[2]))
           part == [m \in DOMAIN objects |-> Part(objects[m])]
           T == {objects[m] : m \in DOMAIN objects}
           l == Len(given)
<1>1. l \in Nat /\ DOMAIN given = 1..l /\ \A m \in DOMAIN given : given[m] \in CliqueNode(s.g)
  <2> DEFINE N == CliqueNode(s.g)
  <2>1. given \in Seq(N)
    OBVIOUS
  <2> HIDE DEF N
  <2>2. l \in Nat /\ DOMAIN given = 1..l /\ \A m \in 1..l : given[m] \in N
    BY <2>1, SeqFacts
  <2>3. QED  BY <2>2 DEF N
<1>2. DOMAIN objects = 1..l
  BY <1>1
<1>3. ASSUME NEW m \in DOMAIN objects
      PROVE  Reads(Des, Part(objects[m]), objects[m])
  <2>1. given[m] \in CliqueNode(s.g) /\ objects[m] = <<given[m].clique, given[m].cand>>
    BY <1>1, <1>2, <1>3 DEF Object
  <2>2. QED  BY <2>1, CliqueNodeReads
<1>4. SerializeNodes(s, objects) = SerializeVector(part)
  BY DEF SerializeNodes
<1>5. \A a : DeserializeNodes(s, a) = DeserializeVector(Des)[a]
  BY DEF DeserializeNodes
<1> HIDE DEF l, Des, Part
<1>6. objects \in Seq(T)
  <2>1. objects \in [1..l -> T]
    <3>1. objects = [m \in 1..l |-> objects[m]] /\ \A m \in 1..l : objects[m] \in T
      BY <1>2
    <3> HIDE DEF T
    <3>2. QED  BY <3>1
  <2> HIDE DEF T
  <2>2. ListOf(objects, T, l)
    BY <1>1, <2>1, FunctionIsSeq
  <2>3. QED  BY <2>2 DEF ListOf
<1>7. part = [m \in DOMAIN objects |-> part[m]]
      /\ \A m \in DOMAIN objects : Reads(Des, part[m], objects[m])
  BY <1>3
<1> HIDE DEF T, part
<1>8. ReadWhole(Des, part, objects)
  BY <1>6, <1>7, AllRead
<1>9. QED  BY <1>4, <1>5, <1>8 DEF Arrive, ReadWhole

LEMMA KplexesTravel ==
  ASSUME NEW s, s.kind = "d2kplex", KplexSystem(s), NEW given \in Seq(KplexTypes(s)),
         NEW objects, objects = [m \in DOMAIN given |-> Object(s, given[m])]
  PROVE  Arrive(s, objects)
<1> DEFINE Des == KplexDeserialize(s)
           part == [m \in DOMAIN objects |-> KplexSerialize(objects[m])]
           T == {objects[m] : m \in DOMAIN objects}
           l == Len(given)
<1>1. l \in Nat /\ DOMAIN given = 1..l /\ \A m \in DOMAIN given : given[m] \in KplexTypes(s)
  <2> DEFINE N == KplexTypes(s)
  <2>1. given \in Seq(N)
    OBVIOUS
  <2> HIDE DEF N
  <2>2. l \in Nat /\ DOMAIN given = 1..l /\ \A m \in 1..l : given[m] \in N
    BY <2>1, SeqFacts
  <2>3. QED  BY <2>2 DEF N
<1>2. DOMAIN objects = 1..l
  BY <1>1
<1>3. ASSUME NEW m \in DOMAIN objects
      PROVE  Reads(Des, KplexSerialize(objects[m]), objects[m])
  <2>1. given[m] \in KplexTypes(s) /\ objects[m] = KplexObject(s, given[m])
    BY <1>1, <1>2, <1>3 DEF Object
  <2>2. QED  BY <2>1, KplexNodeReads
<1>4. SerializeNodes(s, objects) = SerializeVector(part)
  BY DEF SerializeNodes
<1>5. \A a : DeserializeNodes(s, a) = DeserializeVector(Des)[a]
  BY DEF DeserializeNodes
<1> HIDE DEF l, Des
<1>6. objects \in Seq(T)
  <2>1. objects \in [1..l -> T]
    <3>1. objects = [m \in 1..l |-> objects[m]] /\ \A m \in 1..l : objects[m] \in T
      BY <1>2
    <3> HIDE DEF T
    <3>2. QED  BY <3>1
  <2> HIDE DEF T
  <2>2. ListOf(objects, T, l)
    BY <1>1, <2>1, FunctionIsSeq
  <2>3. QED  BY <2>2 DEF ListOf
<1>7. part = [m \in DOMAIN objects |-> part[m]]
      /\ \A m \in DOMAIN objects : Reads(Des, part[m], objects[m])
  BY <1>3
<1> HIDE DEF T, part
<1>8. ReadWhole(Des, part, objects)
  BY <1>6, <1>7, AllRead
<1>9. QED  BY <1>4, <1>5, <1>8 DEF Arrive, ReadWhole

\* The nodes on the stack, and the node that the recursion is at.
LEMMA GivenNodesTravel ==
  ASSUME Inv, task.kind # "commutable"
  PROVE  NodesTravel
<1> SUFFICES ASSUME system # <<>> PROVE NodesTravel
  BY DEF NodesTravel
<1> DEFINE given == IF CanUseRecursion(system) /\ visited # <<>>
                    THEN <<Last(visited)>> ELSE nodes
           objects == [m \in DOMAIN given |-> Object(system, given[m])]
<1>1. task.kind = "clique" \/ task.kind = "d2kplex"
  BY TasksAssumption DEF Inv
<1>2. CASE task.kind = "clique"
  <2>1. /\ system.kind = "clique" /\ SimpleGraph(system.g) /\ ~ CanUseRecursion(system)
        /\ nodes \in Seq(CliqueNode(system.g))
    BY <1>2, SearchFacts DEF Visiting
  <2>2. given = nodes
    BY <2>1
  <2>3. given \in Seq(CliqueNode(system.g))
    BY <2>1, <2>2
  <2> HIDE DEF given
  <2>4. Arrive(system, objects)
    BY <2>1, <2>3, CliquesTravel
  <2>5. QED  BY <2>4 DEF NodesTravel, Arrive, given
<1>3. CASE task.kind = "d2kplex"
  <2>1. system.kind = "d2kplex" /\ KplexSystem(system) /\ nodes = <<>>
    BY <1>3, KplexFacts
  <2>2. given \in Seq(KplexTypes(system))
    <3>1. CASE visited = <<>>
      BY <2>1, <3>1
    <3>2. CASE visited # <<>>
      <4>1. Last(visited) \in KplexTypes(system)
        BY <1>3, <3>2, LastNodeFacts DEF KplexNodes
      <4> DEFINE N == KplexTypes(system)
                 x == Last(visited)
      <4>2. given = <<x>> \/ given = <<>>
        BY <2>1
      <4>3. x \in N
        BY <4>1
      <4> HIDE DEF N, x, given
      <4>4. given \in Seq(N)
        <5>1. <<x>> \in Seq(N) /\ <<>> \in Seq(N)
          BY <4>3
        <5>2. QED  BY <4>2, <5>1
      <4>5. QED  BY <4>4 DEF N
    <3>3. QED  BY <3>1, <3>2
  <2> HIDE DEF given
  <2>4. Arrive(system, objects)
    BY <2>1, <2>2, KplexesTravel
  <2>5. QED  BY <2>4 DEF NodesTravel, Arrive, given
<1>4. QED  BY <1>1, <1>2, <1>3
-----------------------------------------------------------------------
(* Theorems *)

\* Whatever the file, and whatever the order in which the vertices are taken:
\* the search for maximal cliques visits no node twice.
THEOREM NoCliqueNodeTwice == Spec => [](task.kind = "clique" => NodesFormForest)
<1>1. Init => Inv
  BY InitHolds
<1>2. Inv /\ [Next]_vars => Inv'
  BY StepKeeps
<1>3. Inv => (task.kind = "clique" => NodesFormForest)
  BY NoNodeTwice
<1>4. QED  BY <1>1, <1>2, <1>3, PTL DEF Spec

\* When it ends, each maximal clique of the graph in the file has been given to
\* the callback, each once, and nothing else has.
THEOREM EachMaximalCliqueOnce == Spec => [](task.kind = "clique" => EachSolutionOnce)
<1>1. Init => Inv
  BY InitHolds
<1>2. Inv /\ [Next]_vars => Inv'
  BY StepKeeps
<1>3. Inv => (task.kind = "clique" => EachSolutionOnce)
  BY EachOnce
<1>4. QED  BY <1>1, <1>2, <1>3, PTL DEF Spec

\* The buckets, positions and degrees agree with the graph between any two
\* turns of the loops of DegeneracyOrder, the search for a bucket stays within
\* d, and each vertex taken had the least degree of those left.
THEOREM BucketsAlwaysAgree == Spec => []BucketsAgree
<1>1. Init => Inv
  BY InitHolds
<1>2. Inv /\ [Next]_vars => Inv'
  BY StepKeeps
<1>3. Inv => BucketsAgree
  BY SearchEndsHolds DEF Inv, OrderInv, BucketsAgree, SearchEnds
<1>4. QED  BY <1>1, <1>2, <1>3, PTL DEF Spec

\* The order returned names each vertex once, so that Permute can use it.
IsPermutation == Ordered => IsInjective(perm) /\ ToSet(perm) = DOMAIN graph

\* The degeneracy order is a permutation of the vertices.
THEOREM OrderIsPermutation == Spec => []IsPermutation
<1>1. Init => Inv
  BY InitHolds
<1>2. Inv /\ [Next]_vars => Inv'
  BY StepKeeps
<1>3. Inv => IsPermutation
  BY OrderNamesAll DEF Inv, IsPermutation
<1>4. QED  BY <1>1, <1>2, <1>3, PTL DEF Spec

\* Whatever the file, k and q, with and without pivots: the recursion of the
\* search for k-plexes is called with no node twice.
THEOREM NoKplexNodeTwice == Spec => [](task.kind = "d2kplex" => NodesFormForest)
<1>1. Init => Inv
  BY InitHolds
<1>2. Inv /\ [Next]_vars => Inv'
  BY StepKeeps
<1>3. Inv => (task.kind = "d2kplex" => NodesFormForest)
  BY KplexNoNodeTwice
<1>4. QED  BY <1>1, <1>2, <1>3, PTL DEF Spec

\* In a graph whose vertices a one-byte counter can count: the counters, the
\* non-neighbours, the candidates and the excluded vertices of each node of the
\* search for k-plexes are what the edges in the file say they should be.
THEOREM KplexNodesSound == Spec => [](task.n < 256 => KplexNodeSound)
<1>1. Init => Inv
  BY InitHolds
<1>2. Inv /\ [Next]_vars => Inv'
  BY StepKeeps
<1>3. Inv => (task.n < 256 => KplexNodeSound)
  BY LastNodeSound
<1>4. QED  BY <1>1, <1>2, <1>3, PTL DEF Spec

\* Whatever the cliques or k-plexes searched for: the nodes a worker would give
\* away, on its stack or where its recursion is, are read as they were written,
\* and nothing is left of the array.
THEOREM NodesArrive == Spec => [](task.kind # "commutable" => NodesTravel)
<1>1. Init => Inv
  BY InitHolds
<1>2. Inv /\ [Next]_vars => Inv'
  BY StepKeeps
<1>3. Inv => (task.kind # "commutable" => NodesTravel)
  BY GivenNodesTravel
<1>4. QED  BY <1>1, <1>2, <1>3, PTL DEF Spec

\* For files of fewer than 256 vertices, any k and q, with the pivots or without:
\* whatever the search for k-plexes gives to the callback (Diam2KplexEnumeration,
\* IsReallyMaximal) is a maximal k-plex of diameter 2 of at least q vertices of
\* the graph in the file, and it is given once.
THEOREM KplexItemsAreSolutions ==
  Spec => [](task.kind = "d2kplex" /\ task.n < 256 => ItemsAreSolutions)
<1>1. Init => KplexFound
  BY DEF Init, Enumerator!Init, KplexFound
<1>2. Inv /\ KplexFound => (task.kind = "d2kplex" /\ task.n < 256 => ItemsAreSolutions)
  BY ItemsSound
<1>3. QED  BY <1>1, <1>2, InitHolds, StepKeeps, FoundKeeps, PTL DEF Spec

\* With k of 1 or 2, or a q so large that every k-plex of more than q vertices has
\* diameter 2, none is left out either: neither by the pivots, the pruning, the
\* vertices that are excluded or the choice of the subgraph, nor by the last test
\* of IsSolution.  (NothingMissing fails for k = 3 and q = 2, see SmallQ.)
THEOREM EachMaximalKplexOnce ==
  Spec => [](task.kind = "d2kplex" /\ task.n < 256
               /\ (task.k <= 2 \/ 2 * task.k <= task.q + 2) => EachSolutionOnce)
<1>1. Init => KplexFound
  BY DEF Init, Enumerator!Init, KplexFound
<1>2. Inv /\ KplexFound =>
        (task.kind = "d2kplex" /\ task.n < 256
           /\ (task.k <= 2 \/ 2 * task.k <= task.q + 2) => EachSolutionOnce)
  BY AllKplexesOnce
<1>3. QED  BY <1>1, <1>2, InitHolds, StepKeeps, FoundKeeps, PTL DEF Spec
=======================================================================
