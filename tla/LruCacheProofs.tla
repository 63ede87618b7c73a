--------------------------- MODULE LruCacheProofs ---------------------------
(***************************************************************************)
(* Theorems about LruCache, for every number of blocks: the usage list     *)
(* never loses a block, no two blocks share a data area, the cache is the  *)
(* least-recently-used map lru_cache.h promises, and the loops of          *)
(* lru_cache.c compute what the store says of them.  The inductive         *)
(* invariant is CacheOK of LruStoreProofs, kept by each operation; that a  *)
(* list described by its times is the one the next pointers lead through   *)
(* is shown by following it: no block is met twice, so that it ends at the *)
(* tail after as many steps as there are blocks.                           *)
(***************************************************************************)
EXTENDS LruLoops, LruStoreProofs, WellFoundedInduction, SequenceTheorems

-----------------------------------------------------------------------------
(* Induction: a property of every number, as the set of those that have it. *)

\* A nonempty set of natural numbers has a smallest one.
LEMMA NatMin ==
  ASSUME NEW T, T \subseteq Nat, T # {}
  PROVE  \E x \in T : \A y \in T : x <= y
<1> DEFINE Less == {p \in Nat \X Nat : p[1] < p[2]}
<1>1. OpToRel(<, Nat) = Less
  BY DEF OpToRel
<1>2. PICK x \in T : \A y \in T : ~ (<<y, x>> \in Less)
  <2>1. IsWellFoundedOn(Less, Nat)
    BY <1>1, NatLessThanWellFounded
  <2> HIDE DEF Less
  <2> QED BY <2>1, WFMin
<1>3. ASSUME NEW y \in T
      PROVE  x <= y
  <2>1. x \in Nat /\ y \in Nat /\ <<y, x>> \in Nat \X Nat
    OBVIOUS
  <2> QED BY <1>2, <2>1
<1> QED BY <1>3

\* A set of numbers that holds 0 and the successor of each of its elements is all.
LEMMA NatInduct ==
  ASSUME NEW T, 0 \in T, \A n \in Nat : n \in T => n + 1 \in T
  PROVE  \A n \in Nat : n \in T
<1> DEFINE Others == {n \in Nat : n \notin T}
<1>1. SUFFICES ASSUME Others # {}
               PROVE  FALSE
  OBVIOUS
<1>2. PICK x \in Others : \A y \in Others : x <= y
  BY <1>1, NatMin
<1>3. x - 1 \in Nat /\ x - 1 \notin Others
  BY <1>2
<1> QED
  BY <1>2, <1>3

-----------------------------------------------------------------------------

Stored == Values \cup {NoValue}

IInv == CacheOK(cache, Stored)

-----------------------------------------------------------------------------
(* Following a list. *)

\* a follows the next pointers of the array f from h for n blocks.
Follows(a, n, h, f) ==
  a = [k \in 1..n |-> IF k = 1 \/ a[k - 1] = Null THEN h ELSE f[a[k - 1]].next]

\* The first m blocks met are the m used last, and the tail is not among those before them.
Covers(a, m, U, l, t) ==
  /\ \A k \in 1..m : a[k] \in U
  /\ \A k \in 2..m : a[k - 1] # l
  /\ \A j, k \in 1..m : j < k => t[a[k]] < t[a[j]]
  /\ \A j \in U : t[a[m]] <= t[j] => \E k \in 1..m : a[k] = j

\* A block that has fewer than all blocks before it, and is the last of them, is not the tail.
LEMMA NotYetAtTail ==
  ASSUME NEW U, NEW h, NEW l, NEW nx, NEW pv, NEW t, Chain(U, h, l, nx, pv, t),
         NEW m \in Nat \ {0}, NEW a \in [1..m -> U], Covers(a, m, U, l, t),
         IsFiniteSet(U), m < Cardinality(U)
  PROVE  a[m] # l
<1>1. SUFFICES ASSUME a[m] = l
               PROVE  FALSE
  OBVIOUS
<1>2. \A j \in U : t[l] <= t[j]
  BY DEF Chain, Times
<1>3. a \in Surjection(1..m, U)
  BY <1>1, <1>2 DEF Covers, Surjection
<1>4. IsFiniteSet(1..m) /\ Cardinality(1..m) = m
  BY FS_Interval
<1>5. Cardinality(U) <= Cardinality(1..m)
  BY <1>3, <1>4, FS_Surjection
<1>6. Cardinality(U) \in Nat
  BY FS_CardinalityType
<1> QED
  BY <1>4, <1>5, <1>6

\* The list can be followed to any length up to the number of its blocks.
LEMMA CanFollow ==
  ASSUME NEW U, NEW h, NEW l, NEW nx, NEW pv, NEW t, Chain(U, h, l, nx, pv, t),
         NEW f, \A i \in U : f[i].next = nx[i],
         IsFiniteSet(U), NEW n \in Nat \ {0}, n <= Cardinality(U)
  PROVE  \E a \in [1..n -> U] : Follows(a, n, h, f) /\ Covers(a, n, U, l, t)
<1> DEFINE Good(m) == \E a \in [1..m -> U] : Follows(a, m, h, f) /\ Covers(a, m, U, l, t)
           T == {m \in Nat : m + 1 <= Cardinality(U) => Good(m + 1)}
<1>0. /\ h \in U /\ l \in U /\ U \subseteq Index /\ Null \notin U
      /\ \A i \in U : t[i] \in Int
      /\ \A i \in U : t[i] <= t[h]
      /\ \A i, j \in U : t[i] = t[j] => i = j
      /\ \A i \in U \ {l} : nx[i] \in U /\ pv[nx[i]] = i /\ t[nx[i]] < t[i]
      /\ \A i \in U \ {h} : \A j \in U : t[j] <= t[i] \/ t[pv[i]] <= t[j]
      /\ Cardinality(U) \in Nat
  <2>1. Cardinality(U) \in Nat
    BY FS_CardinalityType
  <2>2. Null \notin U
    BY IndexFacts DEF Chain
  <2>3. \A i \in U : t[i] \in Int
    BY DEF Chain, Times
  <2>4. \A i \in U : t[i] <= t[h]
    BY <2>3 DEF Chain
  <2> QED
    BY <2>1, <2>2, <2>3, <2>4 DEF Chain
<1>1. 0 \in T
  <2> DEFINE a == [k \in 1..1 |-> h]
  <2>1. a \in [1..1 -> U] /\ a[1] = h
    BY <1>0
  <2>2. Follows(a, 1, h, f)
    BY DEF Follows
  <2> HIDE DEF a
  <2>3. Covers(a, 1, U, l, t)
    <3>1. 1..1 = {1} /\ 2..1 = {}
      OBVIOUS
    <3>2. ASSUME NEW j \in U, t[a[1]] <= t[j]
          PROVE  a[1] = j
      BY <1>0, <2>1, <3>2
    <3> QED
      BY <1>0, <2>1, <3>1, <3>2 DEF Covers
  <2>4. Good(1)
    BY <2>1, <2>2, <2>3
  <2> HIDE DEF Good
  <2> QED
    BY <2>4
<1>2. ASSUME NEW m \in Nat, m \in T
      PROVE  m + 1 \in T
  <2> DEFINE q == m + 1
  <2>1. SUFFICES ASSUME q + 1 <= Cardinality(U)
                 PROVE  Good(q + 1)
    OBVIOUS
  <2>2. q \in Nat \ {0} /\ q < Cardinality(U)
    BY <1>0, <2>1
  <2>3. Good(q)
    <3> HIDE DEF Good
    <3> QED
      BY <1>0, <1>2, <2>2
  <2> HIDE DEF q
  <2>4. PICK a \in [1..q -> U] : Follows(a, q, h, f) /\ Covers(a, q, U, l, t)
    BY <2>3
  <2>5. a[q] # l /\ a[q] \in U
    BY <2>2, <2>4, NotYetAtTail
  <2> DEFINE x == nx[a[q]]
             b == [k \in 1..(q + 1) |-> IF k = q + 1 THEN x ELSE a[k]]
  <2>6. x \in U /\ pv[x] = a[q] /\ t[x] < t[a[q]] /\ t[x] \in Int /\ t[a[q]] \in Int
    BY <1>0, <2>5
  <2>7. /\ b \in [1..(q + 1) -> U] /\ b[q + 1] = x
        /\ \A k \in 1..q : b[k] = a[k]
    BY <2>2, <2>6
  <2> HIDE DEF b, x
  <2>8. Follows(b, q + 1, h, f)
    <3>1. ASSUME NEW k \in 1..(q + 1)
          PROVE  b[k] = IF k = 1 \/ b[k - 1] = Null THEN h ELSE f[b[k - 1]].next
      <4>1. CASE k = q + 1
        <5>1. k # 1 /\ k - 1 = q /\ q \in 1..q
          BY <2>2, <4>1
        <5>2. b[k - 1] = a[q] /\ a[q] # Null
          BY <1>0, <2>5, <2>7, <5>1
        <5> QED
          BY <2>7, <4>1, <5>1, <5>2 DEF x
      <4>2. CASE k # q + 1
        <5>1. k \in 1..q /\ (k # 1 => k - 1 \in 1..q)
          BY <2>2, <4>2
        <5>2. a[k] = IF k = 1 \/ a[k - 1] = Null THEN h ELSE f[a[k - 1]].next
          BY <2>4, <5>1 DEF Follows
        <5> QED
          BY <2>7, <5>1, <5>2
      <4> QED
        BY <4>1, <4>2
    <3> QED
      BY <2>7, <3>1 DEF Follows
  <2>9. Covers(b, q + 1, U, l, t)
    <3>1. \A k \in 1..(q + 1) : b[k] \in U
      BY <2>7
    <3>2. ASSUME NEW k \in 2..(q + 1)
          PROVE  b[k - 1] # l
      <4>1. k - 1 \in 1..q /\ b[k - 1] = a[k - 1]
        BY <2>2, <2>7
      <4>2. CASE k = q + 1
        BY <2>2, <2>5, <4>1, <4>2
      <4>3. CASE k # q + 1
        <5>1. k \in 2..q
          BY <2>2, <4>3
        <5> QED
          BY <2>4, <4>1, <5>1 DEF Covers
      <4> QED
        BY <4>2, <4>3
    <3>3. ASSUME NEW j \in 1..(q + 1), NEW k \in 1..(q + 1), j < k
          PROVE  t[b[k]] < t[b[j]]
      <4>1. j \in 1..q /\ b[j] = a[j] /\ a[j] \in U /\ t[a[j]] \in Int
        BY <1>0, <2>2, <2>7, <3>3
      <4>2. CASE k = q + 1
        <5>1. t[a[q]] <= t[a[j]]
          <6>1. CASE j = q
            BY <2>6, <6>1
          <6>2. CASE j # q
            <7>1. j < q /\ q \in 1..q
              BY <2>2, <4>1, <6>2
            <7>2. t[a[q]] < t[a[j]]
              BY <2>4, <4>1, <7>1 DEF Covers
            <7> QED
              BY <2>6, <4>1, <7>2
          <6> QED
            BY <6>1, <6>2
        <5> QED
          BY <2>6, <2>7, <4>1, <4>2, <5>1
      <4>3. CASE k # q + 1
        <5>1. k \in 1..q /\ b[k] = a[k]
          BY <2>2, <2>7, <4>3
        <5> QED
          BY <2>4, <3>3, <4>1, <5>1 DEF Covers
      <4> QED
        BY <4>2, <4>3
    <3>4. ASSUME NEW j \in U, t[b[q + 1]] <= t[j]
          PROVE  \E k \in 1..(q + 1) : b[k] = j
      <4>1. CASE j = x
        BY <2>2, <2>7, <4>1
      <4>2. CASE j # x
        <5>1. t[j] \in Int /\ ~ (t[j] <= t[x])
          BY <1>0, <2>6, <2>7, <3>4, <4>2
        <5>2. x # h
          BY <1>0, <5>1
        <5>3. t[a[q]] <= t[j]
          BY <1>0, <2>6, <5>1, <5>2
        <5>4. PICK k \in 1..q : a[k] = j
          BY <2>4, <5>3 DEF Covers
        <5> QED
          BY <2>2, <2>7, <5>4
      <4> QED
        BY <4>1, <4>2
    <3> QED
      BY <3>1, <3>2, <3>3, <3>4 DEF Covers
  <2> QED
    BY <2>7, <2>8, <2>9
<1> HIDE DEF T
<1>3. \A m \in Nat : m \in T
  BY <1>1, <1>2, NatInduct
<1>4. n - 1 \in Nat /\ (n - 1) + 1 = n
  OBVIOUS
<1>5. n - 1 \in T
  BY <1>3, <1>4
<1> QED
  BY <1>4, <1>5 DEF T

\* There is one way to follow a list.
LEMMA OneWay ==
  ASSUME NEW n \in Nat, NEW h, NEW f, NEW a, NEW b, Follows(a, n, h, f), Follows(b, n, h, f)
  PROVE  a = b
<1> DEFINE T == {m \in Nat : m + 1 <= n => a[m + 1] = b[m + 1]}
<1>1. \A k \in 1..n : /\ a[k] = IF k = 1 \/ a[k - 1] = Null THEN h ELSE f[a[k - 1]].next
                      /\ b[k] = IF k = 1 \/ b[k - 1] = Null THEN h ELSE f[b[k - 1]].next
  BY DEF Follows
<1>2. 0 \in T
  BY <1>1
<1>3. ASSUME NEW m \in Nat, m \in T
      PROVE  m + 1 \in T
  <2>1. SUFFICES ASSUME (m + 1) + 1 <= n
                 PROVE  a[(m + 1) + 1] = b[(m + 1) + 1]
    OBVIOUS
  <2>2. (m + 1) + 1 \in 1..n /\ (m + 1) + 1 # 1 /\ ((m + 1) + 1) - 1 = m + 1 /\ m + 1 <= n
    BY <2>1
  <2>3. a[m + 1] = b[m + 1]
    BY <1>3, <2>2
  <2> QED
    BY <1>1, <2>2, <2>3
<1> HIDE DEF T
<1>4. \A m \in Nat : m \in T
  BY <1>2, <1>3, NatInduct
<1>5. \A k \in 1..n : a[k] = b[k]
  <2>1. ASSUME NEW k \in 1..n
        PROVE  a[k] = b[k]
    <3>1. k - 1 \in Nat /\ (k - 1) + 1 = k /\ k - 1 \in T
      BY <1>4
    <3> QED
      BY <3>1 DEF T
  <2> QED
    BY <2>1
<1>6. DOMAIN a = 1..n /\ DOMAIN b = 1..n /\ a = [k \in 1..n |-> a[k]] /\ b = [k \in 1..n |-> b[k]]
  <2>1. \E g : a = [k \in 1..n |-> g[k]]
    <3> DEFINE g == [k \in 1..n |-> IF k = 1 \/ a[k - 1] = Null THEN h ELSE f[a[k - 1]].next]
    <3>1. a = g
      BY DEF Follows
    <3> QED
      BY <3>1
  <2>2. \E g : b = [k \in 1..n |-> g[k]]
    <3> DEFINE g == [k \in 1..n |-> IF k = 1 \/ b[k - 1] = Null THEN h ELSE f[b[k - 1]].next]
    <3>1. b = g
      BY DEF Follows
    <3> QED
      BY <3>1
  <2> QED
    BY <2>1, <2>2
<1> QED
  BY <1>5, <1>6

\* The whole list, once followed.
LEMMA WholeList ==
  ASSUME NEW U, NEW h, NEW l, NEW nx, NEW pv, NEW t, Chain(U, h, l, nx, pv, t),
         NEW f, \A i \in U : f[i].next = nx[i],
         IsFiniteSet(U), NEW n \in Nat \ {0}, n = Cardinality(U),
         NEW a, Follows(a, n, h, f)
  PROVE  /\ a \in [1..n -> U] /\ {a[k] : k \in 1..n} = U
         /\ \A j, k \in 1..n : a[j] = a[k] => j = k
         /\ a[1] = h /\ a[n] = l
         /\ \A k \in 2..n : a[k] = nx[a[k - 1]] /\ pv[a[k]] = a[k - 1]
<1>1. PICK b \in [1..n -> U] : Follows(b, n, h, f) /\ Covers(b, n, U, l, t)
  BY CanFollow
<1>2. a = b
  BY <1>1, OneWay
<1>3. a \in [1..n -> U] /\ Covers(a, n, U, l, t)
  BY <1>1, <1>2
<1>4. \A k \in 1..n : a[k] = IF k = 1 \/ a[k - 1] = Null THEN h ELSE f[a[k - 1]].next
  BY DEF Follows
<1>5. \A i \in U : t[i] \in Int
  BY DEF Chain, Times
<1>6. \A j, k \in 1..n : a[j] = a[k] => j = k
  <2>1. ASSUME NEW j \in 1..n, NEW k \in 1..n, j < k
        PROVE  a[j] # a[k]
    <3>1. t[a[k]] < t[a[j]] /\ t[a[k]] \in Int
      BY <1>3, <1>5, <2>1 DEF Covers
    <3> QED
      BY <3>1
  <2>2. \A j, k \in 1..n : j < k \/ k < j \/ j = k
    OBVIOUS
  <2> QED
    BY <2>1, <2>2
<1>7. a \in Surjection(1..n, U)
  <2>1. a \in Injection(1..n, U)
    BY <1>3, <1>6 DEF Injection, IsInjective
  <2>2. Cardinality(1..n) = n
    BY FS_Interval
  <2> QED
    BY <2>1, <2>2, FS_Injection
<1>8. {a[k] : k \in 1..n} = U
  BY <1>3, <1>7 DEF Surjection
<1>9. a[1] = h
  BY <1>4
<1>10. a[n] = l
  <2>1. PICK k \in 1..n : a[k] = l
    BY <1>8 DEF Chain
  <2>2. CASE k = n
    BY <2>1, <2>2
  <2>3. CASE k # n
    <3>1. k + 1 \in 2..n /\ (k + 1) - 1 = k
      BY <2>3
    <3> QED
      BY <1>3, <2>1, <3>1 DEF Covers
  <2> QED
    BY <2>2, <2>3
<1>11. ASSUME NEW k \in 2..n
       PROVE  a[k] = nx[a[k - 1]] /\ pv[a[k]] = a[k - 1]
  <2>1. k \in 1..n /\ k - 1 \in 1..n /\ k # 1
    OBVIOUS
  <2>2. a[k - 1] \in U /\ a[k - 1] # l /\ a[k - 1] # Null
    BY <1>3, <2>1, IndexFacts DEF Covers, Chain
  <2>3. a[k] = nx[a[k - 1]]
    BY <1>4, <2>1, <2>2
  <2> QED
    BY <2>2, <2>3 DEF Chain
<1> QED
  BY <1>3, <1>6, <1>8, <1>9, <1>10, <1>11

-----------------------------------------------------------------------------
(* The usage list of a cache. *)

\* a names the used blocks, each once, in the order of the links.
IsList(a, c) ==
  /\ a \in [1..c.cur -> Used(c)]
  /\ {a[k] : k \in 1..c.cur} = Used(c)
  /\ \A j, k \in 1..c.cur : a[j] = a[k] => j = k
  /\ c.cur > 0 => a[1] = c.head /\ a[c.cur] = c.tail
  /\ \A k \in 2..c.cur :
       c.blocks[a[k - 1]].next = a[k] /\ c.blocks[a[k]].previous = a[k - 1]

\* Nothing lies beyond the ends of the list.
LEMMA Ends ==
  ASSUME NEW V, NEW c, CacheOK(c, V)
  PROVE  /\ c.cur = 0 => c.head = Null /\ c.tail = Null
         /\ c.cur > 0 => /\ c.head \in Used(c) /\ c.tail \in Used(c)
                        /\ c.blocks[c.head].previous = Null /\ c.blocks[c.tail].next = Null
<1>1. c \in Caches(V) /\ Threaded(c) /\ c.cur \in Nat /\ Used(c) \subseteq Index
  BY CacheFacts DEF CacheOK
<1>2. CASE c.cur = 0
  BY <1>1, <1>2 DEF Threaded
<1>3. CASE c.cur # 0
  <2>1. PICK t : Chain(Used(c), c.head, c.tail, Nexts(c), Previouses(c), t)
    BY <1>1, <1>3 DEF Threaded
  <2>2. /\ c.head \in Used(c) /\ c.tail \in Used(c)
        /\ Nexts(c)[c.tail] = Null /\ Previouses(c)[c.head] = Null
    BY <2>1 DEF Chain
  <2> QED
    BY <1>1, <1>3, <2>2 DEF Nexts, Previouses
<1> QED
  BY <1>2, <1>3

\* Followed from its head, the usage list of a well formed cache is a list of its blocks.
LEMMA TheList ==
  ASSUME NEW V, NEW c, CacheOK(c, V)
  PROVE  IsList(UsageOrder(c), c)
<1> DEFINE n == c.cur
           at == UsageOrder(c)
           U == Used(c)
<1>1. /\ c \in Caches(V) /\ Threaded(c) /\ n \in Nat /\ U \subseteq Index /\ U = 0..(n - 1)
  BY CacheFacts DEF CacheOK, Used
<1>2. CASE n = 0
  <2> DEFINE none == [k \in 1..n |-> Null]
  <2>1. 1..n = {} /\ U = {} /\ 2..n = {}
    BY <1>1, <1>2
  <2>2. at = CHOOSE a : Follows(a, n, c.head, c.blocks)
    BY DEF UsageOrder, Follows
  <2>3. Follows(none, n, c.head, c.blocks)
    BY <2>1 DEF Follows
  <2>4. Follows(at, n, c.head, c.blocks)
    BY <2>2, <2>3
  <2>5. at \in [1..n -> U]
    BY <2>1, <2>4 DEF Follows
  <2> HIDE DEF at, none
  <2> QED
    BY <1>2, <2>1, <2>5 DEF IsList, at
<1>3. CASE n # 0
  <2> DEFINE nx == Nexts(c)
             pv == Previouses(c)
             f == c.blocks
             h == c.head
             l == c.tail
  <2>1. PICK t : Chain(U, h, l, nx, pv, t)
    BY <1>1, <1>3 DEF Threaded
  <2>2. IsFiniteSet(U) /\ Cardinality(U) = n
    BY <1>1, FS_Interval
  <2>3. \A i \in U : f[i].next = nx[i] /\ f[i].previous = pv[i]
    BY <1>1 DEF Nexts, Previouses
  <2>4. n \in Nat \ {0} /\ n <= Cardinality(U)
    BY <1>1, <1>3, <2>2
  <2>5. at = CHOOSE a : Follows(a, n, h, f)
    BY DEF UsageOrder, Follows
  <2> HIDE DEF n, at, U, nx, pv, f, h, l
  <2>6. \E a : Follows(a, n, h, f)
    BY <2>1, <2>2, <2>3, <2>4, CanFollow
  <2>7. Follows(at, n, h, f)
    BY <2>5, <2>6
  <2>8. /\ at \in [1..n -> U] /\ {at[k] : k \in 1..n} = U
        /\ \A j, k \in 1..n : at[j] = at[k] => j = k
        /\ at[1] = h /\ at[n] = l
        /\ \A k \in 2..n : at[k] = nx[at[k - 1]] /\ pv[at[k]] = at[k - 1]
    <3>1. \A i \in U : f[i].next = nx[i]
      BY <2>3
    <3>2. IsFiniteSet(U) /\ n = Cardinality(U)
      BY <2>2
    <3> QED
      BY ONLY <2>1, <2>4, <2>7, <3>1, <3>2, WholeList
  <2>9. ASSUME NEW k \in 2..n
        PROVE  f[at[k - 1]].next = at[k] /\ f[at[k]].previous = at[k - 1]
    <3>1. at[k] \in U /\ at[k - 1] \in U
      BY <2>4, <2>8
    <3> QED
      BY <2>3, <2>8, <3>1
  <2> QED
    BY <2>8, <2>9 DEF IsList, n, at, U, f, h, l
<1> QED
  BY <1>2, <1>3

\* What is found by following the next pointers is the usage list.
LEMMA OnlyList ==
  ASSUME NEW V, NEW c \in Caches(V), NEW a \in [1..c.cur -> Used(c)],
         c.cur > 0 => a[1] = c.head,
         \A k \in 2..c.cur : c.blocks[a[k - 1]].next = a[k]
  PROVE  UsageOrder(c) = a
<1> DEFINE n == c.cur
<1>1. n \in Nat /\ Null \notin Used(c)
  BY CacheFacts, IndexFacts
<1>2. ASSUME NEW k \in 1..n
      PROVE  a[k] = IF k = 1 \/ a[k - 1] = Null THEN c.head ELSE c.blocks[a[k - 1]].next
  <2>1. CASE k = 1
    BY <1>1, <2>1
  <2>2. CASE k # 1
    <3>1. k \in 2..n /\ k - 1 \in 1..n
      BY <1>1, <2>2
    <3>2. a[k - 1] # Null
      BY <1>1, <3>1
    <3> QED
      BY <2>2, <3>1, <3>2
  <2> QED
    BY <2>1, <2>2
<1>3. Follows(a, n, c.head, c.blocks)
  BY <1>2 DEF Follows
<1>4. UsageOrder(c) = CHOOSE b : Follows(b, n, c.head, c.blocks)
  BY DEF UsageOrder, Follows
<1>5. Follows(UsageOrder(c), n, c.head, c.blocks)
  BY <1>3, <1>4
<1> QED
  BY <1>1, <1>3, <1>5, OneWay

-----------------------------------------------------------------------------
(* What AbstractLru does to a list of ids. *)

\* An id not in the list is put in front of it.
LEMMA UsedFirst ==
  ASSUME NEW n \in Nat, NEW s \in [1..n -> Nat], NEW id \in Nat, \A k \in 1..n : s[k] # id
  PROVE  Lru!UsedNow(id, s) = [k \in 1..(n + 1) |-> IF k = 1 THEN id ELSE s[k - 1]]
<1>1. s \in Seq(Nat) /\ Len(s) = n /\ DOMAIN s = 1..n
  OBVIOUS
<1>2. id \notin Lru!ToSet(s)
  BY <1>1 DEF Lru!ToSet
<1>3. Lru!UsedNow(id, s) = <<id>> \o s
  BY <1>2 DEF Lru!UsedNow, Lru!Cons
<1> DEFINE r == <<id>> \o s
           t == [k \in 1..(n + 1) |-> IF k = 1 THEN id ELSE s[k - 1]]
<1>4. r \in Seq(Nat) /\ Len(r) = n + 1 /\ \A k \in 1..(n + 1) : r[k] = IF k = 1 THEN id ELSE s[k - 1]
  BY <1>1
<1>5. r = t
  BY <1>4
<1> QED
  BY <1>3, <1>5

\* An id at place q of the list moves to its front.
LEMMA UsedAgain ==
  ASSUME NEW n \in Nat, NEW s \in [1..n -> Nat], NEW q \in 1..n,
         \A k \in 1..n : s[k] = s[q] => k = q
  PROVE  Lru!UsedNow(s[q], s) =
           [k \in 1..n |-> IF k = 1 THEN s[q] ELSE IF k <= q THEN s[k - 1] ELSE s[k]]
<1> DEFINE at == CHOOSE k \in DOMAIN s : s[k] = s[q]
<1>1. s \in Seq(Nat) /\ Len(s) = n /\ DOMAIN s = 1..n
  OBVIOUS
<1>2. s[q] \in Lru!ToSet(s)
  BY <1>1 DEF Lru!ToSet
<1>3. at = q
  BY <1>1
<1>4. Lru!UsedNow(s[q], s) = <<s[q]>> \o (SubSeq(s, 1, q - 1) \o SubSeq(s, q + 1, n))
  BY <1>1, <1>2, <1>3 DEF Lru!UsedNow, Lru!Cons, Lru!RemoveAt
<1> DEFINE a == SubSeq(s, 1, q - 1)
           b == SubSeq(s, q + 1, n)
           r == <<s[q]>> \o (a \o b)
           t == [k \in 1..n |-> IF k = 1 THEN s[q] ELSE IF k <= q THEN s[k - 1] ELSE s[k]]
<1>5. a \in Seq(Nat) /\ Len(a) = q - 1 /\ \A k \in 1..(q - 1) : a[k] = s[k]
  BY <1>1
<1>6. b \in Seq(Nat) /\ Len(b) = n - q /\ \A k \in 1..(n - q) : b[k] = s[q + k]
  BY <1>1
<1> HIDE DEF a, b
<1> DEFINE c == a \o b
<1>7. /\ c \in Seq(Nat) /\ Len(c) = n - 1
      /\ \A k \in 1..(n - 1) : c[k] = IF k < q THEN s[k] ELSE s[k + 1]
  <2>0. a \in Seq(Nat) /\ b \in Seq(Nat)
    BY <1>5, <1>6
  <2>1. /\ c \in Seq(Nat) /\ Len(c) = Len(a) + Len(b)
        /\ \A k \in 1..Len(a) + Len(b) : c[k] = IF k <= Len(a) THEN a[k] ELSE b[k - Len(a)]
    BY ONLY <2>0, ConcatProperties
  <2> HIDE DEF c
  <2>2. ASSUME NEW k \in 1..(n - 1)
        PROVE  c[k] = IF k < q THEN s[k] ELSE s[k + 1]
    <3>1. c[k] = IF k <= q - 1 THEN a[k] ELSE b[k - (q - 1)]
      BY <1>5, <1>6, <2>1
    <3>2. CASE k < q
      BY <1>5, <3>1, <3>2
    <3>3. CASE ~(k < q)
      <4>1. k - (q - 1) \in 1..(n - q) /\ q + (k - (q - 1)) = k + 1
        BY <3>3
      <4>2. b[k - (q - 1)] = s[q + (k - (q - 1))]
        BY <1>6, <4>1
      <4> QED
        BY <3>1, <3>3, <4>1, <4>2
    <3> QED
      BY <3>2, <3>3
  <2>3. Len(c) = n - 1
    BY <1>5, <1>6, <2>1
  <2> QED
    BY <2>1, <2>2, <2>3
<1> HIDE DEF c
<1>8. s[q] \in Nat
  OBVIOUS
<1>9. r = <<s[q]>> \o c
  BY DEF c
<1> HIDE DEF r
<1>10. r \in Seq(Nat) /\ Len(r) = n /\ r[1] = s[q] /\ \A k \in 2..n : r[k] = c[k - 1]
  <2> DEFINE x == s[q]
  <2>1. x \in Nat /\ r = <<x>> \o c
    BY <1>8, <1>9
  <2> HIDE DEF x
  <2>2. r \in Seq(Nat) /\ Len(r) = n /\ r[1] = x
    BY <1>7, <2>1
  <2>3. \A k \in 2..n : r[k] = c[k - 1]
    BY <1>7, <2>1
  <2> QED
    BY <2>2, <2>3 DEF x
<1>11. ASSUME NEW k \in 2..n
       PROVE  r[k] = IF k <= q THEN s[k - 1] ELSE s[k]
  <2>1. k - 1 \in 1..(n - 1) /\ (k - 1) + 1 = k /\ (k - 1 < q <=> k <= q)
    OBVIOUS
  <2> QED
    BY <1>7, <1>10, <2>1
<1>12. r = [k \in 1..n |-> r[k]]
  BY <1>10
<1>13. r = t
  <2>1. ASSUME NEW k \in 1..n
        PROVE  r[k] = t[k]
    <3>1. k = 1 \/ k \in 2..n
      OBVIOUS
    <3> QED
      BY <1>10, <1>11, <3>1
  <2>2. t = [k \in 1..n |-> t[k]]
    OBVIOUS
  <2> HIDE DEF t
  <2> QED
    BY <1>12, <2>1, <2>2
<1> QED
  BY <1>4, <1>13 DEF a, b, r

\* The list without its last id.
LEMMA FrontOf ==
  ASSUME NEW n \in Nat \ {0}, NEW s \in [1..n -> Nat]
  PROVE  Lru!Front(s) = [k \in 1..(n - 1) |-> s[k]]
<1>1. s \in Seq(Nat) /\ Len(s) = n
  OBVIOUS
<1> DEFINE r == SubSeq(s, 1, n - 1)
           t == [k \in 1..(n - 1) |-> s[k]]
<1>2. r \in Seq(Nat) /\ Len(r) = n - 1 /\ \A k \in 1..(n - 1) : r[k] = s[k]
  BY <1>1
<1>3. r = t
  BY <1>2
<1> QED
  BY <1>1, <1>3 DEF Lru!Front

-----------------------------------------------------------------------------
(* The cache. *)

\* lru_cache_put of an id that is cached.
LEMMA RefillOK ==
  ASSUME NEW V, NEW c, CacheOK(c, V), NEW id \in Nat, NEW v \in V, Found(c, id)
  PROVE  CacheOK(AfterPut(c, id, v), V)
<1> DEFINE i == IndexOf(c, id)
           d == MoveToHead(c, i)
           r == Fill(d, i, id, v)
<1>1. AfterPut(c, id, v) = r
  BY DEF AfterPut
<1>2. i \in Used(c) /\ c.blocks[i].id = id
  BY DEF Found, IndexOf
<1>3. c \in Caches(V) /\ Used(c) \subseteq Index
  BY CacheFacts DEF CacheOK
<1> HIDE DEF i
<1>4. CacheOK(d, V) /\ SameEntries(c, d) /\ d.head = i
  BY <1>2, MoveToHeadOK
<1> HIDE DEF d
<1>5. d \in Caches(V) /\ Sorted(d) /\ Owned(d) /\ Threaded(d) /\ d.blocks[i].id = id
  BY <1>2, <1>3, <1>4 DEF CacheOK, SameEntries
<1>6. /\ r \in Caches(V) /\ r.cur = d.cur /\ r.head = i /\ r.tail = d.tail
      /\ r.mem = [d.mem EXCEPT ![d.blocks[i].data] = v]
      /\ \A k \in Index : /\ r.blocks[k].id = IF k = i THEN id ELSE d.blocks[k].id
                          /\ r.blocks[k].data = d.blocks[k].data
                          /\ r.blocks[k].next = d.blocks[k].next
                          /\ r.blocks[k].previous = d.blocks[k].previous
  <2>1. d \in Caches(V) /\ i \in Index /\ id \in Nat /\ v \in V
    BY <1>2, <1>3, <1>5
  <2> QED
    BY ONLY <2>1, FillFields DEF r
<1> HIDE DEF r
<1>7. \A k \in Index : r.blocks[k].id = d.blocks[k].id
  BY <1>5, <1>6
<1>8. Used(r) = Used(d) /\ Used(d) \subseteq Index /\ r.head = d.head
  BY <1>4, <1>5, <1>6, CacheFacts DEF Used
<1>9. Sorted(r)
  BY <1>5, <1>7, <1>8 DEF Sorted
<1>10. Owned(r)
  BY <1>5, <1>6, <1>8 DEF Owned
<1>11. Nexts(r) = Nexts(d) /\ Previouses(r) = Previouses(d)
  BY <1>6 DEF Nexts, Previouses
<1>12. Threaded(r)
  BY <1>5, <1>6, <1>8, <1>11 DEF Threaded
<1> QED
  BY <1>1, <1>6, <1>9, <1>10, <1>12 DEF CacheOK

\* Ids are numbers.
LEMMA IdsAreNumbers == \A id \in Ids : id \in Nat
BY ClientAssumption DEF Ids

\* An id above the last is above all.
LEMMA AboveAll ==
  ASSUME NEW V, CacheOK(cache, V), NEW id \in Nat, Appends(id)
  PROVE  \A k \in Used(cache) : cache.blocks[k].id < id
<1>1. /\ cache.cur \in Nat /\ Used(cache) \subseteq Index /\ Sorted(cache)
      /\ Used(cache) = 0..(cache.cur - 1)
      /\ \A k \in Index : cache.blocks[k].id \in Nat
  BY CacheFacts DEF CacheOK, Used
<1>2. ASSUME NEW k \in Used(cache)
      PROVE  cache.blocks[k].id < id
  <2> DEFINE m == cache.cur - 1
  <2>1. m \in Used(cache) /\ k <= m /\ k \in Nat /\ m \in Nat /\ cache.cur > 0
    BY <1>1
  <2>2. cache.blocks[m].id < id
    BY <2>1 DEF Appends, Last
  <2> HIDE DEF m
  <2>3. k = m \/ cache.blocks[k].id < cache.blocks[m].id
    BY <1>1, <2>1 DEF Sorted
  <2>4. cache.blocks[k].id \in Nat /\ cache.blocks[m].id \in Nat
    BY <1>1, <2>1
  <2> QED
    BY <2>2, <2>3, <2>4
<1> QED
  BY <1>2

\* The cache starts well formed.
LEMMA InitIInv ==
  ASSUME Init PROVE IInv
BY EmptyCacheOK DEF Init, IInv, Stored

\* And every call leaves it so.
LEMMA StepIInv ==
  ASSUME IInv, [Next]_vars
  PROVE  IInv'
<1> USE IdsAreNumbers
<1>1. CacheOK(cache, Stored)
  BY DEF IInv
<1>2. ASSUME NEW id \in Ids, Get(id)
      PROVE  IInv'
  <2>1. CASE Found(cache, id)
    <3>1. IndexOf(cache, id) \in Used(cache)
      BY <2>1 DEF Found, IndexOf
    <3>2. cache' = MoveToHead(cache, IndexOf(cache, id))
      BY <1>2, <2>1 DEF Get, AfterGet
    <3> QED
      BY <1>1, <3>1, <3>2, MoveToHeadOK DEF IInv
  <2>2. CASE ~Found(cache, id)
    BY <1>1, <1>2, <2>2 DEF Get, AfterGet, IInv
  <2> QED
    BY <2>1, <2>2
<1>3. ASSUME NEW id \in Ids, NEW v \in Values, Put(id, v), Found(cache, id) \/ Appends(id)
      PROVE  IInv'
  <2>1. cache' = AfterPut(cache, id, v) /\ id \in Nat /\ v \in Stored
    BY <1>3 DEF Put, Stored
  <2>2. CASE Found(cache, id)
    BY <1>1, <2>1, <2>2, RefillOK DEF IInv
  <2>3. CASE Appends(id)
    <3>1. \A k \in Used(cache) : cache.blocks[k].id < id
      BY <1>1, <2>1, <2>3, AboveAll
    <3>2. CacheOK(AfterPut(cache, id, v), Stored)
      BY <1>1, <2>1, <3>1, PutOK
    <3> QED
      BY <2>1, <3>2 DEF IInv
  <2> QED
    BY <1>3, <2>2, <2>3
<1>4. CASE UNCHANGED vars
  BY <1>1, <1>4 DEF vars, IInv
<1> QED
  BY <1>2, <1>3, <1>4 DEF Next

\* The areas of a well formed cache.
LEMMA OwnedAreas ==
  ASSUME IInv PROVE AreasAreOwned
<1> DEFINE areas == {cache.blocks[0].data} \cup {cache.blocks[i].data : i \in Used(cache)}
<1>1. /\ cache \in Caches(Stored) /\ Owned(cache) /\ cache.cur \in Nat /\ Used(cache) \subseteq Index
      /\ \A k \in Index : cache.blocks[k].data \in Index
      /\ Index \subseteq Nat /\ 0 \in Index
  BY CacheFacts, IndexFacts DEF IInv, CacheOK, Index
<1>2. areas \subseteq Nat
  BY <1>1
<1>3. 0 \in areas
  <2>1. CASE cache.cur = 0
    <3>1. 0 \in Index \ Used(cache)
      BY <1>1, <2>1 DEF Used
    <3> QED
      BY <1>1, <3>1 DEF Owned
  <2>2. CASE cache.cur # 0
    <3>1. PICK i \in Used(cache) : cache.blocks[i].data = 0
      BY <1>1, <2>2 DEF Owned
    <3> QED
      BY <3>1
  <2> QED
    BY <2>1, <2>2
<1>4. FreedArea(cache) = CHOOSE d \in areas : \A e \in areas : d <= e
  BY DEF FreedArea
<1> HIDE DEF areas
<1>5. FreedArea(cache) = 0
  <2>1. 0 \in areas /\ \A e \in areas : 0 <= e
    BY <1>2, <1>3
  <2>2. FreedArea(cache) \in areas /\ \A e \in areas : FreedArea(cache) <= e
    BY <1>4, <2>1
  <2>3. FreedArea(cache) \in Nat /\ FreedArea(cache) <= 0
    BY <1>2, <2>1, <2>2
  <2> HIDE DEF areas
  <2> QED
    BY ONLY <2>3
<1> QED
  BY <1>1, <1>5 DEF Owned, AreasAreOwned

\* The usage list of a well formed cache.
LEMMA ThreadedList ==
  ASSUME IInv PROVE WellLinked
<1>1. IsList(UsageOrder(cache), cache) /\ cache.cur \in Nat
  BY TheList, CacheFacts DEF IInv, CacheOK
<1>2. /\ cache.cur = 0 => cache.head = Null /\ cache.tail = Null
      /\ cache.cur > 0 => cache.blocks[cache.head].previous = Null /\ cache.blocks[cache.tail].next = Null
  BY Ends DEF IInv
<1> QED
  BY <1>1, <1>2 DEF WellLinked, IsList

-----------------------------------------------------------------------------
(* The cache as a least-recently-used map. *)

\* The recency of a cache whose list is a.
LEMMA RecencyIs ==
  ASSUME NEW V, NEW c \in Caches(V), NEW a \in [1..c.cur -> Used(c)],
         c.cur > 0 => a[1] = c.head,
         \A k \in 2..c.cur : c.blocks[a[k - 1]].next = a[k]
  PROVE  Recency(c) = [k \in 1..c.cur |-> c.blocks[a[k]].id]
  BY OnlyList DEF Recency

\* In a well formed cache an id has one place, and the recency names every id once.
LEMMA Entries ==
  ASSUME NEW V, NEW c, CacheOK(c, V)
  PROVE  LET a == UsageOrder(c)
             s == Recency(c)
         IN  /\ s \in [1..c.cur -> Nat] /\ Len(s) = c.cur
             /\ \A k \in 1..c.cur : s[k] = c.blocks[a[k]].id
             /\ \A j, k \in 1..c.cur : s[j] = s[k] => j = k
             /\ Lru!ToSet(s) = {c.blocks[i].id : i \in Used(c)}
             /\ \A i, j \in Used(c) : c.blocks[i].id = c.blocks[j].id => i = j
             /\ \A i \in Used(c) : Contents(c)[c.blocks[i].id] = c.mem[c.blocks[i].data]
<1> DEFINE n == c.cur
           a == UsageOrder(c)
           s == Recency(c)
<1>1. /\ c \in Caches(V) /\ Sorted(c) /\ n \in Nat /\ Used(c) \subseteq Index /\ Used(c) \subseteq Nat
      /\ \A k \in Index : c.blocks[k].id \in Nat
  BY CacheFacts DEF CacheOK
<1>2. /\ a \in [1..n -> Used(c)] /\ {a[k] : k \in 1..n} = Used(c)
      /\ \A j, k \in 1..n : a[j] = a[k] => j = k
  BY TheList DEF IsList
<1> HIDE DEF a, n
<1>3. s = [k \in 1..n |-> c.blocks[a[k]].id]
  BY DEF Recency, a, n
<1>4. s \in [1..n -> Nat] /\ Len(s) = n /\ DOMAIN s = 1..n
  <2>1. \A k \in 1..n : c.blocks[a[k]].id \in Nat
    BY <1>1, <1>2
  <2> HIDE DEF s
  <2>2. s \in [1..n -> Nat] /\ DOMAIN s = 1..n
    BY <1>3, <2>1
  <2>3. Len(s) = n
    BY <1>1, <2>2
  <2> QED
    BY <2>2, <2>3
<1>5. \A i, j \in Used(c) : c.blocks[i].id = c.blocks[j].id => i = j
  <2>1. ASSUME NEW i \in Used(c), NEW j \in Used(c), i < j
        PROVE  c.blocks[i].id # c.blocks[j].id
    <3>1. c.blocks[i].id < c.blocks[j].id /\ c.blocks[i].id \in Nat /\ c.blocks[j].id \in Nat
      BY <1>1, <2>1 DEF Sorted
    <3> QED
      BY <3>1
  <2>2. \A i, j \in Used(c) : i < j \/ j < i \/ i = j
    BY <1>1
  <2> QED
    BY <2>1, <2>2
<1> HIDE DEF s
<1>6. \A k \in 1..n : s[k] = c.blocks[a[k]].id
  BY <1>3
<1>7. \A j, k \in 1..n : s[j] = s[k] => j = k
  BY <1>2, <1>5, <1>6
<1>8. Lru!ToSet(s) = {c.blocks[i].id : i \in Used(c)}
  <2>1. Lru!ToSet(s) = {s[k] : k \in 1..n}
    BY <1>4 DEF Lru!ToSet
  <2>2. \A k \in 1..n : \E i \in Used(c) : s[k] = c.blocks[i].id
    BY <1>2, <1>6
  <2>3. \A i \in Used(c) : \E k \in 1..n : s[k] = c.blocks[i].id
    BY <1>2, <1>6
  <2> QED
    BY <2>1, <2>2, <2>3
<1>9. ASSUME NEW i \in Used(c)
      PROVE  Contents(c)[c.blocks[i].id] = c.mem[c.blocks[i].data]
  <2>1. IndexOf(c, c.blocks[i].id) = i
    BY <1>5 DEF IndexOf
  <2> QED
    BY <2>1 DEF Contents
<1> QED
  BY <1>4, <1>5, <1>6, <1>7, <1>8, <1>9 DEF a, n, s

\* The block at place q of the list, used again, is its first; those before it step back.
LEMMA GetMoves ==
  ASSUME NEW V, NEW c, CacheOK(c, V), NEW q \in 1..c.cur
  PROVE  LET a == UsageOrder(c)
         IN  UsageOrder(MoveToHead(c, a[q])) =
               [k \in 1..c.cur |-> IF k = 1 THEN a[q] ELSE IF k <= q THEN a[k - 1] ELSE a[k]]
<1> DEFINE n == c.cur
           a == UsageOrder(c)
           i == a[q]
           r == MoveToHead(c, i)
           b == [k \in 1..n |-> IF k = 1 THEN i ELSE IF k <= q THEN a[k - 1] ELSE a[k]]
<1>1. /\ c \in Caches(V) /\ n \in Nat /\ Used(c) \subseteq Index
  BY CacheFacts DEF CacheOK
<1>2. /\ a \in [1..n -> Used(c)] /\ {a[k] : k \in 1..n} = Used(c)
      /\ \A j, k \in 1..n : a[j] = a[k] => j = k
      /\ n > 0 => a[1] = c.head /\ a[n] = c.tail
      /\ \A k \in 2..n : c.blocks[a[k - 1]].next = a[k] /\ c.blocks[a[k]].previous = a[k - 1]
  BY TheList DEF IsList
<1> HIDE DEF a
<1>3. q \in 1..n /\ q \in Nat /\ n > 0 /\ 1 \in 1..n
  BY <1>1
<1>4. i \in Used(c) /\ c.head \in Used(c) /\ a[1] = c.head
  BY <1>2, <1>3
<1> HIDE DEF n
<1>5. CASE q = 1
  <2>1. r = c
    BY <1>4, <1>5 DEF MoveToHead
  <2>2. b = a
    <3>1. \A k \in 1..n : b[k] = a[k]
      BY <1>5
    <3>2. b = [k \in 1..n |-> b[k]] /\ a = [k \in 1..n |-> a[k]]
      BY <1>2
    <3> HIDE DEF b
    <3> QED
      BY <3>1, <3>2
  <2> QED
    BY <2>1, <2>2 DEF a, n
<1>6. CASE q # 1
  <2>1. i # c.head /\ q - 1 \in 1..n /\ q \in 2..n
    BY <1>1, <1>2, <1>3, <1>4, <1>6
  <2>2. c.blocks[i].previous = a[q - 1]
    BY <1>2, <2>1
  <2>3. /\ r \in Caches(V) /\ r.cur = n /\ Used(r) = Used(c) /\ r.head = i
        /\ r.blocks[i].next = c.head
        /\ \A k \in Index : k # i =>
             r.blocks[k].next = IF k = a[q - 1] THEN c.blocks[i].next ELSE c.blocks[k].next
    <3>1. /\ r \in Caches(V) /\ SameEntries(c, r) /\ r.head = i /\ r.blocks[i].next = c.head
          /\ \A k \in Index : k # i =>
               r.blocks[k].next =
                 IF k = c.blocks[i].previous THEN c.blocks[i].next ELSE c.blocks[k].next
      BY <1>1, <1>4, <2>1, MoveToHeadFields
    <3> HIDE DEF r
    <3>2. r.cur = n /\ Used(r) = Used(c)
      BY <3>1 DEF SameEntries, Used, n
    <3> QED
      BY <2>2, <3>1, <3>2
  <2> HIDE DEF r
  <2>4. b \in [1..n -> Used(c)]
    <3>1. ASSUME NEW k \in 1..n
          PROVE  (IF k = 1 THEN i ELSE IF k <= q THEN a[k - 1] ELSE a[k]) \in Used(c)
      <4>1. k # 1 => k - 1 \in 1..n
        BY <1>1
      <4> QED
        BY <1>2, <1>4, <4>1
    <3> QED
      BY <3>1
  <2>5. /\ b[1] = i
        /\ \A k \in 2..n : b[k] = IF k <= q THEN a[k - 1] ELSE a[k]
    BY <1>3
  <2> HIDE DEF b
  <2>6. ASSUME NEW k \in 2..n
        PROVE  r.blocks[b[k - 1]].next = b[k]
    <3>1. k \in 1..n /\ k - 1 \in 1..n /\ k # 1
      BY <1>1
    <3>2. CASE k = 2
      BY <1>4, <2>1, <2>3, <2>5, <3>2
    <3>3. CASE k # 2 /\ k <= q
      <4>1. k - 1 \in 2..n /\ k - 2 \in 1..n /\ k - 1 <= q /\ (k - 1) - 1 = k - 2
        BY <1>1, <3>3
      <4>2. b[k - 1] = a[k - 2] /\ b[k] = a[k - 1]
        BY <2>5, <3>3, <4>1
      <4>3. a[k - 2] # i /\ a[k - 2] # a[q - 1] /\ a[k - 2] \in Index
        BY <1>1, <1>2, <1>3, <2>1, <3>3, <4>1
      <4>4. c.blocks[a[k - 2]].next = a[k - 1]
        BY <1>2, <4>1
      <4> QED
        BY <2>3, <4>2, <4>3, <4>4
    <3>4. CASE k # 2 /\ k = q + 1
      <4>1. k - 1 \in 2..n /\ k - 1 = q /\ q <= q /\ ~(k <= q) /\ q + 1 \in 2..n
        BY <1>3, <3>1, <3>4
      <4>2. b[k - 1] = a[q - 1] /\ b[k] = a[q + 1]
        BY <2>5, <3>4, <4>1
      <4>3. a[q - 1] # i /\ a[q - 1] \in Index
        BY <1>1, <1>2, <1>3, <2>1
      <4>4. c.blocks[i].next = a[q + 1]
        <5>1. (q + 1) - 1 = q
          BY <1>3
        <5> QED
          BY <1>2, <4>1, <5>1
      <4> QED
        BY <2>3, <4>2, <4>3, <4>4
    <3>5. CASE k # 2 /\ k > q + 1
      <4>1. k - 1 \in 2..n /\ ~(k - 1 <= q) /\ ~(k <= q)
        BY <1>3, <3>1, <3>5
      <4>2. b[k - 1] = a[k - 1] /\ b[k] = a[k]
        BY <2>5, <4>1
      <4>3. a[k - 1] # i /\ a[k - 1] # a[q - 1] /\ a[k - 1] \in Index
        BY <1>1, <1>2, <1>3, <2>1, <3>1, <3>5
      <4> QED
        BY <1>2, <2>3, <4>2, <4>3
    <3>6. k = 2 \/ (k # 2 /\ k <= q) \/ (k # 2 /\ k = q + 1) \/ (k # 2 /\ k > q + 1)
      BY <1>3, <3>1
    <3> QED
      BY <3>2, <3>3, <3>4, <3>5, <3>6
  <2>7. UsageOrder(r) = b
    <3>1. b \in [1..r.cur -> Used(r)] /\ b[1] = r.head
      BY <2>3, <2>4, <2>5
    <3>2. \A k \in 2..r.cur : r.blocks[b[k - 1]].next = b[k]
      BY <2>3, <2>6
    <3> QED
      BY ONLY <2>3, <3>1, <3>2, OnlyList
  <2> QED
    BY <2>7 DEF r, b, a, n
<1> QED
  BY <1>5, <1>6

\* Two well formed caches with the same ids, the values but one the same.
LEMMA ContentsAre ==
  ASSUME NEW V, NEW c, CacheOK(c, V), NEW r, CacheOK(r, V), NEW id, NEW v,
         \E i \in Used(r) : r.blocks[i].id = id /\ r.mem[r.blocks[i].data] = v,
         \A k \in Used(r) :
           r.blocks[k].id # id =>
             \E j \in Used(c) : /\ r.blocks[k].id = c.blocks[j].id
                                /\ r.mem[r.blocks[k].data] = c.mem[c.blocks[j].data]
  PROVE  Contents(r) = [x \in Lru!ToSet(Recency(r)) |-> IF x = id THEN v ELSE Contents(c)[x]]
<1> DEFINE S == Lru!ToSet(Recency(r))
           f == Contents(r)
           g == Contents(c)
<1>1. /\ S = {r.blocks[i].id : i \in Used(r)}
      /\ \A i \in Used(r) : f[r.blocks[i].id] = r.mem[r.blocks[i].data]
  BY Entries
<1>2. \A i \in Used(c) : g[c.blocks[i].id] = c.mem[c.blocks[i].data]
  BY Entries
<1>3. f = [x \in {r.blocks[i].id : i \in Used(r)} |-> f[x]]
  BY DEF Contents
<1> HIDE DEF S, f, g
<1>4. ASSUME NEW x \in S
      PROVE  f[x] = IF x = id THEN v ELSE g[x]
  <2>1. PICK k \in Used(r) : x = r.blocks[k].id
    BY <1>1
  <2>2. CASE x = id
    BY <1>1, <2>2
  <2>3. CASE x # id
    BY <1>1, <1>2, <2>1, <2>3
  <2> QED
    BY <2>2, <2>3
<1>5. f = [x \in S |-> IF x = id THEN v ELSE g[x]]
  BY <1>1, <1>3, <1>4
<1> QED
  BY <1>5 DEF S, f, g

\* Retrieving a cached entry changes the order of the ids as the abstract map does.
LEMMA GetIsUse ==
  ASSUME NEW V, NEW c, CacheOK(c, V), NEW id \in Nat, Found(c, id)
  PROVE  LET r == MoveToHead(c, IndexOf(c, id))
         IN  /\ CacheOK(r, V) /\ SameEntries(c, r) /\ Used(r) = Used(c)
             /\ r.head = IndexOf(c, id)
             /\ Recency(r) = Lru!UsedNow(id, Recency(c))
<1> DEFINE n == c.cur
           a == UsageOrder(c)
           s == Recency(c)
           i == IndexOf(c, id)
           r == MoveToHead(c, i)
<1>1. c \in Caches(V) /\ n \in Nat /\ Used(c) \subseteq Index
  BY CacheFacts DEF CacheOK
<1>2. i \in Used(c) /\ c.blocks[i].id = id
  BY DEF Found, IndexOf
<1>3. a \in [1..n -> Used(c)] /\ {a[k] : k \in 1..n} = Used(c)
  BY TheList DEF IsList
<1>4. /\ s \in [1..n -> Nat] /\ \A k \in 1..n : s[k] = c.blocks[a[k]].id
      /\ \A j, k \in 1..n : s[j] = s[k] => j = k
  BY Entries
<1>5. PICK q \in 1..n : a[q] = i
  <2> HIDE DEF a, i, n
  <2> QED
    BY <1>2, <1>3
<1> HIDE DEF i
<1>6. CacheOK(r, V) /\ SameEntries(c, r) /\ r.head = i
  BY <1>2, MoveToHeadOK
<1>7. UsageOrder(r) = [k \in 1..n |-> IF k = 1 THEN i ELSE IF k <= q THEN a[k - 1] ELSE a[k]]
  <2>1. q \in 1..c.cur /\ i = UsageOrder(c)[q]
    BY <1>5
  <2>2. UsageOrder(MoveToHead(c, UsageOrder(c)[q])) =
          [k \in 1..c.cur |->
             IF k = 1 THEN UsageOrder(c)[q]
             ELSE IF k <= q THEN UsageOrder(c)[k - 1] ELSE UsageOrder(c)[k]]
    BY <2>1, GetMoves
  <2> QED
    BY <2>1, <2>2
<1>8. s[q] = id
  BY <1>2, <1>4, <1>5
<1> HIDE DEF r, s, a, n
<1>9. Lru!UsedNow(id, s) = [k \in 1..n |-> IF k = 1 THEN id ELSE IF k <= q THEN s[k - 1] ELSE s[k]]
  <2>1. \A k \in 1..n : s[k] = s[q] => k = q
    BY <1>4
  <2>2. Lru!UsedNow(s[q], s) =
          [k \in 1..n |-> IF k = 1 THEN s[q] ELSE IF k <= q THEN s[k - 1] ELSE s[k]]
    BY <1>1, <1>4, <2>1, UsedAgain
  <2> QED
    BY <1>8, <2>2
<1>10. r.cur = n /\ Used(r) = Used(c) /\ \A k \in Index : r.blocks[k].id = c.blocks[k].id
  BY <1>6 DEF SameEntries, Used, n
<1>11. Recency(r) = [k \in 1..n |-> r.blocks[UsageOrder(r)[k]].id]
  BY <1>10 DEF Recency
<1>12. ASSUME NEW k \in 1..n
       PROVE  r.blocks[UsageOrder(r)[k]].id = IF k = 1 THEN id ELSE IF k <= q THEN s[k - 1] ELSE s[k]
  <2>1. k # 1 => k - 1 \in 1..n
    BY <1>1
  <2>2. UsageOrder(r)[k] = IF k = 1 THEN i ELSE IF k <= q THEN a[k - 1] ELSE a[k]
    BY <1>7
  <2>3. UsageOrder(r)[k] \in Used(c)
    BY <1>2, <1>3, <2>1, <2>2
  <2>4. r.blocks[UsageOrder(r)[k]].id = c.blocks[UsageOrder(r)[k]].id
    BY <1>1, <1>10, <2>3
  <2> QED
    BY <1>2, <1>4, <2>1, <2>2, <2>4
<1>13. Recency(r) = Lru!UsedNow(id, s)
  BY <1>9, <1>11, <1>12
<1> QED
  BY <1>6, <1>10, <1>13 DEF r, s, i

\* Replacing the value of a cached entry.
LEMMA RefillIsPut ==
  ASSUME NEW V, NEW c, CacheOK(c, V), NEW id \in Nat, NEW v \in V, Found(c, id)
  PROVE  LET r == AfterPut(c, id, v)
         IN  /\ Recency(r) = Lru!UsedNow(id, Recency(c))
             /\ Contents(r) = [x \in Lru!ToSet(Recency(r)) |-> IF x = id THEN v ELSE Contents(c)[x]]
<1> DEFINE i == IndexOf(c, id)
           d == MoveToHead(c, i)
           e == Fill(d, i, id, v)
           r == AfterPut(c, id, v)
<1>1. r = e
  BY DEF AfterPut
<1>2. i \in Used(c) /\ c.blocks[i].id = id
  BY DEF Found, IndexOf
<1>3. /\ CacheOK(d, V) /\ SameEntries(c, d) /\ Used(d) = Used(c) /\ d.head = i
      /\ Recency(d) = Lru!UsedNow(id, Recency(c))
  BY GetIsUse
<1>4. CacheOK(r, V)
  BY RefillOK
<1>5. c \in Caches(V) /\ Used(c) \subseteq Index /\ Owned(c)
  BY CacheFacts DEF CacheOK
<1> HIDE DEF d, i
<1>6. d \in Caches(V) /\ d.blocks[i].id = id /\ d.mem = c.mem
      /\ \A k \in Index : d.blocks[k].data \in Index /\ d.blocks[k].data = c.blocks[k].data
                          /\ d.blocks[k].id = c.blocks[k].id
  BY <1>2, <1>3, <1>5, CacheFacts DEF CacheOK, SameEntries
<1>7. /\ e \in Caches(V) /\ e.cur = d.cur /\ e.head = i
      /\ e.mem = [d.mem EXCEPT ![d.blocks[i].data] = v]
      /\ \A k \in Index : /\ e.blocks[k].id = IF k = i THEN id ELSE d.blocks[k].id
                          /\ e.blocks[k].data = d.blocks[k].data
                          /\ e.blocks[k].next = d.blocks[k].next
  <2>1. d \in Caches(V) /\ i \in Index /\ id \in Nat /\ v \in V
    BY <1>2, <1>5, <1>6
  <2> QED
    BY ONLY <2>1, FillFields
<1> HIDE DEF e
<1>8. Used(e) = Used(c) /\ Used(d) = Used(e) /\ \A k \in Index : e.blocks[k].id = d.blocks[k].id
  BY <1>3, <1>6, <1>7 DEF Used
<1>9. Recency(e) = Recency(d)
  <2> DEFINE a == UsageOrder(d)
             n == d.cur
  <2>1. /\ a \in [1..n -> Used(d)] /\ n \in Nat
        /\ n > 0 => a[1] = d.head
        /\ \A k \in 2..n : d.blocks[a[k - 1]].next = a[k]
    BY <1>3, <1>6, TheList, CacheFacts DEF IsList
  <2>2. Recency(d) = [k \in 1..n |-> d.blocks[a[k]].id]
    BY DEF Recency
  <2> HIDE DEF a
  <2>3. \A k \in 1..n : a[k] \in Index /\ e.blocks[a[k]].id = d.blocks[a[k]].id
    BY <1>3, <1>5, <1>8, <2>1
  <2>4. \A k \in 2..n : e.blocks[a[k - 1]].next = a[k]
    <3>1. ASSUME NEW k \in 2..n
          PROVE  e.blocks[a[k - 1]].next = a[k]
      <4>1. k - 1 \in 1..n
        BY <2>1
      <4> QED
        BY <1>7, <2>1, <2>3, <4>1
    <3> QED
      BY <3>1
  <2>5. Recency(e) = [k \in 1..n |-> e.blocks[a[k]].id]
    <3>1. /\ e \in Caches(V) /\ a \in [1..e.cur -> Used(e)]
          /\ e.cur > 0 => a[1] = e.head
          /\ \A k \in 2..e.cur : e.blocks[a[k - 1]].next = a[k]
      BY <1>3, <1>7, <1>8, <2>1, <2>4
    <3>2. Recency(e) = [k \in 1..e.cur |-> e.blocks[a[k]].id]
      BY ONLY <3>1, RecencyIs
    <3> QED
      BY <1>7, <3>2
  <2> QED
    BY <2>2, <2>3, <2>5
<1>10. \E k \in Used(e) : e.blocks[k].id = id /\ e.mem[e.blocks[k].data] = v
  <2>1. i \in Used(e) /\ i \in Index
    BY <1>2, <1>5, <1>8
  <2>2. e.mem[e.blocks[i].data] = v
    <3>1. d.mem \in [Index -> V]
      BY <1>6, CacheFacts
    <3> QED
      BY <1>6, <1>7, <2>1, <3>1
  <2> QED
    BY <1>7, <2>1, <2>2
<1>11. ASSUME NEW k \in Used(e), e.blocks[k].id # id
       PROVE  \E j \in Used(c) : /\ e.blocks[k].id = c.blocks[j].id
                                 /\ e.mem[e.blocks[k].data] = c.mem[c.blocks[j].data]
  <2>1. k \in Used(c) /\ k \in Index /\ k # i
    BY <1>5, <1>7, <1>8, <1>11
  <2>2. d.blocks[k].data # d.blocks[i].data
    BY <1>2, <1>5, <1>6, <2>1 DEF Owned
  <2>3. d.mem \in [Index -> V]
    BY <1>6, CacheFacts
  <2>4. e.mem[e.blocks[k].data] = c.mem[c.blocks[k].data]
    BY <1>6, <1>7, <2>1, <2>2, <2>3
  <2> QED
    BY <1>6, <1>8, <2>1, <2>4
<1>12. Contents(e) = [x \in Lru!ToSet(Recency(e)) |-> IF x = id THEN v ELSE Contents(c)[x]]
  BY <1>1, <1>4, <1>10, <1>11, ContentsAre
<1> QED
  BY <1>1, <1>3, <1>9, <1>12

\* A new entry of a cache with room is put in front of the list.
LEMMA RoomIsPut ==
  ASSUME NEW V, NEW c, CacheOK(c, V), ~Full(c), NEW id \in Nat, NEW v \in V,
         \A k \in Used(c) : c.blocks[k].id < id
  PROVE  Recency(AfterPut(c, id, v)) = Lru!UsedNow(id, Recency(c))
<1> DEFINE n == c.cur
           a == UsageOrder(c)
           s == Recency(c)
           r == AfterPut(c, id, v)
           b == [k \in 1..(n + 1) |-> IF k = 1 THEN n ELSE a[k - 1]]
<1>1. /\ c \in Caches(V) /\ Owned(c) /\ n \in Nat /\ Used(c) \subseteq Index /\ Used(c) \subseteq Nat
      /\ n \in Index /\ n \notin Used(c) /\ Used(c) = 0..(n - 1)
      /\ \A k \in Index : c.blocks[k].id \in Nat
  <2>1. /\ c \in Caches(V) /\ Owned(c) /\ n \in Nat /\ Used(c) \subseteq Index /\ Used(c) \subseteq Nat
        /\ \A k \in Index : c.blocks[k].id \in Nat
    BY CacheFacts DEF CacheOK
  <2>2. n \in 0..MaxBlocks /\ n # MaxBlocks /\ MaxBlocks \in Nat
    BY <2>1, CacheFacts, IndexFacts DEF Full
  <2>3. Used(c) = 0..(n - 1)
    BY DEF Used
  <2> HIDE DEF n
  <2>4. n \in Index /\ n \notin 0..(n - 1)
    BY <2>1, <2>2 DEF Index
  <2> QED
    BY <2>1, <2>3, <2>4
<1>2. /\ a \in [1..n -> Used(c)]
      /\ n > 0 => a[1] = c.head
      /\ \A k \in 2..n : c.blocks[a[k - 1]].next = a[k]
  BY TheList DEF IsList
<1>3. /\ s \in [1..n -> Nat] /\ \A k \in 1..n : s[k] = c.blocks[a[k]].id
  BY Entries
<1>4. IF n = 0 THEN c.head = Null ELSE c.head \in Used(c)
  BY <1>1, Ends
<1>5. /\ r \in Caches(V) /\ r.cur = n + 1 /\ r.head = n
      /\ \A k \in Index :
           /\ r.blocks[k].id = IF k = n THEN id ELSE c.blocks[k].id
           /\ r.blocks[k].next = IF k = n THEN c.head ELSE c.blocks[k].next
  <2>1. ~Found(c, id) /\ PutIndex(c, id) = c.cur
    BY <1>1, AppendPosition
  <2>2. c \in Caches(V) /\ Owned(c) /\ IF c.cur = 0 THEN c.head = Null ELSE c.head \in Used(c)
    BY <1>1, <1>4
  <2>3. /\ r \in Caches(V) /\ r.cur = c.cur + 1 /\ r.head = c.cur
        /\ r.tail = IF c.cur = 0 THEN 0 ELSE c.tail
        /\ r.mem = [c.mem EXCEPT ![c.cur] = v]
        /\ \A k \in Index :
             /\ r.blocks[k].id = IF k = c.cur THEN id ELSE c.blocks[k].id
             /\ r.blocks[k].data = c.blocks[k].data
             /\ r.blocks[k].next = IF k = c.cur THEN c.head ELSE c.blocks[k].next
             /\ r.blocks[k].previous = IF k = c.head THEN c.cur ELSE c.blocks[k].previous
    BY ONLY <2>1, <2>2, ~Full(c), id \in Nat, v \in V, UseFreeBlockFields
  <2> QED
    BY <2>3
<1> HIDE DEF a, s, r, n
<1>6. Used(r) = 0..n /\ Used(c) \subseteq Used(r) /\ n \in Used(r)
  <2>1. Used(r) = 0..((n + 1) - 1)
    BY <1>5 DEF Used
  <2> QED
    BY <1>1, <2>1
<1>7. b \in [1..(n + 1) -> Used(r)] /\ b[1] = n /\ \A k \in 2..(n + 1) : b[k] = a[k - 1]
  <2>1. ASSUME NEW k \in 1..(n + 1)
        PROVE  (IF k = 1 THEN n ELSE a[k - 1]) \in Used(r)
    <3>1. k # 1 => k - 1 \in 1..n
      BY <1>1
    <3> QED
      BY <1>2, <1>6, <3>1
  <2> QED
    BY <1>1, <2>1
<1> HIDE DEF b
<1>8. ASSUME NEW k \in 2..(n + 1)
      PROVE  r.blocks[b[k - 1]].next = b[k]
  <2>1. CASE k = 2
    <3>1. n > 0
      BY <1>1, <2>1
    <3> QED
      BY <1>1, <1>2, <1>5, <1>7, <2>1, <3>1
  <2>2. CASE k # 2
    <3>1. k - 1 \in 2..n /\ k - 1 \in 2..(n + 1) /\ (k - 1) - 1 \in 1..n
      BY <1>1, <2>2
    <3>2. b[k - 1] = a[(k - 1) - 1] /\ b[k] = a[k - 1]
      BY <1>7, <3>1
    <3>3. a[(k - 1) - 1] \in Index /\ a[(k - 1) - 1] # n
      BY <1>1, <1>2, <3>1
    <3> QED
      BY <1>2, <1>5, <3>1, <3>2, <3>3
  <2> QED
    BY <2>1, <2>2
<1>9. Recency(r) = [k \in 1..(n + 1) |-> r.blocks[b[k]].id]
  <2>1. /\ r \in Caches(V) /\ b \in [1..r.cur -> Used(r)]
        /\ r.cur > 0 => b[1] = r.head
        /\ \A k \in 2..r.cur : r.blocks[b[k - 1]].next = b[k]
    BY <1>5, <1>7, <1>8
  <2>2. Recency(r) = [k \in 1..r.cur |-> r.blocks[b[k]].id]
    BY ONLY <2>1, RecencyIs
  <2> QED
    BY <1>5, <2>2
<1>10. ASSUME NEW k \in 1..(n + 1)
       PROVE  r.blocks[b[k]].id = IF k = 1 THEN id ELSE s[k - 1]
  <2>1. CASE k = 1
    BY <1>1, <1>5, <1>7, <2>1
  <2>2. CASE k # 1
    <3>1. k - 1 \in 1..n /\ k \in 2..(n + 1)
      BY <1>1, <2>2
    <3>2. b[k] = a[k - 1] /\ a[k - 1] \in Index /\ a[k - 1] # n
      BY <1>1, <1>2, <1>7, <3>1
    <3> QED
      BY <1>3, <1>5, <2>2, <3>1, <3>2
  <2> QED
    BY <2>1, <2>2
<1>11. \A k \in 1..n : s[k] # id
  <2>1. ASSUME NEW k \in 1..n
        PROVE  s[k] # id
    <3>1. s[k] < id /\ s[k] \in Nat
      BY <1>2, <1>3
    <3> QED
      BY <3>1
  <2> QED
    BY <2>1
<1>12. Lru!UsedNow(id, s) = [k \in 1..(n + 1) |-> IF k = 1 THEN id ELSE s[k - 1]]
  BY <1>1, <1>3, <1>11, UsedFirst
<1> QED
  BY <1>9, <1>10, <1>12 DEF r, s

\* A new entry of a full cache is put in front of the list, whose last id goes.
LEMMA EvictionIsPut ==
  ASSUME NEW V, NEW c, CacheOK(c, V), Full(c), NEW id \in Nat, NEW v \in V,
         \A k \in Used(c) : c.blocks[k].id < id
  PROVE  Recency(AfterPut(c, id, v)) = Lru!UsedNow(id, Lru!Front(Recency(c)))
<1> DEFINE n == c.cur
           m == c.tail
           N == MaxBlocks - 1
           G(k) == Goes((m + 1)..N, -1, k)
           B(j) == Came((m + 1)..N, -1, j)
           a == UsageOrder(c)
           s == Recency(c)
           t == Lru!Front(s)
           r == AfterPut(c, id, v)
           b == [k \in 1..n |-> IF k = 1 THEN N ELSE G(a[k - 1])]
<1>1. /\ c \in Caches(V) /\ n \in Nat /\ n >= 2 /\ Used(c) = Index /\ N \in Index /\ n = N + 1
      /\ N \in Nat
      /\ \A k \in Index : c.blocks[k].id \in Nat
  <2>1. c \in Caches(V) /\ n \in Nat /\ \A k \in Index : c.blocks[k].id \in Nat
    BY CacheFacts DEF CacheOK
  <2>2. n = MaxBlocks /\ MaxBlocks \in Nat /\ MaxBlocks >= 2
    BY IndexFacts DEF Full
  <2>3. Used(c) = Index
    BY <2>2 DEF Used, Index
  <2>4. N \in Index
    BY <2>2 DEF Index
  <2> QED
    BY <2>1, <2>2, <2>3, <2>4
<1>2. /\ a \in [1..n -> Index]
      /\ \A j, k \in 1..n : a[j] = a[k] => j = k
      /\ a[1] = c.head /\ a[n] = m
      /\ \A k \in 2..n : c.blocks[a[k - 1]].next = a[k] /\ c.blocks[a[k]].previous = a[k - 1]
  BY <1>1, TheList DEF IsList
<1>3. s \in [1..n -> Nat] /\ \A k \in 1..n : s[k] = c.blocks[a[k]].id
  BY Entries
<1> HIDE DEF a, s
<1>4. /\ 1 \in 1..n /\ n \in 1..n /\ n - 1 \in 1..n /\ n \in 2..n /\ 1 # n
  BY <1>1
<1>5. /\ m \in Index /\ c.head \in Index \ {m}
      /\ c.blocks[m].previous = a[n - 1] /\ a[n - 1] \in Index \ {m}
  BY <1>1, <1>2, <1>4
<1>6. /\ \A k \in Index \ {m} : G(k) \in Index \ {N} /\ B(G(k)) = k
      /\ \A j \in Index \ {N} : B(j) \in Index \ {m} /\ G(B(j)) = j
  BY <1>5, PlacesAfterShift
<1>7. /\ r \in Caches(V) /\ r.cur = n /\ r.head = N
      /\ r.blocks[N].id = id /\ r.blocks[N].next = G(c.head)
      /\ \A j \in Index \ {N} :
           /\ r.blocks[j].id = c.blocks[B(j)].id
           /\ r.blocks[j].next = G(IF B(j) = a[n - 1] THEN Null ELSE c.blocks[B(j)].next)
  <2>1. ~Found(c, id) /\ PutIndex(c, id) = MaxBlocks - 1
    BY <1>1, AppendPosition
  <2>2. c.blocks[c.tail].previous \in Index \ {c.tail} /\ c.tail \in Index /\ c.head \in Index \ {c.tail}
    BY <1>5
  <2> DEFINE p == c.blocks[m].previous
  <2>3. /\ r \in Caches(V) /\ r.cur = c.cur /\ r.head = N /\ r.tail = G(p)
        /\ r.mem = [c.mem EXCEPT ![c.blocks[m].data] = v]
        /\ r.blocks[N].id = id /\ r.blocks[N].data = c.blocks[m].data
        /\ r.blocks[N].next = G(c.head) /\ r.blocks[N].previous = Null
        /\ r.blocks[G(c.head)].previous = N
        /\ \A j \in Index \ {N} :
             /\ r.blocks[j].id = c.blocks[B(j)].id
             /\ r.blocks[j].data = c.blocks[B(j)].data
             /\ r.blocks[j].next = G(IF B(j) = p THEN Null ELSE c.blocks[B(j)].next)
             /\ j # G(c.head) => r.blocks[j].previous = G(c.blocks[B(j)].previous)
    BY <1>1, <2>1, <2>2, ReplaceTailFields
  <2> QED
    BY <1>5, <2>3
<1> HIDE DEF r, n, m, N, G, B, t
<1>8. Used(r) = Index
  BY <1>1, <1>7 DEF Used, n
<1>9. ASSUME NEW k \in 1..(n - 1)
      PROVE  /\ k \in 1..n /\ a[k] \in Index \ {m}
             /\ G(a[k]) \in Index \ {N} /\ B(G(a[k])) = a[k]
             /\ r.blocks[G(a[k])].id = s[k]
             /\ k # n - 1 => r.blocks[G(a[k])].next = G(a[k + 1])
  <2>1. k \in 1..n /\ k # n /\ n \in 1..n
    BY <1>1
  <2>2. a[k] \in Index \ {m}
    BY <1>2, <2>1
  <2>3. G(a[k]) \in Index \ {N} /\ B(G(a[k])) = a[k]
    BY <1>6, <2>2
  <2>4. r.blocks[G(a[k])].id = s[k]
    BY <1>3, <1>7, <2>1, <2>3
  <2>5. k # n - 1 => r.blocks[G(a[k])].next = G(a[k + 1])
    <3>1. SUFFICES ASSUME k # n - 1
                   PROVE  r.blocks[G(a[k])].next = G(a[k + 1])
      OBVIOUS
    <3>2. a[k] # a[n - 1]
      BY <1>2, <1>4, <2>1, <3>1
    <3>3. k + 1 \in 2..n /\ (k + 1) - 1 = k
      BY <1>1
    <3>4. c.blocks[a[k]].next = a[k + 1]
      BY <1>2, <3>3
    <3> QED
      BY <1>7, <2>3, <3>2, <3>4
  <2> QED
    BY <2>1, <2>2, <2>3, <2>4, <2>5
<1>10. b \in [1..n -> Index] /\ b[1] = N /\ \A k \in 2..n : b[k] = G(a[k - 1])
  <2>1. ASSUME NEW k \in 1..n
        PROVE  (IF k = 1 THEN N ELSE G(a[k - 1])) \in Index
    <3>1. k # 1 => k - 1 \in 1..(n - 1)
      BY <1>1
    <3> QED
      BY <1>1, <1>9, <3>1
  <2> QED
    BY <1>4, <2>1
<1> HIDE DEF b
<1>11. ASSUME NEW k \in 2..n
       PROVE  r.blocks[b[k - 1]].next = b[k]
  <2>1. CASE k = 2
    BY <1>1, <1>2, <1>7, <1>10, <2>1
  <2>2. CASE k # 2
    <3>1. /\ k - 1 \in 2..n /\ (k - 1) - 1 \in 1..(n - 1) /\ (k - 1) - 1 # n - 1
          /\ ((k - 1) - 1) + 1 = k - 1
      BY <1>1, <2>2
    <3> DEFINE x == (k - 1) - 1
    <3>2. x \in 1..(n - 1) /\ x # n - 1 /\ x + 1 = k - 1 /\ b[k - 1] = G(a[x]) /\ b[k] = G(a[k - 1])
      BY <1>10, <3>1
    <3> HIDE DEF x
    <3>3. r.blocks[G(a[x])].next = G(a[x + 1])
      BY <1>9, <3>2
    <3> QED
      BY <3>2, <3>3
  <2> QED
    BY <2>1, <2>2
<1>12. Recency(r) = [k \in 1..n |-> r.blocks[b[k]].id]
  <2>1. /\ r \in Caches(V) /\ b \in [1..r.cur -> Used(r)]
        /\ r.cur > 0 => b[1] = r.head
        /\ \A k \in 2..r.cur : r.blocks[b[k - 1]].next = b[k]
    BY <1>7, <1>8, <1>10, <1>11
  <2>2. Recency(r) = [k \in 1..r.cur |-> r.blocks[b[k]].id]
    BY ONLY <2>1, RecencyIs
  <2> QED
    BY <1>7, <2>2
<1>13. ASSUME NEW k \in 1..n
       PROVE  r.blocks[b[k]].id = IF k = 1 THEN id ELSE s[k - 1]
  <2>1. CASE k = 1
    BY <1>7, <1>10, <2>1
  <2>2. CASE k # 1
    <3>1. k - 1 \in 1..(n - 1) /\ k \in 2..n
      BY <1>1, <2>2
    <3> QED
      BY <1>9, <1>10, <2>2, <3>1
  <2> QED
    BY <2>1, <2>2
<1>14. t = [k \in 1..(n - 1) |-> s[k]]
  <2>1. n \in Nat \ {0}
    BY <1>1
  <2> QED
    BY <1>3, <2>1, FrontOf DEF t
<1>15. t \in [1..(n - 1) -> Nat] /\ \A k \in 1..(n - 1) : t[k] = s[k] /\ t[k] # id
  <2>1. ASSUME NEW k \in 1..(n - 1)
        PROVE  s[k] \in Nat /\ s[k] # id
    <3>1. k \in 1..n /\ a[k] \in Index
      BY <1>9
    <3>2. s[k] < id /\ s[k] \in Nat
      BY <1>1, <1>3, <3>1
    <3> QED
      BY <3>2
  <2> QED
    BY <1>14, <2>1
<1>16. Lru!UsedNow(id, t) = [k \in 1..n |-> IF k = 1 THEN id ELSE s[k - 1]]
  <2>1. n - 1 \in Nat /\ (n - 1) + 1 = n
    BY <1>1
  <2> DEFINE l == n - 1
  <2>2. l \in Nat /\ t \in [1..l -> Nat] /\ \A k \in 1..l : t[k] # id
    BY <1>15, <2>1
  <2>3. l + 1 = n
    BY <2>1
  <2> HIDE DEF l
  <2>4. Lru!UsedNow(id, t) = [k \in 1..(l + 1) |-> IF k = 1 THEN id ELSE t[k - 1]]
    BY ONLY <2>2, id \in Nat, UsedFirst
  <2>5. \A k \in 1..n : k = 1 \/ t[k - 1] = s[k - 1]
    BY <1>1, <1>15
  <2> QED
    BY <2>3, <2>4, <2>5
<1> QED
  BY <1>12, <1>13, <1>16 DEF r, t, s

\* The order of use does not change what is cached.
LEMMA SameContents ==
  ASSUME NEW V, NEW c, CacheOK(c, V), NEW r, CacheOK(r, V), SameEntries(c, r)
  PROVE  Contents(r) = Contents(c)
<1> DEFINE D == {c.blocks[i].id : i \in Used(c)}
           f == Contents(r)
           g == Contents(c)
<1>1. /\ c \in Caches(V) /\ Used(c) \subseteq Index /\ Used(r) = Used(c) /\ r.mem = c.mem
      /\ \A k \in Index : r.blocks[k].id = c.blocks[k].id /\ r.blocks[k].data = c.blocks[k].data
  BY CacheFacts DEF CacheOK, SameEntries, Used
<1>2. D = {r.blocks[i].id : i \in Used(r)}
  BY <1>1
<1>3. f = [x \in D |-> f[x]] /\ g = [x \in D |-> g[x]]
  BY <1>2 DEF Contents
<1>4. /\ \A i \in Used(r) : f[r.blocks[i].id] = r.mem[r.blocks[i].data]
      /\ \A i \in Used(c) : g[c.blocks[i].id] = c.mem[c.blocks[i].data]
  BY Entries
<1> HIDE DEF f, g
<1>5. \A x \in D : f[x] = g[x]
  BY <1>1, <1>4
<1> HIDE DEF D
<1>6. f = g
  BY <1>3, <1>5
<1> QED
  BY <1>6 DEF f, g

\* Adding an entry above all others, as the abstract map does.
LEMMA AppendIsPut ==
  ASSUME NEW V, NEW c, CacheOK(c, V), NEW id \in Nat, NEW v \in V,
         \A k \in Used(c) : c.blocks[k].id < id
  PROVE  LET r == AfterPut(c, id, v)
             s == Recency(c)
         IN  /\ Recency(r) = Lru!UsedNow(id, IF Len(s) < MaxBlocks THEN s ELSE Lru!Front(s))
             /\ Contents(r) = [x \in Lru!ToSet(Recency(r)) |-> IF x = id THEN v ELSE Contents(c)[x]]
<1> DEFINE r == AfterPut(c, id, v)
           s == Recency(c)
<1>1. Len(s) = c.cur /\ c.cur \in 0..MaxBlocks /\ MaxBlocks \in Nat
  BY Entries, CacheFacts, IndexFacts DEF CacheOK
<1>2. Recency(r) = Lru!UsedNow(id, IF Len(s) < MaxBlocks THEN s ELSE Lru!Front(s))
  <2>1. CASE Full(c)
    <3>1. ~(Len(s) < MaxBlocks)
      BY <1>1, <2>1 DEF Full
    <3>2. Recency(r) = Lru!UsedNow(id, Lru!Front(s))
      BY <2>1, EvictionIsPut
    <3> QED
      BY <3>1, <3>2
  <2>2. CASE ~Full(c)
    <3>1. Len(s) < MaxBlocks
      BY <1>1, <2>2 DEF Full
    <3>2. Recency(r) = Lru!UsedNow(id, s)
      BY <2>2, RoomIsPut
    <3> QED
      BY <3>1, <3>2
  <2> QED
    BY <2>1, <2>2
<1>3. CacheOK(r, V) /\ Added(c, r, id, v)
  BY PutOK
<1> HIDE DEF r, s
<1>4. \E i \in Used(r) : r.blocks[i].id = id /\ r.mem[r.blocks[i].data] = v
  BY <1>3 DEF Added
<1>5. \A k \in Used(r) :
        r.blocks[k].id # id =>
          \E j \in Used(c) : /\ r.blocks[k].id = c.blocks[j].id
                             /\ r.mem[r.blocks[k].data] = c.mem[c.blocks[j].data]
  BY <1>3 DEF Added
<1>6. Contents(r) = [x \in Lru!ToSet(Recency(r)) |-> IF x = id THEN v ELSE Contents(c)[x]]
  BY <1>3, <1>4, <1>5, ContentsAre
<1> QED
  BY <1>2, <1>6 DEF r, s

\* The empty cache is the empty map.
LEMMA InitImplements ==
  ASSUME Init PROVE Lru!Init
<1>1. cache = EmptyCache /\ cache.cur = 0 /\ Used(cache) = {}
  BY DEF Init, EmptyCache, Used
<1>2. Recency(cache) = <<>>
  <2>1. 1..0 = {}
    OBVIOUS
  <2> QED
    BY <1>1, <2>1 DEF Recency
<1>3. Contents(cache) = [id \in {} |-> NoValue]
  BY <1>1 DEF Contents
<1> QED
  BY <1>2, <1>3 DEF Init, Lru!Init

\* Every call is a call of the map.
LEMMA StepImplements ==
  ASSUME IInv, [Next]_vars
  PROVE  [Lru!Next]_(Lru!vars)
<1> DEFINE s == Recency(cache)
           f == Contents(cache)
<1>1. CacheOK(cache, Stored)
  BY DEF IInv
<1>2. /\ Lru!ToSet(s) = {cache.blocks[i].id : i \in Used(cache)}
      /\ \A i \in Used(cache) : f[cache.blocks[i].id] = cache.mem[cache.blocks[i].data]
  BY <1>1, Entries
<1>3. \A id : Found(cache, id) <=> id \in Lru!ToSet(s)
  BY <1>2 DEF Found
<1>4. ASSUME NEW id \in Ids, Get(id)
      PROVE  Lru!Next
  <2>1. CASE Found(cache, id)
    <3> DEFINE i == IndexOf(cache, id)
    <3>1. i \in Used(cache) /\ cache.blocks[i].id = id /\ id \in Nat
      BY <2>1, IdsAreNumbers DEF Found, IndexOf
    <3>2. cache' = MoveToHead(cache, i) /\ result' = cache.mem[cache.blocks[i].data]
      BY <1>4, <2>1 DEF Get, AfterGet, GetEntry
    <3>3. /\ CacheOK(cache', Stored) /\ SameEntries(cache, cache')
          /\ Recency(cache') = Lru!UsedNow(id, s)
      BY <1>1, <2>1, <3>1, <3>2, GetIsUse
    <3>4. Contents(cache') = f
      BY <1>1, <3>3, SameContents
    <3>5. result' = f[id]
      BY <1>2, <3>1, <3>2
    <3>6. Lru!Present(id)
      BY <1>3, <2>1 DEF Lru!Present
    <3>7. Lru!Hit(id)
      BY <3>3, <3>4, <3>5, <3>6 DEF Lru!Hit
    <3> QED
      BY <3>7 DEF Lru!Next
  <2>2. CASE ~Found(cache, id)
    <3>1. cache' = cache /\ result' = NoValue
      BY <1>4, <2>2 DEF Get, AfterGet
    <3>2. ~Lru!Present(id)
      BY <1>3, <2>2 DEF Lru!Present
    <3>3. Lru!Miss(id)
      BY <3>1, <3>2 DEF Lru!Miss
    <3> QED
      BY <3>3 DEF Lru!Next
  <2> QED
    BY <2>1, <2>2
<1>5. ASSUME NEW id \in Ids, NEW v \in Values, Put(id, v), Found(cache, id) \/ Appends(id)
      PROVE  Lru!Next
  <2>1. cache' = AfterPut(cache, id, v) /\ result' = v /\ id \in Nat /\ v \in Stored
    BY <1>5, IdsAreNumbers DEF Put, Stored
  <2>2. Lru!Present(id) <=> Found(cache, id)
    BY <1>3 DEF Lru!Present
  <2>3. /\ Recency(cache') =
             Lru!UsedNow(id, IF Lru!Present(id) \/ Len(s) < MaxBlocks THEN s ELSE Lru!Front(s))
        /\ Contents(cache') = [x \in Lru!ToSet(Recency(cache')) |-> IF x = id THEN v ELSE f[x]]
    <3>1. CASE Found(cache, id)
      <4>1. /\ Recency(cache') = Lru!UsedNow(id, s)
            /\ Contents(cache') = [x \in Lru!ToSet(Recency(cache')) |-> IF x = id THEN v ELSE f[x]]
        BY <1>1, <2>1, <3>1, RefillIsPut
      <4> QED
        BY <2>2, <3>1, <4>1
    <3>2. CASE ~Found(cache, id)
      <4>1. \A k \in Used(cache) : cache.blocks[k].id < id
        BY <1>1, <1>5, <2>1, <3>2, AboveAll
      <4>2. /\ Recency(cache') = Lru!UsedNow(id, IF Len(s) < MaxBlocks THEN s ELSE Lru!Front(s))
            /\ Contents(cache') = [x \in Lru!ToSet(Recency(cache')) |-> IF x = id THEN v ELSE f[x]]
        BY <1>1, <2>1, <4>1, AppendIsPut
      <4> QED
        BY <2>2, <3>2, <4>2
    <3> QED
      BY <3>1, <3>2
  <2>4. Lru!Put(id, v)
    BY <2>1, <2>3 DEF Lru!Put
  <2> QED
    BY <2>4 DEF Lru!Next
<1>6. CASE UNCHANGED vars
  BY <1>6 DEF vars, Lru!vars
<1> QED
  BY <1>4, <1>5, <1>6 DEF Next

-----------------------------------------------------------------------------
(* The binary search. *)

\* r is what find_block returns of the part low..high of the ascending ids d: a place of
\* id, or the place it belongs at.
Place(d, id, low, high, r) ==
  \/ r \in low..high /\ d[r] = id
  \/ \E x \in Int : /\ low <= x /\ (x <= high + 1 \/ x = low) /\ r = -x - 1
                    /\ \A j \in low..(x - 1) : d[j] < id
                    /\ \A j \in x..high : d[j] > id

\* The ids of n blocks, in ascending order.
Ascending(d, n) ==
  /\ \A k \in 0..(n - 1) : d[k] \in Nat
  /\ \A i, j \in 0..(n - 1) : i < j => d[i] < d[j]

\* There is one such answer.
LEMMA OnePlace ==
  ASSUME NEW n \in Nat, NEW d, Ascending(d, n), NEW id \in Nat,
         NEW low \in 0..n, NEW high \in -1..(n - 1),
         NEW r, Place(d, id, low, high, r), NEW s, Place(d, id, low, high, s)
  PROVE  r = s
<1>1. /\ \A k \in low..high : k \in 0..(n - 1) /\ d[k] \in Nat
      /\ \A i, j \in low..high : i < j => d[i] < d[j]
  BY DEF Ascending
<1>2. CASE r \in low..high /\ d[r] = id
  <2>1. CASE s \in low..high /\ d[s] = id
    <3>1. r < s \/ s < r \/ r = s
      BY <1>2, <2>1
    <3> QED
      BY <1>1, <1>2, <2>1, <3>1
  <2>2. ASSUME NEW x \in Int, low <= x, \A j \in low..(x - 1) : d[j] < id, \A j \in x..high : d[j] > id
        PROVE  FALSE
    <3>1. r \in low..(x - 1) \/ r \in x..high
      BY <1>2, <2>2
    <3> QED
      BY <1>1, <1>2, <2>2, <3>1
  <2> QED
    BY <2>1, <2>2 DEF Place
<1>3. CASE \E x \in Int : /\ low <= x /\ (x <= high + 1 \/ x = low) /\ r = -x - 1
                          /\ \A j \in low..(x - 1) : d[j] < id
                          /\ \A j \in x..high : d[j] > id
  <2>1. PICK x \in Int : /\ low <= x /\ (x <= high + 1 \/ x = low) /\ r = -x - 1
                         /\ \A j \in low..(x - 1) : d[j] < id
                         /\ \A j \in x..high : d[j] > id
    BY <1>3
  <2>2. CASE s \in low..high /\ d[s] = id
    <3>1. s \in low..(x - 1) \/ s \in x..high
      BY <2>1, <2>2
    <3> QED
      BY <1>1, <2>1, <2>2, <3>1
  <2>3. ASSUME NEW y \in Int, low <= y, y <= high + 1 \/ y = low, s = -y - 1,
               \A j \in low..(y - 1) : d[j] < id, \A j \in y..high : d[j] > id
        PROVE  x = y
    <3>1. CASE x < y
      <4>1. x \in low..(y - 1) /\ x \in x..high /\ x \in low..high
        BY <2>1, <2>3, <3>1
      <4> QED
        BY <1>1, <2>1, <2>3, <4>1
    <3>2. CASE y < x
      <4>1. y \in low..(x - 1) /\ y \in y..high /\ y \in low..high
        BY <2>1, <2>3, <3>2
      <4> QED
        BY <1>1, <2>1, <2>3, <4>1
    <3> QED
      BY <3>1, <3>2
  <2> QED
    BY <2>1, <2>2, <2>3 DEF Place
<1> QED
  BY <1>2, <1>3 DEF Place

\* One step of the search: what the half that is left answers is the answer.
LEMMA HalfOfThePlace ==
  ASSUME NEW n \in Nat, NEW d, Ascending(d, n), NEW id \in Nat,
         NEW low \in 0..n, NEW high \in -1..(n - 1)
  PROVE  LET mid == (low + high) \div 2
         IN  /\ low > high => Place(d, id, low, high, -low - 1)
             /\ low <= high =>
                  /\ mid \in low..high /\ mid + 1 \in 0..n /\ mid - 1 \in -1..(n - 1)
                  /\ d[mid] < id =>
                       \A r : Place(d, id, mid + 1, high, r) => Place(d, id, low, high, r)
                  /\ d[mid] > id =>
                       \A r : Place(d, id, low, mid - 1, r) => Place(d, id, low, high, r)
                  /\ ~(d[mid] < id) /\ ~(d[mid] > id) => Place(d, id, low, high, mid)
<1>1. CASE low > high
  <2>1. low..(low - 1) = {} /\ low..high = {}
    BY <1>1
  <2>2. Place(d, id, low, high, -low - 1)
    BY <2>1 DEF Place
  <2> QED
    BY <1>1, <2>2
<1>2. CASE low <= high
  <2> DEFINE mid == (low + high) \div 2
  <2>1. mid \in Int /\ low <= mid /\ mid <= high
    BY <1>2
  <2> HIDE DEF mid
  <2>2. mid \in low..high /\ mid + 1 \in 0..n /\ mid - 1 \in -1..(n - 1) /\ mid \in 0..(n - 1)
    BY <2>1
  <2>3. /\ d[mid] \in Nat
        /\ \A j \in low..(mid - 1) : d[j] < d[mid] /\ d[j] \in Nat
        /\ \A j \in (mid + 1)..high : d[mid] < d[j] /\ d[j] \in Nat
    BY <2>1, <2>2 DEF Ascending
  <2>4. ASSUME d[mid] < id, NEW r, Place(d, id, mid + 1, high, r)
        PROVE  Place(d, id, low, high, r)
    <3>1. CASE r \in (mid + 1)..high /\ d[r] = id
      <4>1. r \in low..high
        BY <2>1, <3>1
      <4> QED
        BY <3>1, <4>1 DEF Place
    <3>2. ASSUME NEW x \in Int, mid + 1 <= x, x <= high + 1 \/ x = mid + 1, r = -x - 1,
                 \A j \in (mid + 1)..(x - 1) : d[j] < id, \A j \in x..high : d[j] > id
          PROVE  Place(d, id, low, high, r)
      <4>1. low <= x /\ x <= high + 1
        BY <2>1, <3>2
      <4>2. ASSUME NEW j \in low..(x - 1)
            PROVE  d[j] < id
        <5>1. j \in low..(mid - 1) \/ j = mid \/ j \in (mid + 1)..(x - 1)
          BY <2>1
        <5>2. CASE j \in low..(mid - 1)
          <6>1. d[j] < d[mid] /\ d[j] \in Nat
            BY <2>3, <5>2
          <6> QED
            BY <2>3, <2>4, <6>1
        <5> QED
          BY <2>4, <3>2, <5>1, <5>2
      <4> QED
        BY <3>2, <4>1, <4>2 DEF Place
    <3> QED
      BY <2>4, <3>1, <3>2 DEF Place
  <2>5. ASSUME d[mid] > id, NEW r, Place(d, id, low, mid - 1, r)
        PROVE  Place(d, id, low, high, r)
    <3>1. CASE r \in low..(mid - 1) /\ d[r] = id
      <4>1. r \in low..high
        BY <2>1, <3>1
      <4> QED
        BY <3>1, <4>1 DEF Place
    <3>2. ASSUME NEW x \in Int, low <= x, x <= (mid - 1) + 1 \/ x = low, r = -x - 1,
                 \A j \in low..(x - 1) : d[j] < id, \A j \in x..(mid - 1) : d[j] > id
          PROVE  Place(d, id, low, high, r)
      <4>1. x <= mid /\ x <= high + 1
        BY <2>1, <3>2
      <4>2. ASSUME NEW j \in x..high
            PROVE  d[j] > id
        <5>1. j \in x..(mid - 1) \/ j = mid \/ j \in (mid + 1)..high
          BY <2>1
        <5>2. CASE j \in (mid + 1)..high
          <6>1. d[mid] < d[j] /\ d[j] \in Nat
            BY <2>3, <5>2
          <6> QED
            BY <2>3, <2>5, <6>1
        <5> QED
          BY <2>5, <3>2, <5>1, <5>2
      <4> QED
        BY <3>2, <4>1, <4>2 DEF Place
    <3> QED
      BY <2>5, <3>1, <3>2 DEF Place
  <2>6. ~(d[mid] < id) /\ ~(d[mid] > id) => Place(d, id, low, high, mid)
    BY <2>2, <2>3 DEF Place
  <2> QED
    BY <1>2, <2>2, <2>4, <2>5, <2>6 DEF mid
<1> QED
  BY <1>1, <1>2

\* Every part of the array has an answer.
LEMMA SomePlace ==
  ASSUME NEW n \in Nat, NEW d, Ascending(d, n), NEW id \in Nat,
         NEW low \in 0..n, NEW high \in -1..(n - 1)
  PROVE  \E r : Place(d, id, low, high, r)
<1> DEFINE Good(l, h) == \E r : Place(d, id, l, h, r)
           T == {m \in Nat : \A l \in 0..n, h \in -1..(n - 1) : h - l < m => Good(l, h)}
<1>1. 0 \in T
  <2>1. ASSUME NEW l \in 0..n, NEW h \in -1..(n - 1), h - l < 0
        PROVE  Good(l, h)
    <3>1. l > h
      BY <2>1
    <3> QED
      BY <3>1, HalfOfThePlace
  <2> QED
    BY <2>1
<1>2. ASSUME NEW m \in Nat, m \in T
      PROVE  m + 1 \in T
  <2>1. ASSUME NEW l \in 0..n, NEW h \in -1..(n - 1), h - l < m + 1
        PROVE  Good(l, h)
    <3> DEFINE mid == (l + h) \div 2
    <3>1. CASE l > h
      BY <3>1, HalfOfThePlace
    <3>2. CASE l <= h
      <4>1. /\ mid \in l..h /\ mid + 1 \in 0..n /\ mid - 1 \in -1..(n - 1)
            /\ d[mid] < id => \A r : Place(d, id, mid + 1, h, r) => Place(d, id, l, h, r)
            /\ d[mid] > id => \A r : Place(d, id, l, mid - 1, r) => Place(d, id, l, h, r)
            /\ ~(d[mid] < id) /\ ~(d[mid] > id) => Place(d, id, l, h, mid)
        BY <3>2, HalfOfThePlace
      <4> HIDE DEF mid, Good
      <4>2. h - (mid + 1) < m /\ (mid - 1) - l < m
        BY <2>1, <3>2, <4>1
      <4>3. Good(mid + 1, h) /\ Good(l, mid - 1)
        BY <1>2, <4>1, <4>2
      <4> QED
        BY <4>1, <4>3 DEF Good
    <3> QED
      BY <3>1, <3>2
  <2> HIDE DEF Good
  <2> QED
    BY <2>1
<1> HIDE DEF T
<1>3. \A m \in Nat : m \in T
  BY <1>1, <1>2, NatInduct
<1> DEFINE m == n + 1
<1>4. m \in Nat /\ high - low < m
  OBVIOUS
<1> HIDE DEF m
<1>5. m \in T
  BY <1>3, <1>4
<1> QED
  BY <1>4, <1>5 DEF T

\* g is the search for id in c, as find_block goes about it.
Searches(g, c, id) ==
  g = [part \in (0..c.cur) \X (-1..(c.cur - 1)) |->
         LET low == part[1]
             high == part[2]
             mid == (low + high) \div 2
         IN  IF low > high THEN -low - 1
             ELSE IF c.blocks[mid].id < id THEN g[<<mid + 1, high>>]
             ELSE IF c.blocks[mid].id > id THEN g[<<low, mid - 1>>]
             ELSE mid]

\* There is a function that searches so, and it finds the place.
LEMMA SearchIsPlace ==
  ASSUME NEW V, NEW c, CacheOK(c, V), NEW id \in Nat
  PROVE  /\ \E g : Searches(g, c, id)
         /\ \A g : Searches(g, c, id) => Place([k \in Index |-> c.blocks[k].id], id, 0, c.cur - 1, g[<<0, c.cur - 1>>])
<1> DEFINE n == c.cur
           d == [k \in Index |-> c.blocks[k].id]
           A == 0..n
           B == -1..(n - 1)
           M(low, high) == (low + high) \div 2
           Sub(g, low, high) == IF low > high THEN -low - 1
                                ELSE IF d[M(low, high)] < id THEN g[<<M(low, high) + 1, high>>]
                                ELSE IF d[M(low, high)] > id THEN g[<<low, M(low, high) - 1>>]
                                ELSE M(low, high)
<1>1. /\ c \in Caches(V) /\ n \in Nat /\ Used(c) = 0..(n - 1) /\ Used(c) \subseteq Index /\ Sorted(c)
      /\ \A k \in Index : c.blocks[k].id \in Nat
  BY CacheFacts DEF CacheOK, Used
<1>2. \A k \in Used(c) : d[k] = c.blocks[k].id
  BY <1>1
<1>3. Ascending(d, n)
  BY <1>1, <1>2 DEF Ascending, Sorted
<1>4. ASSUME NEW low \in A, NEW high \in B
      PROVE  /\ low > high => Place(d, id, low, high, -low - 1)
             /\ low <= high =>
                  /\ M(low, high) \in low..high /\ M(low, high) + 1 \in A /\ M(low, high) - 1 \in B
                  /\ d[M(low, high)] = c.blocks[M(low, high)].id
                  /\ d[M(low, high)] < id =>
                       \A r : Place(d, id, M(low, high) + 1, high, r) => Place(d, id, low, high, r)
                  /\ d[M(low, high)] > id =>
                       \A r : Place(d, id, low, M(low, high) - 1, r) => Place(d, id, low, high, r)
                  /\ ~(d[M(low, high)] < id) /\ ~(d[M(low, high)] > id) =>
                       Place(d, id, low, high, M(low, high))
  <2>1. /\ low > high => Place(d, id, low, high, -low - 1)
        /\ low <= high =>
             /\ M(low, high) \in low..high /\ M(low, high) + 1 \in A /\ M(low, high) - 1 \in B
             /\ d[M(low, high)] < id =>
                  \A r : Place(d, id, M(low, high) + 1, high, r) => Place(d, id, low, high, r)
             /\ d[M(low, high)] > id =>
                  \A r : Place(d, id, low, M(low, high) - 1, r) => Place(d, id, low, high, r)
             /\ ~(d[M(low, high)] < id) /\ ~(d[M(low, high)] > id) =>
                  Place(d, id, low, high, M(low, high))
    <3> HIDE DEF d
    <3> QED
      BY <1>1, <1>3, HalfOfThePlace
  <2>2. low <= high => M(low, high) \in Used(c)
    <3> HIDE DEF M, n
    <3> QED
      BY <1>1, <2>1
  <2> HIDE DEF M, d
  <2> QED
    BY <1>2, <2>1, <2>2
<1>5. \A low \in A, high \in B : low > high \/ low <= high
  BY <1>1
<1>6. \A low \in A, high \in B : \E r : Place(d, id, low, high, r)
  <2> HIDE DEF d
  <2> QED
    BY <1>1, <1>3, SomePlace
<1>7. \A low \in A, high \in B : \A r, s :
        Place(d, id, low, high, r) /\ Place(d, id, low, high, s) => r = s
  <2> HIDE DEF d
  <2> QED
    BY <1>1, <1>3, OnePlace
<1>8. \A g : Searches(g, c, id) <=> g = [p \in A \X B |-> Sub(g, p[1], p[2])]
  <2> DEFINE Body(g, low, high) ==
               LET mid == (low + high) \div 2
               IN  IF low > high THEN -low - 1
                   ELSE IF c.blocks[mid].id < id THEN g[<<mid + 1, high>>]
                   ELSE IF c.blocks[mid].id > id THEN g[<<low, mid - 1>>]
                   ELSE mid
  <2>1. ASSUME NEW g, NEW low \in A, NEW high \in B
        PROVE  Sub(g, low, high) = Body(g, low, high)
    <3>1. low <= high => d[M(low, high)] = c.blocks[M(low, high)].id
      BY <1>4
    <3> HIDE DEF d
    <3> QED
      BY <1>5, <3>1
  <2>2. \A g : Searches(g, c, id) <=> g = [p \in A \X B |-> Body(g, p[1], p[2])]
    BY DEF Searches
  <2> HIDE DEF Sub, Body
  <2>3. \A g : [p \in A \X B |-> Body(g, p[1], p[2])] = [p \in A \X B |-> Sub(g, p[1], p[2])]
    BY <2>1
  <2> QED
    BY <2>2, <2>3
<1> HIDE DEF n, d, M, A, B
<1>9. \E g : Searches(g, c, id)
  <2> DEFINE F == [p \in A \X B |-> CHOOSE r : Place(d, id, p[1], p[2], r)]
  <2>1. \A low \in A, high \in B : Place(d, id, low, high, F[<<low, high>>])
    BY <1>6
  <2>2. F = [p \in A \X B |-> F[p]]
    OBVIOUS
  <2> HIDE DEF F
  <2>3. ASSUME NEW low \in A, NEW high \in B
        PROVE  F[<<low, high>>] = Sub(F, low, high)
    <3>1. Place(d, id, low, high, Sub(F, low, high))
      <4>1. CASE low > high
        BY <1>4, <4>1
      <4>2. CASE low <= high
        <5>0. ~(low > high)
          BY <1>1, <4>2 DEF A, B
        <5> DEFINE mid == M(low, high)
        <5>1. CASE d[mid] < id
          <6>1. Place(d, id, mid + 1, high, F[<<mid + 1, high>>])
            BY <1>4, <2>1, <4>2
          <6>2. Sub(F, low, high) = F[<<mid + 1, high>>]
            BY <5>0, <5>1
          <6> QED
            BY <1>4, <4>2, <5>1, <6>1, <6>2
        <5>2. CASE ~(d[mid] < id) /\ d[mid] > id
          <6>1. Place(d, id, low, mid - 1, F[<<low, mid - 1>>])
            BY <1>4, <2>1, <4>2
          <6>2. Sub(F, low, high) = F[<<low, mid - 1>>]
            BY <5>0, <5>2
          <6> QED
            BY <1>4, <4>2, <5>2, <6>1, <6>2
        <5>3. CASE ~(d[mid] < id) /\ ~(d[mid] > id)
          <6>1. Sub(F, low, high) = mid
            BY <5>0, <5>3
          <6> QED
            BY <1>4, <4>2, <5>3, <6>1
        <5> QED
          BY <5>1, <5>2, <5>3
      <4> QED
        BY <1>5, <4>1, <4>2
    <3> HIDE DEF Sub
    <3> QED
      BY <1>7, <2>1, <3>1
  <2> HIDE DEF Sub
  <2>4. F = [p \in A \X B |-> Sub(F, p[1], p[2])]
    BY <2>2, <2>3
  <2> QED
    BY <1>8, <2>4
<1>10. ASSUME NEW g, Searches(g, c, id)
       PROVE  Place(d, id, 0, n - 1, g[<<0, n - 1>>])
  <2> DEFINE T == {m \in Nat : \A low \in A, high \in B :
                                 high - low < m => Place(d, id, low, high, g[<<low, high>>])}
  <2>1. ASSUME NEW low \in A, NEW high \in B
        PROVE  g[<<low, high>>] = Sub(g, low, high)
    <3>1. g = [p \in A \X B |-> Sub(g, p[1], p[2])]
      BY <1>8, <1>10
    <3> HIDE DEF Sub
    <3> QED
      BY <3>1
  <2>2. 0 \in T
    <3>1. ASSUME NEW low \in A, NEW high \in B, high - low < 0
          PROVE  Place(d, id, low, high, g[<<low, high>>])
      <4>1. low > high
        BY <1>1, <3>1 DEF A, B
      <4> QED
        BY <1>4, <2>1, <4>1
    <3> QED
      BY <3>1
  <2>3. ASSUME NEW m \in Nat, m \in T
        PROVE  m + 1 \in T
    <3>1. ASSUME NEW low \in A, NEW high \in B, high - low < m + 1
          PROVE  Place(d, id, low, high, g[<<low, high>>])
      <4>1. CASE low > high
        BY <1>4, <2>1, <4>1
      <4>2. CASE low <= high
        <5>0. ~(low > high)
          BY <1>1, <4>2 DEF A, B
        <5> DEFINE mid == M(low, high)
        <5>1. mid \in low..high /\ mid + 1 \in A /\ mid - 1 \in B
          BY <1>4, <4>2
        <5>2. high - (mid + 1) < m /\ (mid - 1) - low < m
          <6>1. low \in Int /\ high \in Int /\ mid \in Int /\ low <= mid /\ mid <= high
            BY <1>1, <5>1 DEF A, B
          <6> HIDE DEF mid
          <6> QED
            BY <3>1, <6>1
        <5>3. Place(d, id, mid + 1, high, g[<<mid + 1, high>>]) /\ Place(d, id, low, mid - 1, g[<<low, mid - 1>>])
          BY <2>3, <5>1, <5>2
        <5>4. CASE d[mid] < id
          <6>1. g[<<low, high>>] = g[<<mid + 1, high>>]
            BY <2>1, <5>0, <5>4
          <6> QED
            BY <1>4, <4>2, <5>3, <5>4, <6>1
        <5>5. CASE ~(d[mid] < id) /\ d[mid] > id
          <6>1. g[<<low, high>>] = g[<<low, mid - 1>>]
            BY <2>1, <5>0, <5>5
          <6> QED
            BY <1>4, <4>2, <5>3, <5>5, <6>1
        <5>6. CASE ~(d[mid] < id) /\ ~(d[mid] > id)
          <6>1. g[<<low, high>>] = mid
            BY <2>1, <5>0, <5>6
          <6> QED
            BY <1>4, <4>2, <5>6, <6>1
        <5> QED
          BY <5>4, <5>5, <5>6
      <4> QED
        BY <1>5, <4>1, <4>2
    <3> QED
      BY <3>1
  <2> HIDE DEF T
  <2>4. \A m \in Nat : m \in T
    BY <2>2, <2>3, NatInduct
  <2>5. n \in T /\ 0 \in A /\ n - 1 \in B /\ (n - 1) - 0 < n
    BY <1>1, <2>4 DEF A, B
  <2> QED
    BY <2>5 DEF T
<1> QED
  BY <1>9, <1>10 DEF d, n

\* find_block of a well formed cache.
LEMMA SearchAgrees ==
  ASSUME NEW V, NEW c, CacheOK(c, V), NEW id \in Nat
  PROVE  BinarySearch(c, id) = IF Found(c, id) THEN IndexOf(c, id) ELSE -InsertionPoint(c, id) - 1
<1> DEFINE n == c.cur
           d == [k \in Index |-> c.blocks[k].id]
           r == BinarySearch(c, id)
           Fits(i) == /\ \A j \in 0..(i - 1) : c.blocks[j].id < id
                      /\ \A j \in i..(n - 1) : c.blocks[j].id > id
<1>1. /\ c \in Caches(V) /\ n \in Nat /\ Used(c) = 0..(n - 1) /\ Used(c) \subseteq Index /\ Sorted(c)
      /\ \A k \in Index : c.blocks[k].id \in Nat
  BY CacheFacts DEF CacheOK, Used
<1>2. \A k \in Used(c) : d[k] = c.blocks[k].id
  BY <1>1
<1>3. Place(d, id, 0, n - 1, r)
  <2> DEFINE g == CHOOSE f : Searches(f, c, id)
  <2>1. r = g[<<0, n - 1>>]
    BY DEF BinarySearch, Searches
  <2>2. Searches(g, c, id)
    BY SearchIsPlace
  <2> HIDE DEF g, d
  <2> QED
    BY <2>1, <2>2, SearchIsPlace DEF d
<1>4. \A i, j \in Used(c) : c.blocks[i].id = c.blocks[j].id => i = j
  BY Entries
<1> HIDE DEF d, n, r, Fits
<1>5. CASE r \in 0..(n - 1) /\ d[r] = id
  <2>1. Found(c, id) /\ r \in Used(c) /\ c.blocks[r].id = id
    BY <1>1, <1>2, <1>5 DEF Found
  <2>2. IndexOf(c, id) = r
    BY <1>4, <2>1 DEF IndexOf
  <2> QED
    BY <2>1, <2>2 DEF r
<1>6. ASSUME NEW x \in Int, 0 <= x, x <= (n - 1) + 1 \/ x = 0, r = -x - 1,
             \A j \in 0..(x - 1) : d[j] < id, \A j \in x..(n - 1) : d[j] > id
      PROVE  r = IF Found(c, id) THEN IndexOf(c, id) ELSE -InsertionPoint(c, id) - 1
  <2>1. x \in 0..n
    BY <1>1, <1>6
  <2>2. \A j \in Used(c) : j \in 0..(x - 1) \/ j \in x..(n - 1)
    BY <1>1, <2>1
  <2>3. ~Found(c, id)
    <3>1. ASSUME NEW j \in Used(c)
          PROVE  c.blocks[j].id # id
      <4>1. (d[j] < id \/ d[j] > id) /\ d[j] = c.blocks[j].id /\ d[j] \in Nat
        BY <1>1, <1>2, <1>6, <2>2
      <4> QED
        BY <4>1
    <3> QED
      BY <3>1 DEF Found
  <2>4. Fits(x)
    <3>1. \A j \in 0..(x - 1) : j \in Used(c)
      BY <1>1, <2>1
    <3>2. \A j \in x..(n - 1) : j \in Used(c)
      BY <1>1, <2>1
    <3> QED
      BY <1>2, <1>6, <3>1, <3>2 DEF Fits
  <2>5. ASSUME NEW y \in 0..n, Fits(y)
        PROVE  y = x
    <3>1. CASE y < x
      <4>1. y \in 0..(x - 1) /\ y \in y..(n - 1) /\ y \in Used(c)
        BY <1>1, <2>1, <3>1
      <4>2. c.blocks[y].id < id /\ c.blocks[y].id > id /\ c.blocks[y].id \in Nat
        BY <1>1, <2>4, <2>5, <4>1 DEF Fits
      <4> QED
        BY <4>2
    <3>2. CASE x < y
      <4>1. x \in 0..(y - 1) /\ x \in x..(n - 1) /\ x \in Used(c)
        BY <1>1, <2>1, <3>2
      <4>2. c.blocks[x].id < id /\ c.blocks[x].id > id /\ c.blocks[x].id \in Nat
        BY <1>1, <2>4, <2>5, <4>1 DEF Fits
      <4> QED
        BY <4>2
    <3> QED
      BY <1>1, <2>1, <3>1, <3>2
  <2>6. InsertionPoint(c, id) = CHOOSE i \in 0..n : Fits(i)
    BY DEF InsertionPoint, Fits, n
  <2>7. InsertionPoint(c, id) = x
    BY <2>1, <2>4, <2>5, <2>6
  <2> QED
    BY <1>6, <2>3, <2>7
<1> QED
  BY <1>3, <1>5, <1>6 DEF Place, r

-----------------------------------------------------------------------------
(* The shifts. *)

\* Two caches that agree in every field are the same.
LEMMA SameCache ==
  ASSUME NEW V, NEW c \in Caches(V), NEW r \in Caches(V),
         r.head = c.head, r.tail = c.tail, r.cur = c.cur, r.mem = c.mem,
         \A k \in Index : /\ r.blocks[k].id = c.blocks[k].id
                          /\ r.blocks[k].data = c.blocks[k].data
                          /\ r.blocks[k].next = c.blocks[k].next
                          /\ r.blocks[k].previous = c.blocks[k].previous
  PROVE  r = c
<1>1. r.blocks \in [Index -> Blocks] /\ c.blocks \in [Index -> Blocks]
  BY CacheFacts
<1>2. ASSUME NEW k \in Index
      PROVE  r.blocks[k] = c.blocks[k]
  <2> DEFINE x == r.blocks[k]
             y == c.blocks[k]
  <2>1. x \in Blocks /\ y \in Blocks
    BY <1>1
  <2>2. x.id = y.id /\ x.data = y.data /\ x.next = y.next /\ x.previous = y.previous
    OBVIOUS
  <2> HIDE DEF x, y
  <2>3. x = y
    BY <2>1, <2>2 DEF Blocks
  <2> QED
    BY <2>3 DEF x, y
<1>3. r.blocks = c.blocks
  <2> DEFINE f == r.blocks
             g == c.blocks
  <2>1. f \in [Index -> Blocks] /\ g \in [Index -> Blocks] /\ \A k \in Index : f[k] = g[k]
    BY <1>1, <1>2
  <2> HIDE DEF f, g
  <2>2. f = g
    BY <2>1
  <2> QED
    BY <2>2 DEF f, g
<1> QED
  BY <1>3 DEF Caches

\* One iteration, field by field.
LEMMA MoveBlockFields ==
  ASSUME NEW V, NEW s \in Caches(V), NEW to \in Index, NEW from \in Index,
         s.blocks[from].previous \in (Index \ {to}) \cup {Null},
         s.blocks[from].next \in Index \cup {Null}
  PROVE  LET r == MoveBlock(s, to, from)
             b == s.blocks[from]
             At(q) == IF q = to THEN from ELSE q
         IN  /\ r \in Caches(V) /\ r.cur = s.cur /\ r.mem = s.mem
             /\ r.head = (IF s.head = from THEN to ELSE s.head)
             /\ r.tail = (IF s.tail = from THEN to ELSE s.tail)
             /\ \A q \in Index :
                  /\ r.blocks[q].id = s.blocks[At(q)].id
                  /\ r.blocks[q].data = s.blocks[At(q)].data
                  /\ r.blocks[q].next = IF q = b.previous THEN to ELSE s.blocks[At(q)].next
                  /\ r.blocks[q].previous = IF q = b.next THEN to ELSE s.blocks[At(q)].previous
<1> DEFINE r == MoveBlock(s, to, from)
           b == s.blocks[from]
           x == b.next
           y == b.previous
           At(q) == IF q = to THEN from ELSE q
           moved == [s.blocks EXCEPT ![to] = b]
           told1 == [moved EXCEPT ![y].next = to]
           told == IF y = Null THEN moved ELSE told1
           z == told[to].next
           done1 == [told EXCEPT ![z].previous = to]
           done == IF z = Null THEN told ELSE done1
           h == IF s.head = from THEN to ELSE s.head
           l == IF s.tail = from THEN to ELSE s.tail
<1>1. /\ s.blocks \in [Index -> Blocks] /\ b \in Blocks /\ x \in Int /\ y \in Int
      /\ \A k \in Index : s.blocks[k] \in Blocks
      /\ s.head \in Int /\ s.tail \in Int /\ Index \subseteq Int /\ Null \notin Index
  BY CacheFacts, IndexFacts
<1>2. r = [s EXCEPT !.blocks = done, !.head = h, !.tail = l]
  BY DEF MoveBlock, Caches
<1>3. /\ moved \in [Index -> Blocks]
      /\ \A q \in Index : moved[q] = s.blocks[At(q)]
  BY <1>1
<1> HIDE DEF moved
<1>4. /\ told \in [Index -> Blocks]
      /\ \A q \in Index : /\ told[q].id = moved[q].id /\ told[q].data = moved[q].data
                          /\ told[q].next = IF q = y THEN to ELSE moved[q].next
                          /\ told[q].previous = moved[q].previous
  <2>1. CASE y = Null
    BY <1>1, <1>3, <2>1
  <2>2. CASE y # Null
    <3>1. y \in Index /\ moved \in [Index -> Blocks] /\ to \in Int
      BY <1>1, <1>3, <2>2
    <3> HIDE DEF y
    <3>2. /\ told1 \in [Index -> Blocks]
          /\ \A k \in Index : /\ told1[k].id = moved[k].id
                              /\ told1[k].data = moved[k].data
                              /\ told1[k].next = IF k = y THEN to ELSE moved[k].next
                              /\ told1[k].previous = moved[k].previous
      BY ONLY <3>1, SetNext
    <3> HIDE DEF told1
    <3> QED
      BY <2>2, <3>2
  <2> QED
    BY <2>1, <2>2
<1> HIDE DEF told
<1>5. z = x /\ z \in Int
  BY <1>1, <1>3, <1>4
<1>6. /\ done \in [Index -> Blocks]
      /\ \A q \in Index : /\ done[q].id = told[q].id /\ done[q].data = told[q].data
                          /\ done[q].next = told[q].next
                          /\ done[q].previous = IF q = x THEN to ELSE told[q].previous
  <2>1. CASE z = Null
    BY <1>1, <1>4, <1>5, <2>1
  <2>2. CASE z # Null
    <3>1. z \in Index /\ told \in [Index -> Blocks] /\ to \in Int
      BY <1>1, <1>4, <1>5, <2>2
    <3> HIDE DEF z
    <3>2. /\ done1 \in [Index -> Blocks]
          /\ \A k \in Index : /\ done1[k].id = told[k].id
                              /\ done1[k].data = told[k].data
                              /\ done1[k].next = told[k].next
                              /\ done1[k].previous = IF k = z THEN to ELSE told[k].previous
      BY ONLY <3>1, SetPrevious
    <3> HIDE DEF done1
    <3> QED
      BY <1>5, <2>2, <3>2
  <2> QED
    BY <2>1, <2>2
<1> HIDE DEF done
<1>7. h \in Int /\ l \in Int
  BY <1>1
<1> HIDE DEF h, l, r, z
<1>8. r = [blocks |-> done, head |-> h, tail |-> l, cur |-> s.cur, mem |-> s.mem]
  BY ONLY <1>2, s \in Caches(V) DEF Caches
<1>9. /\ r \in Caches(V) /\ r.blocks = done /\ r.head = h /\ r.tail = l
      /\ r.cur = s.cur /\ r.mem = s.mem
  BY <1>6, <1>7, <1>8 DEF Caches
<1>10. ASSUME NEW q \in Index
       PROVE  /\ r.blocks[q].id = s.blocks[At(q)].id
              /\ r.blocks[q].data = s.blocks[At(q)].data
              /\ r.blocks[q].next = IF q = y THEN to ELSE s.blocks[At(q)].next
              /\ r.blocks[q].previous = IF q = x THEN to ELSE s.blocks[At(q)].previous
  <2> HIDE DEF x, y, At
  <2> QED
    BY <1>3, <1>4, <1>6, <1>9
<1> QED
  BY <1>9, <1>10 DEF r, h, l

\* The pointers of the blocks of U are those of a list that stays in U.
Linked(U, nx, pv) ==
  /\ \A x \in U : nx[x] \in U \cup {Null} /\ pv[x] \in U \cup {Null}
  /\ \A x, y \in U : nx[x] = y <=> pv[y] = x
  /\ \A x \in U : nx[x] # x /\ pv[x] # x

\* A list is linked.
LEMMA ChainLinked ==
  ASSUME NEW U, NEW h, NEW l, NEW nx, NEW pv, NEW t, Chain(U, h, l, nx, pv, t)
  PROVE  Linked(U, nx, pv)
<1>1. U \subseteq Index /\ Null \notin U /\ \A x \in U : t[x] \in Int
  BY IndexFacts DEF Chain, Times
<1>2. ASSUME NEW x \in U
      PROVE  nx[x] \in U \cup {Null} /\ nx[x] # x
  <2>1. CASE x = l
    BY <1>1, <2>1 DEF Chain
  <2>2. CASE x # l
    <3>1. nx[x] \in U /\ t[nx[x]] < t[x]
      BY <2>2 DEF Chain
    <3> QED
      BY <1>1, <3>1
  <2> QED
    BY <2>1, <2>2
<1>3. ASSUME NEW x \in U
      PROVE  pv[x] \in U \cup {Null} /\ pv[x] # x
  <2>1. CASE x = h
    BY <1>1, <2>1 DEF Chain
  <2>2. CASE x # h
    <3>1. pv[x] \in U /\ t[x] < t[pv[x]]
      BY <2>2 DEF Chain
    <3> QED
      BY <1>1, <3>1
  <2> QED
    BY <2>1, <2>2
<1>4. ASSUME NEW x \in U, NEW y \in U, nx[x] = y
      PROVE  pv[y] = x
  BY <1>1, <1>4 DEF Chain
<1>5. ASSUME NEW x \in U, NEW y \in U, pv[y] = x
      PROVE  nx[x] = y
  BY <1>1, <1>5 DEF Chain
<1> QED
  BY <1>2, <1>3, <1>4, <1>5 DEF Linked

\* Of the places of an array, those of M have moved by d; now the block at k moves too, to
\* the place `to' that is free.  U are the blocks there are, by their first places.
Moving(U, M, M2, d, k, to) ==
  /\ U \subseteq Index /\ k \in U /\ to \in Index /\ to # k
  /\ \A q \in Index : Came(M, d, q) \in Index /\ Came(M2, d, q) \in Index
  /\ Goes(M, d, Null) = Null
  /\ \A x \in U : Goes(M, d, x) \in Index \ {to} /\ Came(M, d, Goes(M, d, x)) = x
  /\ \A q \in Index \ {to} : Came(M, d, q) \in U => Goes(M, d, Came(M, d, q)) = q
  /\ Came(M, d, k) = k
  /\ \A x \in Int : /\ Goes(M2, d, x) = (IF x = k THEN to ELSE Goes(M, d, x))
                    /\ Goes(M, d, x) = k <=> x = k
  /\ \A q \in Index : Came(M2, d, q) = IF q = to THEN k ELSE Came(M, d, q)

\* One more block moved is one more of the set of moved blocks.
LEMMA MoveOneMore ==
  ASSUME NEW V, NEW c \in Caches(V), NEW U, Linked(U, Nexts(c), Previouses(c)),
         NEW M, NEW M2, NEW d \in Int, NEW k, NEW to, Moving(U, M, M2, d, k, to),
         \A q \in Index \ {to} :
           Came(M, d, q) \notin U => /\ c.blocks[Came(M, d, q)].next \notin U
                                    /\ c.blocks[Came(M, d, q)].previous \notin U
  PROVE  MoveBlock(Shift(c, M, d), to, k) = Shift(c, M2, d)
<1> DEFINE G(x) == Goes(M, d, x)
           G2(x) == Goes(M2, d, x)
           B(q) == Came(M, d, q)
           B2(q) == Came(M2, d, q)
           s == Shift(c, M, d)
           u == Shift(c, M2, d)
           r == MoveBlock(s, to, k)
           n == c.blocks[k].next
           p == c.blocks[k].previous
<1>1. /\ U \subseteq Index /\ k \in U /\ to \in Index /\ to # k
      /\ \A q \in Index : B(q) \in Index /\ B2(q) \in Index
      /\ G(Null) = Null
      /\ \A x \in U : G(x) \in Index \ {to} /\ B(G(x)) = x
      /\ \A q \in Index \ {to} : B(q) \in U => G(B(q)) = q
      /\ B(k) = k
      /\ \A x \in Int : G2(x) = (IF x = k THEN to ELSE G(x)) /\ (G(x) = k <=> x = k)
      /\ \A q \in Index : B2(q) = IF q = to THEN k ELSE B(q)
  BY DEF Moving
<1>2. /\ \A q \in Index : c.blocks[q].next \in Int /\ c.blocks[q].previous \in Int
      /\ \A q \in Index : Nexts(c)[q] = c.blocks[q].next /\ Previouses(c)[q] = c.blocks[q].previous
      /\ Null \notin Index /\ c.head \in Int /\ c.tail \in Int
  BY CacheFacts, IndexFacts
<1>3. /\ \A x \in U : c.blocks[x].next \in U \cup {Null} /\ c.blocks[x].previous \in U \cup {Null}
      /\ \A x, y \in U : c.blocks[x].next = y <=> c.blocks[y].previous = x
      /\ \A x \in U : c.blocks[x].next # x /\ c.blocks[x].previous # x
      /\ \A q \in Index \ {to} :
           B(q) \notin U => c.blocks[B(q)].next \notin U /\ c.blocks[B(q)].previous \notin U
  BY <1>1, <1>2 DEF Linked
<1>4. /\ s \in Caches(V) /\ s.cur = c.cur /\ s.mem = c.mem /\ s.head = G(c.head) /\ s.tail = G(c.tail)
      /\ \A j \in Index :
           LET b == c.blocks[B(j)]
           IN  /\ s.blocks[j].id = b.id /\ s.blocks[j].data = b.data
               /\ s.blocks[j].next = G(b.next)
               /\ s.blocks[j].previous = G(b.previous)
  <2>1. \A j \in Index : Came(M, d, j) \in Index
    BY <1>1
  <2> QED
    BY ONLY <2>1, c \in Caches(V), d \in Int, ShiftFields
<1>5. /\ u \in Caches(V) /\ u.cur = c.cur /\ u.mem = c.mem /\ u.head = G2(c.head) /\ u.tail = G2(c.tail)
      /\ \A j \in Index :
           LET b == c.blocks[B2(j)]
           IN  /\ u.blocks[j].id = b.id /\ u.blocks[j].data = b.data
               /\ u.blocks[j].next = G2(b.next)
               /\ u.blocks[j].previous = G2(b.previous)
  <2>1. \A j \in Index : Came(M2, d, j) \in Index
    BY <1>1
  <2> QED
    BY ONLY <2>1, c \in Caches(V), d \in Int, ShiftFields
<1> HIDE DEF G, G2, B, B2, s, u
<1>6. s.blocks[k].next = G(n) /\ s.blocks[k].previous = G(p) /\ n \in Int /\ p \in Int
  BY <1>1, <1>2, <1>4
<1>7. G(n) # to /\ G(p) # to /\ G(n) \in Index \cup {Null} /\ G(p) \in Index \cup {Null}
  BY <1>1, <1>2, <1>3
<1> DEFINE At(q) == IF q = to THEN k ELSE q
<1>8. /\ r \in Caches(V) /\ r.cur = s.cur /\ r.mem = s.mem
      /\ r.head = (IF s.head = k THEN to ELSE s.head)
      /\ r.tail = (IF s.tail = k THEN to ELSE s.tail)
      /\ \A q \in Index :
           /\ r.blocks[q].id = s.blocks[At(q)].id
           /\ r.blocks[q].data = s.blocks[At(q)].data
           /\ r.blocks[q].next = IF q = G(p) THEN to ELSE s.blocks[At(q)].next
           /\ r.blocks[q].previous = IF q = G(n) THEN to ELSE s.blocks[At(q)].previous
  <2>1. /\ k \in Index /\ s.blocks[k].previous \in (Index \ {to}) \cup {Null}
        /\ s.blocks[k].next \in Index \cup {Null}
    BY <1>1, <1>6, <1>7
  <2>2. /\ r \in Caches(V) /\ r.cur = s.cur /\ r.mem = s.mem
        /\ r.head = (IF s.head = k THEN to ELSE s.head)
        /\ r.tail = (IF s.tail = k THEN to ELSE s.tail)
        /\ \A q \in Index :
             /\ r.blocks[q].id = s.blocks[At(q)].id
             /\ r.blocks[q].data = s.blocks[At(q)].data
             /\ r.blocks[q].next = IF q = s.blocks[k].previous THEN to ELSE s.blocks[At(q)].next
             /\ r.blocks[q].previous = IF q = s.blocks[k].next THEN to ELSE s.blocks[At(q)].previous
    BY <1>1, <1>4, <2>1, MoveBlockFields
  <2> HIDE DEF r, n, p
  <2> QED
    BY <1>6, <2>2
<1> HIDE DEF r, n, p
<1>9. u.head = r.head /\ u.tail = r.tail /\ u.cur = r.cur /\ u.mem = r.mem
  BY <1>1, <1>2, <1>4, <1>5, <1>8
<1>10. ASSUME NEW q \in Index
       PROVE  /\ B(At(q)) = B2(q) /\ B2(q) \in Index
              /\ At(q) \in Index
  BY <1>1
<1>11. ASSUME NEW q \in Index
       PROVE  G2(c.blocks[B2(q)].next) = IF q = G(p) THEN to ELSE G(c.blocks[B2(q)].next)
  <2> DEFINE y == c.blocks[B2(q)].next
  <2>1. y \in Int /\ G2(y) = IF y = k THEN to ELSE G(y)
    BY <1>1, <1>2, <1>10
  <2>2. y = k <=> q = G(p)
    <3>1. CASE q = to
      <4>1. y = n /\ n # k
        BY <1>1, <1>3, <3>1 DEF n
      <4> QED
        BY <1>7, <3>1, <4>1
    <3>2. CASE q # to
      <4>1. B2(q) = B(q) /\ B(q) \in Index
        BY <1>1, <3>2
      <4>2. ASSUME y = k
            PROVE  q = G(p)
        <5>1. B(q) \in U
          BY <1>1, <1>3, <3>2, <4>1, <4>2
        <5>2. p = B(q)
          BY <1>1, <1>3, <4>1, <4>2, <5>1 DEF p
        <5> QED
          BY <1>1, <3>2, <5>1, <5>2
      <4>3. ASSUME q = G(p)
            PROVE  y = k
        <5>1. p \in U
          <6>1. p \in U \cup {Null} /\ G(Null) \notin Index
            BY <1>1, <1>2, <1>3 DEF p
          <6> QED
            BY <4>3, <6>1
        <5>2. B(q) = p
          BY <1>1, <4>3, <5>1
        <5> QED
          BY <1>1, <1>3, <4>1, <5>1, <5>2 DEF p
      <4> QED
        BY <4>2, <4>3
    <3> QED
      BY <3>1, <3>2
  <2> QED
    BY <2>1, <2>2
<1>12. ASSUME NEW q \in Index
       PROVE  G2(c.blocks[B2(q)].previous) = IF q = G(n) THEN to ELSE G(c.blocks[B2(q)].previous)
  <2> DEFINE y == c.blocks[B2(q)].previous
  <2>1. y \in Int /\ G2(y) = IF y = k THEN to ELSE G(y)
    BY <1>1, <1>2, <1>10
  <2>2. y = k <=> q = G(n)
    <3>1. CASE q = to
      <4>1. y = p /\ p # k
        BY <1>1, <1>3, <3>1 DEF p
      <4> QED
        BY <1>7, <3>1, <4>1
    <3>2. CASE q # to
      <4>1. B2(q) = B(q) /\ B(q) \in Index
        BY <1>1, <3>2
      <4>2. ASSUME y = k
            PROVE  q = G(n)
        <5>1. B(q) \in U
          BY <1>1, <1>3, <3>2, <4>1, <4>2
        <5>2. n = B(q)
          BY <1>1, <1>3, <4>1, <4>2, <5>1 DEF n
        <5> QED
          BY <1>1, <3>2, <5>1, <5>2
      <4>3. ASSUME q = G(n)
            PROVE  y = k
        <5>1. n \in U
          <6>1. n \in U \cup {Null} /\ G(Null) \notin Index
            BY <1>1, <1>2, <1>3 DEF n
          <6> QED
            BY <4>3, <6>1
        <5>2. B(q) = n
          BY <1>1, <4>3, <5>1
        <5> QED
          BY <1>1, <1>3, <4>1, <5>1, <5>2 DEF n
      <4> QED
        BY <4>2, <4>3
    <3> QED
      BY <3>1, <3>2
  <2> QED
    BY <2>1, <2>2
<1>13. ASSUME NEW q \in Index
       PROVE  /\ u.blocks[q].id = r.blocks[q].id /\ u.blocks[q].data = r.blocks[q].data
              /\ u.blocks[q].next = r.blocks[q].next /\ u.blocks[q].previous = r.blocks[q].previous
  <2> DEFINE b == c.blocks[B2(q)]
  <2>1. /\ s.blocks[At(q)].id = b.id /\ s.blocks[At(q)].data = b.data
        /\ s.blocks[At(q)].next = G(b.next) /\ s.blocks[At(q)].previous = G(b.previous)
    BY <1>4, <1>10
  <2>2. /\ u.blocks[q].id = b.id /\ u.blocks[q].data = b.data
        /\ u.blocks[q].next = G2(b.next) /\ u.blocks[q].previous = G2(b.previous)
    BY <1>5
  <2> QED
    BY <1>8, <1>11, <1>12, <2>1, <2>2
<1>14. u = r
  BY <1>5, <1>8, <1>9, <1>13, SameCache
<1> QED
  BY <1>14 DEF r, s, u

\* Moving nothing.
LEMMA ShiftNothing ==
  ASSUME NEW V, NEW c \in Caches(V), NEW d \in Int
  PROVE  Shift(c, {}, d) = c
<1> DEFINE s == Shift(c, {}, d)
<1>1. \A k : Goes({}, d, k) = k /\ Came({}, d, k) = k
  BY DEF Goes, Came
<1>2. /\ s \in Caches(V) /\ s.cur = c.cur /\ s.mem = c.mem
      /\ s.head = Goes({}, d, c.head) /\ s.tail = Goes({}, d, c.tail)
      /\ \A j \in Index :
           LET b == c.blocks[Came({}, d, j)]
           IN  /\ s.blocks[j].id = b.id /\ s.blocks[j].data = b.data
               /\ s.blocks[j].next = Goes({}, d, b.next)
               /\ s.blocks[j].previous = Goes({}, d, b.previous)
  <2>1. \A j \in Index : Came({}, d, j) \in Index
    BY <1>1
  <2> QED
    BY ONLY <2>1, c \in Caches(V), d \in Int, ShiftFields
<1> HIDE DEF s
<1>3. s = c
  BY <1>1, <1>2, SameCache
<1> QED
  BY <1>3 DEF s

\* The places when the block at k moves down, those from j on having moved.
LEMMA DownPlaces ==
  ASSUME NEW j \in Index, NEW k \in (j + 1)..(MaxBlocks - 1)
  PROVE  Moving(Index \ {j}, (j + 1)..(k - 1), (j + 1)..k, -1, k, k - 1)
<1> DEFINE U == Index \ {j}
           M == (j + 1)..(k - 1)
           M2 == (j + 1)..k
           G(x) == Goes(M, -1, x)
           G2(x) == Goes(M2, -1, x)
           B(q) == Came(M, -1, q)
           B2(q) == Came(M2, -1, q)
           N == MaxBlocks - 1
<1>1. /\ N \in Int /\ j \in Int /\ k \in Int /\ 0 <= j /\ j < k /\ k <= N
      /\ \A x : x \in Index <=> x \in Int /\ 0 <= x /\ x <= N
  BY IndexFacts DEF Index
<1> HIDE DEF N
<1>2. \A x \in Int : G(x) = IF j < x /\ x < k THEN x - 1 ELSE x
  BY <1>1 DEF Goes
<1>3. \A x \in Int : G2(x) = IF j < x /\ x <= k THEN x - 1 ELSE x
  BY <1>1 DEF Goes
<1>4. \A x \in Int : B(x) = IF j <= x /\ x < k - 1 THEN x + 1 ELSE x
  BY <1>1 DEF Came
<1>5. \A x \in Int : B2(x) = IF j <= x /\ x < k THEN x + 1 ELSE x
  BY <1>1 DEF Came
<1>6. /\ U \subseteq Index /\ k \in U /\ k - 1 \in Index /\ k - 1 # k
      /\ \A x : x \in U <=> x \in Int /\ 0 <= x /\ x <= N /\ x # j
  BY <1>1
<1> HIDE DEF G, G2, B, B2, U, M, M2
<1>7. \A q \in Index : B(q) \in Index /\ B2(q) \in Index
  BY <1>1, <1>4, <1>5
<1>8. G(Null) = Null
  BY <1>1, <1>2 DEF Null
<1>9. \A x \in U : G(x) \in Index \ {k - 1} /\ B(G(x)) = x
  BY <1>1, <1>2, <1>4, <1>6
<1>10. \A q \in Index \ {k - 1} : B(q) \in U => G(B(q)) = q
  BY <1>1, <1>2, <1>4, <1>6
<1>11. B(k) = k
  BY <1>1, <1>4
<1>12. \A x \in Int : G2(x) = (IF x = k THEN k - 1 ELSE G(x)) /\ (G(x) = k <=> x = k)
  BY <1>1, <1>2, <1>3
<1>13. \A q \in Index : B2(q) = IF q = k - 1 THEN k ELSE B(q)
  BY <1>1, <1>4, <1>5
<1> QED
  BY <1>6, <1>7, <1>8, <1>9, <1>10, <1>11, <1>12, <1>13 DEF Moving, G, G2, B, B2, U, M, M2

\* The places when the block at k moves up, those behind it having moved.
LEMMA UpPlaces ==
  ASSUME NEW n \in Index, NEW k \in 0..(n - 1)
  PROVE  Moving(0..(n - 1), (k + 1)..(n - 1), k..(n - 1), 1, k, k + 1)
<1> DEFINE U == 0..(n - 1)
           M == (k + 1)..(n - 1)
           M2 == k..(n - 1)
           G(x) == Goes(M, 1, x)
           G2(x) == Goes(M2, 1, x)
           B(q) == Came(M, 1, q)
           B2(q) == Came(M2, 1, q)
           N == MaxBlocks - 1
<1>1. /\ N \in Int /\ n \in Int /\ k \in Int /\ 0 <= k /\ k < n /\ n <= N
      /\ \A x : x \in Index <=> x \in Int /\ 0 <= x /\ x <= N
  BY IndexFacts DEF Index
<1> HIDE DEF N
<1>2. \A x \in Int : G(x) = IF k < x /\ x < n THEN x + 1 ELSE x
  BY <1>1 DEF Goes
<1>3. \A x \in Int : G2(x) = IF k <= x /\ x < n THEN x + 1 ELSE x
  BY <1>1 DEF Goes
<1>4. \A x \in Int : B(x) = IF k + 1 < x /\ x <= n THEN x - 1 ELSE x
  BY <1>1 DEF Came
<1>5. \A x \in Int : B2(x) = IF k < x /\ x <= n THEN x - 1 ELSE x
  BY <1>1 DEF Came
<1>6. /\ U \subseteq Index /\ k \in U /\ k + 1 \in Index /\ k + 1 # k
      /\ \A x : x \in U <=> x \in Int /\ 0 <= x /\ x < n
  BY <1>1
<1> HIDE DEF G, G2, B, B2, U, M, M2
<1>7. \A q \in Index : B(q) \in Index /\ B2(q) \in Index
  BY <1>1, <1>4, <1>5
<1>8. G(Null) = Null
  BY <1>1, <1>2 DEF Null
<1>9. \A x \in U : G(x) \in Index \ {k + 1} /\ B(G(x)) = x
  BY <1>1, <1>2, <1>4, <1>6
<1>10. \A q \in Index \ {k + 1} : B(q) \in U => G(B(q)) = q
  BY <1>1, <1>2, <1>4, <1>6
<1>11. B(k) = k
  BY <1>1, <1>4
<1>12. \A x \in Int : G2(x) = (IF x = k THEN k + 1 ELSE G(x)) /\ (G(x) = k <=> x = k)
  BY <1>1, <1>2, <1>3
<1>13. \A q \in Index : B2(q) = IF q = k + 1 THEN k ELSE B(q)
  BY <1>1, <1>4, <1>5
<1> QED
  BY <1>6, <1>7, <1>8, <1>9, <1>10, <1>11, <1>12, <1>13 DEF Moving, G, G2, B, B2, U, M, M2

\* A loop that counts up computes what each of its steps does.
LEMMA LoopUp ==
  ASSUME NEW c, NEW j \in Int, NEW i \in Int, j < i, NEW S,
         NEW A \in [j..i -> S], A[j] = c,
         \A k \in (j + 1)..i : A[k] = MoveBlock(A[k - 1], k - 1, k)
  PROVE  ShiftDown(c, j, i) = A[i]
<1> DEFINE Loops(g) == g = [k \in j..i |-> IF k = j THEN c ELSE MoveBlock(g[k - 1], k - 1, k)]
           after == CHOOSE g : Loops(g)
<1>1. Loops(A)
  <2>1. ASSUME NEW k \in j..i
        PROVE  A[k] = IF k = j THEN c ELSE MoveBlock(A[k - 1], k - 1, k)
    <3>1. k # j => k \in (j + 1)..i
      OBVIOUS
    <3> QED
      BY <3>1
  <2>2. A = [k \in j..i |-> A[k]]
    OBVIOUS
  <2>3. [k \in j..i |-> A[k]] = [k \in j..i |-> IF k = j THEN c ELSE MoveBlock(A[k - 1], k - 1, k)]
    BY <2>1
  <2> QED
    BY <2>2, <2>3
<1>2. Loops(after)
  <2> HIDE DEF Loops
  <2> QED
    BY <1>1
<1>3. ShiftDown(c, j, i) = after[i]
  BY DEF ShiftDown
<1>4. \A k \in j..i : after[k] = IF k = j THEN c ELSE MoveBlock(after[k - 1], k - 1, k)
  <2> HIDE DEF after
  <2> QED
    BY <1>2
<1> HIDE DEF after, Loops
<1> DEFINE T == {m \in Nat : j + m <= i => after[j + m] = A[j + m]}
<1>5. 0 \in T
  <2>1. j + 0 = j /\ j \in j..i
    OBVIOUS
  <2> QED
    BY <1>4, <2>1
<1>6. ASSUME NEW m \in Nat, m \in T
      PROVE  m + 1 \in T
  <2>1. SUFFICES ASSUME j + (m + 1) <= i
                 PROVE  after[j + (m + 1)] = A[j + (m + 1)]
    OBVIOUS
  <2> DEFINE k == j + (m + 1)
  <2>2. k \in (j + 1)..i /\ k \in j..i /\ k # j /\ k - 1 = j + m /\ j + m <= i
    BY <2>1
  <2>3. after[j + m] = A[j + m]
    BY <1>6, <2>2
  <2> HIDE DEF k
  <2>4. after[k] = A[k]
    BY <1>4, <2>2, <2>3
  <2> QED
    BY <2>4 DEF k
<1> HIDE DEF T
<1>7. \A m \in Nat : m \in T
  BY <1>5, <1>6, NatInduct
<1>8. i - j \in Nat /\ j + (i - j) = i
  OBVIOUS
<1>9. i - j \in T
  BY <1>7, <1>8
<1> QED
  BY <1>3, <1>8, <1>9 DEF T

\* A loop that counts down computes what each of its steps does.
LEMMA LoopDown ==
  ASSUME NEW c, NEW j \in Int, NEW i \in Int, i < j, NEW S,
         NEW A \in [i..j -> S], A[j] = c,
         \A k \in i..(j - 1) : A[k] = MoveBlock(A[k + 1], k + 1, k)
  PROVE  ShiftUp(c, j, i) = A[i]
<1> DEFINE Loops(g) == g = [k \in i..j |-> IF k = j THEN c ELSE MoveBlock(g[k + 1], k + 1, k)]
           after == CHOOSE g : Loops(g)
<1>1. Loops(A)
  <2>1. ASSUME NEW k \in i..j
        PROVE  A[k] = IF k = j THEN c ELSE MoveBlock(A[k + 1], k + 1, k)
    <3>1. k # j => k \in i..(j - 1)
      OBVIOUS
    <3> QED
      BY <3>1
  <2>2. A = [k \in i..j |-> A[k]]
    OBVIOUS
  <2>3. [k \in i..j |-> A[k]] = [k \in i..j |-> IF k = j THEN c ELSE MoveBlock(A[k + 1], k + 1, k)]
    BY <2>1
  <2> QED
    BY <2>2, <2>3
<1>2. Loops(after)
  <2> HIDE DEF Loops
  <2> QED
    BY <1>1
<1>3. ShiftUp(c, j, i) = after[i]
  BY DEF ShiftUp
<1>4. \A k \in i..j : after[k] = IF k = j THEN c ELSE MoveBlock(after[k + 1], k + 1, k)
  <2> HIDE DEF after
  <2> QED
    BY <1>2
<1> HIDE DEF after, Loops
<1> DEFINE T == {m \in Nat : i <= j - m => after[j - m] = A[j - m]}
<1>5. 0 \in T
  <2>1. j - 0 = j /\ j \in i..j
    OBVIOUS
  <2> QED
    BY <1>4, <2>1
<1>6. ASSUME NEW m \in Nat, m \in T
      PROVE  m + 1 \in T
  <2>1. SUFFICES ASSUME i <= j - (m + 1)
                 PROVE  after[j - (m + 1)] = A[j - (m + 1)]
    OBVIOUS
  <2> DEFINE k == j - (m + 1)
  <2>2. k \in i..(j - 1) /\ k \in i..j /\ k # j /\ k + 1 = j - m /\ i <= j - m
    BY <2>1
  <2>3. after[j - m] = A[j - m]
    BY <1>6, <2>2
  <2> HIDE DEF k
  <2>4. after[k] = A[k]
    BY <1>4, <2>2, <2>3
  <2> QED
    BY <2>4 DEF k
<1> HIDE DEF T
<1>7. \A m \in Nat : m \in T
  BY <1>5, <1>6, NatInduct
<1>8. j - i \in Nat /\ j - (j - i) = i
  OBVIOUS
<1>9. j - i \in T
  BY <1>7, <1>8
<1> QED
  BY <1>3, <1>8, <1>9 DEF T

\* The places after the block evicted, moved down up to i (lru_cache_put, a full cache).
LEMMA ShiftDownAgrees ==
  ASSUME NEW V, NEW c, CacheOK(c, V), Full(c), NEW i \in Index, c.tail < i, c.tail \in Index
  PROVE  LET j == c.tail
             new == c.blocks[j].previous
             cut == [c EXCEPT !.blocks[new].next = Null, !.tail = new]
         IN  ShiftDown(cut, j, i) = Shift(cut, (j + 1)..i, -1)
<1> DEFINE j == c.tail
           h == c.head
           p == c.blocks[j].previous
           nx0 == Nexts(c)
           pv0 == Previouses(c)
           all == c.blocks
           f0 == [all EXCEPT ![p].next = Null]
           cut == [c EXCEPT !.blocks = f0, !.tail = p]
           nx == Nexts(cut)
           pv == Previouses(cut)
           U == Index \ {j}
<1>1. c \in Caches(V) /\ Threaded(c)
  BY DEF CacheOK
<1>2. Used(c) = Index /\ c.cur # 0 /\ Index = 0..(MaxBlocks - 1) /\ MaxBlocks \in Nat /\ Null \notin Index
  BY IndexFacts DEF Full, Used, Index
<1>3. PICK t : Chain(Index, h, j, nx0, pv0, t)
  BY <1>1, <1>2 DEF Threaded
<1>4. /\ \A k \in Index : nx0[k] = c.blocks[k].next /\ pv0[k] = c.blocks[k].previous
      /\ all \in [Index -> Blocks] /\ Null \in Int /\ Index \subseteq Int
  BY <1>1, CacheFacts, IndexFacts DEF Null
<1>5. h \in Index /\ j \in Index /\ i \in Index /\ j < i
  BY <1>3 DEF Chain
<1> HIDE DEF nx0, pv0, h, j
<1>6. h # j
  <2>1. SUFFICES ASSUME h = j
                 PROVE  FALSE
    OBVIOUS
  <2>2. i # h /\ t[i] < t[h] /\ t[h] < t[i] /\ t[i] \in Int /\ t[h] \in Int
    BY <1>3, <1>4, <1>5, <2>1 DEF Chain, Times
  <2> QED
    BY <2>2
<1>7. p \in Index /\ p = pv0[j]
  <2>1. pv0[j] \in Index
    BY <1>3, <1>5, <1>6 DEF Chain
  <2> QED
    BY <1>4, <1>5, <2>1
<1> HIDE DEF all, p
<1>8. /\ f0 \in [Index -> Blocks]
      /\ \A k \in Index : /\ f0[k].id = all[k].id /\ f0[k].data = all[k].data
                          /\ f0[k].next = IF k = p THEN Null ELSE all[k].next
                          /\ f0[k].previous = all[k].previous
  <2>1. f0 \in [Index -> Blocks] /\ p \in Index
    BY <1>4, <1>7 DEF Blocks
  <2> QED
    BY ONLY <1>4, <1>7, <2>1, SetNext
<1> HIDE DEF f0
<1>9. cut \in Caches(V) /\ cut.blocks = f0
  BY <1>1, <1>4, <1>7, <1>8 DEF Caches
<1> HIDE DEF cut
<1>10. /\ nx \in Pointers /\ pv \in Pointers
       /\ \A k \in Index : nx[k] = f0[k].next /\ pv[k] = f0[k].previous
  BY <1>9, CacheFacts
<1>11. cut = [c EXCEPT !.blocks[p].next = Null, !.tail = p]
  BY <1>1 DEF cut, f0, all, Caches
<1> HIDE DEF nx, pv
<1>12. Linked(U, nx, pv)
  <2>1. pv = pv0
    <3>1. \A k \in Index : pv[k] = pv0[k]
      BY <1>4, <1>8, <1>10 DEF all
    <3> QED
      <4>1. pv \in [Index -> Int] /\ pv0 \in [Index -> Int]
        BY <1>3, <1>10 DEF Pointers, Chain
      <4> QED
        BY <3>1, <4>1
  <2>2. /\ nx[pv0[j]] = Null
        /\ \A k \in Index : k # pv0[j] => nx[k] = nx0[k]
    BY <1>4, <1>7, <1>8, <1>10 DEF all
  <2>3. Chain(U, h, pv0[j], nx, pv0, t)
    BY <1>3, <1>6, <1>10, <2>2, DropLast
  <2>4. Linked(U, nx, pv0)
    BY <2>3, ChainLinked
  <2> QED
    BY <2>1, <2>4
<1> DEFINE A == [k \in j..i |-> Shift(cut, (j + 1)..k, -1)]
<1>13. ASSUME NEW k \in (j + 1)..i
       PROVE  A[k] = MoveBlock(A[k - 1], k - 1, k)
  <2>1. /\ j \in Int /\ i \in Int /\ i <= MaxBlocks - 1
        /\ k \in (j + 1)..(MaxBlocks - 1) /\ k \in j..i /\ k - 1 \in j..i
    BY <1>2, <1>4, <1>5
  <2> DEFINE M == (j + 1)..(k - 1)
             M2 == (j + 1)..k
             to == k - 1
  <2>2. A[k] = Shift(cut, M2, -1) /\ A[k - 1] = Shift(cut, M, -1)
    BY <2>1
  <2>3. Moving(U, M, M2, -1, k, to)
    BY <1>5, <2>1, DownPlaces
  <2>4. \A q \in Index \ {to} : Came(M, -1, q) \in U
    <3>1. ASSUME NEW q \in Index \ {to}
          PROVE  Came(M, -1, q) # j
      BY <1>4, <2>1 DEF Came
    <3>2. \A q \in Index : Came(M, -1, q) \in Index
      BY <2>3 DEF Moving
    <3> QED
      BY <3>1, <3>2
  <2>5. -1 \in Int
    OBVIOUS
  <2>6. Linked(U, Nexts(cut), Previouses(cut))
    BY <1>12 DEF nx, pv
  <2> HIDE DEF A, M, M2, to, U
  <2>7. MoveBlock(Shift(cut, M, -1), to, k) = Shift(cut, M2, -1)
    BY ONLY <1>9, <2>3, <2>4, <2>5, <2>6, MoveOneMore
  <2> QED
    BY <2>2, <2>7 DEF to
<1>14. A[j] = cut
  <2>1. (j + 1)..j = {} /\ j \in j..i
    BY <1>4, <1>5
  <2>2. Shift(cut, {}, -1) = cut
    BY <1>9, ShiftNothing
  <2> QED
    BY <2>1, <2>2
<1>15. A[i] = Shift(cut, (j + 1)..i, -1) /\ A \in [j..i -> Caches(V)]
  <2>1. ASSUME NEW k \in j..i
        PROVE  Shift(cut, (j + 1)..k, -1) \in Caches(V)
    <3> DEFINE M == (j + 1)..k
    <3>1. \A q \in Index : Came(M, -1, q) \in Index
      BY <1>2, <1>4, <1>5 DEF Came
    <3> HIDE DEF M
    <3>2. -1 \in Int
      OBVIOUS
    <3>3. Shift(cut, M, -1) \in Caches(V)
      BY ONLY <1>9, <3>1, <3>2, ShiftFields
    <3> QED
      BY <3>3 DEF M
  <2>2. i \in j..i
    BY <1>4, <1>5
  <2> QED
    BY <2>1, <2>2
<1> HIDE DEF A
<1>16. ShiftDown(cut, j, i) = A[i]
  <2>1. j \in Int /\ i \in Int /\ j < i
    BY <1>4, <1>5
  <2>2. A \in [j..i -> Caches(V)]
    BY <1>15
  <2> QED
    BY ONLY <1>13, <1>14, <2>1, <2>2, LoopUp
<1> QED
  BY <1>11, <1>15, <1>16 DEF p, j, all

\* The places from i on, moved up into the first unused one (lru_cache_put, a cache with room).
LEMMA ShiftUpAgrees ==
  ASSUME NEW V, NEW c, CacheOK(c, V), ~Full(c), NEW i \in 0..c.cur
  PROVE  ShiftUp(c, c.cur, i) = Shift(c, i..(c.cur - 1), 1)
<1> DEFINE n == c.cur
           U == 0..(n - 1)
<1>1. c \in Caches(V) /\ Owned(c) /\ Threaded(c)
  BY DEF CacheOK
<1>2. /\ n \in Index /\ n \in Int /\ i \in Int /\ 0 <= i /\ i <= n /\ U = Used(c)
      /\ Null \notin Index /\ U \subseteq Index
  BY <1>1, CacheFacts, IndexFacts DEF Full, Index, Used
<1>3. CASE i = n
  <2>1. i..(n - 1) = {}
    BY <1>2, <1>3
  <2>2. Shift(c, {}, 1) = c
    BY <1>1, ShiftNothing
  <2>3. ShiftUp(c, n, i) = c
    BY <1>2, <1>3 DEF ShiftUp
  <2> QED
    BY <2>1, <2>2, <2>3
<1>4. CASE i < n
  <2>1. Linked(U, Nexts(c), Previouses(c))
    <3>1. PICK t : Chain(U, c.head, c.tail, Nexts(c), Previouses(c), t)
      BY <1>1, <1>2, <1>4 DEF Threaded
    <3> QED
      BY <3>1, ChainLinked
  <2> DEFINE A == [k \in i..n |-> Shift(c, k..(n - 1), 1)]
  <2>2. ASSUME NEW k \in i..(n - 1)
        PROVE  A[k] = MoveBlock(A[k + 1], k + 1, k)
    <3>1. k \in 0..(n - 1) /\ k \in i..n /\ k + 1 \in i..n
      BY <1>2
    <3> DEFINE M == (k + 1)..(n - 1)
               M2 == k..(n - 1)
               to == k + 1
    <3>2. A[k] = Shift(c, M2, 1) /\ A[k + 1] = Shift(c, M, 1)
      BY <3>1
    <3>3. Moving(U, M, M2, 1, k, to)
      BY <1>2, <3>1, UpPlaces
    <3>4. ASSUME NEW q \in Index \ {to}, Came(M, 1, q) \notin U
          PROVE  /\ c.blocks[Came(M, 1, q)].next \notin U
                 /\ c.blocks[Came(M, 1, q)].previous \notin U
      <4>1. Came(M, 1, q) \in Index \ Used(c)
        BY <1>2, <3>3, <3>4 DEF Moving
      <4>2. c.blocks[Came(M, 1, q)].next = Null /\ c.blocks[Came(M, 1, q)].previous = Null
        BY <1>1, <4>1 DEF Owned
      <4>3. Null \notin U
        BY <1>2
      <4> QED
        BY <4>2, <4>3
    <3>5. 1 \in Int
      OBVIOUS
    <3> HIDE DEF A, M, M2, to, U
    <3>6. MoveBlock(Shift(c, M, 1), to, k) = Shift(c, M2, 1)
      BY ONLY <1>1, <2>1, <3>3, <3>4, <3>5, MoveOneMore
    <3> QED
      BY <3>2, <3>6 DEF to
  <2>3. A[n] = c
    <3>1. n..(n - 1) = {} /\ n \in i..n
      BY <1>2
    <3>2. Shift(c, {}, 1) = c
      BY <1>1, ShiftNothing
    <3> QED
      BY <3>1, <3>2
  <2>4. A[i] = Shift(c, i..(n - 1), 1) /\ A \in [i..n -> Caches(V)]
    <3>1. ASSUME NEW k \in i..n
          PROVE  Shift(c, k..(n - 1), 1) \in Caches(V)
      <4> DEFINE M == k..(n - 1)
      <4>1. \A q \in Index : Came(M, 1, q) \in Index
        BY <1>2, IndexFacts DEF Came, Index
      <4> HIDE DEF M
      <4>2. 1 \in Int
        OBVIOUS
      <4>3. Shift(c, M, 1) \in Caches(V)
        BY ONLY <1>1, <4>1, <4>2, ShiftFields
      <4> QED
        BY <4>3 DEF M
    <3> QED
      BY <1>2, <3>1
  <2> HIDE DEF A
  <2>5. ShiftUp(c, n, i) = A[i]
    <3>1. A \in [i..n -> Caches(V)]
      BY <2>4
    <3> HIDE DEF n
    <3> QED
      BY ONLY <1>2, <1>4, <2>2, <2>3, <3>1, LoopDown
  <2> QED
    BY <2>4, <2>5
<1> QED
  BY <1>2, <1>3, <1>4

\* The shifts of a cache that can be.
LEMMA ShiftsAreRight == IInv => ShiftsAgree
<1> SUFFICES ASSUME IInv
             PROVE  ShiftsAgree
  OBVIOUS
<1>1. CacheOK(cache, Stored)
  BY DEF IInv
<1>2. ASSUME Full(cache), NEW i \in Index, NEW j \in Index, j < i, j = cache.tail
      PROVE  LET new == cache.blocks[j].previous
                 cut == [cache EXCEPT !.blocks[new].next = Null, !.tail = new]
             IN  ShiftDown(cut, j, i) = Shift(cut, (j + 1)..i, -1)
  BY <1>1, <1>2, ShiftDownAgrees
<1>3. ASSUME ~Full(cache), NEW i \in 0..cache.cur
      PROVE  ShiftUp(cache, cache.cur, i) = Shift(cache, i..(cache.cur - 1), 1)
  BY <1>1, <1>3, ShiftUpAgrees
<1> QED
  BY <1>2, <1>3 DEF ShiftsAgree

\* The search of a cache that can be.
LEMMA SearchIsRight == IInv => SearchFindsThePlace
<1> SUFFICES ASSUME IInv, NEW id \in Ids
             PROVE  BinarySearch(cache, id) = IF Found(cache, id) THEN IndexOf(cache, id)
                                              ELSE -InsertionPoint(cache, id) - 1
  BY DEF SearchFindsThePlace
<1>1. CacheOK(cache, Stored) /\ id \in Nat
  BY IdsAreNumbers DEF IInv
<1> QED
  BY <1>1, SearchAgrees

-----------------------------------------------------------------------------
\* The usage list threads every used block exactly once, whatever was got and put
\* (lru_cache_get, lru_cache_put).
THEOREM NoBlockIsLost == Spec => []WellLinked
<1>1. IInv /\ [Next]_vars => IInv'
  BY StepIInv
<1>2. Init => IInv
  BY InitIInv
<1>3. IInv => WellLinked
  BY ThreadedList
<1> QED
  BY <1>1, <1>2, <1>3, PTL DEF Spec

\* No two blocks share a data area and lru_cache_free releases the allocated one.
THEOREM NoAreaIsShared == Spec => []AreasAreOwned
<1>1. IInv /\ [Next]_vars => IInv'
  BY StepIInv
<1>2. Init => IInv
  BY InitIInv
<1>3. IInv => AreasAreOwned
  BY OwnedAreas
<1> QED
  BY <1>1, <1>2, <1>3, PTL DEF Spec

\* The cache does what lru_cache.h promises: the blocks that stay are the ones used last,
\* each with the value stored last under its id (lru_cache_get, lru_cache_put).
THEOREM CacheImplementsLru == Spec => ImplementsLru
<1>1. Init => IInv /\ Lru!Init
  BY InitIInv, InitImplements
<1>2. IInv /\ [Next]_vars => IInv' /\ [Lru!Next]_(Lru!vars)
  BY StepIInv, StepImplements
<1> QED
  BY <1>1, <1>2, PTL DEF Spec, ImplementsLru, Lru!Spec

\* The search and the shifts of lru_cache.c compute what the store says of them: the place
\* of an id, and the array and its links after all blocks moved (find_block, lru_cache_put).
THEOREM LoopsCompute == Spec => []LoopsAgree
<1>1. IInv /\ [Next]_vars => IInv'
  BY StepIInv
<1>2. Init => IInv
  BY InitIInv
<1>3. IInv => LoopsAgree
  BY SearchIsRight, ShiftsAreRight DEF LoopsAgree
<1> QED
  BY <1>1, <1>2, <1>3, PTL DEF Spec
=============================================================================
