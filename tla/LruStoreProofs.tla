-------------------------- MODULE LruStoreProofs ---------------------------
(***************************************************************************)
(* What the operations of lru_cache.c keep and return, for every number of *)
(* blocks, when new ids are put in ascending order: the array is sorted,   *)
(* the usage list threads the used blocks, no two blocks share an area.    *)
(*                                                                         *)
(* A usage list is described without following it: there are times of last *)
(* use that fall along the next pointers, from head to tail, and nothing   *)
(* lies between neighbours.                                                *)
(***************************************************************************)
EXTENDS LruStore, FiniteSetTheorems, TLAPS

Times == [Index -> Int]
Pointers == [Index -> Int]

\* The blocks of U are a list from h to l; the times t fall along it.
Chain(U, h, l, nx, pv, t) ==
  /\ U \subseteq Index /\ h \in U /\ l \in U
  /\ nx \in Pointers /\ pv \in Pointers /\ t \in Times
  /\ \A i, j \in U : t[i] = t[j] => i = j
  /\ \A i \in U \ {h} : t[i] < t[h]
  /\ \A i \in U \ {l} : t[l] < t[i]
  /\ \A i \in U \ {h} : pv[i] \in U /\ nx[pv[i]] = i /\ t[i] < t[pv[i]]
  /\ \A i \in U \ {h} : \A j \in U : t[j] <= t[i] \/ t[pv[i]] <= t[j]
  /\ \A i \in U \ {l} : nx[i] \in U /\ pv[nx[i]] = i /\ t[nx[i]] < t[i]
  /\ nx[l] = Null /\ pv[h] = Null

\* Places in the array are numbers below MaxBlocks, and not Null.
LEMMA IndexFacts ==
  /\ MaxBlocks \in Nat /\ MaxBlocks >= 2
  /\ Index \subseteq Nat /\ Null \notin Index
  /\ \A i \in Index : i \in Int /\ 0 <= i /\ i < MaxBlocks
  BY MaxBlocksAssumption DEF Index, Null

\* A list of one block.
LEMMA OneBlock ==
  ASSUME NEW i \in Index, NEW nx \in Pointers, NEW pv \in Pointers,
         nx[i] = Null, pv[i] = Null
  PROVE  \E t : Chain({i}, i, i, nx, pv, t)
<1> DEFINE t == [k \in Index |-> 0]
<1>1. Chain({i}, i, i, nx, pv, t)
  BY DEF Chain, Times
<1> QED
  BY <1>1

\* A block that is not in the list is put in front of it.
LEMMA PushFront ==
  ASSUME NEW U, NEW h, NEW l, NEW nx, NEW pv, NEW t, Chain(U, h, l, nx, pv, t),
         NEW i \in Index, i \notin U,
         NEW nx2 \in Pointers, NEW pv2 \in Pointers,
         nx2[i] = h, pv2[i] = Null, pv2[h] = i,
         \A k \in U : nx2[k] = nx[k],
         \A k \in U : k # h => pv2[k] = pv[k]
  PROVE  \E t2 : Chain(U \cup {i}, i, l, nx2, pv2, t2)
<1> DEFINE t2 == [k \in Index |-> IF k = i THEN t[h] + 1 ELSE t[k]]
           V == U \cup {i}
<1>1. /\ t2 \in Times /\ t2[i] = t[h] + 1 /\ t[h] \in Int
      /\ \A k \in U : t2[k] = t[k] /\ t[k] \in Int /\ t[k] <= t[h] /\ k # i
      /\ h \in U /\ l \in U /\ U \subseteq Index
  BY DEF Chain, Times
<1> HIDE DEF t2
<1>2. \A k, j \in V : t2[k] = t2[j] => k = j
  BY <1>1 DEF Chain
<1>3. \A k \in V \ {i} : t2[k] < t2[i]
  BY <1>1
<1>4. \A k \in V \ {l} : t2[l] < t2[k]
  BY <1>1 DEF Chain
<1>5. ASSUME NEW k \in V \ {i}
      PROVE  /\ pv2[k] \in V /\ nx2[pv2[k]] = k /\ t2[k] < t2[pv2[k]]
             /\ \A j \in V : t2[j] <= t2[k] \/ t2[pv2[k]] <= t2[j]
  <2>1. CASE k = h
    BY <1>1, <2>1
  <2>2. CASE k # h
    <3>1. k \in U \ {h} /\ pv2[k] = pv[k] /\ pv[k] \in U
      BY <2>2 DEF Chain
    <3> QED
      BY <1>1, <3>1 DEF Chain
  <2> QED
    BY <2>1, <2>2
<1>6. ASSUME NEW k \in V \ {l}
      PROVE  nx2[k] \in V /\ pv2[nx2[k]] = k /\ t2[nx2[k]] < t2[k]
  <2>1. CASE k = i
    BY <1>1, <2>1
  <2>2. CASE k # i
    <3>1. k \in U \ {l} /\ nx2[k] = nx[k] /\ nx[k] \in U /\ pv[nx[k]] = k /\ t[nx[k]] < t[k]
      BY <2>2 DEF Chain
    <3>2. nx[k] # h
      BY <1>1, <3>1
    <3> QED
      BY <1>1, <3>1, <3>2
  <2> QED
    BY <2>1, <2>2
<1>7. nx2[l] = Null
  BY <1>1 DEF Chain
<1>8. Chain(V, i, l, nx2, pv2, t2)
  BY <1>1, <1>2, <1>3, <1>4, <1>5, <1>6, <1>7 DEF Chain
<1> QED
  BY <1>8

\* The last block of a list of two or more is taken off.
LEMMA DropLast ==
  ASSUME NEW U, NEW h, NEW l, NEW nx, NEW pv, NEW t, Chain(U, h, l, nx, pv, t), h # l,
         NEW nx2 \in Pointers, nx2[pv[l]] = Null,
         \A k \in U : k # pv[l] => nx2[k] = nx[k]
  PROVE  Chain(U \ {l}, h, pv[l], nx2, pv, t)
<1> DEFINE p == pv[l]
           V == U \ {l}
<1>1. /\ U \subseteq Index /\ h \in U /\ l \in U /\ p \in U /\ nx[p] = l /\ t[l] < t[p]
      /\ \A k \in U : t[k] \in Int
      /\ \A j \in U : t[j] <= t[l] \/ t[p] <= t[j]
  BY DEF Chain, Times
<1>2. p \in V /\ h \in V
  BY <1>1
<1>3. \A k \in V \ {p} : t[p] < t[k]
  BY <1>1 DEF Chain
<1>4. ASSUME NEW k \in V \ {h}
      PROVE  /\ pv[k] \in V /\ nx2[pv[k]] = k /\ t[k] < t[pv[k]]
             /\ \A j \in V : t[j] <= t[k] \/ t[pv[k]] <= t[j]
  <2>1. pv[k] \in U /\ nx[pv[k]] = k /\ t[k] < t[pv[k]]
    BY DEF Chain
  <2>2. pv[k] # l
    BY <2>1 DEF Chain, Null, Index
  <2>3. pv[k] # p
    BY <1>1, <2>1
  <2> QED
    BY <2>1, <2>2, <2>3 DEF Chain
<1>5. ASSUME NEW k \in V \ {p}
      PROVE  nx2[k] \in V /\ pv[nx2[k]] = k /\ t[nx2[k]] < t[k]
  <2>1. nx[k] \in U /\ pv[nx[k]] = k /\ t[nx[k]] < t[k] /\ nx2[k] = nx[k]
    BY DEF Chain
  <2>2. nx[k] # l
    BY <2>1
  <2> QED
    BY <2>1, <2>2
<1> QED
  BY <1>1, <1>2, <1>3, <1>4, <1>5 DEF Chain

\* A block of the list that is not its first becomes the first.
LEMMA MoveFront ==
  ASSUME NEW U, NEW h, NEW l, NEW nx, NEW pv, NEW t, Chain(U, h, l, nx, pv, t),
         NEW i \in U, i # h,
         NEW nx2 \in Pointers, NEW pv2 \in Pointers,
         nx2[i] = h, pv2[i] = Null, pv2[h] = i,
         \A k \in U : k # i => nx2[k] = IF k = pv[i] THEN nx[i] ELSE nx[k],
         \A k \in U : k # i /\ k # h => pv2[k] = IF k = nx[i] THEN pv[i] ELSE pv[k]
  PROVE  \E t2 : Chain(U, i, IF i = l THEN pv[i] ELSE l, nx2, pv2, t2)
<1> DEFINE t2 == [k \in Index |-> IF k = i THEN t[h] + 1 ELSE t[k]]
           p == pv[i]
           n == IF i = l THEN p ELSE l
<1>1. /\ t2 \in Times /\ t2[i] = t[h] + 1 /\ t[h] \in Int
      /\ \A k \in U : t[k] \in Int /\ t[k] <= t[h] /\ (k # i => t2[k] = t[k])
      /\ h \in U /\ l \in U /\ U \subseteq Index
      /\ p \in U /\ nx[p] = i /\ t[i] < t[p] /\ p # i
      /\ \A j \in U : t[j] <= t[i] \/ t[p] <= t[j]
      /\ \A j \in U : j # i => t[j] # t[i]
  BY DEF Chain, Times
<1> HIDE DEF t2
<1>2. \A k, j \in U : t2[k] = t2[j] => k = j
  <2>1. ASSUME NEW k \in U, NEW j \in U, t2[k] = t2[j]
        PROVE  k = j
    <3>1. CASE k = i
      BY <1>1, <2>1, <3>1
    <3>2. CASE j = i
      BY <1>1, <2>1, <3>2
    <3>3. CASE k # i /\ j # i
      <4>1. t[k] = t[j]
        BY <1>1, <2>1, <3>3
      <4> QED
        BY <4>1 DEF Chain
    <3> QED
      BY <3>1, <3>2, <3>3
  <2> QED
    BY <2>1
<1>3. \A k \in U \ {i} : t2[k] < t2[i]
  BY <1>1
<1>4. n \in U /\ n # i
  BY <1>1
<1>5. \A k \in U \ {n} : t2[n] < t2[k]
  <2>1. CASE i = l
    <3>1. ASSUME NEW k \in U \ {n}
          PROVE  t2[n] < t2[k]
      <4>1. CASE k = i
        BY <1>1, <4>1, <2>1
      <4>2. CASE k # i
        <5>1. t[l] < t[k] /\ t[k] # t[p]
          BY <4>2, <2>1, <3>1, <1>1 DEF Chain
        <5>2. t[p] < t[k]
          BY <5>1, <1>1, <2>1
        <5> QED
          BY <5>2, <4>2, <1>1, <2>1
      <4> QED
        BY <4>1, <4>2
    <3> QED
      BY <3>1
  <2>2. CASE i # l
    <3>1. n = l /\ \A k \in U \ {l} : t[l] < t[k]
      BY <2>2 DEF Chain
    <3> QED
      BY <1>1, <2>2, <3>1
  <2> QED
    BY <2>1, <2>2
<1>6. ASSUME NEW k \in U \ {i}
      PROVE  /\ pv2[k] \in U /\ nx2[pv2[k]] = k /\ t2[k] < t2[pv2[k]]
             /\ \A j \in U : t2[j] <= t2[k] \/ t2[pv2[k]] <= t2[j]
  <2>1. CASE k = h
    <3>1. pv2[k] = i /\ nx2[i] = k
      BY <2>1
    <3>2. \A j \in U : t2[j] <= t2[k] \/ t2[i] <= t2[j]
      BY <1>1, <2>1
    <3> QED
      BY <3>1, <3>2, <1>3, <1>1
  <2>2. CASE k # h
    <3>1. /\ k \in U \ {h} /\ pv[k] \in U /\ nx[pv[k]] = k /\ t[k] < t[pv[k]]
          /\ \A j \in U : t[j] <= t[k] \/ t[pv[k]] <= t[j]
      BY <2>2 DEF Chain
    <3>2. CASE k = nx[i]
      <4>1. i # l
        BY <3>1, <3>2, IndexFacts, <1>1 DEF Chain
      <4>2. pv[k] = i
        BY <4>1, <3>2 DEF Chain
      <4>3. pv2[k] = p /\ nx2[p] = k
        BY <2>2, <3>2, <1>1
      <4>4. t2[k] < t2[p]
        BY <1>1, <3>1, <4>2
      <4>5. ASSUME NEW j \in U
            PROVE  t2[j] <= t2[k] \/ t2[p] <= t2[j]
        <5>1. CASE j = i
          BY <5>1, <1>1
        <5>2. CASE j # i
          <6>1. t[j] <= t[k] \/ t[i] <= t[j]
            BY <3>1, <4>2
          <6>2. t[j] <= t[k] \/ t[p] <= t[j]
            BY <6>1, <1>1, <5>2
          <6> QED
            BY <6>2, <1>1, <5>2
        <5> QED
          BY <5>1, <5>2
      <4> QED
        BY <1>1, <4>3, <4>4, <4>5
    <3>3. CASE k # nx[i]
      <4>1. pv2[k] = pv[k]
        BY <2>2, <3>3
      <4>2. pv[k] # i /\ pv[k] # p
        BY <1>1, <3>1, <3>3
      <4>3. nx2[pv[k]] = k
        BY <3>1, <4>2
      <4>4. \A j \in U : t2[j] <= t2[k] \/ t2[pv[k]] <= t2[j]
        BY <1>1, <3>1, <4>2
      <4> QED
        BY <1>1, <3>1, <4>1, <4>2, <4>3, <4>4
    <3> QED
      BY <3>2, <3>3
  <2> QED
    BY <2>1, <2>2
<1>7. ASSUME NEW k \in U \ {n}
      PROVE  nx2[k] \in U /\ pv2[nx2[k]] = k /\ t2[nx2[k]] < t2[k]
  <2>1. CASE k = i
    BY <1>1, <2>1
  <2>2. CASE k = p
    <3>1. i # l /\ nx2[k] = nx[i]
      BY <1>1, <2>2
    <3>2. nx[i] \in U /\ pv[nx[i]] = i /\ t[nx[i]] < t[i]
      BY <3>1 DEF Chain
    <3>3. nx[i] # i /\ nx[i] # h
      BY <3>2, <1>1
    <3>4. pv2[nx[i]] = k
      BY <3>2, <3>3, <2>2
    <3> QED
      BY <3>1, <3>2, <3>3, <3>4, <2>2, <1>1
  <2>3. CASE k # i /\ k # p
    <3>1. k # l
      BY <2>3
    <3>2. nx[k] \in U /\ pv[nx[k]] = k /\ t[nx[k]] < t[k] /\ nx2[k] = nx[k]
      BY <3>1, <2>3 DEF Chain
    <3>3. nx[k] # i /\ nx[k] # h
      BY <3>2, <2>3, <1>1
    <3>4. nx[k] # nx[i]
      <4>1. CASE i = l
        <5>1. nx[i] = Null
          BY <4>1 DEF Chain
        <5> QED
          BY <5>1, <3>2, IndexFacts, <1>1
      <4>2. CASE i # l
        BY <4>2, <3>2, <2>3 DEF Chain
      <4> QED
        BY <4>1, <4>2
    <3>5. pv2[nx[k]] = k
      BY <3>2, <3>3, <3>4
    <3> QED
      BY <3>2, <3>3, <3>5, <2>3, <1>1
  <2> QED
    BY <2>1, <2>2, <2>3
<1>8. nx2[n] = Null
  <2>1. CASE i = l
    BY <2>1, <1>1 DEF Chain
  <2>2. CASE i # l
    <3>1. nx[l] = Null /\ l # p
      BY <1>1, IndexFacts DEF Chain
    <3> QED
      BY <3>1, <2>2, <1>1
  <2> QED
    BY <2>1, <2>2
<1>9. Chain(U, i, n, nx2, pv2, t2)
  BY <1>1, <1>2, <1>3, <1>4, <1>5, <1>6, <1>7, <1>8 DEF Chain
<1> QED
  BY <1>9

\* A list whose blocks move in the array, and whose pointers follow them, is a list.
LEMMA Rename ==
  ASSUME NEW U, NEW h, NEW l, NEW nx, NEW pv, NEW t, Chain(U, h, l, nx, pv, t),
         NEW W, W \subseteq Index, NEW now, NEW before,
         \A k \in U : now[k] \in W /\ before[now[k]] = k,
         \A j \in W : before[j] \in U /\ now[before[j]] = j,
         NEW nx2 \in Pointers, NEW pv2 \in Pointers,
         \A j \in W : nx2[j] = IF nx[before[j]] = Null THEN Null ELSE now[nx[before[j]]],
         \A j \in W : pv2[j] = IF pv[before[j]] = Null THEN Null ELSE now[pv[before[j]]]
  PROVE  \E t2 : Chain(W, now[h], now[l], nx2, pv2, t2)
<1> DEFINE t2 == [j \in Index |-> IF j \in W THEN t[before[j]] ELSE 0]
<1>1. /\ U \subseteq Index /\ Null \notin U /\ h \in U /\ l \in U
      /\ \A k \in U : t[k] \in Int
  BY IndexFacts DEF Chain, Times
<1>2. t2 \in Times /\ \A j \in W : t2[j] = t[before[j]]
  BY <1>1 DEF Times
<1> HIDE DEF t2
<1>3. now[h] \in W /\ now[l] \in W
  BY <1>1
<1>4. \A j, k \in W : t2[j] = t2[k] => j = k
  <2>1. ASSUME NEW j \in W, NEW k \in W, t2[j] = t2[k]
        PROVE  j = k
    <3>1. before[j] = before[k]
      BY <1>2, <2>1 DEF Chain
    <3> QED
      BY <3>1
  <2> QED
    BY <2>1
<1>5. \A j \in W \ {now[h]} : before[j] \in U \ {h}
  OBVIOUS
<1>6. \A j \in W \ {now[l]} : before[j] \in U \ {l}
  OBVIOUS
<1>7. \A j \in W \ {now[h]} : t2[j] < t2[now[h]]
  BY <1>1, <1>2, <1>3, <1>5 DEF Chain
<1>8. \A j \in W \ {now[l]} : t2[now[l]] < t2[j]
  BY <1>1, <1>2, <1>3, <1>6 DEF Chain
<1>9. ASSUME NEW j \in W \ {now[h]}
      PROVE  /\ pv2[j] \in W /\ nx2[pv2[j]] = j /\ t2[j] < t2[pv2[j]]
             /\ \A k \in W : t2[k] <= t2[j] \/ t2[pv2[j]] <= t2[k]
  <2> DEFINE k == before[j]
  <2>1. /\ k \in U /\ pv[k] \in U /\ nx[pv[k]] = k /\ t[k] < t[pv[k]]
        /\ \A m \in U : t[m] <= t[k] \/ t[pv[k]] <= t[m]
    BY <1>5 DEF Chain
  <2>2. pv2[j] = now[pv[k]] /\ before[pv2[j]] = pv[k] /\ pv2[j] \in W
    BY <1>1, <2>1
  <2>3. nx2[pv2[j]] = now[k]
    BY <1>1, <2>1, <2>2
  <2>4. now[k] = j
    OBVIOUS
  <2>5. t2[j] = t[k] /\ t2[pv2[j]] = t[pv[k]]
    BY <1>2, <2>2
  <2>6. \A m \in W : t2[m] <= t2[j] \/ t2[pv2[j]] <= t2[m]
    BY <1>2, <2>1, <2>5
  <2> QED
    BY <2>1, <2>2, <2>3, <2>4, <2>5, <2>6
<1>10. ASSUME NEW j \in W \ {now[l]}
       PROVE  nx2[j] \in W /\ pv2[nx2[j]] = j /\ t2[nx2[j]] < t2[j]
  <2> DEFINE k == before[j]
  <2>1. k \in U /\ nx[k] \in U /\ pv[nx[k]] = k /\ t[nx[k]] < t[k]
    BY <1>6 DEF Chain
  <2>2. nx2[j] = now[nx[k]] /\ before[nx2[j]] = nx[k] /\ nx2[j] \in W
    BY <1>1, <2>1
  <2>3. pv2[nx2[j]] = now[k]
    BY <1>1, <2>1, <2>2
  <2>4. t2[j] = t[k] /\ t2[nx2[j]] = t[nx[k]]
    BY <1>2, <2>2
  <2> QED
    BY <2>1, <2>2, <2>3, <2>4
<1>11. nx2[now[l]] = Null /\ pv2[now[h]] = Null
  BY <1>1, <1>3 DEF Chain
<1>12. Chain(W, now[h], now[l], nx2, pv2, t2)
  BY <1>2, <1>3, <1>4, <1>7, <1>8, <1>9, <1>10, <1>11 DEF Chain
<1> QED
  BY <1>12

-----------------------------------------------------------------------------
(* The cache. *)

Blocks == [id : Nat, data : Index, next : Int, previous : Int]
Caches(V) ==
  [blocks : [Index -> Blocks], head : Int, tail : Int, cur : 0..MaxBlocks, mem : [Index -> V]]

Nexts(c) == [k \in Index |-> c.blocks[k].next]
Previouses(c) == [k \in Index |-> c.blocks[k].previous]

Sorted(c) == \A i, j \in Used(c) : i < j => c.blocks[i].id < c.blocks[j].id

\* Every block has an area of its own, an unused one that of its place; the lowest area
\* is in use as soon as any is.
Owned(c) ==
  /\ \A i, j \in Index : c.blocks[i].data = c.blocks[j].data => i = j
  /\ \A i \in Index \ Used(c) :
       c.blocks[i].data = i /\ c.blocks[i].next = Null /\ c.blocks[i].previous = Null
  /\ c.cur > 0 => \E i \in Used(c) : c.blocks[i].data = 0

Threaded(c) ==
  IF c.cur = 0 THEN c.head = Null /\ c.tail = Null
  ELSE \E t : Chain(Used(c), c.head, c.tail, Nexts(c), Previouses(c), t)

CacheOK(c, V) == c \in Caches(V) /\ Sorted(c) /\ Owned(c) /\ Threaded(c)

\* c and d hold the same entries in the same areas.
SameEntries(c, d) ==
  /\ d.cur = c.cur /\ d.mem = c.mem
  /\ \A k \in Index : d.blocks[k].id = c.blocks[k].id /\ d.blocks[k].data = c.blocks[k].data

\* lru_cache_init
LEMMA EmptyCacheOK ==
  ASSUME NEW V, NoValue \in V
  PROVE  CacheOK(EmptyCache, V)
<1>1. EmptyCache \in Caches(V)
  BY IndexFacts DEF EmptyCache, Caches, Blocks, Null
<1>2. EmptyCache.cur = 0 /\ Used(EmptyCache) = {}
  BY DEF EmptyCache, Used
<1>3. Sorted(EmptyCache)
  BY <1>2 DEF Sorted
<1>4. Owned(EmptyCache)
  BY <1>2 DEF Owned, EmptyCache
<1>5. Threaded(EmptyCache)
  BY DEF Threaded, EmptyCache
<1> QED
  BY <1>1, <1>3, <1>4, <1>5 DEF CacheOK

\* The types of the parts of a cache.
LEMMA CacheFacts ==
  ASSUME NEW V, NEW c \in Caches(V)
  PROVE  /\ c.cur \in 0..MaxBlocks /\ c.cur \in Nat /\ c.head \in Int /\ c.tail \in Int
         /\ Used(c) \subseteq Index /\ Used(c) \subseteq Nat
         /\ c.blocks \in [Index -> Blocks] /\ c.mem \in [Index -> V]
         /\ \A k \in Index : /\ c.blocks[k] \in Blocks
                             /\ c.blocks[k].id \in Nat /\ c.blocks[k].data \in Index
                             /\ c.blocks[k].next \in Int /\ c.blocks[k].previous \in Int
                             /\ Nexts(c)[k] = c.blocks[k].next
                             /\ Previouses(c)[k] = c.blocks[k].previous
         /\ Nexts(c) \in Pointers /\ Previouses(c) \in Pointers
<1>1. /\ c.cur \in 0..MaxBlocks /\ c.head \in Int /\ c.tail \in Int
      /\ c.blocks \in [Index -> Blocks] /\ c.mem \in [Index -> V]
  BY DEF Caches
<1>2. \A k \in Index : /\ c.blocks[k] \in Blocks
                       /\ c.blocks[k].id \in Nat /\ c.blocks[k].data \in Index
                       /\ c.blocks[k].next \in Int /\ c.blocks[k].previous \in Int
  BY <1>1 DEF Blocks
<1>3. c.cur \in Nat /\ Used(c) \subseteq Index /\ Used(c) \subseteq Nat
  BY <1>1, IndexFacts DEF Used, Index
<1> QED
  BY <1>1, <1>2, <1>3 DEF Nexts, Previouses, Pointers

\* Assignments to a field of one block.
LEMMA SetNext ==
  ASSUME NEW f \in [Index -> Blocks], NEW i, NEW x \in Int
  PROVE  LET g == [f EXCEPT ![i].next = x]
         IN  /\ g \in [Index -> Blocks]
             /\ \A k \in Index : /\ g[k].id = f[k].id
                                 /\ g[k].data = f[k].data
                                 /\ g[k].next = IF k = i THEN x ELSE f[k].next
                                 /\ g[k].previous = f[k].previous
<1> DEFINE g == [f EXCEPT ![i].next = x]
<1>1. \A b \in Blocks : [b EXCEPT !.next = x] =
                          [id |-> b.id, data |-> b.data, next |-> x, previous |-> b.previous]
  BY DEF Blocks
<1>2. /\ DOMAIN g = Index /\ g = [k \in Index |-> g[k]]
      /\ \A k \in Index :
           g[k] = IF k = i THEN [f[k] EXCEPT !.next = x] ELSE f[k]
  OBVIOUS
<1> HIDE DEF g
<1>3. \A k \in Index : f[k] \in Blocks
  OBVIOUS
<1>4. \A k \in Index : g[k] \in Blocks
  BY <1>1, <1>2, <1>3 DEF Blocks
<1>5. g \in [Index -> Blocks]
  BY <1>2, <1>4
<1>6. ASSUME NEW k \in Index
      PROVE  /\ g[k].id = f[k].id
             /\ g[k].data = f[k].data
             /\ g[k].next = IF k = i THEN x ELSE f[k].next
             /\ g[k].previous = f[k].previous
  <2>1. CASE k = i
    <3>1. g[k] = [id |-> f[k].id, data |-> f[k].data, next |-> x, previous |-> f[k].previous]
      BY <1>1, <1>2, <1>3, <2>1
    <3> QED
      BY <3>1, <2>1
  <2>2. CASE k # i
    BY <1>2, <2>2
  <2> QED
    BY <2>1, <2>2
<1> QED
  BY <1>5, <1>6 DEF g

\* The same of the previous pointer.
LEMMA SetPrevious ==
  ASSUME NEW f \in [Index -> Blocks], NEW i, NEW x \in Int
  PROVE  LET g == [f EXCEPT ![i].previous = x]
         IN  /\ g \in [Index -> Blocks]
             /\ \A k \in Index : /\ g[k].id = f[k].id
                                 /\ g[k].data = f[k].data
                                 /\ g[k].next = f[k].next
                                 /\ g[k].previous = IF k = i THEN x ELSE f[k].previous
<1> DEFINE g == [f EXCEPT ![i].previous = x]
<1>1. \A b \in Blocks : [b EXCEPT !.previous = x] =
                          [id |-> b.id, data |-> b.data, next |-> b.next, previous |-> x]
  BY DEF Blocks
<1>2. /\ DOMAIN g = Index /\ g = [k \in Index |-> g[k]]
      /\ \A k \in Index :
           g[k] = IF k = i THEN [f[k] EXCEPT !.previous = x] ELSE f[k]
  OBVIOUS
<1> HIDE DEF g
<1>3. \A k \in Index : f[k] \in Blocks
  OBVIOUS
<1>4. \A k \in Index : g[k] \in Blocks
  BY <1>1, <1>2, <1>3 DEF Blocks
<1>5. g \in [Index -> Blocks]
  BY <1>2, <1>4
<1>6. ASSUME NEW k \in Index
      PROVE  /\ g[k].id = f[k].id
             /\ g[k].data = f[k].data
             /\ g[k].next = f[k].next
             /\ g[k].previous = IF k = i THEN x ELSE f[k].previous
  <2>1. CASE k = i
    <3>1. g[k] = [id |-> f[k].id, data |-> f[k].data, next |-> f[k].next, previous |-> x]
      BY <1>1, <1>2, <1>3, <2>1
    <3> QED
      BY <3>1, <2>1
  <2>2. CASE k # i
    BY <1>2, <2>2
  <2> QED
    BY <2>1, <2>2
<1> QED
  BY <1>5, <1>6 DEF g

\* The same of the data area.
LEMMA SetData ==
  ASSUME NEW f \in [Index -> Blocks], NEW i, NEW x \in Index
  PROVE  LET g == [f EXCEPT ![i].data = x]
         IN  /\ g \in [Index -> Blocks]
             /\ \A k \in Index : /\ g[k].id = f[k].id
                                 /\ g[k].data = IF k = i THEN x ELSE f[k].data
                                 /\ g[k].next = f[k].next
                                 /\ g[k].previous = f[k].previous
<1> DEFINE g == [f EXCEPT ![i].data = x]
<1>1. \A b \in Blocks : [b EXCEPT !.data = x] =
                          [id |-> b.id, data |-> x, next |-> b.next, previous |-> b.previous]
  BY DEF Blocks
<1>2. /\ DOMAIN g = Index /\ g = [k \in Index |-> g[k]]
      /\ \A k \in Index :
           g[k] = IF k = i THEN [f[k] EXCEPT !.data = x] ELSE f[k]
  OBVIOUS
<1> HIDE DEF g
<1>3. \A k \in Index : f[k] \in Blocks
  OBVIOUS
<1>4. \A k \in Index : g[k] \in Blocks
  BY <1>1, <1>2, <1>3 DEF Blocks
<1>5. g \in [Index -> Blocks]
  BY <1>2, <1>4
<1>6. ASSUME NEW k \in Index
      PROVE  /\ g[k].id = f[k].id
             /\ g[k].data = IF k = i THEN x ELSE f[k].data
             /\ g[k].next = f[k].next
             /\ g[k].previous = f[k].previous
  <2>1. CASE k = i
    <3>1. g[k] = [id |-> f[k].id, data |-> x, next |-> f[k].next, previous |-> f[k].previous]
      BY <1>1, <1>2, <1>3, <2>1
    <3> QED
      BY <3>1, <2>1
  <2>2. CASE k # i
    BY <1>2, <2>2
  <2> QED
    BY <2>1, <2>2
<1> QED
  BY <1>5, <1>6 DEF g

\* The same of the id.
LEMMA SetId ==
  ASSUME NEW f \in [Index -> Blocks], NEW i, NEW x \in Nat
  PROVE  LET g == [f EXCEPT ![i].id = x]
         IN  /\ g \in [Index -> Blocks]
             /\ \A k \in Index : /\ g[k].id = IF k = i THEN x ELSE f[k].id
                                 /\ g[k].data = f[k].data
                                 /\ g[k].next = f[k].next
                                 /\ g[k].previous = f[k].previous
<1> DEFINE g == [f EXCEPT ![i].id = x]
<1>1. \A b \in Blocks : [b EXCEPT !.id = x] =
                          [id |-> x, data |-> b.data, next |-> b.next, previous |-> b.previous]
  BY DEF Blocks
<1>2. /\ DOMAIN g = Index /\ g = [k \in Index |-> g[k]]
      /\ \A k \in Index :
           g[k] = IF k = i THEN [f[k] EXCEPT !.id = x] ELSE f[k]
  OBVIOUS
<1> HIDE DEF g
<1>3. \A k \in Index : f[k] \in Blocks
  OBVIOUS
<1>4. \A k \in Index : g[k] \in Blocks
  BY <1>1, <1>2, <1>3 DEF Blocks
<1>5. g \in [Index -> Blocks]
  BY <1>2, <1>4
<1>6. ASSUME NEW k \in Index
      PROVE  /\ g[k].id = IF k = i THEN x ELSE f[k].id
             /\ g[k].data = f[k].data
             /\ g[k].next = f[k].next
             /\ g[k].previous = f[k].previous
  <2>1. CASE k = i
    <3>1. g[k] = [id |-> x, data |-> f[k].data, next |-> f[k].next, previous |-> f[k].previous]
      BY <1>1, <1>2, <1>3, <2>1
    <3> QED
      BY <3>1, <2>1
  <2>2. CASE k # i
    BY <1>2, <2>2
  <2> QED
    BY <2>1, <2>2
<1> QED
  BY <1>5, <1>6 DEF g

\* The links of the moved block and of its neighbours change, nothing else.
LEMMA MoveToHeadFields ==
  ASSUME NEW V, NEW c \in Caches(V), NEW i \in Index, i # c.head, c.head \in Index
  PROVE  LET r == MoveToHead(c, i)
             b == c.blocks[i]
         IN  /\ r \in Caches(V) /\ SameEntries(c, r)
             /\ r.head = i /\ r.tail = IF i = c.tail THEN b.previous ELSE c.tail
             /\ r.blocks[i].next = c.head /\ r.blocks[i].previous = Null
             /\ r.blocks[c.head].previous = i
             /\ \A k \in Index : k # i =>
                  r.blocks[k].next = IF k = b.previous THEN b.next ELSE c.blocks[k].next
             /\ \A k \in Index : k # i /\ k # c.head =>
                  r.blocks[k].previous = IF k = b.next THEN b.previous ELSE c.blocks[k].previous
<1> DEFINE b == c.blocks[i]
           unlinked == [k \in Index |->
                          [c.blocks[k] EXCEPT
                             !.next = IF k = b.previous THEN b.next ELSE @,
                             !.previous = IF k = b.next THEN b.previous ELSE @]]
           one == [unlinked EXCEPT ![i].previous = Null]
           two == [one EXCEPT ![i].next = c.head]
           three == [two EXCEPT ![c.head].previous = i]
           r == MoveToHead(c, i)
<1>1. /\ c.blocks \in [Index -> Blocks] /\ b \in Blocks /\ b.next \in Int /\ b.previous \in Int
      /\ \A k \in Index : c.blocks[k] \in Blocks
      /\ c.head \in Int /\ Index \subseteq Int /\ Null \in Int
  BY CacheFacts, IndexFacts DEF Null
<1>2. r = [c EXCEPT !.blocks = three,
                    !.tail = IF i = c.tail THEN b.previous ELSE @,
                    !.head = i]
  BY DEF MoveToHead
<1>3. /\ unlinked \in [Index -> Blocks]
      /\ \A k \in Index :
           /\ unlinked[k].id = c.blocks[k].id /\ unlinked[k].data = c.blocks[k].data
           /\ unlinked[k].next = IF k = b.previous THEN b.next ELSE c.blocks[k].next
           /\ unlinked[k].previous = IF k = b.next THEN b.previous ELSE c.blocks[k].previous
  BY <1>1 DEF Blocks
<1> HIDE DEF unlinked
<1>4. /\ one \in [Index -> Blocks]
      /\ \A k \in Index :
           /\ one[k].id = unlinked[k].id /\ one[k].data = unlinked[k].data
           /\ one[k].next = unlinked[k].next
           /\ one[k].previous = IF k = i THEN Null ELSE unlinked[k].previous
  BY <1>1, <1>3, SetPrevious
<1> HIDE DEF one
<1>5. /\ two \in [Index -> Blocks]
      /\ \A k \in Index :
           /\ two[k].id = one[k].id /\ two[k].data = one[k].data
           /\ two[k].next = IF k = i THEN c.head ELSE one[k].next
           /\ two[k].previous = one[k].previous
  BY <1>1, <1>4, SetNext
<1> HIDE DEF two
<1>6. /\ three \in [Index -> Blocks]
      /\ \A k \in Index :
           /\ three[k].id = two[k].id /\ three[k].data = two[k].data
           /\ three[k].next = two[k].next
           /\ three[k].previous = IF k = c.head THEN i ELSE two[k].previous
  BY <1>1, <1>5, SetPrevious
<1> HIDE DEF three
<1>7. /\ r.blocks = three /\ r.head = i /\ r.cur = c.cur /\ r.mem = c.mem
      /\ r.tail = IF i = c.tail THEN b.previous ELSE c.tail
      /\ r \in Caches(V)
  BY <1>1, <1>2, <1>6 DEF Caches
<1> HIDE DEF r
<1>8. SameEntries(c, r)
  BY <1>3, <1>4, <1>5, <1>6, <1>7 DEF SameEntries
<1>9. r.blocks[i].next = c.head /\ r.blocks[i].previous = Null /\ r.blocks[c.head].previous = i
  BY <1>3, <1>4, <1>5, <1>6, <1>7
<1>10. \A k \in Index : k # i =>
         r.blocks[k].next = IF k = b.previous THEN b.next ELSE c.blocks[k].next
  BY <1>3, <1>4, <1>5, <1>6, <1>7
<1>11. \A k \in Index : k # i /\ k # c.head =>
         r.blocks[k].previous = IF k = b.next THEN b.previous ELSE c.blocks[k].previous
  BY <1>3, <1>4, <1>5, <1>6, <1>7
<1> QED
  BY <1>7, <1>8, <1>9, <1>10, <1>11 DEF r

\* lru_cache_get of a cached entry keeps the cache well formed and the entries as they are.
LEMMA MoveToHeadOK ==
  ASSUME NEW V, NEW c, CacheOK(c, V), NEW i \in Used(c)
  PROVE  LET r == MoveToHead(c, i)
         IN  CacheOK(r, V) /\ SameEntries(c, r) /\ r.head = i
<1> DEFINE r == MoveToHead(c, i)
           b == c.blocks[i]
<1>1. c \in Caches(V) /\ Used(c) \subseteq Index /\ i \in Index /\ c.cur # 0
  BY CacheFacts DEF CacheOK, Used
<1>2. PICK t : Chain(Used(c), c.head, c.tail, Nexts(c), Previouses(c), t)
  BY <1>1 DEF CacheOK, Threaded
<1>3. CASE i = c.head
  <2>1. r = c
    BY <1>3 DEF MoveToHead
  <2> QED
    BY <2>1, <1>3 DEF SameEntries
<1>4. CASE i # c.head
  <2>1. c.head \in Used(c) /\ c.head \in Index /\ c.tail \in Used(c)
    BY <1>1, <1>2 DEF Chain
  <2>2. /\ r \in Caches(V) /\ SameEntries(c, r)
        /\ r.head = i /\ r.tail = IF i = c.tail THEN b.previous ELSE c.tail
        /\ r.blocks[i].next = c.head /\ r.blocks[i].previous = Null
        /\ r.blocks[c.head].previous = i
        /\ \A k \in Index : k # i =>
             r.blocks[k].next = IF k = b.previous THEN b.next ELSE c.blocks[k].next
        /\ \A k \in Index : k # i /\ k # c.head =>
             r.blocks[k].previous = IF k = b.next THEN b.previous ELSE c.blocks[k].previous
    BY <1>1, <1>4, <2>1, MoveToHeadFields
  <2> HIDE DEF r
  <2> DEFINE nx == Nexts(c)
             pv == Previouses(c)
             nx2 == Nexts(r)
             pv2 == Previouses(r)
  <2>3. /\ \A k \in Index : nx[k] = c.blocks[k].next /\ pv[k] = c.blocks[k].previous
        /\ \A k \in Index : nx2[k] = r.blocks[k].next /\ pv2[k] = r.blocks[k].previous
        /\ nx2 \in Pointers /\ pv2 \in Pointers
    BY <1>1, <2>2, CacheFacts
  <2>4. Used(r) = Used(c)
    BY <2>2 DEF SameEntries, Used
  <2> HIDE DEF nx, pv, nx2, pv2
  <2>5. /\ nx2[i] = c.head /\ pv2[i] = Null /\ pv2[c.head] = i
        /\ \A k \in Used(c) : k # i => nx2[k] = IF k = pv[i] THEN nx[i] ELSE nx[k]
        /\ \A k \in Used(c) : k # i /\ k # c.head =>
             pv2[k] = IF k = nx[i] THEN pv[i] ELSE pv[k]
    BY <1>1, <2>1, <2>2, <2>3
  <2>6. Chain(Used(c), c.head, c.tail, nx, pv, t)
    BY <1>2 DEF nx, pv
  <2>7. \E t2 : Chain(Used(c), i, IF i = c.tail THEN pv[i] ELSE c.tail, nx2, pv2, t2)
    BY <1>4, <2>3, <2>5, <2>6, MoveFront
  <2>8. \E t2 : Chain(Used(r), r.head, r.tail, nx2, pv2, t2)
    <3>1. r.head = i /\ r.tail = IF i = c.tail THEN pv[i] ELSE c.tail
      BY <1>1, <2>2, <2>3
    <3> QED
      BY <2>4, <2>7, <3>1
  <2>9. Threaded(r)
    BY <1>1, <2>2, <2>8 DEF Threaded, SameEntries, nx2, pv2
  <2>10. Sorted(r)
    BY <1>1, <2>2, <2>4 DEF CacheOK, Sorted, SameEntries
  <2>11. Owned(r)
    <3>1. \A k, j \in Index : r.blocks[k].data = r.blocks[j].data => k = j
      BY <2>2 DEF CacheOK, Owned, SameEntries
    <3>2. \E k \in Used(r) : r.blocks[k].data = 0
      <4>1. c.cur > 0
        BY <1>1, CacheFacts
      <4> QED
        BY <1>1, <2>2, <2>4, <4>1 DEF CacheOK, Owned, SameEntries
    <3>3. ASSUME NEW k \in Index \ Used(r)
          PROVE  r.blocks[k].data = k /\ r.blocks[k].next = Null /\ r.blocks[k].previous = Null
      <4>1. c.blocks[k].data = k /\ c.blocks[k].next = Null /\ c.blocks[k].previous = Null
        BY <2>4 DEF CacheOK, Owned
      <4>2. k # i /\ k # c.head /\ k \in Index
        BY <2>1, <2>4
      <4>3. k # pv[i]
        BY <1>4, <2>4, <2>6 DEF Chain
      <4>4. k # nx[i]
        <5>1. nx[i] \in Used(c) \/ nx[i] = Null
          BY <2>6 DEF Chain
        <5> QED
          BY <5>1, <2>4, IndexFacts
      <4> QED
        BY <1>1, <2>2, <2>3, <4>1, <4>2, <4>3, <4>4 DEF SameEntries
    <3> QED
      BY <3>1, <3>2, <3>3 DEF Owned
  <2> QED
    BY <2>2, <2>9, <2>10, <2>11 DEF CacheOK, r
<1> QED
  BY <1>3, <1>4 DEF CacheOK

-----------------------------------------------------------------------------
(* lru_cache_put of a new entry, whose id is above all others. *)

Goes(moving, d, k) == IF k \in moving THEN k + d ELSE k
Came(moving, d, k) == IF k - d \in moving THEN k - d ELSE k

\* The new entry belongs behind all others.
LEMMA AppendPosition ==
  ASSUME NEW V, NEW c \in Caches(V), NEW id \in Nat, \A k \in Used(c) : c.blocks[k].id < id
  PROVE  ~Found(c, id) /\ PutIndex(c, id) = IF Full(c) THEN MaxBlocks - 1 ELSE c.cur
<1>1. c.cur \in 0..MaxBlocks /\ c.cur \in Nat /\ Used(c) \subseteq Index
      /\ \A k \in Index : c.blocks[k].id \in Nat
  BY CacheFacts
<1>2. ~Found(c, id)
  BY <1>1 DEF Found
<1> DEFINE Fits(i) == /\ \A j \in 0..(i - 1) : c.blocks[j].id < id
                      /\ \A j \in i..(c.cur - 1) : c.blocks[j].id > id
<1>3. Fits(c.cur)
  BY <1>1 DEF Used
<1>4. \A i \in 0..c.cur : Fits(i) => i = c.cur
  <2>1. ASSUME NEW i \in 0..c.cur, i # c.cur, Fits(i)
        PROVE  FALSE
    <3>1. i \in i..(c.cur - 1) /\ i \in Used(c)
      BY <1>1, <2>1 DEF Used
    <3>2. c.blocks[i].id > id /\ c.blocks[i].id < id
      BY <2>1, <3>1
    <3> QED
      BY <1>1, <3>1, <3>2
  <2> QED
    BY <2>1
<1>5. InsertionPoint(c, id) = CHOOSE i \in 0..c.cur : Fits(i)
  BY DEF InsertionPoint
<1>6. c.cur \in 0..c.cur
  BY <1>1
<1> HIDE DEF Fits
<1>7. InsertionPoint(c, id) = c.cur
  BY <1>3, <1>4, <1>5, <1>6
<1>8. PutIndex(c, id) = IF Full(c) THEN MaxBlocks - 1 ELSE c.cur
  BY <1>7 DEF PutIndex, Full
<1> QED
  BY <1>2, <1>8

\* The shifted array, block by block.
LEMMA ShiftFields ==
  ASSUME NEW V, NEW c \in Caches(V), NEW moving, NEW d \in Int,
         \A j \in Index : Came(moving, d, j) \in Index
  PROVE  LET s == Shift(c, moving, d)
         IN  /\ s \in Caches(V) /\ s.cur = c.cur /\ s.mem = c.mem
             /\ s.head = Goes(moving, d, c.head) /\ s.tail = Goes(moving, d, c.tail)
             /\ \A j \in Index :
                  LET b == c.blocks[Came(moving, d, j)]
                  IN  /\ s.blocks[j].id = b.id /\ s.blocks[j].data = b.data
                      /\ s.blocks[j].next = Goes(moving, d, b.next)
                      /\ s.blocks[j].previous = Goes(moving, d, b.previous)
<1> DEFINE moved(b) == [b EXCEPT !.next = Goes(moving, d, @), !.previous = Goes(moving, d, @)]
           f == [k \in Index |-> moved(c.blocks[Came(moving, d, k)])]
           s == Shift(c, moving, d)
<1>1. s = [c EXCEPT !.blocks = f, !.head = Goes(moving, d, @), !.tail = Goes(moving, d, @)]
  BY DEF Shift, Goes, Came
<1>2. \A k \in Int : Goes(moving, d, k) \in Int
  BY DEF Goes
<1>3. ASSUME NEW b \in Blocks
      PROVE  moved(b) = [id |-> b.id, data |-> b.data,
                         next |-> Goes(moving, d, b.next),
                         previous |-> Goes(moving, d, b.previous)]
  <2> DEFINE n == Goes(moving, d, b.next)
             p == Goes(moving, d, b.previous)
  <2>1. moved(b) = [b EXCEPT !.next = n, !.previous = p]
    OBVIOUS
  <2> HIDE DEF moved, n, p
  <2>2. n \in Int /\ p \in Int
    BY <1>2 DEF Blocks, n, p
  <2> DEFINE half == [b EXCEPT !.next = n]
  <2>3. half = [id |-> b.id, data |-> b.data, next |-> n, previous |-> b.previous]
    BY DEF Blocks
  <2>4. [b EXCEPT !.next = n, !.previous = p] = [half EXCEPT !.previous = p]
    OBVIOUS
  <2> HIDE DEF half
  <2>5. half \in Blocks /\ half.id = b.id /\ half.data = b.data /\ half.next = n
    BY <2>2, <2>3 DEF Blocks
  <2>6. [half EXCEPT !.previous = p] =
          [id |-> half.id, data |-> half.data, next |-> half.next, previous |-> p]
    BY <2>5 DEF Blocks
  <2> QED
    BY <2>1, <2>4, <2>5, <2>6 DEF n, p
<1> HIDE DEF moved
<1>4. \A b \in Blocks : /\ moved(b) \in Blocks
                        /\ moved(b).id = b.id /\ moved(b).data = b.data
                        /\ moved(b).next = Goes(moving, d, b.next)
                        /\ moved(b).previous = Goes(moving, d, b.previous)
  BY <1>2, <1>3 DEF Blocks
<1>5. \A k \in Index : c.blocks[k] \in Blocks
  BY CacheFacts
<1>6. f \in [Index -> Blocks] /\ \A j \in Index : f[j] = moved(c.blocks[Came(moving, d, j)])
  BY <1>4, <1>5
<1> HIDE DEF f
<1>7. /\ s.blocks = f /\ s.cur = c.cur /\ s.mem = c.mem
      /\ s.head = Goes(moving, d, c.head) /\ s.tail = Goes(moving, d, c.tail)
      /\ s \in Caches(V)
  <2> DEFINE h == Goes(moving, d, c.head)
             t == Goes(moving, d, c.tail)
  <2>1. h \in Int /\ t \in Int
    BY <1>2 DEF Caches
  <2> HIDE DEF h, t
  <2>2. s = [c EXCEPT !.blocks = f, !.head = h, !.tail = t]
    BY <1>1 DEF h, t
  <2>3. s = [blocks |-> f, head |-> h, tail |-> t, cur |-> c.cur, mem |-> c.mem]
    BY ONLY <2>2, c \in Caches(V) DEF Caches
  <2> HIDE DEF s
  <2>4. s.blocks = f /\ s.head = h /\ s.tail = t /\ s.cur = c.cur /\ s.mem = c.mem
    BY <2>3
  <2>5. s \in Caches(V)
    BY <1>6, <2>1, <2>3 DEF Caches
  <2> QED
    BY <2>4, <2>5 DEF h, t
<1> HIDE DEF s
<1>8. ASSUME NEW j \in Index
      PROVE  LET b == c.blocks[Came(moving, d, j)]
             IN  /\ s.blocks[j].id = b.id /\ s.blocks[j].data = b.data
                 /\ s.blocks[j].next = Goes(moving, d, b.next)
                 /\ s.blocks[j].previous = Goes(moving, d, b.previous)
  <2> DEFINE b == c.blocks[Came(moving, d, j)]
  <2>1. b \in Blocks /\ s.blocks[j] = moved(b)
    BY <1>5, <1>6, <1>7
  <2> HIDE DEF b
  <2>2. /\ s.blocks[j].id = b.id /\ s.blocks[j].data = b.data
        /\ s.blocks[j].next = Goes(moving, d, b.next)
        /\ s.blocks[j].previous = Goes(moving, d, b.previous)
    BY <1>4, <2>1
  <2> QED
    BY <2>2 DEF b
<1> QED
  BY <1>7, <1>8 DEF s

\* Fill writes the entry and makes it the first.
LEMMA FillFields ==
  ASSUME NEW V, NEW c \in Caches(V), NEW i \in Index, NEW id \in Nat, NEW v \in V
  PROVE  LET r == Fill(c, i, id, v)
         IN  /\ r \in Caches(V) /\ r.cur = c.cur /\ r.head = i /\ r.tail = c.tail
             /\ r.mem = [c.mem EXCEPT ![c.blocks[i].data] = v]
             /\ \A k \in Index : /\ r.blocks[k].id = IF k = i THEN id ELSE c.blocks[k].id
                                 /\ r.blocks[k].data = c.blocks[k].data
                                 /\ r.blocks[k].next = c.blocks[k].next
                                 /\ r.blocks[k].previous = c.blocks[k].previous
<1> DEFINE f == [c.blocks EXCEPT ![i].id = id]
           m == [c.mem EXCEPT ![c.blocks[i].data] = v]
           r == Fill(c, i, id, v)
<1>1. r = [c EXCEPT !.head = i, !.blocks = f, !.mem = m]
  BY DEF Fill, Caches
<1>2. c.blocks \in [Index -> Blocks] /\ c.mem \in [Index -> V] /\ i \in Int
  BY CacheFacts, IndexFacts
<1>3. /\ f \in [Index -> Blocks]
      /\ \A k \in Index : /\ f[k].id = IF k = i THEN id ELSE c.blocks[k].id
                          /\ f[k].data = c.blocks[k].data
                          /\ f[k].next = c.blocks[k].next
                          /\ f[k].previous = c.blocks[k].previous
  BY <1>2, SetId
<1>4. m \in [Index -> V]
  BY <1>2
<1> HIDE DEF f, m
<1>5. /\ r \in Caches(V) /\ r.cur = c.cur /\ r.head = i /\ r.tail = c.tail
      /\ r.mem = m /\ r.blocks = f
  BY <1>1, <1>2, <1>3, <1>4 DEF Caches
<1> HIDE DEF r
<1>6. \A k \in Index : /\ r.blocks[k].id = IF k = i THEN id ELSE c.blocks[k].id
                       /\ r.blocks[k].data = c.blocks[k].data
                       /\ r.blocks[k].next = c.blocks[k].next
                       /\ r.blocks[k].previous = c.blocks[k].previous
  BY <1>3, <1>5
<1> QED
  BY <1>5, <1>6 DEF r, m

\* What lru_cache_put leaves of the others' entries when it adds one: the new one is the
\* last of the array and the first of the usage list.
Added(c, r, id, v) ==
  /\ r.cur > 0 /\ r.head = r.cur - 1 /\ r.head \in Used(r)
  /\ r.blocks[r.head].id = id /\ r.mem[r.blocks[r.head].data] = v
  /\ \A k \in Used(r) \ {r.head} :
       \E j \in Used(c) : /\ r.blocks[k].id = c.blocks[j].id
                          /\ r.mem[r.blocks[k].data] = c.mem[c.blocks[j].data]

\* A new block at i, with the area a, is put in front of the block h; without and with
\* its previous pointer.
InFront(f, i, a, h) == [f EXCEPT ![i].data = a, ![i].next = h, ![h].previous = i]
InFrontClosed(f, i, a, h) ==
  [f EXCEPT ![i].data = a, ![i].next = h, ![i].previous = Null, ![h].previous = i]

\* InFront, block by block.
LEMMA NewFront ==
  ASSUME NEW f \in [Index -> Blocks], NEW i \in Index, NEW a \in Index, NEW h \in Int
  PROVE  LET g == InFront(f, i, a, h)
         IN  /\ g \in [Index -> Blocks]
             /\ \A k \in Index : /\ g[k].id = f[k].id
                                 /\ g[k].data = IF k = i THEN a ELSE f[k].data
                                 /\ g[k].next = IF k = i THEN h ELSE f[k].next
                                 /\ g[k].previous = IF k = h THEN i ELSE f[k].previous
<1> DEFINE f1 == [f EXCEPT ![i].data = a]
           f2 == [f1 EXCEPT ![i].next = h]
           g == [f2 EXCEPT ![h].previous = i]
<1>1. g = InFront(f, i, a, h)
  BY DEF InFront
<1>2. i \in Int /\ Null \in Int
  BY IndexFacts DEF Null
<1>3. /\ f1 \in [Index -> Blocks]
      /\ \A k \in Index : /\ f1[k].id = f[k].id
                          /\ f1[k].data = IF k = i THEN a ELSE f[k].data
                          /\ f1[k].next = f[k].next
                          /\ f1[k].previous = f[k].previous
  BY <1>2, SetData
<1> HIDE DEF f1
<1>4. /\ f2 \in [Index -> Blocks]
      /\ \A k \in Index : /\ f2[k].id = f1[k].id
                          /\ f2[k].data = f1[k].data
                          /\ f2[k].next = IF k = i THEN h ELSE f1[k].next
                          /\ f2[k].previous = f1[k].previous
  BY <1>2, <1>3, SetNext
<1> HIDE DEF f2
<1>5. /\ g \in [Index -> Blocks]
      /\ \A k \in Index : /\ g[k].id = f2[k].id
                          /\ g[k].data = f2[k].data
                          /\ g[k].next = f2[k].next
                          /\ g[k].previous = IF k = h THEN i ELSE f2[k].previous
  BY <1>2, <1>4, SetPrevious
<1> HIDE DEF g
<1>6. \A k \in Index : /\ g[k].id = f[k].id
                       /\ g[k].data = IF k = i THEN a ELSE f[k].data
                       /\ g[k].next = IF k = i THEN h ELSE f[k].next
                       /\ g[k].previous = IF k = h THEN i ELSE f[k].previous
  BY <1>3, <1>4, <1>5
<1> QED
  BY <1>1, <1>5, <1>6

\* InFrontClosed, block by block.
LEMMA NewFrontClosed ==
  ASSUME NEW f \in [Index -> Blocks], NEW i \in Index, NEW a \in Index, NEW h \in Int
  PROVE  LET g == InFrontClosed(f, i, a, h)
         IN  /\ g \in [Index -> Blocks]
             /\ \A k \in Index : /\ g[k].id = f[k].id
                                 /\ g[k].data = IF k = i THEN a ELSE f[k].data
                                 /\ g[k].next = IF k = i THEN h ELSE f[k].next
                                 /\ g[k].previous = IF k = h THEN i ELSE IF k = i THEN Null ELSE f[k].previous
<1> DEFINE f1 == [f EXCEPT ![i].data = a]
           f2 == [f1 EXCEPT ![i].next = h]
           f3 == [f2 EXCEPT ![i].previous = Null]
           g == [f3 EXCEPT ![h].previous = i]
<1>1. g = InFrontClosed(f, i, a, h)
  BY DEF InFrontClosed
<1>2. i \in Int /\ Null \in Int
  BY IndexFacts DEF Null
<1>3. /\ f1 \in [Index -> Blocks]
      /\ \A k \in Index : /\ f1[k].id = f[k].id
                          /\ f1[k].data = IF k = i THEN a ELSE f[k].data
                          /\ f1[k].next = f[k].next
                          /\ f1[k].previous = f[k].previous
  BY <1>2, SetData
<1> HIDE DEF f1
<1>4. /\ f2 \in [Index -> Blocks]
      /\ \A k \in Index : /\ f2[k].id = f1[k].id
                          /\ f2[k].data = f1[k].data
                          /\ f2[k].next = IF k = i THEN h ELSE f1[k].next
                          /\ f2[k].previous = f1[k].previous
  BY <1>2, <1>3, SetNext
<1> HIDE DEF f2
<1>5. /\ f3 \in [Index -> Blocks]
      /\ \A k \in Index : /\ f3[k].id = f2[k].id
                          /\ f3[k].data = f2[k].data
                          /\ f3[k].next = f2[k].next
                          /\ f3[k].previous = IF k = i THEN Null ELSE f2[k].previous
  BY <1>2, <1>4, SetPrevious
<1> HIDE DEF f3
<1>6. /\ g \in [Index -> Blocks]
      /\ \A k \in Index : /\ g[k].id = f3[k].id
                          /\ g[k].data = f3[k].data
                          /\ g[k].next = f3[k].next
                          /\ g[k].previous = IF k = h THEN i ELSE f3[k].previous
  BY <1>2, <1>5, SetPrevious
<1> HIDE DEF g
<1>7. \A k \in Index : /\ g[k].id = f[k].id
                       /\ g[k].data = IF k = i THEN a ELSE f[k].data
                       /\ g[k].next = IF k = i THEN h ELSE f[k].next
                       /\ g[k].previous = IF k = h THEN i ELSE IF k = i THEN Null ELSE f[k].previous
  BY <1>3, <1>4, <1>5, <1>6
<1> QED
  BY <1>1, <1>6, <1>7

\* A cache with room: the array behind the entries.
LEMMA UseFreeBlockFields ==
  ASSUME NEW V, NEW c \in Caches(V), Owned(c), ~Full(c),
         IF c.cur = 0 THEN c.head = Null ELSE c.head \in Used(c),
         NEW id \in Nat, NEW v \in V, ~Found(c, id), PutIndex(c, id) = c.cur
  PROVE  LET r == AfterPut(c, id, v)
         IN  /\ r \in Caches(V) /\ r.cur = c.cur + 1 /\ r.head = c.cur
             /\ r.tail = IF c.cur = 0 THEN 0 ELSE c.tail
             /\ r.mem = [c.mem EXCEPT ![c.cur] = v]
             /\ \A k \in Index :
                  /\ r.blocks[k].id = IF k = c.cur THEN id ELSE c.blocks[k].id
                  /\ r.blocks[k].data = c.blocks[k].data
                  /\ r.blocks[k].next = IF k = c.cur THEN c.head ELSE c.blocks[k].next
                  /\ r.blocks[k].previous = IF k = c.head THEN c.cur ELSE c.blocks[k].previous
<1> DEFINE i == c.cur
           u == UseFreeBlock(c, i)
           r == AfterPut(c, id, v)
<1>1. /\ i \in Nat /\ i \in Index /\ i + 1 \in 0..MaxBlocks /\ i \in Int
      /\ c.blocks \in [Index -> Blocks] /\ c.head \in Int /\ c.tail \in Int
      /\ c.blocks[i].data = i /\ c.blocks[i].next = Null /\ i = c.cur
  <2>1. /\ i \in Nat /\ i \in 0..MaxBlocks /\ i # MaxBlocks /\ MaxBlocks \in Nat
        /\ c.blocks \in [Index -> Blocks] /\ c.head \in Int /\ c.tail \in Int
    BY CacheFacts, IndexFacts DEF Full
  <2> HIDE DEF i
  <2>2. i \in Index /\ i + 1 \in 0..MaxBlocks /\ i \notin 0..(i - 1)
    BY <2>1 DEF Index
  <2>3. i \in Index \ Used(c)
    BY <2>2 DEF Used, i
  <2>4. c.blocks[i].data = i /\ c.blocks[i].next = Null
    BY <2>3 DEF Owned
  <2> QED
    BY <2>1, <2>2, <2>4 DEF i
<1>2. r = Fill(u, i, id, v)
  BY DEF AfterPut
<1> HIDE DEF i
<1>3. /\ u \in Caches(V) /\ u.cur = i + 1 /\ u.mem = c.mem
      /\ u.tail = IF i = 0 THEN 0 ELSE c.tail
      /\ \A k \in Index :
           /\ u.blocks[k].id = c.blocks[k].id
           /\ u.blocks[k].data = c.blocks[k].data
           /\ u.blocks[k].next = IF k = i THEN c.head ELSE c.blocks[k].next
           /\ u.blocks[k].previous = IF k = c.head THEN i ELSE c.blocks[k].previous
  <2>1. CASE i = 0
    <3>1. u = [c EXCEPT !.tail = 0, !.cur = 1]
      BY <1>1, <2>1 DEF UseFreeBlock
    <3>2. c.head = Null /\ 0 \in Int /\ 1 \in 0..MaxBlocks /\ Null \notin Index
      BY <1>1, <2>1, IndexFacts
    <3>3. u \in Caches(V) /\ u.cur = 1 /\ u.mem = c.mem /\ u.tail = 0 /\ u.blocks = c.blocks
      BY <3>1, <3>2 DEF Caches
    <3> QED
      BY <1>1, <2>1, <3>2, <3>3
  <2>2. CASE i # 0
    <3> DEFINE s == Shift(c, i..(i - 1), 1)
               a == c.blocks[i].data
               f == s.blocks
               h == s.head
               g == InFront(f, i, a, h)
    <3>1. \A k : Goes(i..(i - 1), 1, k) = k /\ Came(i..(i - 1), 1, k) = k
      <4>1. i..(i - 1) = {}
        BY <1>1
      <4> QED
        BY <4>1 DEF Goes, Came
    <3>2. /\ s \in Caches(V) /\ s.cur = i /\ s.mem = c.mem /\ s.head = c.head /\ s.tail = c.tail
          /\ \A j \in Index :
               /\ s.blocks[j].id = c.blocks[j].id /\ s.blocks[j].data = c.blocks[j].data
               /\ s.blocks[j].next = c.blocks[j].next
               /\ s.blocks[j].previous = c.blocks[j].previous
      <4>1. \A j \in Index : Came(i..(i - 1), 1, j) \in Index
        BY <3>1
      <4>2. 1 \in Int
        OBVIOUS
      <4>3. /\ s \in Caches(V) /\ s.cur = i /\ s.mem = c.mem
            /\ s.head = Goes(i..(i - 1), 1, c.head) /\ s.tail = Goes(i..(i - 1), 1, c.tail)
            /\ \A j \in Index :
                 LET b == c.blocks[Came(i..(i - 1), 1, j)]
                 IN  /\ s.blocks[j].id = b.id /\ s.blocks[j].data = b.data
                     /\ s.blocks[j].next = Goes(i..(i - 1), 1, b.next)
                     /\ s.blocks[j].previous = Goes(i..(i - 1), 1, b.previous)
        BY <1>1, <4>1, <4>2, ShiftFields, SMTT(30)
      <4> HIDE DEF s
      <4> QED
        BY <3>1, <4>3
    <3>4. /\ f \in [Index -> Blocks] /\ a \in Index /\ h \in Int /\ i \in Index
          /\ a = c.blocks[i].data /\ f = s.blocks /\ h = s.head
      BY <1>1, <3>2, CacheFacts
    <3>5. u = [s EXCEPT !.blocks = g, !.cur = @ + 1]
      BY <1>1, <2>2 DEF UseFreeBlock, InFront
    <3> HIDE DEF s, u, a, f, h
    <3>6. /\ g \in [Index -> Blocks]
          /\ \A k \in Index : /\ g[k].id = f[k].id
                              /\ g[k].data = IF k = i THEN a ELSE f[k].data
                              /\ g[k].next = IF k = i THEN h ELSE f[k].next
                              /\ g[k].previous = IF k = h THEN i ELSE f[k].previous
      <4>1. f \in [Index -> Blocks] /\ a \in Index /\ h \in Int /\ i \in Index
        BY <3>4
      <4> HIDE DEF r
      <4> QED
        BY ONLY <4>1, NewFront
    <3> HIDE DEF g
    <3>8. /\ u \in Caches(V) /\ u.cur = i + 1 /\ u.mem = c.mem /\ u.tail = c.tail
          /\ u.blocks = g
      BY <1>1, <3>2, <3>5, <3>6 DEF Caches
    <3>9. ASSUME NEW k \in Index
          PROVE  /\ u.blocks[k].id = c.blocks[k].id
                 /\ u.blocks[k].data = c.blocks[k].data
                 /\ u.blocks[k].next = IF k = i THEN c.head ELSE c.blocks[k].next
                 /\ u.blocks[k].previous = IF k = c.head THEN i ELSE c.blocks[k].previous
      BY <3>2, <3>4, <3>6, <3>8
    <3> QED
      BY <2>2, <3>8, <3>9
  <2> QED
    BY <2>1, <2>2
<1> HIDE DEF u
<1>4. /\ r \in Caches(V) /\ r.cur = u.cur /\ r.head = i /\ r.tail = u.tail
      /\ r.mem = [u.mem EXCEPT ![u.blocks[i].data] = v]
      /\ \A k \in Index : /\ r.blocks[k].id = IF k = i THEN id ELSE u.blocks[k].id
                          /\ r.blocks[k].data = u.blocks[k].data
                          /\ r.blocks[k].next = u.blocks[k].next
                          /\ r.blocks[k].previous = u.blocks[k].previous
  BY <1>1, <1>2, <1>3, FillFields, SMTT(30)
<1> HIDE DEF r
<1>5. r.mem = [c.mem EXCEPT ![i] = v]
  BY <1>1, <1>3, <1>4
<1>6. \A k \in Index :
        /\ r.blocks[k].id = IF k = i THEN id ELSE c.blocks[k].id
        /\ r.blocks[k].data = c.blocks[k].data
        /\ r.blocks[k].next = IF k = i THEN c.head ELSE c.blocks[k].next
        /\ r.blocks[k].previous = IF k = c.head THEN i ELSE c.blocks[k].previous
  BY <1>3, <1>4
<1>7. r.cur = i + 1 /\ r.head = i /\ r.tail = IF i = 0 THEN 0 ELSE c.tail
  BY <1>3, <1>4
<1>8. r \in Caches(V)
  BY <1>4
<1> QED
  BY <1>1, <1>5, <1>6, <1>7, <1>8 DEF r

\* The array is shifted down over the place m.
LEMMA PlacesAfterShift ==
  ASSUME NEW m \in Index
  PROVE  LET N == MaxBlocks - 1
             G(k) == Goes((m + 1)..N, -1, k)
             B(j) == Came((m + 1)..N, -1, j)
         IN  /\ N \in Index /\ Null \notin Index
             /\ \A k \in Index \ {m} : G(k) \in Index \ {N} /\ B(G(k)) = k
             /\ \A j \in Index \ {N} : B(j) \in Index \ {m} /\ G(B(j)) = j
             /\ B(N) \in Index /\ G(Null) = Null
             /\ \A i, j \in Index \ {N} : i < j => B(i) < B(j)
             /\ \A k \in Int : G(k) \in Int
<1> DEFINE N == MaxBlocks - 1
           G(k) == Goes((m + 1)..N, -1, k)
           B(j) == Came((m + 1)..N, -1, j)
<1>1. /\ MaxBlocks \in Nat /\ MaxBlocks >= 2 /\ N \in Int /\ m \in Int /\ 0 <= m /\ m <= N
      /\ N \in Index /\ Null \notin Index /\ \A k : k \in Index <=> k \in Int /\ 0 <= k /\ k <= N
  BY IndexFacts DEF Index
<1> HIDE DEF N
<1>2. \A k \in Int : G(k) = IF m < k /\ k <= N THEN k - 1 ELSE k
  BY <1>1 DEF Goes
<1>3. \A j \in Int : B(j) = IF m <= j /\ j < N THEN j + 1 ELSE j
  BY <1>1 DEF Came
<1> HIDE DEF G, B
<1>4. \A k \in Index \ {m} : G(k) \in Index \ {N} /\ B(G(k)) = k
  BY <1>1, <1>2, <1>3
<1>5. \A j \in Index \ {N} : B(j) \in Index \ {m} /\ G(B(j)) = j
  BY <1>1, <1>2, <1>3
<1>6. B(N) \in Index /\ G(Null) = Null
  BY <1>1, <1>2, <1>3 DEF Null
<1>7. \A i, j \in Index \ {N} : i < j => B(i) < B(j)
  BY <1>1, <1>3
<1>8. \A k \in Int : G(k) \in Int
  BY <1>2
<1> QED
  BY <1>1, <1>4, <1>5, <1>6, <1>7, <1>8 DEF N, G, B

\* A full cache: the array without the block at its tail, and the new one behind it.
LEMMA ReplaceTailFields ==
  ASSUME NEW V, NEW c \in Caches(V), Full(c), c.tail \in Index, c.head \in Index \ {c.tail},
         c.blocks[c.tail].previous \in Index \ {c.tail},
         NEW id \in Nat, NEW v \in V, ~Found(c, id), PutIndex(c, id) = MaxBlocks - 1
  PROVE  LET r == AfterPut(c, id, v)
             m == c.tail
             p == c.blocks[m].previous
             N == MaxBlocks - 1
             G(k) == Goes((m + 1)..N, -1, k)
             B(j) == Came((m + 1)..N, -1, j)
         IN  /\ r \in Caches(V) /\ r.cur = c.cur /\ r.head = N /\ r.tail = G(p)
             /\ r.mem = [c.mem EXCEPT ![c.blocks[m].data] = v]
             /\ r.blocks[N].id = id /\ r.blocks[N].data = c.blocks[m].data
             /\ r.blocks[N].next = G(c.head) /\ r.blocks[N].previous = Null
             /\ r.blocks[G(c.head)].previous = N
             /\ \A j \in Index \ {N} :
                  /\ r.blocks[j].id = c.blocks[B(j)].id
                  /\ r.blocks[j].data = c.blocks[B(j)].data
                  /\ r.blocks[j].next = G(IF B(j) = p THEN Null ELSE c.blocks[B(j)].next)
                  /\ j # G(c.head) => r.blocks[j].previous = G(c.blocks[B(j)].previous)
<1> DEFINE m == c.tail
           p == c.blocks[m].previous
           N == MaxBlocks - 1
           moving == (m + 1)..N
           G(k) == Goes(moving, -1, k)
           B(j) == Came(moving, -1, j)
           all == c.blocks
           f0 == [all EXCEPT ![p].next = Null]
           cut == [c EXCEPT !.blocks = f0, !.tail = p]
           s == Shift(cut, moving, -1)
           f == s.blocks
           h == s.head
           a == c.blocks[m].data
           g == InFrontClosed(f, N, a, h)
           u == ReplaceTail(c, N)
           r == AfterPut(c, id, v)
<1>1. /\ c.blocks \in [Index -> Blocks] /\ c.mem \in [Index -> V] /\ c.head \in Int
      /\ m \in Index /\ p \in Index \ {m} /\ c.head \in Index \ {m} /\ a \in Index
      /\ Null \in Int /\ p \in Int /\ -1 \in Int
      /\ c.cur \in 0..MaxBlocks
  BY CacheFacts, IndexFacts DEF Null
<1>2. /\ N \in Index /\ Null \notin Index
      /\ \A k \in Index \ {m} : G(k) \in Index \ {N} /\ B(G(k)) = k
      /\ \A j \in Index \ {N} : B(j) \in Index \ {m} /\ G(B(j)) = j
      /\ B(N) \in Index
      /\ \A k \in Int : G(k) \in Int
  BY <1>1, PlacesAfterShift
<1>3. r = Fill(u, N, id, v)
  BY DEF AfterPut
<1>4. u = [s EXCEPT !.blocks = g]
  BY DEF ReplaceTail, InFrontClosed, Caches
<1>5. /\ f0 \in [Index -> Blocks]
      /\ \A k \in Index : /\ f0[k].id = c.blocks[k].id /\ f0[k].data = c.blocks[k].data
                          /\ f0[k].next = IF k = p THEN Null ELSE c.blocks[k].next
                          /\ f0[k].previous = c.blocks[k].previous
  <2>1. all \in [Index -> Blocks] /\ Null \in Int /\ p \in Index
    BY <1>1
  <2> HIDE DEF all, p
  <2>2. /\ f0 \in [Index -> Blocks]
        /\ \A k \in Index : /\ f0[k].id = all[k].id /\ f0[k].data = all[k].data
                            /\ f0[k].next = IF k = p THEN Null ELSE all[k].next
                            /\ f0[k].previous = all[k].previous
    BY ONLY <2>1, SetNext
  <2> QED
    BY <2>2 DEF all
<1>6. /\ cut \in Caches(V) /\ cut.cur = c.cur /\ cut.mem = c.mem /\ cut.head = c.head
      /\ cut.tail = p /\ cut.blocks = f0
  BY <1>1, <1>5 DEF Caches
<1>7. /\ s \in Caches(V) /\ s.cur = cut.cur /\ s.mem = cut.mem
      /\ s.head = G(cut.head) /\ s.tail = G(cut.tail)
      /\ \A j \in Index :
           LET b == cut.blocks[B(j)]
           IN  /\ s.blocks[j].id = b.id /\ s.blocks[j].data = b.data
               /\ s.blocks[j].next = G(b.next) /\ s.blocks[j].previous = G(b.previous)
  <2>1. \A j \in Index : Came(moving, -1, j) \in Index
    BY <1>2
  <2>2. cut \in Caches(V) /\ -1 \in Int
    BY <1>1, <1>6
  <2> HIDE DEF cut, moving
  <2> QED
    BY ONLY <2>1, <2>2, ShiftFields
<1> HIDE DEF cut, f0, moving, s
<1>8. /\ s.cur = c.cur /\ s.mem = c.mem /\ h = G(c.head) /\ s.tail = G(p)
      /\ \A j \in Index :
           /\ f[j].id = c.blocks[B(j)].id
           /\ f[j].data = c.blocks[B(j)].data
           /\ f[j].next = G(IF B(j) = p THEN Null ELSE c.blocks[B(j)].next)
           /\ f[j].previous = G(c.blocks[B(j)].previous)
  <2>1. s.cur = c.cur /\ s.mem = c.mem /\ h = G(c.head) /\ s.tail = G(p)
    BY <1>6, <1>7
  <2>2. ASSUME NEW j \in Index
        PROVE  /\ f[j].id = c.blocks[B(j)].id
               /\ f[j].data = c.blocks[B(j)].data
               /\ f[j].next = G(IF B(j) = p THEN Null ELSE c.blocks[B(j)].next)
               /\ f[j].previous = G(c.blocks[B(j)].previous)
    <3> DEFINE k == B(j)
    <3>1. k \in Index
      BY <1>2
    <3>2. /\ f[j].id = f0[k].id /\ f[j].data = f0[k].data
          /\ f[j].next = G(f0[k].next) /\ f[j].previous = G(f0[k].previous)
      BY <1>6, <1>7
    <3> HIDE DEF k, G, B, p, f
    <3>3. /\ f0[k].id = c.blocks[k].id /\ f0[k].data = c.blocks[k].data
          /\ f0[k].next = IF k = p THEN Null ELSE c.blocks[k].next
          /\ f0[k].previous = c.blocks[k].previous
      BY <1>5, <3>1
    <3>4. /\ f[j].id = c.blocks[k].id /\ f[j].data = c.blocks[k].data
          /\ f[j].next = G(IF k = p THEN Null ELSE c.blocks[k].next)
          /\ f[j].previous = G(c.blocks[k].previous)
      BY <3>2, <3>3
    <3> QED
      BY <3>4 DEF k
  <2> QED
    BY <2>1, <2>2
<1>9. f \in [Index -> Blocks] /\ N \in Index /\ a \in Index /\ h \in Int
  BY <1>1, <1>2, <1>7, <1>8, CacheFacts
<1> HIDE DEF f, h, a, N, m, p, G, B
<1>10. /\ g \in [Index -> Blocks]
       /\ \A k \in Index : /\ g[k].id = f[k].id
                           /\ g[k].data = IF k = N THEN a ELSE f[k].data
                           /\ g[k].next = IF k = N THEN h ELSE f[k].next
                           /\ g[k].previous =
                                IF k = h THEN N ELSE IF k = N THEN Null ELSE f[k].previous
  BY ONLY <1>9, NewFrontClosed
<1> HIDE DEF g, u
<1>11. /\ u \in Caches(V) /\ u.cur = s.cur /\ u.mem = s.mem /\ u.tail = s.tail /\ u.blocks = g
  BY <1>4, <1>7, <1>10 DEF Caches
<1>12. /\ r \in Caches(V) /\ r.cur = u.cur /\ r.head = N /\ r.tail = u.tail
       /\ r.mem = [u.mem EXCEPT ![u.blocks[N].data] = v]
       /\ \A k \in Index : /\ r.blocks[k].id = IF k = N THEN id ELSE u.blocks[k].id
                           /\ r.blocks[k].data = u.blocks[k].data
                           /\ r.blocks[k].next = u.blocks[k].next
                           /\ r.blocks[k].previous = u.blocks[k].previous
  BY <1>3, <1>9, <1>11, FillFields
<1> HIDE DEF r
<1>13. h \in Index \ {N} /\ h = G(c.head)
  BY <1>1, <1>2, <1>8
<1>14. /\ r \in Caches(V) /\ r.cur = c.cur /\ r.head = N /\ r.tail = G(p)
       /\ r.mem = [c.mem EXCEPT ![a] = v]
  BY <1>8, <1>9, <1>10, <1>11, <1>12
<1>15. /\ r.blocks[N].id = id /\ r.blocks[N].data = a
       /\ r.blocks[N].next = G(c.head) /\ r.blocks[N].previous = Null
       /\ r.blocks[G(c.head)].previous = N
  BY <1>9, <1>10, <1>11, <1>12, <1>13
<1>16. ASSUME NEW j \in Index \ {N}
       PROVE  /\ r.blocks[j].id = c.blocks[B(j)].id
              /\ r.blocks[j].data = c.blocks[B(j)].data
              /\ r.blocks[j].next = G(IF B(j) = p THEN Null ELSE c.blocks[B(j)].next)
              /\ j # G(c.head) => r.blocks[j].previous = G(c.blocks[B(j)].previous)
  BY <1>8, <1>10, <1>11, <1>12, <1>13
<1> QED
  BY <1>14, <1>15, <1>16 DEF r, a, N, m, p, G, B, moving

\* Adding an entry to a cache with room.
LEMMA UseFreeBlockOK ==
  ASSUME NEW V, NEW c, CacheOK(c, V), ~Full(c), NEW id \in Nat, NEW v \in V,
         \A k \in Used(c) : c.blocks[k].id < id
  PROVE  LET r == AfterPut(c, id, v)
         IN  CacheOK(r, V) /\ Added(c, r, id, v)
<1> DEFINE i == c.cur
           h == c.head
           r == AfterPut(c, id, v)
<1>1. c \in Caches(V) /\ Sorted(c) /\ Owned(c) /\ Threaded(c)
  BY DEF CacheOK
<1>2. i \in Nat /\ i + 1 \in 0..MaxBlocks /\ i \in Index /\ i \notin Used(c) /\ Used(c) \subseteq Index
      /\ Used(c) \subseteq Nat /\ Null \notin Index
  <2>1. i \in Nat /\ i \in 0..MaxBlocks /\ i # MaxBlocks /\ MaxBlocks \in Nat
        /\ Used(c) \subseteq Index /\ Used(c) \subseteq Nat /\ Null \notin Index
    BY <1>1, CacheFacts, IndexFacts DEF Full
  <2> HIDE DEF i
  <2>2. i \in Index /\ i + 1 \in 0..MaxBlocks /\ i \notin 0..(i - 1)
    BY <2>1 DEF Index
  <2> QED
    BY <2>1, <2>2 DEF Used, i
<1>3. IF i = 0 THEN h = Null ELSE h \in Used(c)
  BY <1>1 DEF Threaded, Chain
<1>4. /\ r \in Caches(V) /\ r.cur = i + 1 /\ r.head = i
      /\ r.tail = IF i = 0 THEN 0 ELSE c.tail
      /\ r.mem = [c.mem EXCEPT ![i] = v]
      /\ \A k \in Index :
           /\ r.blocks[k].id = IF k = i THEN id ELSE c.blocks[k].id
           /\ r.blocks[k].data = c.blocks[k].data
           /\ r.blocks[k].next = IF k = i THEN h ELSE c.blocks[k].next
           /\ r.blocks[k].previous = IF k = h THEN i ELSE c.blocks[k].previous
  <2>1. ~Found(c, id) /\ PutIndex(c, id) = i
    BY <1>1, AppendPosition
  <2> QED
    BY <1>1, <1>3, <2>1, UseFreeBlockFields
<1>5. /\ c.mem \in [Index -> V] /\ \A k \in Index : c.blocks[k].id \in Nat /\ c.blocks[k].data \in Index
  BY <1>1, CacheFacts
<1>6. c.blocks[i].data = i /\ c.blocks[i].previous = Null
  BY <1>1, <1>2 DEF Owned
<1>7. Used(c) = 0..(i - 1) /\ Used(r) = 0..((i + 1) - 1)
  BY <1>4 DEF Used
<1> HIDE DEF i, r, h
<1>8. Used(r) = Used(c) \cup {i} /\ \A k \in Used(c) : k < i
  BY <1>2, <1>7
<1>9. Sorted(r)
  <2>1. ASSUME NEW k \in Used(r), NEW j \in Used(r), k < j
        PROVE  r.blocks[k].id < r.blocks[j].id
    <3>1. k # i /\ k \in Used(c)
      BY <1>2, <1>8, <2>1
    <3>2. CASE j = i
      BY <1>2, <1>4, <3>1, <3>2
    <3>3. CASE j # i
      BY <1>1, <1>2, <1>4, <1>8, <2>1, <3>1, <3>3 DEF Sorted
    <3> QED
      BY <3>2, <3>3
  <2> QED
    BY <2>1 DEF Sorted
<1>10. Owned(r)
  <2>1. \A k, j \in Index : r.blocks[k].data = r.blocks[j].data => k = j
    BY <1>1, <1>4 DEF Owned
  <2>2. \A k \in Index \ Used(r) :
          r.blocks[k].data = k /\ r.blocks[k].next = Null /\ r.blocks[k].previous = Null
    <3>1. ASSUME NEW k \in Index \ Used(r)
          PROVE  r.blocks[k].data = k /\ r.blocks[k].next = Null /\ r.blocks[k].previous = Null
      <4>1. k \notin Used(c) /\ k # i /\ k # h
        BY <1>2, <1>3, <1>8
      <4> QED
        BY <1>1, <1>4, <4>1 DEF Owned
    <3> QED
      BY <3>1
  <2>3. \E k \in Used(r) : r.blocks[k].data = 0
    <3>1. CASE i = 0
      BY <1>2, <1>4, <1>6, <1>8, <3>1
    <3>2. CASE i # 0
      <4>1. \E k \in Used(c) : c.blocks[k].data = 0
        BY <1>1, <1>2, <3>2 DEF Owned, i
      <4> QED
        BY <1>2, <1>4, <1>8, <4>1
    <3> QED
      BY <3>1, <3>2
  <2> QED
    BY <2>1, <2>2, <2>3 DEF Owned
<1>11. Threaded(r)
  <2> DEFINE nx == Nexts(r)
             pv == Previouses(r)
  <2>1. /\ nx \in Pointers /\ pv \in Pointers
        /\ \A k \in Index : nx[k] = r.blocks[k].next /\ pv[k] = r.blocks[k].previous
    BY <1>4, CacheFacts
  <2> HIDE DEF nx, pv
  <2>2. \E t : Chain(Used(c) \cup {i}, i, IF i = 0 THEN 0 ELSE c.tail, nx, pv, t)
    <3>1. CASE i = 0
      <4>1. Used(c) \cup {i} = {i}
        BY <1>2, <1>7, <3>1
      <4>2. nx[i] = Null /\ pv[i] = Null
        BY <1>2, <1>3, <1>4, <1>6, <2>1, <3>1
      <4> QED
        BY <1>2, <2>1, <3>1, <4>1, <4>2, OneBlock
    <3>2. CASE i # 0
      <4> DEFINE nx0 == Nexts(c)
                 pv0 == Previouses(c)
      <4>1. PICK t : Chain(Used(c), h, c.tail, nx0, pv0, t)
        BY <1>1, <3>2 DEF Threaded, i, h
      <4>2. \A k \in Index : nx0[k] = c.blocks[k].next /\ pv0[k] = c.blocks[k].previous
        BY <1>1, CacheFacts
      <4> HIDE DEF nx0, pv0
      <4>3. /\ nx[i] = h /\ pv[i] = Null /\ pv[h] = i
            /\ \A k \in Used(c) : nx[k] = nx0[k]
            /\ \A k \in Used(c) : k # h => pv[k] = pv0[k]
        BY <1>2, <1>3, <1>4, <1>6, <2>1, <3>2, <4>2
      <4>4. \E t2 : Chain(Used(c) \cup {i}, i, c.tail, nx, pv, t2)
        BY <1>2, <2>1, <4>1, <4>3, PushFront
      <4> QED
        BY <3>2, <4>4
    <3> QED
      BY <3>1, <3>2
  <2> QED
    BY <1>2, <1>4, <1>8, <2>2 DEF Threaded, nx, pv
<1>12. Added(c, r, id, v)
  <2>1. r.cur > 0 /\ r.head = r.cur - 1 /\ r.head \in Used(r) /\ r.blocks[r.head].id = id
    BY <1>2, <1>4, <1>8
  <2>2. r.mem[r.blocks[r.head].data] = v
    BY <1>2, <1>4, <1>5, <1>6
  <2>3. ASSUME NEW k \in Used(r) \ {r.head}
        PROVE  /\ k \in Used(c) /\ r.blocks[k].id = c.blocks[k].id
               /\ r.mem[r.blocks[k].data] = c.mem[c.blocks[k].data]
    <3>1. k \in Used(c) /\ k \in Index /\ k # i
      BY <1>2, <1>4, <1>8
    <3>2. r.blocks[k].data = c.blocks[k].data /\ c.blocks[k].data # i
      BY <1>1, <1>2, <1>4, <1>6, <3>1 DEF Owned
    <3> QED
      BY <1>2, <1>4, <1>5, <3>1, <3>2
  <2> QED
    BY <2>1, <2>2, <2>3 DEF Added
<1> QED
  BY <1>4, <1>9, <1>10, <1>11, <1>12 DEF CacheOK, r

\* Adding an entry to a full cache: the block at the tail gives up its place and its area.
LEMMA ReplaceTailOK ==
  ASSUME NEW V, NEW c, CacheOK(c, V), Full(c), NEW id \in Nat, NEW v \in V,
         \A k \in Used(c) : c.blocks[k].id < id
  PROVE  LET r == AfterPut(c, id, v)
         IN  CacheOK(r, V) /\ Added(c, r, id, v)
<1> DEFINE m == c.tail
           h == c.head
           p == c.blocks[m].previous
           a == c.blocks[m].data
           N == MaxBlocks - 1
           G(k) == Goes((m + 1)..N, -1, k)
           B(j) == Came((m + 1)..N, -1, j)
           r == AfterPut(c, id, v)
           nx0 == Nexts(c)
           pv0 == Previouses(c)
           nx == Nexts(r)
           pv == Previouses(r)
<1>1. c \in Caches(V) /\ Sorted(c) /\ Owned(c) /\ Threaded(c)
  BY DEF CacheOK
<1>2. /\ Used(c) = Index /\ c.cur = N + 1 /\ N \in Nat /\ N >= 1 /\ N \in Index /\ 0 \in Index
      /\ Null \notin Index /\ Index = 0..N
  <2>1. MaxBlocks \in Nat /\ MaxBlocks >= 2 /\ Null \notin Index
    BY IndexFacts
  <2>2. c.cur = MaxBlocks
    BY DEF Full
  <2> QED
    BY <2>1, <2>2 DEF Used, Index
<1>3. PICK t : Chain(Index, h, m, nx0, pv0, t)
  BY <1>1, <1>2 DEF Threaded
<1>4. \A k \in Index : nx0[k] = c.blocks[k].next /\ pv0[k] = c.blocks[k].previous
  BY <1>1, CacheFacts
<1>5. m \in Index /\ h \in Index
  BY <1>3 DEF Chain
<1> HIDE DEF nx0, pv0, h, m
<1>6. h # m
  <2>1. SUFFICES ASSUME h = m
                 PROVE  FALSE
    OBVIOUS
  <2>2. \A i \in Index \ {h} : t[i] < t[h] /\ t[h] < t[i] /\ t[i] \in Int /\ t[h] \in Int
    BY <1>3, <1>5, <2>1 DEF Chain, Times
  <2>3. 0 \in Index /\ 1 \in Index
    BY <1>2
  <2>4. \E i \in Index : i # h
    BY <2>3
  <2> QED
    BY <2>2, <2>4
<1>7. p \in Index \ {m} /\ p = pv0[m]
  <2>1. pv0[m] \in Index /\ t[m] < t[pv0[m]] /\ t[m] \in Int
    BY <1>3, <1>5, <1>6 DEF Chain, Times
  <2> QED
    BY <1>4, <1>5, <2>1
<1>8. /\ \A k \in Index \ {m} : G(k) \in Index \ {N} /\ B(G(k)) = k
      /\ \A j \in Index \ {N} : B(j) \in Index \ {m} /\ G(B(j)) = j
      /\ G(Null) = Null
      /\ \A i, j \in Index \ {N} : i < j => B(i) < B(j)
      /\ \A k \in Int : G(k) \in Int
  BY <1>5, PlacesAfterShift
<1>9. /\ r \in Caches(V) /\ r.cur = c.cur /\ r.head = N /\ r.tail = G(p)
      /\ r.mem = [c.mem EXCEPT ![a] = v]
      /\ r.blocks[N].id = id /\ r.blocks[N].data = a
      /\ r.blocks[N].next = G(h) /\ r.blocks[N].previous = Null
      /\ r.blocks[G(h)].previous = N
      /\ \A j \in Index \ {N} :
           /\ r.blocks[j].id = c.blocks[B(j)].id
           /\ r.blocks[j].data = c.blocks[B(j)].data
           /\ r.blocks[j].next = G(IF B(j) = p THEN Null ELSE c.blocks[B(j)].next)
           /\ j # G(h) => r.blocks[j].previous = G(c.blocks[B(j)].previous)
  <2>1. ~Found(c, id) /\ PutIndex(c, id) = MaxBlocks - 1
    BY <1>1, AppendPosition
  <2> QED
    BY <1>1, <1>5, <1>6, <1>7, <2>1, ReplaceTailFields DEF m, h
<1>10. /\ c.mem \in [Index -> V] /\ a \in Index
       /\ \A k \in Index : c.blocks[k].id \in Nat /\ c.blocks[k].data \in Index
  BY <1>1, <1>5, CacheFacts
<1>11. Used(r) = Index
  BY <1>2, <1>9 DEF Used
<1>12. /\ nx \in Pointers /\ pv \in Pointers
       /\ \A k \in Index : nx[k] = r.blocks[k].next /\ pv[k] = r.blocks[k].previous
  BY <1>9, CacheFacts
<1> HIDE DEF r, nx, pv, N, G, B, p, a
<1>13. Sorted(r)
  <2>1. ASSUME NEW k \in Index, NEW j \in Index, k < j
        PROVE  r.blocks[k].id < r.blocks[j].id
    <3>0. k # N
      BY <1>2, <2>1
    <3>1. k # N /\ B(k) \in Index /\ r.blocks[k].id = c.blocks[B(k)].id
      BY <1>8, <1>9, <3>0
    <3>2. CASE j = N
      BY <1>2, <1>9, <3>1, <3>2
    <3>3. CASE j # N
      <4>1. B(j) \in Index /\ B(k) < B(j) /\ r.blocks[j].id = c.blocks[B(j)].id
        BY <1>8, <1>9, <2>1, <3>1, <3>3
      <4> QED
        BY <1>1, <1>2, <3>1, <4>1 DEF Sorted
    <3> QED
      BY <3>2, <3>3
  <2> QED
    BY <1>11, <2>1 DEF Sorted
<1>14. \A j \in Index \ {N} : B(j) \in Index /\ B(j) # m /\ c.blocks[B(j)].data # a
  BY <1>1, <1>5, <1>8 DEF Owned, a
<1>15. Owned(r)
  <2>1. ASSUME NEW k \in Index, NEW j \in Index, r.blocks[k].data = r.blocks[j].data
        PROVE  k = j
    <3>1. CASE k = N \/ j = N
      BY <1>9, <1>14, <2>1, <3>1
    <3>2. CASE k # N /\ j # N
      <4>1. B(k) = B(j)
        BY <1>1, <1>9, <1>14, <2>1, <3>2 DEF Owned
      <4> QED
        BY <1>8, <3>2, <4>1
    <3> QED
      BY <3>1, <3>2
  <2>2. \E k \in Index : r.blocks[k].data = 0
    <3>1. PICK k \in Index : c.blocks[k].data = 0
      <4>1. c.cur > 0
        BY <1>2
      <4> QED
        BY <1>1, <1>2, <4>1 DEF Owned
    <3>2. CASE k = m
      BY <1>2, <1>9, <3>1, <3>2 DEF a
    <3>3. CASE k # m
      <4>1. G(k) \in Index \ {N} /\ B(G(k)) = k
        BY <1>8, <3>3
      <4>2. r.blocks[G(k)].data = 0
        BY <1>9, <3>1, <4>1
      <4> QED
        BY <4>1, <4>2
    <3> QED
      BY <3>2, <3>3
  <2> QED
    BY <1>11, <2>1, <2>2 DEF Owned
<1>16. Threaded(r)
  <2> DEFINE W == Index \ {N}
             now == [k \in Int |-> G(k)]
             before == [j \in Int |-> B(j)]
             nx1 == [nx0 EXCEPT ![p] = Null]
             nx2 == [j \in Index |-> G(nx1[B(j)])]
             pv2 == [j \in Index |-> G(pv0[B(j)])]
  <2>1. nx0 \in Pointers /\ pv0 \in Pointers /\ Null \in Int /\ Index \subseteq Int
    BY <1>3, IndexFacts DEF Chain, Null
  <2>2. /\ nx1 \in Pointers /\ nx1[pv0[m]] = Null
        /\ \A k \in Index : nx1[k] = IF k = p THEN Null ELSE nx0[k]
    BY <1>7, <2>1 DEF Pointers
  <2> HIDE DEF nx1
  <2>3. Chain(Index \ {m}, h, p, nx1, pv0, t)
    <3>1. \A k \in Index : k # pv0[m] => nx1[k] = nx0[k]
      BY <1>7, <2>2
    <3>2. Chain(Index \ {m}, h, pv0[m], nx1, pv0, t)
      BY <1>3, <1>6, <2>2, <3>1, DropLast
    <3> QED
      BY <1>7, <3>2
  <2>4. /\ \A k \in Index \ {m} : now[k] \in W /\ before[now[k]] = k /\ now[k] = G(k)
        /\ \A j \in W : before[j] \in Index \ {m} /\ now[before[j]] = j /\ before[j] = B(j)
        /\ \A k \in Int : now[k] = G(k)
    <3>1. \A k \in Int : now[k] = G(k) /\ before[k] = B(k)
      OBVIOUS
    <3> HIDE DEF now, before
    <3> QED
      <4>1. ASSUME NEW k \in Index \ {m}
            PROVE  now[k] \in W /\ before[now[k]] = k /\ now[k] = G(k)
        <5>1. k \in Int /\ G(k) \in Index \ {N} /\ B(G(k)) = k /\ G(k) \in Int
          BY <1>8, <2>1
        <5> QED
          BY <3>1, <5>1
      <4>2. ASSUME NEW j \in W
            PROVE  before[j] \in Index \ {m} /\ now[before[j]] = j /\ before[j] = B(j)
        <5>1. j \in Int /\ B(j) \in Index \ {m} /\ G(B(j)) = j /\ B(j) \in Int
          BY <1>8, <2>1
        <5> QED
          BY <3>1, <5>1
      <4> QED
        BY <3>1, <4>1, <4>2
  <2> HIDE DEF now, before
  <2>5. ASSUME NEW j \in W
        PROVE  /\ nx1[B(j)] \in Int /\ pv0[B(j)] \in Int /\ G(nx1[B(j)]) \in Int /\ G(pv0[B(j)]) \in Int
               /\ G(nx1[B(j)]) = IF nx1[before[j]] = Null THEN Null ELSE now[nx1[before[j]]]
               /\ G(pv0[B(j)]) = IF pv0[before[j]] = Null THEN Null ELSE now[pv0[before[j]]]
    <3>1. B(j) \in Index /\ before[j] = B(j)
      BY <1>8, <2>4
    <3>2. nx1[B(j)] \in Int /\ pv0[B(j)] \in Int
      BY <2>1, <2>2, <3>1 DEF Pointers
    <3> QED
      BY <1>8, <2>4, <3>1, <3>2
  <2> DEFINE nx3 == [j \in Index |-> IF j \in W THEN G(nx1[B(j)]) ELSE Null]
             pv3 == [j \in Index |-> IF j \in W THEN G(pv0[B(j)]) ELSE Null]
  <2>6. /\ nx3 \in Pointers /\ pv3 \in Pointers
        /\ \A j \in W : nx3[j] = G(nx1[B(j)]) /\ pv3[j] = G(pv0[B(j)])
    BY <2>1, <2>5 DEF Pointers
  <2> HIDE DEF nx3, pv3
  <2>7. \E t3 : Chain(W, now[h], now[p], nx3, pv3, t3)
    <3>1. W \subseteq Index
      OBVIOUS
    <3>2. \A k \in Index \ {m} : now[k] \in W /\ before[now[k]] = k
      BY <2>4
    <3>3. \A j \in W : before[j] \in Index \ {m} /\ now[before[j]] = j
      BY <2>4
    <3>4. \A j \in W : nx3[j] = IF nx1[before[j]] = Null THEN Null ELSE now[nx1[before[j]]]
      BY <2>5, <2>6
    <3>5. \A j \in W : pv3[j] = IF pv0[before[j]] = Null THEN Null ELSE now[pv0[before[j]]]
      BY <2>5, <2>6
    <3> HIDE DEF W
    <3> QED
      BY <2>3, <2>6, <3>1, <3>2, <3>3, <3>4, <3>5, Rename
  <2>8. now[h] = G(h) /\ now[p] = G(p) /\ G(h) \in W
    BY <1>5, <1>6, <1>7, <1>8, <2>4
  <2>9. PICK t3 : Chain(W, G(h), G(p), nx3, pv3, t3)
    BY <2>7, <2>8
  <2>10. /\ nx[N] = G(h) /\ pv[N] = Null /\ pv[G(h)] = N /\ N \in Index /\ N \notin W
         /\ \A k \in W : nx[k] = nx3[k]
         /\ \A k \in W : k # G(h) => pv[k] = pv3[k]
    <3>1. nx[N] = G(h) /\ pv[N] = Null /\ pv[G(h)] = N /\ N \in Index /\ N \notin W
      BY <1>2, <1>9, <1>12, <2>8
    <3>2. ASSUME NEW k \in W
          PROVE  nx[k] = nx3[k] /\ (k # G(h) => pv[k] = pv3[k])
      <4>1. B(k) \in Index /\ k \in Index
        BY <1>8
      <4>2. nx1[B(k)] = IF B(k) = p THEN Null ELSE c.blocks[B(k)].next
        BY <1>4, <2>2, <4>1
      <4>3. pv0[B(k)] = c.blocks[B(k)].previous
        BY <1>4, <4>1
      <4> QED
        BY <1>9, <1>12, <2>6, <4>1, <4>2, <4>3
    <3> QED
      BY <3>1, <3>2
  <2>11. \E t4 : Chain(W \cup {N}, N, G(p), nx, pv, t4)
    BY <1>12, <2>9, <2>10, PushFront
  <2>12. W \cup {N} = Index
    BY <1>2
  <2>13. r.cur # 0 /\ r.head = N /\ r.tail = G(p)
    BY <1>2, <1>9
  <2>14. \E t4 : Chain(Used(r), r.head, r.tail, nx, pv, t4)
    BY <1>11, <2>11, <2>12, <2>13
  <2> QED
    BY <2>13, <2>14 DEF Threaded, nx, pv
<1>17. Added(c, r, id, v)
  <2>1. r.cur > 0 /\ r.head = r.cur - 1 /\ r.head \in Used(r) /\ r.blocks[r.head].id = id
    BY <1>2, <1>9, <1>11
  <2>2. r.mem[r.blocks[r.head].data] = v
    BY <1>9, <1>10
  <2>3. ASSUME NEW k \in Used(r) \ {r.head}
        PROVE  \E j \in Used(c) : /\ r.blocks[k].id = c.blocks[j].id
                                  /\ r.mem[r.blocks[k].data] = c.mem[c.blocks[j].data]
    <3>1. k \in Index \ {N} /\ B(k) \in Used(c)
      BY <1>2, <1>8, <1>9, <1>11
    <3>2. r.blocks[k].id = c.blocks[B(k)].id
      BY <1>9, <3>1
    <3>3. r.mem[r.blocks[k].data] = c.mem[c.blocks[B(k)].data]
      BY <1>9, <1>10, <1>14, <3>1
    <3> QED
      BY <3>1, <3>2, <3>3
  <2> QED
    BY <2>1, <2>2, <2>3 DEF Added
<1> QED
  BY <1>9, <1>13, <1>15, <1>16, <1>17 DEF CacheOK, r

\* lru_cache_put of an id above all others: the cache stays well formed, the new entry is
\* its last and was used last, the others are those of before.
LEMMA PutOK ==
  ASSUME NEW V, NEW c, CacheOK(c, V), NEW id \in Nat, NEW v \in V,
         \A k \in Used(c) : c.blocks[k].id < id
  PROVE  LET r == AfterPut(c, id, v)
         IN  CacheOK(r, V) /\ Added(c, r, id, v)
  BY UseFreeBlockOK, ReplaceTailOK

=============================================================================
