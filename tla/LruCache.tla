------------------------------ MODULE LruCache ------------------------------
(***************************************************************************)
(* lru_cache.c under a client that gets and puts entries.                  *)
(*                                                                         *)
(* Spec is the client the extension has (deltamodule.c, get_source_block): *)
(* a new id is above every id in the cache, though an entry may also be    *)
(* replaced.  lru_cache.h allows any id; a lower id put into a full cache  *)
(* would overwrite an entry (lru_cache.c, line 125).                       *)
(***************************************************************************)
EXTENDS LruStore, Sequences

CONSTANTS
  Values,   \* what a client stores
  MaxId     \* bound: the highest id a client uses

ASSUME ClientAssumption == NoValue \notin Values /\ MaxId \in Nat

Ids == 0..MaxId

VARIABLES
  cache,
  result     \* the value of the entry the last call returned

vars == <<cache, result>>

Init ==
  /\ cache = EmptyCache
  /\ result = NoValue

\* lru_cache_get
Get(id) ==
  /\ cache' = AfterGet(cache, id)
  /\ result' = IF Found(cache, id)
               THEN cache.mem[cache.blocks[GetEntry(cache, id)].data] ELSE NoValue

\* lru_cache_put
Put(id, v) ==
  /\ cache' = AfterPut(cache, id, v)
  /\ result' = v

\* Whether id is above every id in the cache.
Appends(id) == cache.cur > 0 => id > cache.blocks[Last(cache)].id

Next ==
  \E id \in Ids :
    \/ Get(id)
    \/ /\ Found(cache, id) \/ Appends(id)
       /\ \E v \in Values : Put(id, v)

Spec == Init /\ [][Next]_vars

-----------------------------------------------------------------------------

\* The usage list, followed through the next pointers for as many blocks as are used.
UsageOrder(c) ==
  LET at[k \in 1..c.cur] ==
        IF k = 1 \/ at[k - 1] = Null THEN c.head ELSE c.blocks[at[k - 1]].next
  IN  at

\* The usage list threads every used block exactly once, ends at `tail', and
\* reads the same backwards: a stale link left by lru_cache_get, by a shift of
\* the array or by an eviction would sooner or later lose a block.
WellLinked ==
  LET at == UsageOrder(cache)
      n == cache.cur
  IN  /\ {at[k] : k \in 1..n} = Used(cache)
      /\ n = 0 => cache.head = Null /\ cache.tail = Null
      /\ n > 0 =>
           /\ at[1] = cache.head /\ cache.blocks[at[1]].previous = Null
           /\ at[n] = cache.tail /\ cache.blocks[at[n]].next = Null
           /\ \A k \in 2..n : cache.blocks[at[k]].previous = at[k - 1]

\* No two blocks share a data area, and lru_cache_free hands free() the pointer
\* malloc() returned although the areas have moved between the blocks.
AreasAreOwned ==
  /\ \A i, j \in Index : cache.blocks[i].data = cache.blocks[j].data => i = j
  /\ FreedArea(cache) = 0

\* lru_cache.h's contract: which entries are cached, in which order they will be
\* replaced and what they hold are those of a least-recently-used map.
Recency(c) == [k \in 1..c.cur |-> c.blocks[UsageOrder(c)[k]].id]
Contents(c) ==
  [id \in {c.blocks[i].id : i \in Used(c)} |-> c.mem[c.blocks[IndexOf(c, id)].data]]
Lru == INSTANCE AbstractLru WITH
         Capacity <- MaxBlocks, recency <- Recency(cache), contents <- Contents(cache)
ImplementsLru == Lru!Spec
=============================================================================
