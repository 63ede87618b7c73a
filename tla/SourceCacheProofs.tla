------------------------- MODULE SourceCacheProofs -------------------------
(***************************************************************************)
(* Theorems about SourceCache, for every number and size of blocks and     *)
(* every length of the source: the file's position follows the cache up to *)
(* what failed reads consumed, and every request that succeeds hands out   *)
(* the block of the number that was asked for.                             *)
(*                                                                         *)
(* They rest on the cache being well formed (LruStoreProofs), on a request *)
(* being ahead of the cache while blocks are read, on every entry ending   *)
(* before the file's position, and, for the length, on what an encoder     *)
(* knows of the last block it has seen (Measured).                         *)
(***************************************************************************)
EXTENDS SourceCache, LruStoreProofs

Stretches == [from : Nat, size : Nat]
Values == {NoValue} \cup Stretches
SourceStates ==
  [curblkno : Nat, onblk : Nat, curblk : Index \cup {Null},
   max_blkno : Nat, onlastblk : Nat, eof_known : BOOLEAN]

CacheTypes ==
  /\ engine \in Engines /\ len \in Nat /\ pos \in Nat
  /\ CacheOK(cache, Values)
  /\ src \in SourceStates
  /\ pc \in {"idle", "reading"} /\ want \in Nat
  /\ answer \in {"none", "ok", "toofarback"}
  /\ failures \in Nat
  /\ lost \in [0..MaxBlkno + 1 -> Nat]

\* Every block read and every number to come has its place in lost, bytes are lost by
\* failed reads only, and the blocks to come have the same bytes lost before them.
Counted ==
  /\ NextId <= MaxBlkno + 1
  /\ pc = "reading" => want <= MaxBlkno
  /\ failures = 0 => NothingLost
  /\ \A b \in 0..MaxBlkno + 1 : b >= NextId => lost[b] = lost[NextId]

\* Every entry ends where the file stands, or before.
ReadBefore ==
  \A i \in Used(cache) :
    cache.mem[cache.blocks[i].data].from + cache.mem[cache.blocks[i].data].size <= pos

\* The number of the last block an encoder may ask for.
Frontier ==
  IF src.curblk = Null THEN 0
  ELSE IF src.eof_known THEN src.max_blkno ELSE src.max_blkno + 1

\* What is being read is ahead of the cache and what the engine may ask for.
Ahead ==
  pc = "reading" => want >= NextId /\ (engine = "encoder" => want <= Frontier)

\* The size of the block at hand is known, whatever happened to its memory.
SizeIsRight == src.curblk # Null /\ NothingLost => src.onblk = SourceBlock(src.curblkno).size

\* An encoder's highest block is the last, and then known to be, or a full one.
Measured(s) ==
  engine = "encoder" /\ len >= BlkSize /\ NothingLost =>
    IF s.curblk = Null THEN s.max_blkno = 0 /\ ~s.eof_known
    ELSE /\ s.onlastblk = SourceBlock(s.max_blkno).size
         /\ IF s.eof_known THEN SourceEof(s) = len ELSE s.onlastblk = BlkSize

IInv ==
  /\ CacheTypes
  /\ Ahead
  /\ Counted
  /\ ReadBefore
  /\ PositionFollowsCache
  /\ CachedBlocksAreRight
  /\ SizeIsRight
  /\ CurrentBlockIsCurrent
  /\ AnswerIsTheBlock
  /\ Measured(src)

-----------------------------------------------------------------------------
(* The source. *)

\* The place and the size of a block.
LEMMA BlockFacts ==
  ASSUME len \in Nat, NEW b \in Nat
  PROVE  /\ b * BlkSize \in Nat /\ (b + 1) * BlkSize = b * BlkSize + BlkSize
         /\ BlkSize \in Nat /\ BlkSize > 0
         /\ SourceBlock(b) \in Stretches /\ SourceBlock(b).size \in Nat
         /\ SourceBlock(b).size =
              IF b * BlkSize >= len THEN 0
              ELSE IF len - b * BlkSize < BlkSize THEN len - b * BlkSize ELSE BlkSize
<1> DEFINE P == b * BlkSize
           q == IF P < len THEN P ELSE len
<1>1. BlkSize \in Nat /\ BlkSize > 0
  BY BlockAssumption
<1>2. P \in Nat /\ (b + 1) * BlkSize = P + BlkSize
  BY <1>1
<1>3. SourceBlock(b) = [from |-> q, size |-> IF len - q < BlkSize THEN len - q ELSE BlkSize]
  BY DEF SourceBlock, Stretch
<1> HIDE DEF P
<1>4. q \in Nat /\ (IF len - q < BlkSize THEN len - q ELSE BlkSize) \in Nat
  BY <1>1, <1>2
<1>5. (IF len - q < BlkSize THEN len - q ELSE BlkSize) =
        IF P >= len THEN 0 ELSE IF len - P < BlkSize THEN len - P ELSE BlkSize
  BY <1>1, <1>2
<1> HIDE DEF q
<1>6. SourceBlock(b) \in Stretches
  BY <1>3, <1>4 DEF Stretches
<1>7. SourceBlock(b).size = IF len - q < BlkSize THEN len - q ELSE BlkSize
  BY <1>3
<1> QED
  BY <1>1, <1>2, <1>4, <1>5, <1>6, <1>7 DEF P

\* What the file returns.
LEMMA StretchFacts ==
  ASSUME len \in Nat, NEW p \in Nat, p <= len
  PROVE  /\ Stretch(p) \in Stretches /\ Stretch(p).from = p /\ Stretch(p).size \in Nat
         /\ Stretch(p).size = IF len - p < BlkSize THEN len - p ELSE BlkSize
         /\ p + Stretch(p).size <= len
<1> DEFINE z == IF len - p < BlkSize THEN len - p ELSE BlkSize
<1>1. Stretch(p) = [from |-> p, size |-> z]
  BY DEF Stretch
<1>2. z \in Nat /\ p + z <= len
  BY BlockAssumption
<1> HIDE DEF z
<1>3. Stretch(p).from = p /\ Stretch(p).size = z /\ Stretch(p) \in Stretches
  BY <1>1, <1>2 DEF Stretches
<1> QED
  BY <1>2, <1>3 DEF z

\* Where a block is read from: at its own place, if nothing was lost.
LEMMA ReadAtFacts ==
  ASSUME len \in Nat, lost \in [0..MaxBlkno + 1 -> Nat], NEW b \in 0..MaxBlkno + 1
  PROVE  /\ ReadAt(b) \in Nat /\ ReadAt(b) <= len
         /\ Stretch(ReadAt(b)) \in Stretches
         /\ NothingLost => Stretch(ReadAt(b)) = SourceBlock(b)
<1>1. b \in Nat /\ lost[b] \in Nat /\ b * BlkSize \in Nat
  <2>1. b \in Nat /\ lost[b] \in Nat
    BY BoundsAssumption
  <2> QED
    BY <2>1, BlockFacts
<1>2. ReadAt(b) \in Nat /\ ReadAt(b) <= len
  <2> DEFINE P == b * BlkSize
  <2>1. P \in Nat /\ ReadAt(b) = IF P + lost[b] < len THEN P + lost[b] ELSE len
    BY <1>1 DEF ReadAt
  <2> HIDE DEF P
  <2> QED
    BY <1>1, <2>1
<1>3. Stretch(ReadAt(b)) \in Stretches
  BY <1>2, StretchFacts
<1>4. ASSUME NothingLost
      PROVE  Stretch(ReadAt(b)) = SourceBlock(b)
  <2>1. lost[b] = 0
    BY <1>4 DEF NothingLost
  <2> DEFINE P == b * BlkSize
  <2>2. P \in Nat /\ ReadAt(b) = IF P + lost[b] < len THEN P + lost[b] ELSE len
    BY <1>1 DEF ReadAt
  <2> HIDE DEF P
  <2>3. ReadAt(b) = IF P < len THEN P ELSE len
    BY <2>1, <2>2
  <2> QED
    BY <2>3 DEF SourceBlock, P
<1> QED
  BY <1>2, <1>3, <1>4

\* Behind a full block lies the next one, or the end.
LEMMA AfterFullBlock ==
  ASSUME len \in Nat, NEW b \in Nat, SourceBlock(b).size = BlkSize,
         SourceBlock(b + 1).size # BlkSize
  PROVE  (b + 1) * BlkSize + SourceBlock(b + 1).size = len
<1> DEFINE P == b * BlkSize
           Q == (b + 1) * BlkSize
           s == SourceBlock(b + 1).size
<1>1. /\ P \in Nat /\ Q = P + BlkSize /\ BlkSize \in Nat /\ BlkSize > 0
      /\ SourceBlock(b).size =
           IF P >= len THEN 0 ELSE IF len - P < BlkSize THEN len - P ELSE BlkSize
  BY BlockFacts
<1>2. /\ Q \in Nat
      /\ s = IF Q >= len THEN 0 ELSE IF len - Q < BlkSize THEN len - Q ELSE BlkSize
  BY BlockFacts
<1> HIDE DEF P, Q, s
<1>3. P + BlkSize <= len
  BY <1>1
<1>4. s # BlkSize
  BY DEF s
<1> QED
  BY <1>1, <1>2, <1>3, <1>4 DEF Q, s

\* What xd3_getblk changes.
LEMMA LearnFields ==
  ASSUME NEW s \in SourceStates, NEW b \in Nat
  PROVE  /\ Learn(s, b) \in SourceStates
         /\ Learn(s, b).curblkno = s.curblkno /\ Learn(s, b).onblk = s.onblk
         /\ Learn(s, b).curblk = s.curblk
         /\ Learn(s, b).max_blkno = IF b > s.max_blkno THEN b ELSE s.max_blkno
         /\ Learn(s, b).eof_known = (s.eof_known \/ (b > s.max_blkno /\ s.onblk # BlkSize))
         /\ Learn(s, b).onlastblk = IF b >= s.max_blkno THEN s.onblk ELSE s.onlastblk
<1> DEFINE more == b > s.max_blkno
           m == IF more THEN b ELSE s.max_blkno
           e == s.eof_known \/ (more /\ s.onblk # BlkSize)
           o == IF b = m THEN s.onblk ELSE s.onlastblk
<1>1. /\ s.curblkno \in Nat /\ s.onblk \in Nat /\ s.curblk \in Index \cup {Null}
      /\ s.max_blkno \in Nat /\ s.onlastblk \in Nat /\ s.eof_known \in BOOLEAN
  BY DEF SourceStates
<1>2. Learn(s, b) = [s EXCEPT !.max_blkno = m, !.eof_known = e, !.onlastblk = o]
  BY DEF Learn
<1>3. m \in Nat /\ e \in BOOLEAN /\ o \in Nat /\ (b = m <=> b >= s.max_blkno)
  BY <1>1
<1> HIDE DEF m, e, o
<1>4. Learn(s, b) = [curblkno |-> s.curblkno, onblk |-> s.onblk, curblk |-> s.curblk,
                     max_blkno |-> m, onlastblk |-> o, eof_known |-> e]
  BY <1>2 DEF SourceStates
<1>5. Learn(s, b) \in SourceStates
  BY <1>1, <1>3, <1>4 DEF SourceStates
<1> QED
  BY <1>3, <1>4, <1>5 DEF m, e, o

\* Once block b is at hand, an encoder that may ask for it has measured it.
LEMMA LearnMeasures ==
  ASSUME len \in Nat, src \in SourceStates, Measured(src), NEW s \in SourceStates, NEW b \in Nat,
         engine = "encoder" => b <= Frontier,
         s.max_blkno = src.max_blkno, s.eof_known = src.eof_known, s.onlastblk = src.onlastblk,
         s.curblk # Null, NothingLost => s.onblk = SourceBlock(b).size
  PROVE  Measured(Learn(s, b))
<1> DEFINE n == Learn(s, b)
<1> SUFFICES ASSUME NothingLost
             PROVE  Measured(n)
  BY DEF Measured
<1>0. s.onblk = SourceBlock(b).size
  OBVIOUS
<1>1. /\ n.curblk # Null
      /\ n.max_blkno = IF b > src.max_blkno THEN b ELSE src.max_blkno
      /\ n.eof_known <=> src.eof_known \/ (b > src.max_blkno /\ SourceBlock(b).size # BlkSize)
      /\ n.eof_known \in BOOLEAN
      /\ n.onlastblk = IF b >= src.max_blkno THEN SourceBlock(b).size ELSE src.onlastblk
  <2>1. /\ n.curblk = s.curblk /\ n.eof_known \in BOOLEAN
        /\ n.max_blkno = IF b > s.max_blkno THEN b ELSE s.max_blkno
        /\ n.eof_known = (s.eof_known \/ (b > s.max_blkno /\ s.onblk # BlkSize))
        /\ n.onlastblk = IF b >= s.max_blkno THEN s.onblk ELSE s.onlastblk
    BY LearnFields DEF SourceStates
  <2> HIDE DEF n
  <2> QED
    BY <1>0, <2>1
<1> HIDE DEF n
<1>2. SUFFICES ASSUME engine = "encoder", len >= BlkSize
               PROVE  /\ n.onlastblk = SourceBlock(n.max_blkno).size
                      /\ IF n.eof_known THEN SourceEof(n) = len ELSE n.onlastblk = BlkSize
  BY <1>1 DEF Measured, n
<1>3. src.max_blkno \in Nat /\ b <= Frontier /\ src.eof_known \in BOOLEAN
  BY <1>2 DEF SourceStates
<1>4. CASE src.curblk = Null
  <2>1. b = 0 /\ src.max_blkno = 0 /\ ~src.eof_known
    BY <1>2, <1>3, <1>4 DEF Measured, Frontier
  <2>2. n.max_blkno = 0 /\ ~n.eof_known /\ n.onlastblk = SourceBlock(0).size
    BY <1>1, <2>1
  <2>3. SourceBlock(0).size = BlkSize
    <3>1. /\ 0 * BlkSize = 0 /\ BlkSize \in Nat /\ BlkSize > 0
          /\ SourceBlock(0).size =
               IF 0 * BlkSize >= len THEN 0
               ELSE IF len - 0 * BlkSize < BlkSize THEN len - 0 * BlkSize ELSE BlkSize
      BY BlockFacts
    <3> QED
      BY <1>2, <3>1
  <2> QED
    BY <2>2, <2>3
<1>5. CASE src.curblk # Null
  <2>1. /\ src.onlastblk = SourceBlock(src.max_blkno).size
        /\ IF src.eof_known THEN SourceEof(src) = len ELSE src.onlastblk = BlkSize
    BY <1>2, <1>5 DEF Measured
  <2>2. CASE b <= src.max_blkno
    <3>1. ~ (b > src.max_blkno) /\ (b >= src.max_blkno => b = src.max_blkno)
      BY <1>3, <2>2
    <3>2. n.max_blkno = src.max_blkno /\ n.onlastblk = src.onlastblk
      BY <1>1, <2>1, <3>1
    <3>3. n.eof_known <=> src.eof_known
      BY <1>1, <3>1
    <3> QED
      BY <2>1, <3>2, <3>3 DEF SourceEof
  <2>3. CASE b > src.max_blkno
    <3>1. b = src.max_blkno + 1 /\ ~src.eof_known
      BY <1>3, <1>5, <2>3 DEF Frontier
    <3>2. n.max_blkno = b /\ n.onlastblk = SourceBlock(b).size
      BY <1>1, <1>3, <2>3
    <3>3. n.eof_known <=> SourceBlock(b).size # BlkSize
      BY <1>1, <2>3, <3>1
    <3>4. SourceBlock(b).size # BlkSize => b * BlkSize + SourceBlock(b).size = len
      BY <1>3, <2>1, <3>1, AfterFullBlock
    <3> QED
      BY <3>2, <3>3, <3>4 DEF SourceEof
  <2> QED
    BY <1>3, <2>2, <2>3
<1> QED
  BY <1>4, <1>5

-----------------------------------------------------------------------------
(* The cache. *)

\* The next block's number is above all in the cache.
LEMMA NextIdAbove ==
  ASSUME CacheOK(cache, Values)
  PROVE  NextId \in Nat /\ \A k \in Used(cache) : cache.blocks[k].id < NextId
<1> DEFINE n == cache.cur
<1>1. /\ n \in Nat /\ Used(cache) \subseteq Index /\ Sorted(cache) /\ Used(cache) = 0..(n - 1)
      /\ \A k \in Index : cache.blocks[k].id \in Nat
  BY CacheFacts DEF CacheOK, Used
<1>2. CASE n = 0
  BY <1>1, <1>2 DEF NextId
<1>3. CASE n # 0
  <2>1. n - 1 \in Used(cache) /\ NextId = cache.blocks[n - 1].id + 1
    BY <1>1, <1>3 DEF NextId, Last
  <2>2. ASSUME NEW k \in Used(cache)
        PROVE  cache.blocks[k].id <= cache.blocks[n - 1].id
    <3>1. CASE k = n - 1
      BY <1>1, <2>1, <3>1
    <3>2. CASE k # n - 1
      <4>1. k < n - 1
        BY <1>1, <3>2
      <4>2. cache.blocks[k].id < cache.blocks[n - 1].id
        BY <1>1, <2>1, <4>1 DEF Sorted
      <4> QED
        BY <1>1, <2>1, <4>2
    <3> QED
      BY <3>1, <3>2
  <2> HIDE DEF n
  <2> QED
    BY <1>1, <2>1, <2>2, SMTT(30)
<1> QED
  BY <1>2, <1>3

\* What get_source_block hands out.
LEMMA CurrentFields ==
  ASSUME NEW c \in Caches(Values), NEW i \in Index, src \in SourceStates,
         c.mem[c.blocks[i].data] \in Stretches
  PROVE  /\ Current(c, i) \in SourceStates
         /\ Current(c, i).curblkno = c.blocks[i].id /\ Current(c, i).curblk = c.blocks[i].data
         /\ Current(c, i).curblk # Null
         /\ Current(c, i).onblk = c.mem[c.blocks[i].data].size
         /\ Current(c, i).max_blkno = src.max_blkno
         /\ Current(c, i).eof_known = src.eof_known
         /\ Current(c, i).onlastblk = src.onlastblk
<1> DEFINE b == c.blocks[i].id
           d == c.blocks[i].data
           z == c.mem[d].size
           n == Current(c, i)
<1>1. b \in Nat /\ d \in Index /\ d # Null
  BY CacheFacts, IndexFacts
<1>2. z \in Nat
  BY DEF Stretches
<1>3. n = [src EXCEPT !.curblkno = b, !.onblk = z, !.curblk = d]
  BY DEF Current
<1> HIDE DEF b, d, z
<1>4. n = [curblkno |-> b, onblk |-> z, curblk |-> d, max_blkno |-> src.max_blkno,
           onlastblk |-> src.onlastblk, eof_known |-> src.eof_known]
  BY <1>3 DEF SourceStates
<1>5. n \in SourceStates
  BY <1>1, <1>2, <1>4 DEF SourceStates
<1> HIDE DEF n
<1>6. /\ n.curblkno = b /\ n.curblk = d /\ n.curblk # Null /\ n.onblk = z
      /\ n.max_blkno = src.max_blkno /\ n.eof_known = src.eof_known
      /\ n.onlastblk = src.onlastblk
  BY <1>1, <1>4
<1> QED
  BY <1>2, <1>5, <1>6 DEF n, b, d, z

\* What an entry holds, and where it ends.
LEMMA EntryFacts ==
  ASSUME CacheTypes, Counted, CachedBlocksAreRight, ReadBefore, NEW i \in Used(cache)
  PROVE  LET v == cache.mem[cache.blocks[i].data]
             b == cache.blocks[i].id
         IN  /\ v \in Stretches /\ v.from \in Nat /\ v.size \in Nat /\ v.from + v.size <= pos
             /\ b \in 0..MaxBlkno + 1 /\ b < NextId
             /\ NothingLost => v = SourceBlock(b)
<1> DEFINE v == cache.mem[cache.blocks[i].data]
           b == cache.blocks[i].id
<1>1. /\ len \in Nat /\ lost \in [0..MaxBlkno + 1 -> Nat] /\ b \in Nat /\ NextId \in Nat
      /\ b < NextId /\ NextId <= MaxBlkno + 1
  BY NextIdAbove, CacheFacts DEF CacheTypes, CacheOK, Counted
<1>2. v = Stretch(ReadAt(b)) /\ v.from + v.size <= pos
  BY DEF CachedBlocksAreRight, ReadBefore
<1> HIDE DEF v, b
<1>3. b \in 0..MaxBlkno + 1
  BY <1>1, BoundsAssumption
<1>4. v \in Stretches /\ (NothingLost => v = SourceBlock(b))
  BY <1>1, <1>2, <1>3, ReadAtFacts
<1> QED
  BY <1>1, <1>2, <1>3, <1>4 DEF Stretches, v, b

\* An entry that is used again keeps the next number and what the entries hold.
LEMMA SameEntriesFacts ==
  ASSUME CacheOK(cache, Values), SameEntries(cache, cache')
  PROVE  /\ Used(cache') = Used(cache) /\ (NextId)' = NextId
         /\ len' = len /\ lost' = lost /\ CachedBlocksAreRight => CachedBlocksAreRight'
         /\ pos' = pos /\ ReadBefore => ReadBefore'
<1>1. Used(cache') = Used(cache)
  BY DEF SameEntries, Used
<1>2. (NextId)' = NextId
  <2>1. CASE cache.cur = 0
    BY <2>1 DEF SameEntries, NextId
  <2>2. CASE cache.cur # 0
    <3>1. cache'.cur = cache.cur /\ \A k \in Index : cache'.blocks[k].id = cache.blocks[k].id
      BY DEF SameEntries
    <3>2. cache.cur \in Nat /\ Used(cache) \subseteq Index
      BY CacheFacts DEF CacheOK
    <3>3. cache.cur > 0 /\ cache.cur - 1 \in Index
      BY <2>2, <3>2 DEF Used
    <3>4. /\ NextId = cache.blocks[cache.cur - 1].id + 1
          /\ (NextId)' = cache'.blocks[cache'.cur - 1].id + 1
      BY <3>1, <3>3 DEF NextId, Last
    <3> QED
      BY <3>1, <3>3, <3>4
  <2> QED
    BY <2>1, <2>2
<1>3. \A k \in Used(cache) : /\ cache'.blocks[k].id = cache.blocks[k].id
                             /\ cache'.blocks[k].data = cache.blocks[k].data
                             /\ cache'.mem = cache.mem
  BY CacheFacts DEF CacheOK, SameEntries
<1>4. ASSUME len' = len, lost' = lost, CachedBlocksAreRight
      PROVE  CachedBlocksAreRight'
  BY <1>1, <1>3, <1>4 DEF CachedBlocksAreRight, ReadAt, Stretch
<1>5. pos' = pos /\ ReadBefore => ReadBefore'
  BY <1>1, <1>3 DEF ReadBefore
<1> QED
  BY <1>1, <1>2, <1>4, <1>5

-----------------------------------------------------------------------------
(* The steps. *)

\* The invariant holds of a source nothing was asked of.
LEMMA InitIInv == Init => IInv
<1> SUFFICES ASSUME Init
             PROVE  IInv
  OBVIOUS
<1>1. len \in Nat /\ cache = EmptyCache /\ cache.cur = 0 /\ src = NoSource /\ pc = "idle"
      /\ pos = 0 /\ BlkSize \in Nat /\ MaxBlkno \in Nat /\ NothingLost
      /\ lost \in [0..MaxBlkno + 1 -> Nat] /\ \A b \in 0..MaxBlkno + 1 : lost[b] = 0
  BY BlockAssumption, BoundsAssumption DEF Init, EmptyCache, NothingLost
<1>2. CacheOK(cache, Values)
  BY <1>1, EmptyCacheOK DEF Values
<1>3. src \in SourceStates /\ src.curblk = Null /\ src.max_blkno = 0 /\ ~src.eof_known
  BY <1>1 DEF NoSource, SourceStates
<1>4. CacheTypes
  BY <1>1, <1>2, <1>3 DEF Init, CacheTypes
<1>5. NextId = 0 /\ PositionFollowsCache /\ Counted
  <2>1. NextId = 0
    BY <1>1 DEF NextId
  <2>2. PositionFollowsCache
    BY <1>1, <2>1 DEF PositionFollowsCache, ReadAt
  <2>3. Counted
    BY <1>1, <2>1 DEF Counted
  <2> QED
    BY <2>1, <2>2, <2>3
<1>6. CachedBlocksAreRight /\ ReadBefore
  BY <1>1 DEF CachedBlocksAreRight, ReadBefore, Used
<1>7. Ahead /\ SizeIsRight /\ CurrentBlockIsCurrent /\ AnswerIsTheBlock /\ Measured(src)
  BY <1>1, <1>3 DEF Init, Ahead, SizeIsRight, CurrentBlockIsCurrent, AnswerIsTheBlock, Measured
<1> QED
  BY <1>4, <1>5, <1>6, <1>7 DEF IInv

\* An encoder asks no further than the first block it has not seen.
LEMMA AskedFacts ==
  ASSUME NEW b \in Asked
  PROVE  b \in Nat /\ b <= MaxBlkno /\ (engine = "encoder" => b <= Frontier)
  BY BoundsAssumption DEF Asked, Frontier

\* A request for the block at hand.
LEMMA AskCurrentIInv ==
  ASSUME IInv, NEW b \in Asked, AskCurrent(b)
  PROVE  IInv'
<1>1. /\ CacheTypes /\ src.curblk # Null /\ b = src.curblkno /\ pc = "idle" /\ b \in Nat
      /\ engine = "encoder" => b <= Frontier
  BY AskedFacts DEF IInv, AskCurrent, MustCall
<1>2. /\ want' = b /\ src' = Learn(src, b) /\ answer' = "ok"
      /\ UNCHANGED <<engine, len, pos, cache, pc, failures, lost>>
  BY DEF AskCurrent
<1>3. /\ src' \in SourceStates /\ src'.curblkno = b /\ src'.curblk = src.curblk
      /\ src'.onblk = src.onblk
  BY <1>1, <1>2, LearnFields DEF CacheTypes
<1>4. NothingLost => src.onblk = SourceBlock(b).size
  BY <1>1 DEF IInv, SizeIsRight
<1>5. CacheTypes'
  BY <1>1, <1>2, <1>3 DEF CacheTypes
<1>6. Ahead' /\ AnswerIsTheBlock'
  BY <1>1, <1>2, <1>3 DEF Ahead, AnswerIsTheBlock
<1>7. PositionFollowsCache' /\ CachedBlocksAreRight' /\ ReadBefore' /\ Counted'
  BY <1>1, <1>2 DEF IInv, PositionFollowsCache, CachedBlocksAreRight, ReadBefore, Counted, NextId,
                    NothingLost, ReadAt, Stretch
<1>8. SizeIsRight' /\ CurrentBlockIsCurrent'
  BY <1>1, <1>2, <1>3, <1>4
     DEF IInv, SizeIsRight, CurrentBlockIsCurrent, NothingLost, SourceBlock, Stretch
<1>9. Measured(src)'
  <2>1. Measured(Learn(src, b))
    BY <1>1, <1>4, LearnMeasures DEF IInv, CacheTypes
  <2> QED
    BY <1>2, <2>1 DEF Measured, NothingLost, SourceBlock, Stretch, SourceEof
<1> QED
  BY <1>5, <1>6, <1>7, <1>8, <1>9 DEF IInv

\* A request for another block in the cache.
LEMMA AskCachedIInv ==
  ASSUME IInv, NEW b \in Asked, AskCached(b)
  PROVE  IInv'
<1> DEFINE i == IndexOf(cache, b)
           n == Current(cache, i)
<1>1. /\ CacheTypes /\ pc = "idle" /\ b \in Nat /\ (engine = "encoder" => b <= Frontier)
      /\ CacheOK(cache, Values) /\ cache \in Caches(Values) /\ len \in Nat /\ src \in SourceStates
  BY AskedFacts DEF IInv, AskCached, CacheTypes, CacheOK
<1>2. i \in Used(cache) /\ cache.blocks[i].id = b /\ i \in Index
  BY <1>1, CacheFacts DEF AskCached, Found, IndexOf
<1>3. /\ want' = b /\ src' = Learn(n, b) /\ answer' = "ok"
      /\ cache' = MoveToHead(cache, i)
      /\ UNCHANGED <<engine, len, pos, pc, failures, lost>>
  BY DEF AskCached, AfterGet, GetEntry
<1> HIDE DEF i
<1>4. CacheOK(cache', Values) /\ SameEntries(cache, cache')
  BY <1>1, <1>2, <1>3, MoveToHeadOK
<1>5. /\ cache.mem[cache.blocks[i].data] \in Stretches
      /\ NothingLost => cache.mem[cache.blocks[i].data] = SourceBlock(b)
  BY <1>2, EntryFacts DEF IInv
<1>6. /\ n \in SourceStates /\ n.curblkno = b /\ n.curblk = cache.blocks[i].data
      /\ n.curblk # Null /\ (NothingLost => n.onblk = SourceBlock(b).size)
      /\ n.max_blkno = src.max_blkno /\ n.eof_known = src.eof_known
      /\ n.onlastblk = src.onlastblk
  BY <1>1, <1>2, <1>5, CurrentFields
<1> HIDE DEF n
<1>7. /\ src' \in SourceStates /\ src'.curblkno = b /\ src'.curblk = cache.blocks[i].data
      /\ NothingLost => src'.onblk = SourceBlock(b).size
  BY <1>1, <1>3, <1>6, LearnFields
<1>8. CacheTypes'
  BY <1>1, <1>3, <1>4, <1>7 DEF CacheTypes
<1>9. Ahead' /\ AnswerIsTheBlock'
  BY <1>1, <1>3, <1>7 DEF Ahead, AnswerIsTheBlock
<1>10. CachedBlocksAreRight' /\ ReadBefore' /\ (NextId)' = NextId
  BY <1>1, <1>3, <1>4, SameEntriesFacts DEF IInv
<1>11. PositionFollowsCache' /\ Counted'
  BY <1>1, <1>3, <1>10 DEF IInv, PositionFollowsCache, Counted, NothingLost, ReadAt
<1>12. SizeIsRight'
  BY <1>3, <1>7 DEF SizeIsRight, NothingLost, SourceBlock, Stretch
<1>13. CurrentBlockIsCurrent'
  <2>1. cache'.mem = cache.mem
    BY <1>4 DEF SameEntries
  <2> QED
    BY <1>3, <1>5, <1>7, <2>1 DEF IInv, Counted, CurrentBlockIsCurrent, SourceBlock, Stretch
<1>14. Measured(src)'
  <2>1. Measured(Learn(n, b))
    BY <1>1, <1>6, LearnMeasures DEF IInv
  <2> QED
    BY <1>3, <2>1 DEF Measured, NothingLost, SourceBlock, Stretch, SourceEof
<1> QED
  BY <1>8, <1>9, <1>10, <1>11, <1>12, <1>13, <1>14 DEF IInv

\* A request that fails or begins to read changes neither the source nor the cache.
LEMMA NoBlockIInv ==
  ASSUME IInv, NEW b \in Asked, AskTooFarBack(b) \/ AskAhead(b)
  PROVE  IInv'
<1>1. /\ UNCHANGED <<engine, len, pos, cache, src, failures, lost>>
      /\ want' \in Nat /\ want' <= MaxBlkno
      /\ pc' \in {"idle", "reading"} /\ answer' \in {"none", "ok", "toofarback"}
  BY AskedFacts DEF IInv, CacheTypes, AskTooFarBack, AskAhead
<1>2. CacheTypes' /\ PositionFollowsCache' /\ CachedBlocksAreRight'
  BY <1>1 DEF IInv, CacheTypes, PositionFollowsCache, CachedBlocksAreRight, NextId, ReadAt, Stretch
<1>3. ReadBefore' /\ Counted' /\ SizeIsRight' /\ Measured(src)'
  BY <1>1 DEF IInv, ReadBefore, Counted, SizeIsRight, Measured, NextId, NothingLost,
              SourceBlock, Stretch, SourceEof
<1>4. Ahead'
  BY <1>1, AskedFacts DEF Ahead, AskTooFarBack, AskAhead, Frontier, NextId
<1>5. CurrentBlockIsCurrent'
  BY <1>1 DEF IInv, CacheTypes, CurrentBlockIsCurrent, AskTooFarBack, AskAhead,
              SourceBlock, Stretch
<1>6. AnswerIsTheBlock'
  BY DEF AnswerIsTheBlock, AskTooFarBack, AskAhead
<1> QED
  BY <1>2, <1>3, <1>4, <1>5, <1>6 DEF IInv

\* A block is read.
LEMMA ReadNextIInv ==
  ASSUME IInv, ReadNext
  PROVE  IInv'
<1> DEFINE n == NextId
           data == Stretch(pos)
           c == AfterPut(cache, n, data)
           i == c.head
           s == Current(c, i)
<1>1. /\ CacheTypes /\ CacheOK(cache, Values) /\ pc = "reading" /\ len \in Nat /\ pos \in Nat
      /\ want \in Nat /\ want >= n /\ (engine = "encoder" => want <= Frontier)
      /\ src \in SourceStates /\ n \in Nat /\ \A k \in Used(cache) : cache.blocks[k].id < n
      /\ lost \in [0..MaxBlkno + 1 -> Nat] /\ want <= MaxBlkno /\ MaxBlkno \in Nat
  BY NextIdAbove, BoundsAssumption DEF IInv, CacheTypes, Ahead, Counted, ReadNext
<1>2. /\ n \in 0..MaxBlkno + 1 /\ n + 1 \in 0..MaxBlkno + 1
      /\ pos = ReadAt(n) /\ pos <= len /\ data = Stretch(ReadAt(n))
      /\ data \in Stretches /\ data \in Values /\ data.from = pos /\ data.size \in Nat
      /\ data.size = IF len - pos < BlkSize THEN len - pos ELSE BlkSize
      /\ NothingLost => data = SourceBlock(n)
  <2> HIDE DEF n
  <2>1. n \in 0..MaxBlkno + 1 /\ n + 1 \in 0..MaxBlkno + 1
    BY <1>1
  <2>2. pos = ReadAt(n)
    BY DEF IInv, PositionFollowsCache, n
  <2>3. pos <= len /\ (NothingLost => data = SourceBlock(n))
    BY <1>1, <2>1, <2>2, ReadAtFacts
  <2>4. /\ data \in Stretches /\ data.from = pos /\ data.size \in Nat
        /\ data.size = IF len - pos < BlkSize THEN len - pos ELSE BlkSize
    BY <1>1, <2>3, StretchFacts
  <2> QED
    BY <2>1, <2>2, <2>3, <2>4 DEF Values
<1>3. /\ pos' = pos + data.size /\ cache' = c
      /\ IF n = want
         THEN src' = Learn(s, want) /\ pc' = "idle" /\ answer' = "ok"
         ELSE UNCHANGED <<src, pc, answer>>
      /\ UNCHANGED <<engine, len, want, failures, lost>>
  BY DEF ReadNext
<1>4. CacheOK(c, Values) /\ Added(cache, c, n, data)
  BY <1>1, <1>2, PutOK
<1>5. pos' = ReadAt(n + 1)
  <2> DEFINE P == n * BlkSize
             Q == (n + 1) * BlkSize
             z == data.size
             o == lost[n]
  <2>1. P \in Nat /\ Q = P + BlkSize /\ BlkSize \in Nat /\ BlkSize > 0 /\ o \in Nat
    BY <1>1, <1>2, BlockFacts
  <2>2. pos = (IF P + o < len THEN P + o ELSE len) /\ z = IF len - pos < BlkSize THEN len - pos ELSE BlkSize
    BY <1>2 DEF ReadAt
  <2>3. pos' = pos + z
    BY <1>3
  <2>4. lost[n + 1] = o
    BY <1>1, <1>2 DEF IInv, Counted
  <2>5. ReadAt(n + 1) = IF Q + o < len THEN Q + o ELSE len
    BY <2>4 DEF ReadAt
  <2> HIDE DEF P, Q, z, o
  <2>6. pos' = IF Q + o < len THEN Q + o ELSE len
    BY <1>1, <2>1, <2>2, <2>3
  <2> QED
    BY <2>5, <2>6
<1> HIDE DEF c, n, data
<1>6. /\ c \in Caches(Values) /\ c.cur > 0 /\ i = c.cur - 1 /\ i \in Used(c) /\ i \in Index
      /\ c.blocks[i].id = n /\ c.mem[c.blocks[i].data] = data
  BY <1>4, CacheFacts DEF Added, CacheOK
<1>7. (NextId)' = n + 1
  <2>1. cache'.cur # 0 /\ (NextId)' = cache'.blocks[cache'.cur - 1].id + 1
    BY <1>3, <1>6 DEF NextId, Last
  <2> QED
    BY <1>3, <1>6, <2>1
<1>8. NothingLost' <=> NothingLost
  BY <1>3 DEF NothingLost
<1>9. PositionFollowsCache'
  BY <1>3, <1>5, <1>7 DEF PositionFollowsCache, ReadAt
<1>10. pos' \in Nat /\ pos <= pos' /\ data.from + data.size = pos'
  BY <1>1, <1>2, <1>3
<1> DEFINE v(k) == c.mem[c.blocks[k].data]
<1>11. ASSUME NEW k \in Used(c), k # i
       PROVE  /\ v(k) \in Stretches /\ v(k).from \in Nat /\ v(k).size \in Nat
              /\ v(k).from + v(k).size <= pos
              /\ c.blocks[k].id < n /\ v(k) = Stretch(ReadAt(c.blocks[k].id))
              /\ \E j \in Used(cache) : /\ c.blocks[k].id = cache.blocks[j].id
                                        /\ v(k) = cache.mem[cache.blocks[j].data]
  <2>1. PICK j \in Used(cache) : /\ c.blocks[k].id = cache.blocks[j].id
                                 /\ v(k) = cache.mem[cache.blocks[j].data]
    BY <1>4, <1>11 DEF Added
  <2>2. cache.mem[cache.blocks[j].data] = Stretch(ReadAt(cache.blocks[j].id))
    BY DEF IInv, CachedBlocksAreRight
  <2>3. /\ v(k) \in Stretches /\ v(k).from \in Nat /\ v(k).size \in Nat
        /\ v(k).from + v(k).size <= pos
    BY <2>1, EntryFacts DEF IInv
  <2> QED
    BY <1>1, <2>1, <2>2, <2>3
<1>12. CachedBlocksAreRight'
  <2>1. ASSUME NEW k \in Used(c)
        PROVE  v(k) = Stretch(ReadAt(c.blocks[k].id))
    BY <1>2, <1>6, <1>11
  <2>2. ASSUME NEW k \in Used(c), NEW l \in Used(c), c.blocks[k].id < c.blocks[l].id
        PROVE  v(k).from + v(k).size <= v(l).from
    <3> HIDE DEF v
    <3>1. CASE k = i
      <4>1. n < c.blocks[l].id /\ n \in Nat /\ c.blocks[l].id \in Nat
        BY <1>1, <1>6, <2>2, <3>1, CacheFacts
      <4>2. l # i
        BY <1>6, <4>1
      <4> QED
        BY <1>11, <4>1, <4>2
    <3>2. CASE k # i /\ l = i
      BY <1>2, <1>6, <1>11, <3>2 DEF v
    <3>3. CASE k # i /\ l # i
      BY <1>11, <2>2, <3>3 DEF IInv, CachedBlocksAreRight
    <3> QED
      BY <3>1, <3>2, <3>3
  <2> QED
    BY <1>3, <2>1, <2>2 DEF CachedBlocksAreRight, ReadAt, Stretch
<1>13. ReadBefore'
  <2>1. ASSUME NEW k \in Used(c)
        PROVE  v(k).from + v(k).size <= pos'
    <3>1. CASE k = i
      BY <1>6, <1>10, <3>1
    <3>2. CASE k # i
      <4> HIDE DEF v
      <4> QED
        BY <1>1, <1>10, <1>11, <3>2
    <3> QED
      BY <3>1, <3>2
  <2> QED
    BY <1>3, <2>1 DEF ReadBefore
<1>14. Counted'
  <2>1. n + 1 <= MaxBlkno + 1 /\ want' <= MaxBlkno
    BY <1>1, <1>2, <1>3
  <2>2. failures' = 0 => NothingLost'
    BY <1>3, <1>8 DEF IInv, Counted
  <2>3. \A b \in 0..MaxBlkno + 1 : b >= n => lost[b] = lost[n]
    BY DEF IInv, Counted, n
  <2>4. \A b \in 0..MaxBlkno + 1 : b >= n + 1 => lost[b] = lost[n + 1]
    BY <1>1, <1>2, <2>3
  <2> QED
    BY <1>3, <1>7, <2>1, <2>2, <2>4 DEF Counted
<1> HIDE DEF v
<1>15. CASE n # want
  <2>1. UNCHANGED <<src, pc, answer, engine, len, want, failures, lost>>
    BY <1>3, <1>15
  <2>2. CacheTypes'
    BY <1>1, <1>3, <1>4, <1>10, <2>1 DEF CacheTypes
  <2>3. Ahead'
    <3>1. want >= n + 1
      BY <1>1, <1>15
    <3> QED
      BY <1>1, <1>7, <2>1, <3>1 DEF Ahead, Frontier
  <2>4. SizeIsRight' /\ Measured(src)'
    BY <2>1 DEF IInv, SizeIsRight, Measured, NothingLost, SourceBlock, Stretch, SourceEof
  <2>5. CurrentBlockIsCurrent' /\ AnswerIsTheBlock'
    BY <1>1, <2>1 DEF CurrentBlockIsCurrent, AnswerIsTheBlock
  <2> QED
    BY <1>9, <1>12, <1>13, <1>14, <2>2, <2>3, <2>4, <2>5 DEF IInv
<1>16. CASE n = want
  <2>1. /\ src' = Learn(s, n) /\ pc' = "idle" /\ answer' = "ok" /\ want' = n
        /\ UNCHANGED <<engine, len, failures, lost>>
    BY <1>3, <1>16
  <2>2. /\ s \in SourceStates /\ s.curblkno = n /\ s.curblk = c.blocks[i].data
        /\ s.curblk # Null /\ (NothingLost => s.onblk = SourceBlock(n).size)
        /\ s.max_blkno = src.max_blkno /\ s.eof_known = src.eof_known
        /\ s.onlastblk = src.onlastblk
    BY <1>1, <1>2, <1>6, CurrentFields
  <2> HIDE DEF s
  <2>3. /\ src' \in SourceStates /\ src'.curblkno = n /\ src'.curblk = c.blocks[i].data
        /\ NothingLost => src'.onblk = SourceBlock(n).size
    BY <1>1, <2>1, <2>2, LearnFields
  <2>4. CacheTypes'
    BY <1>1, <1>3, <1>4, <1>10, <2>1, <2>3 DEF CacheTypes
  <2>5. Ahead' /\ AnswerIsTheBlock'
    BY <2>1, <2>3 DEF Ahead, AnswerIsTheBlock
  <2>6. SizeIsRight'
    BY <2>1, <2>3 DEF SizeIsRight, NothingLost, SourceBlock, Stretch
  <2>7. CurrentBlockIsCurrent'
    BY <1>2, <1>3, <1>6, <2>1, <2>3
       DEF IInv, Counted, CurrentBlockIsCurrent, SourceBlock, Stretch
  <2>8. Measured(src)'
    <3>1. Measured(Learn(s, n))
      BY <1>1, <1>16, <2>2, LearnMeasures DEF IInv
    <3> QED
      BY <2>1, <3>1 DEF Measured, NothingLost, SourceBlock, Stretch, SourceEof
  <2> QED
    BY <1>9, <1>12, <1>13, <1>14, <2>4, <2>5, <2>6, <2>7, <2>8 DEF IInv
<1> QED
  BY <1>15, <1>16

\* A read fails, and may have consumed a part of the file.
LEMMA ReadFailsIInv ==
  ASSUME IInv, ReadFails
  PROVE  IInv'
<1>1. PICK n \in 0..Stretch(pos).size :
        /\ pos' = pos + n
        /\ lost' = [b \in DOMAIN lost |-> IF b < NextId THEN lost[b] ELSE lost[b] + n]
  BY DEF ReadFails
<1>2. /\ UNCHANGED <<engine, len, cache, src, want>>
      /\ pc' = "idle" /\ answer' = "toofarback" /\ failures' = failures + 1
  BY DEF ReadFails
<1>3. /\ len \in Nat /\ pos \in Nat /\ lost \in [0..MaxBlkno + 1 -> Nat] /\ failures \in Nat
      /\ NextId \in Nat /\ NextId \in 0..MaxBlkno + 1 /\ (NextId)' = NextId
      /\ MaxBlkno \in Nat /\ Used(cache') = Used(cache)
  BY <1>2, NextIdAbove, BoundsAssumption DEF IInv, CacheTypes, Counted, NextId
<1>4. /\ pos <= len /\ n \in Nat /\ pos' \in Nat /\ pos <= pos' /\ pos' <= len
  <2>1. pos <= len
    BY <1>3, ReadAtFacts DEF IInv, PositionFollowsCache
  <2>2. Stretch(pos).size \in Nat /\ pos + Stretch(pos).size <= len
    BY <1>3, <2>1, StretchFacts
  <2> QED
    BY <1>1, <1>3, <2>1, <2>2
<1>5. lost' \in [0..MaxBlkno + 1 -> Nat]
  BY <1>1, <1>3, <1>4
<1>6. \A b \in 0..MaxBlkno + 1 : lost'[b] = IF b < NextId THEN lost[b] ELSE lost[b] + n
  BY <1>1, <1>3
<1>7. NothingLost' => NothingLost
  <2>1. ASSUME NothingLost', NEW b \in 0..MaxBlkno + 1
        PROVE  lost[b] = 0
    <3>1. lost'[b] = 0
      BY <1>5, <2>1 DEF NothingLost
    <3>2. lost[b] \in Nat
      BY <1>3
    <3> QED
      BY <1>4, <1>6, <3>1, <3>2
  <2> QED
    BY <1>3, <2>1 DEF NothingLost
<1>8. CacheTypes'
  BY <1>2, <1>3, <1>4, <1>5 DEF IInv, CacheTypes
<1>9. Counted'
  <2>1. \A b \in 0..MaxBlkno + 1 : b >= NextId => lost'[b] = lost'[NextId]
    BY <1>3, <1>6 DEF IInv, Counted
  <2>2. failures' # 0
    BY <1>2, <1>3
  <2> QED
    BY <1>2, <1>3, <2>1, <2>2 DEF IInv, Counted
<1>10. PositionFollowsCache'
  <2> DEFINE P == NextId * BlkSize
             o == lost[NextId]
  <2>1. P \in Nat /\ o \in Nat
    BY <1>3, BlockFacts
  <2>2. pos = IF P + o < len THEN P + o ELSE len
    BY DEF IInv, PositionFollowsCache, ReadAt
  <2>3. lost'[NextId] = o + n
    BY <1>3, <1>6
  <2>4. ReadAt(NextId)' = IF P + (o + n) < len THEN P + (o + n) ELSE len
    BY <1>2, <1>3, <2>3 DEF ReadAt
  <2> HIDE DEF P, o
  <2>5. pos' = IF P + (o + n) < len THEN P + (o + n) ELSE len
    BY <1>1, <1>3, <1>4, <2>1, <2>2
  <2> QED
    BY <2>4, <2>5 DEF PositionFollowsCache
<1>11. CachedBlocksAreRight'
  <2>1. ASSUME NEW k \in Used(cache)
        PROVE  Stretch(ReadAt(cache.blocks[k].id))' = Stretch(ReadAt(cache.blocks[k].id))
    <3>1. cache.blocks[k].id \in 0..MaxBlkno + 1 /\ cache.blocks[k].id < NextId
      BY EntryFacts DEF IInv
    <3>2. lost'[cache.blocks[k].id] = lost[cache.blocks[k].id]
      BY <1>6, <3>1
    <3> QED
      BY <1>2, <3>2 DEF ReadAt, Stretch
  <2> QED
    BY <1>2, <1>3, <2>1 DEF IInv, CachedBlocksAreRight
<1>12. ReadBefore'
  <2>1. ASSUME NEW k \in Used(cache)
        PROVE  cache.mem[cache.blocks[k].data].from + cache.mem[cache.blocks[k].data].size <= pos'
    <3> DEFINE f == cache.mem[cache.blocks[k].data].from
               z == cache.mem[cache.blocks[k].data].size
    <3>1. f \in Nat /\ z \in Nat /\ f + z <= pos
      BY EntryFacts DEF IInv
    <3> HIDE DEF f, z
    <3>2. f + z <= pos'
      BY <1>3, <1>4, <3>1
    <3> QED
      BY <3>2 DEF f, z
  <2> QED
    BY <1>2, <1>3, <2>1 DEF ReadBefore
<1>13. SizeIsRight' /\ Measured(src)'
  BY <1>2, <1>7 DEF IInv, SizeIsRight, Measured, SourceBlock, Stretch, SourceEof
<1>14. CurrentBlockIsCurrent' /\ Ahead' /\ AnswerIsTheBlock'
  BY <1>2, <1>3 DEF CurrentBlockIsCurrent, Ahead, AnswerIsTheBlock
<1> QED
  BY <1>8, <1>9, <1>10, <1>11, <1>12, <1>13, <1>14 DEF IInv

\* Every step keeps the invariant.
LEMMA NextIInv == IInv /\ [Next]_vars => IInv'
<1> SUFFICES ASSUME IInv, [Next]_vars
             PROVE  IInv'
  OBVIOUS
<1>1. ASSUME NEW b \in Asked, Ask(b)
      PROVE  IInv'
  BY <1>1, AskCurrentIInv, AskCachedIInv, NoBlockIInv DEF Ask
<1>2. CASE ReadNext
  BY <1>2, ReadNextIInv
<1>3. CASE ReadFails
  BY <1>3, ReadFailsIInv
<1>4. CASE UNCHANGED vars
  BY <1>4 DEF vars, IInv, CacheTypes, Ahead, PositionFollowsCache, CachedBlocksAreRight,
              SizeIsRight, CurrentBlockIsCurrent, AnswerIsTheBlock, Measured, NextId, Frontier,
              Counted, ReadBefore, NothingLost, ReadAt, SourceBlock, Stretch, SourceEof
<1> QED
  BY <1>1, <1>2, <1>3, <1>4 DEF Next

\* The invariant holds in every reachable state.
LEMMA SourceInvariant == Spec => []IInv
  BY InitIInv, NextIInv, PTL DEF Spec

-----------------------------------------------------------------------------
\* The file stands behind the highest block in the cache, further on by exactly the bytes
\* that failed reads consumed: without such a loss get_source_block reads the block it says
\* it reads.
THEOREM FileFollowsCache == Spec => []PositionFollowsCache
<1>1. IInv => PositionFollowsCache
  BY DEF IInv
<1> QED
  BY <1>1, SourceInvariant, PTL

\* Every entry holds the stretch of the file its id names, displaced by exactly what was
\* lost before it was read, and no byte is in two entries, whatever was replaced.
THEOREM EntriesAreTheirBlocks == Spec => []CachedBlocksAreRight
<1>1. IInv => CachedBlocksAreRight
  BY DEF IInv
<1> QED
  BY <1>1, SourceInvariant, PTL

\* A request that succeeds leaves the block asked for at hand.
THEOREM RequestsAreAnswered == Spec => []AnswerIsTheBlock
<1>1. IInv => AnswerIsTheBlock
  BY DEF IInv
<1> QED
  BY <1>1, SourceInvariant, PTL

\* Until a read has failed, the memory the engine looks at holds the block it takes it for.
THEOREM MemoryIsTheBlock == Spec => []CurrentBlockIsCurrent
<1>1. IInv => CurrentBlockIsCurrent
  BY DEF IInv
<1> QED
  BY <1>1, SourceInvariant, PTL

\* An encoder that takes the source length for known knows the file's length, if no read
\* dropped a part of the file.
THEOREM LengthIsTheFiles == Spec => []KnownLengthIsRight
<1>1. IInv => KnownLengthIsRight
  <2>1. SUFFICES ASSUME IInv, engine = "encoder", src.eof_known, len >= BlkSize, NothingLost
                 PROVE  SourceEof(src) = len
    BY DEF KnownLengthIsRight
  <2>2. src.curblk # Null
    BY <2>1 DEF IInv, Measured
  <2> QED
    BY <2>1, <2>2 DEF IInv, Measured
<1> QED
  BY <1>1, SourceInvariant, PTL

=============================================================================
