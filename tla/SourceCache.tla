---------------------------- MODULE SourceCache ----------------------------
(***************************************************************************)
(* How the delta engine sees the source file: xd3_getblk asks for a block, *)
(* get_source_block answers from a cache (lru_cache.c) that it fills by    *)
(* reading the file from where the last read left it; it never seeks.      *)
(*                                                                         *)
(* A read of the file object is external: it returns the next BlkSize      *)
(* bytes, fewer only at the end of the file, or it fails.  A read that     *)
(* fails may have moved the file all the same: what it consumed is lost.   *)
(* What was read is written as the stretch of the file it came from.       *)
(***************************************************************************)
EXTENDS LruStore

CONSTANTS
  Engines,       \* "encoder", "decoder"
  BlkSize,       \* SOURCE_BLOCK_SIZE
  Lengths,       \* the lengths a source file may have
  MaxBlkno,      \* bound: the highest block number asked for
  MaxFailures    \* bound: reads that fail in a behaviour

ASSUME BlockAssumption ==
  /\ Engines \subseteq {"encoder", "decoder"}
  /\ BlkSize \in Nat \ {0}
  /\ Lengths \subseteq Nat
ASSUME BoundsAssumption == MaxBlkno \in Nat /\ MaxFailures \in Nat


VARIABLES
  engine,     \* which engine asks
  len,        \* length of the source file
  pos,        \* position of the file object
  cache,      \* Stream.cache
  src,        \* the xd3_source
  pc,         \* "idle", or "reading" inside get_source_block
  want,       \* the block asked for last
  answer,     \* what xd3_getblk returned: "ok", "toofarback" or "none" so far
  failures,   \* reads that failed
  lost        \* history: the bytes lost before each block was read, or would be now

vars == <<engine, len, pos, cache, src, pc, want, answer, failures, lost>>

NoSource == [curblkno |-> 0, onblk |-> 0, curblk |-> Null,
             max_blkno |-> 0, onlastblk |-> 0, eof_known |-> FALSE]

Init ==
  /\ engine \in Engines
  /\ len \in Lengths
  /\ pos = 0
  /\ cache = EmptyCache
  /\ src = NoSource
  /\ pc = "idle"
  /\ want = 0
  /\ answer = "none"
  /\ failures = 0
  /\ lost = [b \in 0..MaxBlkno + 1 |-> 0]

-----------------------------------------------------------------------------

\* What the file object returns at position p.
Stretch(p) == [from |-> p, size |-> IF len - p < BlkSize THEN len - p ELSE BlkSize]

\* Block b of the source file.
SourceBlock(b) == Stretch(IF b * BlkSize < len THEN b * BlkSize ELSE len)

\* The id of the next block to be read.
NextId == IF cache.cur = 0 THEN 0 ELSE cache.blocks[Last(cache)].id + 1

\* Mutant: the entry's data is looked for where it was before the blocks moved.
Current_ByPlace(c, i) ==
  [src EXCEPT !.curblkno = c.blocks[i].id,
              !.onblk = c.mem[c.blocks[i].data].size,
              !.curblk = i]

\* get_source_block hands out the entry in block i of c.
Current(c, i) ==
  [src EXCEPT !.curblkno = c.blocks[i].id,
              !.onblk = c.mem[c.blocks[i].data].size,
              !.curblk = c.blocks[i].data]

\* Mutant: the end of the file is concluded from a full block too.
Learn_FullBlock(s, b) ==
  LET more == b > s.max_blkno
      m == IF more THEN b ELSE s.max_blkno
  IN  [s EXCEPT !.max_blkno = m,
                !.eof_known = @ \/ more,
                !.onlastblk = IF b = m THEN s.onblk ELSE @]

\* What xd3_getblk concludes about the length of the source from block b.
Learn(s, b) ==
  LET more == b > s.max_blkno
      m == IF more THEN b ELSE s.max_blkno
  IN  [s EXCEPT !.max_blkno = m,
                !.eof_known = @ \/ (more /\ s.onblk # BlkSize),
                !.onlastblk = IF b = m THEN s.onblk ELSE @]

\* xd3_source_eof
SourceEof(s) == s.max_blkno * BlkSize + s.onlastblk

MustCall(b) == src.curblk = Null \/ b # src.curblkno

-----------------------------------------------------------------------------
\* Mutant: the block at hand is taken for the one asked for.
AskCurrent_AnyBlock(b) ==
  /\ pc = "idle"
  /\ src.curblk # Null
  /\ want' = b
  /\ src' = Learn(src, b)
  /\ answer' = "ok"
  /\ UNCHANGED <<engine, len, pos, cache, pc, failures, lost>>

\* xd3_getblk for the block at hand: no call is made.
AskCurrent(b) ==
  /\ pc = "idle"
  /\ ~MustCall(b)
  /\ want' = b
  /\ src' = Learn(src, b)
  /\ answer' = "ok"
  /\ UNCHANGED <<engine, len, pos, cache, pc, failures, lost>>

\* xd3_getblk for a cached block.
AskCached(b) ==
  /\ pc = "idle"
  /\ MustCall(b)
  /\ Found(cache, b)
  /\ want' = b
  /\ cache' = AfterGet(cache, b)
  /\ src' = Learn(Current(cache, GetEntry(cache, b)), b)
  /\ answer' = "ok"
  /\ UNCHANGED <<engine, len, pos, pc, failures, lost>>

\* xd3_getblk for a block that was read and replaced since.
AskTooFarBack(b) ==
  /\ pc = "idle"
  /\ MustCall(b)
  /\ ~Found(cache, b)
  /\ b < NextId
  /\ want' = b
  /\ answer' = "toofarback"
  /\ UNCHANGED <<engine, len, pos, cache, src, pc, failures, lost>>

\* xd3_getblk for a block further on: the blocks up to it are read.
AskAhead(b) ==
  /\ pc = "idle"
  /\ MustCall(b)
  /\ ~Found(cache, b)
  /\ b >= NextId
  /\ want' = b
  /\ pc' = "reading"
  /\ UNCHANGED <<engine, len, pos, cache, src, answer, failures, lost>>

\* Mutant: a block is stored under the number that was asked for.
ReadNext_AsWanted ==
  LET data == Stretch(pos)
      c == AfterPut(cache, want, data)
  IN  /\ pc = "reading"
      /\ pos' = pos + data.size
      /\ cache' = c
      /\ src' = Learn(Current(c, c.head), want)
      /\ pc' = "idle"
      /\ answer' = "ok"
      /\ UNCHANGED <<engine, len, want, failures, lost>>

\* One round of get_source_block's loop: the next block is read and stored; the
\* last one is handed out.
ReadNext ==
  LET data == Stretch(pos)
      c == AfterPut(cache, NextId, data)
  IN  /\ pc = "reading"
      /\ pos' = pos + data.size
      /\ cache' = c
      /\ IF NextId = want
         THEN /\ src' = Learn(Current(c, c.head), want)
              /\ pc' = "idle"
              /\ answer' = "ok"
         ELSE UNCHANGED <<src, pc, answer>>
      /\ UNCHANGED <<engine, len, want, failures, lost>>

\* The read raises, or returns something that is no string and that read_from_file
\* drops: the loop is left and the engine is told the block is too far back.  By then
\* the file may have moved, by a part of the block or by all of it, and the next read
\* goes on behind that under the number of the block that was lost.
ReadFails ==
  /\ pc = "reading"
  /\ failures < MaxFailures
  /\ failures' = failures + 1
  /\ \E n \in 0..Stretch(pos).size :
       /\ pos' = pos + n
       /\ lost' = [b \in DOMAIN lost |-> IF b < NextId THEN lost[b] ELSE lost[b] + n]
  /\ pc' = "idle"
  /\ answer' = "toofarback"
  /\ UNCHANGED <<engine, len, cache, src, want>>

Ask(b) == AskCurrent(b) \/ AskCached(b) \/ AskTooFarBack(b) \/ AskAhead(b)

\* A decoder may ask for any block: a delta may copy from anywhere.  An encoder indexes
\* the source block by block and looks back from there.
Asked ==
  LET next == IF src.curblk = Null THEN 0
              ELSE IF src.eof_known THEN src.max_blkno ELSE src.max_blkno + 1
  IN  IF engine = "decoder" THEN 0..MaxBlkno ELSE 0..MaxBlkno \cap 0..next

Next ==
  \/ \E b \in Asked : Ask(b)
  \/ ReadNext
  \/ ReadFails

Spec == Init /\ [][Next]_vars

-----------------------------------------------------------------------------

\* Where block b is read from: behind the blocks before it and what was lost on the way.
ReadAt(b) == IF b * BlkSize + lost[b] < len THEN b * BlkSize + lost[b] ELSE len

NothingLost == \A b \in DOMAIN lost : lost[b] = 0

\* get_source_block numbers what it reads by the highest entry in the cache alone, and
\* never seeks.  Whatever was replaced or failed in between, the file stands behind that
\* block, further on by exactly what failed reads consumed: without such a loss, right
\* behind it.
PositionFollowsCache == pos = ReadAt(NextId)

\* Every cached entry holds the stretch of the file that its id names, displaced by
\* exactly what was lost before it was read: the very block if nothing was, also when
\* a later read failed.  No byte of the file is in two entries, losses or not.
CachedBlocksAreRight ==
  \A i \in Used(cache) :
    /\ cache.mem[cache.blocks[i].data] = Stretch(ReadAt(cache.blocks[i].id))
    /\ \A j \in Used(cache) : cache.blocks[i].id < cache.blocks[j].id =>
         cache.mem[cache.blocks[i].data].from + cache.mem[cache.blocks[i].data].size
           <= cache.mem[cache.blocks[j].data].from

\* xdelta3.h, struct _xd3_source: curblk is the array of block curblkno.  Until a read
\* has failed, the memory the engine compares and copies from holds that block between
\* calls: a request never replaces it but by what it hands out.
CurrentBlockIsCurrent ==
  (pc = "idle" /\ src.curblk # Null /\ failures = 0) =>
    /\ cache.mem[src.curblk] = SourceBlock(src.curblkno)
    /\ src.onblk = SourceBlock(src.curblkno).size

\* A request that succeeded left the block of the number that was asked for at hand (and
\* by CachedBlocksAreRight its data, as long as no bytes were lost).
AnswerIsTheBlock == (pc = "idle" /\ answer = "ok") => src.curblkno = want

\* Once an encoder takes the source length for known, it is the file's length, if no read
\* dropped a part of the file.  (Of a file shorter than a block it learns nothing from
\* block 0, and too much from block 1.)
KnownLengthIsRight ==
  (engine = "encoder" /\ src.eof_known /\ len >= BlkSize /\ NothingLost) => SourceEof(src) = len
=============================================================================
