------------------------------- MODULE Matcher -------------------------------
(***************************************************************************)
(* String matching: where the encoder finds runs, copies from the window   *)
(* (a table of the positions that four bytes were last seen at, chained)   *)
(* and copies from the source (a table of source positions by a checksum   *)
(* of large_look bytes, and matches extended both ways from there).        *)
(*                                                                         *)
(* As in Iopt, the operators work on the encoder e.  Bytes are numbers; the *)
(* checksums are the code's with small moduli, so that they collide.       *)
(***************************************************************************)
EXTENDS Iopt

CONSTANTS
  SmallSlots,    \* small_hash.size
  LargeSlots,    \* large_hash.size
  CkMod,         \* the modulus of the two halves of a large checksum: 2^16
  Far            \* lengths that are not worth copying from as far as Far[length]

ASSUME TablesAssumption == {SmallSlots, LargeSlots, CkMod} \subseteq Nat \ {0}

SLOOK == 4
HASH_CKOFFSET == 1
NoBlock == -1

Byte(e, i) == e.win[i + 1]
Drop(s, n) == SubSeq(s, n + 1, Len(s))

-----------------------------------------------------------------------------
\* get_source_block's cache of the blocks read, as AbstractLru has it: the ids, the
\* one used last first.
UsedNow(id, ids) == <<id>> \o SelectSeq(ids, LAMBDA x : x # id)
PutBlock(ids, id, capacity) == UsedNow(id, IF Len(ids) < capacity THEN ids ELSE Front(ids))
NextBlock(ids) == IF ids = <<>> THEN 0 ELSE 1 + Max(ToSet(ids))

\* How much of the source block b has.
OnBlk(s, b) == Max({0, Min({s.blksize, Len(s.source) - b * s.blksize})})

\* xd3_getblk of block b, for encoder or decoder: get_source_block finds it in the cache
\* or reads on up to it; ok is FALSE if it was read and replaced since (XD3_TOOFARBACK).
Getblk(s, b) ==
  LET ids == s.blocks
      call == s.curblkno # b
      ahead == b >= NextBlock(ids) /\ b \notin ToSet(ids)
      read == FoldLeft(LAMBDA c, id : PutBlock(c, id, s.capacity), ids,
                       [i \in 1..(b - NextBlock(ids) + 1) |-> NextBlock(ids) + i - 1])
      now == IF ~call THEN ids ELSE IF ahead THEN read ELSE UsedNow(b, ids)
      more == b > s.max_blkno
  IN  [ok |-> ~call \/ ahead \/ b \in ToSet(ids),
       s |-> [s EXCEPT !.blocks = now, !.curblkno = b,
                       !.max_blkno = IF more THEN b ELSE @,
                       !.eof_known = @ \/ (more /\ OnBlk(s, b) # s.blksize),
                       !.onlastblk = IF b >= s.max_blkno THEN OnBlk(s, b) ELSE @]]

-----------------------------------------------------------------------------
\* xd3_source_match_setup, its two refusals.
LoopsOrTooFar(e, srcpos) ==
  \/ srcpos # 0 /\ srcpos = e.last_srcpos
  \/ srcpos < e.cksum_pos /\ e.cksum_pos - srcpos > e.max_winsize

OutsideWindow(e, srcpos) ==
  e.decided /\ (srcpos < e.srcbase \/ srcpos > e.srcbase + e.srclen)

\* Mutant: a match may grow past the source window that was decided.
SourceMatchSetup_Unrestricted(e, srcpos) ==
  LET back == e.inp - e.off
      fwd == AvailIn(e) - e.inp
      bad == LoopsOrTooFar(e, srcpos) \/ OutsideWindow(e, srcpos)
  IN  [e EXCEPT !.back = 0, !.fwd = 0, !.last_srcpos = srcpos,
                !.match_srcpos = IF bad THEN @ ELSE srcpos,
                !.match_state = IF bad THEN "searching" ELSE "backward",
                !.maxback = IF bad THEN 0 ELSE Min({back, srcpos}),
                !.maxfwd = IF bad THEN 0 ELSE fwd]

\* xd3_source_match_setup: how far the match at srcpos may extend; the state is
\* "searching" if it is refused.  What is not encoded yet is an unsigned difference: it
\* limits nothing if the offset is past the position.
SourceMatchSetup(e, srcpos) ==
  LET low == IF e.decided THEN srcpos - e.srcbase ELSE srcpos
      back == IF e.off <= e.inp THEN Min({e.inp - e.off, low}) ELSE low
      room == AvailIn(e) - e.inp
      high == IF e.decided THEN e.srcbase + e.srclen - srcpos
              ELSE IF e.eof_known THEN SourceEof(e) - srcpos ELSE room
      bad == LoopsOrTooFar(e, srcpos) \/ OutsideWindow(e, srcpos)
  IN  [e EXCEPT !.back = 0, !.fwd = 0, !.last_srcpos = srcpos,
                !.match_srcpos = IF bad THEN @ ELSE srcpos,
                !.match_state = IF bad THEN "searching" ELSE "backward",
                !.maxback = IF bad THEN 0 ELSE back,
                !.maxfwd = IF bad THEN 0 ELSE Min({room, high})]

\* xd3_source_extend_match: the byte before the match, as long as that goes on backwards.
BackOne(e) ==
  LET p == e.match_srcpos - e.back - 1
      g == Getblk(e, p \div e.blksize)
  IN  IF e.match_state # "backward" THEN e
      ELSE IF e.back = e.maxback THEN [e EXCEPT !.match_state = "forward"]
      ELSE IF ~g.ok
      THEN [e EXCEPT !.match_state = IF e.back = 0 THEN "searching" ELSE "forward"]
      ELSE IF e.source[p + 1] # Byte(e, e.inp - e.back - 1)
      THEN [g.s EXCEPT !.match_state = "forward"]
      ELSE [g.s EXCEPT !.back = @ + 1]
ExtendBack(e) ==
  LET after[n \in 0..(e.maxback + 1)] ==
        IF n = 0 THEN e ELSE LET f == after[n - 1] IN BackOne(f)
  IN  after[e.maxback + 1]

\* The next byte of the match and after it; xd3_forward_match compares those of a block.
\* One that differs is looked at again, to the same effect.
ForwardOne(e) ==
  LET p == e.match_srcpos + e.fwd
      g == Getblk(e, p \div e.blksize)
  IN  IF e.fwd = e.maxfwd \/ ~g.ok THEN e
      ELSE IF p >= Len(e.source) \/ e.source[p + 1] # Byte(e, e.inp + e.fwd) THEN g.s
      ELSE [g.s EXCEPT !.fwd = @ + 1]
ExtendForward(e) ==
  LET room == AvailIn(e) - e.inp
      after[n \in 0..room] == IF n = 0 THEN e ELSE LET f == after[n - 1] IN ForwardOne(f)
  IN  after[room]

\* The match is entered into the buffer; what it covers there is erased.
TakeMatch(e) ==
  LET pos == e.inp - e.back
      addr == e.match_srcpos - e.back
      end == e.match_srcpos + e.fwd
      f == IF e.back > 0 THEN Erase(e, pos) ELSE e
      g == [f EXCEPT !.back = 0,
                     !.minaddr = IF e.maxaddr = 0 \/ addr < @ THEN addr ELSE @,
                     !.maxaddr = Max({@, end}),
                     !.maxsrcaddr = Max({@, end})]
      goeson == e.inp + e.fwd = AvailIn(e)
  IN  [FoundMatch(g, pos, e.back + e.fwd, addr, 1) EXCEPT
         !.match_state = IF goeson THEN "target" ELSE @,
         !.match_srcpos = IF goeson THEN end ELSE @]

\* xd3_source_extend_match; fwd is 0 afterwards if the match is too short.
TakeIfLong(e) == IF e.fwd < e.min_match THEN [e EXCEPT !.fwd = 0] ELSE TakeMatch(e)
GrowForward(e) == IF e.match_state = "searching" THEN e ELSE ExtendForward(e)
SourceExtendMatch(e) ==
  TakeIfLong([GrowForward(IF e.match_state = "backward" THEN ExtendBack(e) ELSE e)
                EXCEPT !.match_state = "searching"])

-----------------------------------------------------------------------------
\* xd3_lcksum, without the permutation of the bytes; xd3_large_cksum_update.
Lcksum(s) ==
  LET sums[n \in 0..Len(s)] ==
        IF n = 0 THEN [low |-> 0, high |-> 0]
        ELSE LET c == sums[n - 1]
             IN  [low |-> c.low + s[n], high |-> c.high + c.low + s[n]]
  IN  [low |-> sums[Len(s)].low % CkMod, high |-> sums[Len(s)].high % CkMod]

\* Mutant: the second sum forgets the byte that leaves.
LargeCksumUpdate_NoOld(c, old, new, look) ==
  LET low == (c.low - old + new) % CkMod
  IN  [low |-> low, high |-> (c.high + low) % CkMod]

LargeCksumUpdate(c, old, new, look) ==
  LET low == (c.low - old + new) % CkMod
  IN  [low |-> low, high |-> (c.high - old * look + low) % CkMod]

\* xd3_checksum_hash; xd3_scksum reads four bytes whatever SLOOK is.
LargeHash(c) == (c.high + c.low) % LargeSlots
SmallHash(e) == (Byte(e, e.inp) + 2 * Byte(e, e.inp + 1) + 4 * Byte(e, e.inp + 2)
                 + 7 * Byte(e, e.inp + 3)) % SmallSlots

LargeHere(e) == SubSeq(e.win, e.inp + 1, e.inp + e.cfg.llook)

\* xd3_srcwin_move_point, its inner loop: the positions of block b that are entered,
\* the last ones first; the lowest stays.
EnterBlock(e, b) ==
  LET top == BytesOnBlk(e, b) - e.cfg.llook
      old == e.cksum_pos % e.blksize
      tested == {p \in 0..top : (top - p) % e.cfg.lstep = 0 /\ (p = top \/ p >= old)}
      at(p) == b * e.blksize + p
      hash(p) == LargeHash(Lcksum(SubSeq(e.source, at(p) + 1, at(p) + e.cfg.llook)))
  IN  [h \in DOMAIN e.large |->
        LET here == {p \in tested : hash(p) = h}
        IN  IF here = {} THEN e.large[h] ELSE at(Min(here)) + HASH_CKOFFSET]

\* Its outer loop: whole blocks are entered until the target position or the end.
IndexBlock(e, target) ==
  LET b == e.cksum_pos \div e.blksize
      g == Getblk(e, b)
  IN  IF e.error \/ e.cksum_pos >= target \/ (e.eof_known /\ e.cksum_pos >= SourceEof(e)) THEN e
      ELSE IF ~g.ok THEN [e EXCEPT !.error = TRUE]
      ELSE [g.s EXCEPT !.large = IF BytesOnBlk(g.s, b) < e.cfg.llook THEN @ ELSE EnterBlock(g.s, b),
                       !.cksum_pos = (b + 1) * e.blksize]
Index(e, target) ==
  LET after[n \in 0..(target \div e.blksize + 1)] ==
        IF n = 0 THEN e ELSE LET f == after[n - 1] IN IndexBlock(f, target)
  IN  after[target \div e.blksize + 1]

\* xd3_srcwin_move_point; next_move is the input position it must be called again at.
NextMove(e, target) ==
  IF e.eof_known /\ e.cksum_pos >= SourceEof(e)
  THEN [e EXCEPT !.cksum_pos = SourceEof(e), !.next_move = AvailIn(e)]
  ELSE [e EXCEPT !.next_move = e.inp + e.blksize - ((e.cksum_pos - target) % e.blksize)]
MovePoint(e) ==
  LET here == e.total_in + e.inp
      half == e.max_winsize \div 2
      far == here + half + 2 * e.blksize
      from == [e EXCEPT !.cksum_pos = Max({@, e.maxsrcaddr})]
      target == Max({IF here < half THEN e.max_winsize ELSE far - (far % e.blksize),
                     from.cksum_pos})
  IN  IF e.eof_known /\ e.cksum_pos = SourceEof(e) THEN [e EXCEPT !.next_move = AvailIn(e)]
      ELSE NextMove(Index(from, target), target)

-----------------------------------------------------------------------------
\* How long the window's text at base agrees with that at the input position.
MatchLength(e, base) ==
  Max({n \in 0..(AvailIn(e) - e.inp) :
         \A k \in 0..(n - 1) : Byte(e, base + k) = Byte(e, e.inp + k)})

\* xd3_smatch, a round of its loop: the match at base, if it is the longest so far, and
\* the position chained before it.
LookAt(e, s) ==
  LET len == MatchLength(e, s.base)
      longer == len > s.best.length
      done == longer /\ (e.inp + len = AvailIn(e) \/ len >= e.cfg.long_enough)
      last == e.prev[s.base % e.sprevsz]
      prev == last - HASH_CKOFFSET
  IN  IF s.done THEN s
      ELSE [best |-> IF longer THEN [length |-> len, offset |-> s.base] ELSE s.best,
            base |-> prev,
            done |-> done \/ last = 0 \/ prev > s.base \/ e.inp - prev >= e.sprevsz]
LongestOf(e, base, chain) ==
  LET after[n \in 0..chain] ==
        IF n = 0 THEN [best |-> [length |-> 0, offset |-> 0], base |-> base, done |-> FALSE]
        ELSE LET s == after[n - 1] IN LookAt(e, s)
  IN  after[chain].best

\* xd3_smatch
Smatch(e) ==
  LET best == LongestOf(e, e.small[SmallHash(e)] - HASH_CKOFFSET,
                        IF e.min_match = MIN_MATCH THEN e.cfg.schain ELSE e.cfg.slchain)
  IN  IF best.length \in DOMAIN Far /\ e.inp - best.offset >= Far[best.length]
      THEN [best EXCEPT !.length = 0] ELSE best

\* xd3_scksum_insert
ScksumInsert(e) ==
  [e EXCEPT !.prev[e.inp % e.sprevsz] = e.small[SmallHash(e)],
            !.small[SmallHash(e)] = e.inp + HASH_CKOFFSET]

\* xd3_comprun, NEXTRUN
NextRun(e, c) ==
  [e EXCEPT !.run_l = IF c = e.run_c THEN @ + 1 ELSE 1, !.run_c = c]
Comprun(e) ==
  LET c == Byte(e, e.inp + SLOOK - 1)
  IN  [e EXCEPT !.run_c = c,
                !.run_l = Max({n \in 1..SLOOK :
                                 \A k \in 1..n : Byte(e, e.inp + SLOOK - k) = c})]

\* The run at the input position, to its end.
WholeRun(e) ==
  Max({n \in e.run_l..(AvailIn(e) - e.inp) : \A k \in e.run_l..(n - 1) : Byte(e, e.inp + k) = e.run_c})
=============================================================================
