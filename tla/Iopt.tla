-------------------------------- MODULE Iopt --------------------------------
(***************************************************************************)
(* The instruction buffer of the encoder (iopt): the matches found so far, *)
(* some of them overlapping, in the order of their positions.  When it is  *)
(* full, or the window ends, overlaps are resolved and the instructions    *)
(* are encoded, with ADDs for what lies between them.                      *)
(*                                                                         *)
(* The operators work on the encoder e, a record of those fields of        *)
(* xd3_stream that they use: win is the window (next_in), instr says that  *)
(* the search is over (ENC_INSTR).  The sections are sequences of codes,   *)
(* sizes, addresses and bytes.                                             *)
(***************************************************************************)
EXTENDS CodeTable, AddrCache, FiniteSetsExt

CONSTANTS
  MIN_RUN,           \* 8
  MAX_MATCH_SPLIT    \* 18

ASSUME RunsAndSplits == MIN_RUN \in Nat /\ MAX_MATCH_SPLIT \in Nat /\ MIN_RUN >= MIN_MATCH
                        /\ MAX_MATCH_SPLIT >= MIN_MATCH

Inst(type, pos, size, addr, xtra) ==
  [type |-> type, pos |-> pos, size |-> size, addr |-> addr, xtra |-> xtra]
EndOf(r) == r.pos + r.size

AvailIn(e) == Len(e.win)

-----------------------------------------------------------------------------
\* xd3_source_eof, xd3_bytes_on_srcblk
SourceEof(e) == e.max_blkno * e.blksize + e.onlastblk
BytesOnBlk(e, b) == IF b = e.max_blkno THEN e.onlastblk ELSE e.blksize

\* xd3_srcwin_setup: the source window is decided when the first copy is encoded.
SrcwinSetup(e) ==
  LET length == e.maxaddr - e.minaddr
      guess == Max({length, AvailIn(e) + AvailIn(e) \div 4})
      cut == IF e.eof_known THEN Min({guess, SourceEof(e) - e.minaddr}) ELSE guess
      none == e.instr /\ e.maxaddr = 0
  IN  [e EXCEPT !.decided = TRUE,
                !.srcbase = IF none THEN 0 ELSE e.minaddr,
                !.srclen = IF none THEN 0 ELSE IF e.instr THEN length ELSE cut]

-----------------------------------------------------------------------------
\* xd3_emit_single
EmitSingle(e, i) ==
  [e EXCEPT !.inst = @ \o <<Code1(i)>> \o IF Entry(Code1(i)).size1 = 0 THEN <<i.size>> ELSE <<>>]

\* xd3_emit_double
EmitDouble(e, code) == [e EXCEPT !.inst = Append(@, code)]

\* xd3_iopt_free_nonadd: an ADD is no element of the buffer.
FreeNonAdd(e, i) == [e EXCEPT !.free = IF i.type = ADD THEN @ ELSE @ + 1]

\* The copy i as it is sent: its type names the address mode.
EncodeAddress(e, i) ==
  LET addr == IF i.xtra = 1 THEN i.addr - e.srcbase ELSE e.srclen + i.addr
      sent == Encode(e.acache, addr, i.pos + e.srclen)
  IN  [e |-> [e EXCEPT !.acache = Update(@, addr), !.addr = Append(@, sent.value)],
       i |-> [i EXCEPT !.type = CPY + sent.mode]]

EncodeCopy(e, i) ==
  EncodeAddress(IF e.has_src /\ ~e.decided THEN SrcwinSetup(e) ELSE e, i)

EncodeOperand(e, i) ==
  CASE i.type = CPY -> EncodeCopy(e, i)
    [] i.type = RUN -> [e |-> [e EXCEPT !.data = Append(@, i.xtra)], i |-> i]
    [] i.type = ADD -> [e |-> [e EXCEPT !.data = @ \o SubSeq(e.win, i.pos + 1, EndOf(i))], i |-> i]

\* Mutant: an instruction sent as part of a pair is not given back.
Combine_Leak(e, i) ==
  IF e.iout = <<>> THEN [e EXCEPT !.iout = <<i>>]
  ELSE IF Code2(e.iout[1], i) # 0
  THEN FreeNonAdd([EmitDouble(e, Code2(e.iout[1], i)) EXCEPT !.iout = <<>>], i)
  ELSE FreeNonAdd([EmitSingle(e, e.iout[1]) EXCEPT !.iout = <<i>>], e.iout[1])

\* The code of i waits in iout for the next instruction, with which it may make a pair.
Combine(e, i) ==
  IF e.iout = <<>> THEN [e EXCEPT !.iout = <<i>>]
  ELSE IF Code2(e.iout[1], i) # 0
  THEN FreeNonAdd(FreeNonAdd([EmitDouble(e, Code2(e.iout[1], i)) EXCEPT !.iout = <<>>],
                             e.iout[1]), i)
  ELSE FreeNonAdd([EmitSingle(e, e.iout[1]) EXCEPT !.iout = <<i>>], e.iout[1])

\* xd3_iopt_finish_encoding: the operands of i are sent first.
FinishEncoding(e, i) ==
  LET sent == EncodeOperand(e, i)
  IN  Combine([sent.e EXCEPT !.off = @ + i.size], sent.i)

\* xd3_iopt_add
AddUpTo(e, pos) ==
  IF pos > e.off THEN FinishEncoding(e, Inst(ADD, e.off, pos - e.off, 0, 0)) ELSE e

\* xd3_iopt_add_encoding
AddEncoding(e, i) == FinishEncoding(AddUpTo(e, i.pos), i)

\* xd3_iopt_add_finalize
SendLast(e) ==
  IF e.iout = <<>> THEN e
  ELSE FreeNonAdd([EmitSingle(e, e.iout[1]) EXCEPT !.iout = <<>>], e.iout[1])
AddFinalize(e) == SendLast(AddUpTo(e, AvailIn(e)))

-----------------------------------------------------------------------------
\* Shorten one or both of two overlapping matches.
Split(r1, r2) ==
  LET gap == EndOf(r2) - r1.pos
      newsize == Min({MAX_MATCH_SPLIT, gap - gap \div 2})
      overlap == EndOf(r1) - r2.pos
      cut == r1.size - newsize
      cut1 == IF newsize > r1.size THEN 0
              ELSE IF newsize > r2.size THEN overlap
              ELSE cut - Max({0, r2.pos - (EndOf(r1) - cut)})
      cut2 == IF newsize <= r1.size /\ newsize > r2.size THEN 0 ELSE overlap - cut1
  IN  <<[r1 EXCEPT !.size = @ - cut1],
        [r2 EXCEPT !.size = @ - cut2, !.pos = @ + cut2, !.addr = @ + cut2]>>

\* Only one of two matches that overlap almost entirely is kept.
TooClose(r1, r2) ==
  \/ EndOf(r2) - r1.pos < 2 * MIN_MATCH
  \/ EndOf(r2) - EndOf(r1) <= 2
  \/ r2.pos - r1.pos <= 2

\* xd3_iopt_flush_instructions, its first loop: done holds the instructions passed so
\* far, todo those from r1 on.
Resolved(c, force) ==
  \/ Len(c.todo) < 2
  \/ Len(c.todo) = 2 /\ ~force /\ EndOf(c.todo[1]) > c.todo[2].pos

\* One round of it, for r1 and its successor r2.
Resolve(c, force) ==
  LET r1 == c.todo[1]
      r2 == c.todo[2]
      rest == SubSeq(c.todo, 3, Len(c.todo))
      s == Split(r1, r2)
  IN  IF Resolved(c, force) THEN c
      ELSE IF EndOf(r1) <= r2.pos THEN [done |-> Append(c.done, r1), todo |-> Tail(c.todo)]
      ELSE IF rest # <<>> /\ rest[1].pos <= EndOf(r1) + 1 THEN [c EXCEPT !.todo = <<r1>> \o rest]
      ELSE IF ~TooClose(r1, r2) THEN [done |-> Append(c.done, s[1]), todo |-> <<s[2]>> \o rest]
      ELSE IF r1.size < r2.size THEN [c EXCEPT !.todo = Tail(@)]
      ELSE [done |-> Append(c.done, r1), todo |-> rest]

\* Each round passes or drops an instruction.
Compact(used, force) ==
  LET after[n \in 0..Len(used)] ==
        IF n = 0 THEN [done |-> <<>>, todo |-> used]
        ELSE LET c == after[n - 1] IN Resolve(c, force)
  IN  after[Len(used)].done \o after[Len(used)].todo

\* How many of n instructions the second loop encodes: all of them if forced; otherwise it
\* stops past half the buffer, or with two left, but never before the first.
FlushCount(e, n, force) ==
  IF force THEN n ELSE Min({n, e.iopt_size \div 2 + 1, Max({1, n - 2})})

\* The first k instructions of kept are encoded.
EncodeFirst(e, kept, k) ==
  LET after[n \in 0..k] ==
        IF n = 0 THEN e ELSE LET f == after[n - 1] IN AddEncoding(f, kept[n])
  IN  after[k]

\* xd3_iopt_flush_instructions: what its first loop kept is encoded by its second one.
FlushKept(e, kept, force) ==
  LET k == FlushCount(e, Len(kept), force)
      f == [e EXCEPT !.used = SubSeq(kept, k + 1, Len(kept)),
                     !.free = @ + Len(e.used) - Len(kept)]
  IN  EncodeFirst(f, kept, k)
FlushInstructions(e, force) == FlushKept(e, Compact(e.used, force), force)

\* xd3_iopt_get_slot: there is a free element afterwards.
GetSlot(e) ==
  IF e.free > 0 THEN e
  ELSE IF e.unlimited THEN [e EXCEPT !.free = @ + e.elts, !.iopt_size = @ + e.elts]
  ELSE FlushInstructions(e, FALSE)
TakeSlot(e, i) == [GetSlot(e) EXCEPT !.free = @ - 1, !.used = Append(@, i)]

\* xd3_iopt_erase: instructions at the end of the buffer that the match at pos covers.
Erase(e, pos) ==
  LET k == Max({0} \cup {j \in 1..Len(e.used) : e.used[j].pos < pos})
  IN  [e EXCEPT !.used = SubSeq(@, 1, k), !.free = @ + Len(e.used) - k]

\* xd3_iopt_last_matched
LastMatched(e) == IF e.used = <<>> THEN 0 ELSE EndOf(Last(e.used))

\* xd3_emit_run, xd3_found_match
EmitRun(e, size, char) == TakeSlot(e, Inst(RUN, e.inp, size, 0, char))
FoundMatch(e, pos, size, addr, is_source) == TakeSlot(e, Inst(CPY, pos, size, addr, is_source))
=============================================================================
