---------------------------- MODULE WindowCodec ----------------------------
(***************************************************************************)
(* A text is encoded window by window and decoded again.  The encoder is   *)
(* xd3_encode_input from ENC_INPUT to ENC_FLUSH with the string matcher of *)
(* xdelta3.c: one step per input position it looks at.  The decoder is     *)
(* xd3_decode_input from DEC_WININD to DEC_FINISH: one step per code and   *)
(* per half-instruction (and source block) output.  Each has its own       *)
(* xd3_source over the same file, with blocks that answer at once          *)
(* (get_source_block); DeltaWriter and DeltaReader model how the windows   *)
(* come about and how their bytes travel.                                  *)
(***************************************************************************)
EXTENDS Matcher

CONSTANTS
  Inputs,        \* records [text, has_src, source, eof_known]
  Matchers,      \* string matcher settings [llook, lstep, schain, slchain, maxlazy, long_enough]
  IoptSizes,     \* configured sizes of the instruction buffer; 0: unlimited
  WinSize,       \* bytes in a target window
  BlkSize,       \* bytes in a source block
  MaxBlocks,     \* source blocks that are cached
  SprevSize,     \* positions whose chain links are kept
  IoptElts       \* elements an unlimited buffer grows by

ASSUME SizesAssumption ==
  /\ {WinSize, BlkSize, MaxBlocks, SprevSize, IoptElts} \subseteq Nat \ {0}
  /\ IoptSizes \subseteq Nat
ASSUME InputsAssumption ==
  \A i \in Inputs : /\ {i.text, i.source} \subseteq Seq(Nat)
                    /\ {i.has_src, i.eof_known} \subseteq BOOLEAN
ASSUME MatchersAssumption ==
  \A c \in Matchers : /\ {c.llook, c.lstep, c.schain, c.slchain} \subseteq Nat \ {0}
                      /\ {c.maxlazy, c.long_enough} \subseteq Nat

VARIABLES
  text,    \* what is encoded
  e,       \* the encoder
  pc,      \* where encoder or decoder is
  delta,   \* the windows encoded
  d,       \* the decoder
  out      \* the bytes of the windows decoded

vars == <<text, e, pc, delta, d, out>>

\* xd3_set_source, xd3_set_source_and_size
LastBlock(i) == IF i.eof_known THEN Len(i.source) \div BlkSize ELSE 0
OnLastBlock(i) == IF i.eof_known THEN Len(i.source) % BlkSize ELSE 0

\* xd3_config_stream, xd3_encode_init; no block of the source is cached.
NewEncoder(i, cfg, size) ==
  [source |-> i.source, blksize |-> BlkSize, capacity |-> MaxBlocks, blocks |-> <<>>,
   curblkno |-> NoBlock, eof_known |-> i.eof_known,
   max_blkno |-> LastBlock(i), onlastblk |-> OnLastBlock(i),
   win |-> <<>>, inp |-> 0, total_in |-> 0, min_match |-> MIN_MATCH, instr |-> FALSE, error |-> FALSE,
   cfg |-> cfg, off |-> 0, used |-> <<>>, iout |-> <<>>,
   iopt_size |-> IF size = 0 THEN IoptElts ELSE size, free |-> IF size = 0 THEN IoptElts ELSE size,
   unlimited |-> size = 0, elts |-> IoptElts,
   acache |-> EmptyCache, data |-> <<>>, inst |-> <<>>, addr |-> <<>>,
   has_src |-> i.has_src, max_winsize |-> BlkSize * MaxBlocks,
   decided |-> FALSE, srcbase |-> 0, srclen |-> 0, minaddr |-> 0, maxaddr |-> 0,
   maxsrcaddr |-> 0, cksum_pos |-> 0,
   match_state |-> "target", match_srcpos |-> 0, last_srcpos |-> 0,
   back |-> 0, fwd |-> 0, maxback |-> 0, maxfwd |-> 0,
   large |-> [h \in 0..(LargeSlots - 1) |-> 0], small |-> [h \in 0..(SmallSlots - 1) |-> 0],
   prev |-> [p \in 0..(SprevSize - 1) |-> 0], sprevsz |-> SprevSize, small_reset |-> FALSE,
   run_l |-> 0, run_c |-> 0, lck |-> Lcksum(<<>>), next_move |-> 0]

NewDecoder(i) ==
  [source |-> i.source, blksize |-> BlkSize, capacity |-> MaxBlocks, blocks |-> <<>>,
   curblkno |-> NoBlock, eof_known |-> i.eof_known,
   max_blkno |-> LastBlock(i), onlastblk |-> OnLastBlock(i),
   has_src |-> i.has_src, window |-> 0, cpylen |-> 0, cpyoff |-> 0, tgtlen |-> 0, position |-> 0,
   acache |-> EmptyCache, data |-> <<>>, inst |-> <<>>, addr |-> <<>>,
   current |-> <<>>, tgt |-> <<>>, adler |-> <<>>, msg |-> "none"]

Init ==
  \E i \in Inputs, cfg \in Matchers, size \in IoptSizes :
    /\ text = i.text
    /\ e = NewEncoder(i, cfg, size)
    /\ d = NewDecoder(i)
    /\ pc = "input"
    /\ delta = <<>>
    /\ out = <<>>

-----------------------------------------------------------------------------
\* xd3_encode_input, ENC_INPUT: the next window; the last one may be short.
TakeWindow ==
  /\ pc = "input"
  /\ e.total_in < Len(text) \/ delta = <<>>
  /\ e' = [e EXCEPT !.win = SubSeq(text, e.total_in + 1, Min({e.total_in + WinSize, Len(text)})),
                    !.acache = EmptyCache, !.inp = 0, !.min_match = MIN_MATCH, !.off = 0]
  /\ pc' = "search"
  /\ UNCHANGED <<text, delta, d, out>>

\* ENC_SEARCH with a source: the match that reached the end of the last window goes on,
\* or one at the start of the source is tried.
SkipMatch(s) == [s EXCEPT !.inp = @ + s.fwd]
Continued(s) ==
  LET begun == IF s.match_state # "target" THEN s
               ELSE IF AvailIn(s) = 0 THEN [s EXCEPT !.match_state = "searching", !.fwd = 0]
               ELSE [SourceMatchSetup(s, s.match_srcpos) EXCEPT !.match_state = "forward"]
  IN  IF s.has_src /\ begun.match_state # "searching" /\ AvailIn(s) # 0
      THEN SkipMatch(SourceExtendMatch(begun))
      ELSE IF s.has_src THEN begun ELSE s

NoRoom(s) == s.inp + SLOOK > AvailIn(s)
LargeFits(s) == s.has_src /\ s.inp + s.cfg.llook <= AvailIn(s)

\* xd3_string_match, its entry: xd3_string_match_init clears the table of the last window.
MatchInit(s) ==
  IF s.small_reset
  THEN [s EXCEPT !.small = [h \in DOMAIN @ |-> 0], !.small_reset = FALSE] ELSE s

\* xd3_string_match, restartloop
Restart(s) ==
  LET a == Comprun([s EXCEPT !.min_match = Max({MIN_MATCH, 1 + LastMatched(s) - s.inp})])
  IN  IF NoRoom(s) THEN [s EXCEPT !.instr = TRUE]
      ELSE IF LargeFits(s) THEN [MovePoint(a) EXCEPT !.lck = Lcksum(LargeHere(s))] ELSE a

\* xd3_string_match, updateone and the increment of the loop
UpdateOne(s) ==
  IF s.inp + SLOOK = AvailIn(s) THEN [s EXCEPT !.instr = TRUE]
  ELSE [NextRun(s, Byte(s, s.inp + SLOOK)) EXCEPT
          !.inp = @ + 1,
          !.lck = IF s.has_src /\ s.inp + s.cfg.llook < AvailIn(s)
                  THEN LargeCksumUpdate(@, Byte(s, s.inp), Byte(s, s.inp + s.cfg.llook), s.cfg.llook)
                  ELSE @]

\* Mutant: what is looked for after a match need not be longer.
HandleLazy_AnyLength(s, len) ==
  IF s.cfg.maxlazy > 0 /\ len < s.cfg.maxlazy /\ s.inp + len <= AvailIn(s) - 2
  THEN UpdateOne(s)
  ELSE Restart([s EXCEPT !.inp = @ + len])

\* HANDLELAZY: after a match of length len, a short one, better ones are still looked for.
HandleLazy(s, len) ==
  IF s.cfg.maxlazy > 0 /\ len < s.cfg.maxlazy /\ s.inp + len <= AvailIn(s) - 2
  THEN UpdateOne([s EXCEPT !.min_match = len])
  ELSE Restart([s EXCEPT !.inp = @ + len])

\* The encoder goes to s; an error of xd3_srcwin_move_point ends the encoding.
Goto(s) ==
  /\ e' = s
  /\ pc' = IF s.error THEN "failed" ELSE IF s.instr THEN "instr" ELSE "loop"
  /\ UNCHANGED <<text, delta, d, out>>

BeginSearch ==
  /\ pc = "search"
  /\ \E s \in {Continued(e)} :
       Goto(IF NoRoom(s) THEN [s EXCEPT !.instr = TRUE] ELSE Restart(MatchInit(s)))

\* A run at the input position, to be tried once its first SLOOK bytes are seen.
TryRun(s) == IF s.run_l = SLOOK THEN [s EXCEPT !.run_l = WholeRun(s)] ELSE s
RunTaken(s) == s.run_l = SLOOK /\ WholeRun(s) >= Max({s.min_match, MIN_RUN})

\* A large match at the input position; fwd says how far, 0 if there is none.
LargeMatch(s) ==
  LET at == s.large[LargeHash(s.lck)]
      t == SourceMatchSetup(s, at - HASH_CKOFFSET)
  IN  IF s.error \/ at = 0 THEN [s EXCEPT !.fwd = 0]
      ELSE IF t.match_state = "backward" THEN SourceExtendMatch(t) ELSE t
TrySource(s) ==
  IF ~LargeFits(s) THEN [s EXCEPT !.fwd = 0]
  ELSE LargeMatch(IF s.inp >= s.next_move THEN MovePoint(s) ELSE s)

\* xd3_string_match, one round of the loop: a run, a copy from the source, a copy from the
\* window, or the next position.
FindRun ==
  /\ pc = "loop"
  /\ RunTaken(e)
  /\ LET r == TryRun(e)
     IN  Goto(HandleLazy(EmitRun(r, r.run_l, r.run_c), r.run_l))

FindCopy ==
  /\ pc = "loop"
  /\ ~RunTaken(e)
  /\ \E s \in {TrySource(TryRun(e))} :
     LET m == IF s.small[SmallHash(s)] = 0 THEN [length |-> 0, offset |-> 0] ELSE Smatch(s)
         t == ScksumInsert(s)
     IN  \/ /\ s.fwd > 0 \/ s.error
            /\ Goto(IF s.error THEN s ELSE HandleLazy(s, s.fwd))
         \/ /\ s.fwd = 0 /\ ~s.error
            /\ m.length >= s.min_match
            /\ Goto(HandleLazy(FoundMatch(t, s.inp, m.length, m.offset, 0), m.length))
         \/ /\ s.fwd = 0 /\ ~s.error
            /\ m.length < s.min_match
            /\ Goto(UpdateOne([t EXCEPT !.min_match = Max({MIN_MATCH, @ - 1})]))

\* The fields of the window that xd3_emit_hdr sends, and its sections.
Window(s) ==
  [vcd_source |-> s.has_src /\ s.srclen > 0, cpylen |-> s.srclen, cpyoff |-> s.srcbase,
   tgtlen |-> AvailIn(s), data |-> s.data, inst |-> s.inst, addr |-> s.addr, adler |-> s.win]

\* xd3_encode_reset
EncodeReset(s) ==
  [s EXCEPT !.total_in = @ + AvailIn(s), !.instr = FALSE, !.small_reset = TRUE,
            !.data = <<>>, !.inst = <<>>, !.addr = <<>>,
            !.decided = FALSE, !.srcbase = 0, !.srclen = 0, !.minaddr = 0, !.maxaddr = 0]

\* ENC_INSTR to ENC_POSTWIN
FinishWindow ==
  /\ pc = "instr"
  /\ \E s \in {AddFinalize(FlushInstructions(e, TRUE))} :
         /\ delta' = Append(delta, Window(s))
         /\ e' = EncodeReset(s)
         /\ pc' = IF e'.total_in < Len(text) THEN "input" ELSE "header"
  /\ UNCHANGED <<text, d, out>>

-----------------------------------------------------------------------------
\* xd3_decode_input, DEC_WININD to DEC_DATA, and xd3_decode_init_window
DecodeHeader ==
  /\ pc = "header"
  /\ d.window < Len(delta)
  /\ LET w == delta[d.window + 1]
         cpylen == IF w.vcd_source THEN w.cpylen ELSE 0
     IN  /\ d' = [d EXCEPT !.window = @ + 1, !.cpylen = cpylen,
                           !.cpyoff = IF w.vcd_source THEN w.cpyoff ELSE 0,
                           !.position = cpylen, !.tgtlen = w.tgtlen, !.acache = EmptyCache,
                           !.data = w.data, !.inst = w.inst, !.addr = w.addr, !.adler = w.adler,
                           !.current = <<>>, !.tgt = <<>>,
                           !.msg = IF w.vcd_source /\ ~d.has_src THEN "source input required" ELSE @]
         /\ pc' = IF d'.msg = "none" THEN "emit" ELSE "failed"
  /\ UNCHANGED <<text, e, delta, out>>

\* xd3_decode_parse_halfinst: size and address of an instruction, and their checks.
ParseHalf(s, type, size0) ==
  LET size == IF size0 = 0 /\ s.inst # <<>> THEN Head(s.inst) ELSE size0
      a == IF size0 = 0 /\ s.inst # <<>> THEN [s EXCEPT !.inst = Tail(@)] ELSE s
      copy == type >= CPY
      addr == IF copy /\ s.addr # <<>> THEN Decode(s.acache, s.position, type - CPY, Head(s.addr)) ELSE 0
      b == IF copy /\ s.addr # <<>>
           THEN [a EXCEPT !.addr = Tail(@), !.acache = Update(@, addr)] ELSE a
      msg == IF size0 = 0 /\ s.inst = <<>> THEN "size underflow"
             ELSE IF copy /\ s.addr = <<>> THEN "address underflow"
             ELSE IF copy /\ (addr < 0 \/ addr >= s.position) THEN "address too large"
             ELSE IF \/ copy /\ addr < s.cpylen /\ addr + size > s.cpylen
                     \/ s.position + size > s.cpylen + s.tgtlen THEN "size too large"
             ELSE "none"
  IN  [b EXCEPT !.position = @ + size, !.msg = msg,
                !.current = Append(@, [type |-> type, size |-> size, addr |-> addr])]

\* xd3_decode_instruction
DecodeInstruction ==
  /\ pc = "emit"
  /\ d.current = <<>>
  /\ d.inst # <<>>
  /\ LET entry == Entry(Head(d.inst))
         first == ParseHalf([d EXCEPT !.inst = Tail(@)], entry.type1, entry.size1)
     IN  d' = IF entry.type2 = NOOP \/ first.msg # "none" THEN first
              ELSE ParseHalf(first, entry.type2, entry.size2)
  /\ pc' = IF d'.msg = "none" THEN "emit" ELSE "failed"
  /\ UNCHANGED <<text, e, delta, out>>

\* xd3_decode_output_halfinst, by type
OutputData(h) ==
  LET n == IF h.type = RUN THEN 1 ELSE h.size
  IN  IF n > Len(d.data) THEN [d EXCEPT !.msg = "data underflow"]
      ELSE [d EXCEPT !.data = Drop(@, n), !.current = Tail(@),
                     !.tgt = @ \o IF h.type = RUN THEN [k \in 1..h.size |-> Head(d.data)]
                                  ELSE SubSeq(d.data, 1, n)]

OutputSource(h) ==
  LET from == d.cpyoff + h.addr
      b == from \div d.blksize
      blkoff == from % d.blksize
      g == Getblk(d, b)
      take == Min({h.size, d.blksize - blkoff})
      left == [h EXCEPT !.size = @ - take, !.addr = @ + take]
  IN  IF ~g.ok THEN [d EXCEPT !.msg = "non-seekable source in decode"]
      ELSE IF OnBlk(d, b) # d.blksize /\ blkoff + h.size > OnBlk(d, b)
      THEN [g.s EXCEPT !.msg = "source file too short"]
      ELSE [g.s EXCEPT !.tgt = @ \o SubSeq(d.source, from + 1, from + take),
                       !.current = (IF left.size = 0 THEN <<>> ELSE <<left>>) \o Tail(@)]

\* Mutant: a copy from the window reads only what was there before it (0 elsewhere).
OutputTarget_NoOverlap(h) ==
  LET from == h.addr - d.cpylen
      byte(n) == IF n <= Len(d.tgt) THEN d.tgt[n] ELSE 0
  IN  [d EXCEPT !.current = Tail(@), !.tgt = @ \o [k \in 1..h.size |-> byte(from + k)]]

\* Byte by byte: the copy may read what it has written.
OutputTarget(h) ==
  LET from == h.addr - d.cpylen
      period == Len(d.tgt) - from
  IN  [d EXCEPT !.current = Tail(@),
                !.tgt = @ \o [k \in 1..h.size |-> d.tgt[from + ((k - 1) % period) + 1]]]

OutputHalf ==
  /\ pc = "emit"
  /\ d.current # <<>>
  /\ LET h == Head(d.current)
     IN  d' = IF Len(d.tgt) + h.size > d.tgtlen THEN [d EXCEPT !.msg = "overflow while decoding"]
              ELSE IF h.type < CPY THEN OutputData(h)
              ELSE IF h.addr < d.cpylen THEN OutputSource(h) ELSE OutputTarget(h)
  /\ pc' = IF d'.msg = "none" THEN "emit" ELSE "failed"
  /\ UNCHANGED <<text, e, delta, out>>

\* xd3_decode_emit, its checks after the last instruction; DEC_FINISH
EndWindow ==
  /\ pc = "emit"
  /\ d.current = <<>>
  /\ d.inst = <<>>
  /\ d' = [d EXCEPT !.msg = IF Len(d.tgt) # d.tgtlen THEN "wrong window length"
                            ELSE IF d.data # <<>> THEN "extra data section"
                            ELSE IF d.addr # <<>> THEN "extra address section"
                            ELSE IF d.tgt # d.adler THEN "target window checksum mismatch"
                            ELSE @, !.tgt = <<>>]
  /\ out' = out \o d.tgt
  /\ pc' = IF d'.msg # "none" THEN "failed" ELSE IF d.window < Len(delta) THEN "header" ELSE "done"
  /\ UNCHANGED <<text, e, delta>>

Done == pc = "done" /\ UNCHANGED vars

Next ==
  \/ TakeWindow \/ BeginSearch \/ FindRun \/ FindCopy \/ FinishWindow
  \/ DecodeHeader \/ DecodeInstruction \/ OutputHalf \/ EndWindow
  \/ Done

Spec == Init /\ [][Next]_vars

-----------------------------------------------------------------------------
(***************************************************************************)
(* Properties.                                                             *)
(***************************************************************************)

\* What the decoder writes is what the encoder was given, and neither fails: whatever
\* overlaps, windows and blocks the matches met (xd3_encode_input, xd3_decode_input).
DecodesToTheText ==
  /\ pc # "failed"
  /\ IsPrefix(out \o d.tgt, text)
  /\ pc = "done" => out = text

\* The instructions in the buffer lie in the part of the window that is not encoded yet, in
\* order, each reaching further than the one before it: what xd3_iopt_flush_instructions
\* relies on to resolve overlaps ("the min_match adjustments prevent this").
BufferIsOrdered ==
  pc \in {"loop", "instr"} =>
    /\ \A k \in 1..Len(e.used) :
         e.used[k].pos >= e.off /\ EndOf(e.used[k]) <= AvailIn(e) /\ e.used[k].size >= MIN_MATCH
    /\ \A k \in 2..Len(e.used) :
         e.used[k-1].pos < e.used[k].pos /\ EndOf(e.used[k-1]) < EndOf(e.used[k])

\* No element of the buffer is lost or given back twice, ADDs passing through included: each
\* is free, in use, or waits in iout (xd3_iopt_get_slot, xd3_iopt_free_nonadd).
Waits(s) == IF s.iout = <<>> \/ s.iout[1].type = ADD THEN 0 ELSE 1
SlotsAreCounted ==
  pc \in {"loop", "instr"} =>
    /\ e.free >= 0 /\ Len(e.iout) <= 1
    /\ e.free + Len(e.used) + Waits(e) = e.iopt_size

EndOfCopy(i) == i.addr + i.size

\* A run repeats its byte, a copy from the window has the bytes of an earlier place, a copy
\* from the source those of the source.
Tells(s, i) ==
  /\ i.type = CPY /\ i.xtra # 1 => 0 <= i.addr /\ i.addr < i.pos
  /\ \A k \in 0..(i.size - 1) :
       Byte(s, i.pos + k) = IF i.type = RUN THEN i.xtra
                            ELSE IF i.xtra = 1 THEN s.source[i.addr + k + 1] ELSE Byte(s, i.addr + k)

\* A copy from the source lies in it and in the source window, once that is decided.
Covered(s, i) ==
  i.type = CPY /\ i.xtra = 1 =>
    /\ i.addr >= 0 /\ EndOfCopy(i) <= Len(s.source)
    /\ s.decided => s.srcbase <= i.addr /\ EndOfCopy(i) <= s.srcbase + s.srclen

\* The instructions in the buffer say what the window has, also when matches were resumed in
\* a later window, extended, cut where they overlap, or found by a checksum that collides
\* (xd3_source_extend_match, xd3_smatch, xd3_comprun, xd3_iopt_flush_instructions).  Source
\* copies lie within the source, whatever was guessed of its end, and once the source window
\* is decided within that, those found afterwards as well (xd3_srcwin_setup).
InstructionsTell ==
  pc \in {"loop", "instr"} => \A k \in 1..Len(e.used) : Tells(e, e.used[k]) /\ Covered(e, e.used[k])

\* The rolling checksum is that of the bytes at the input position, after runs, copies and
\* lazy steps (xd3_large_cksum_update in xd3_string_match).
Rolling == (pc = "loop" /\ LargeFits(e)) => e.lck = Lcksum(LargeHere(e))

\* The decoder looks up no block that its cache has replaced: XD3_TOOFARBACK is "(encoder
\* only)" (xdelta3.h:384).
TooFarBackInEncoderOnly == d.msg # "non-seekable source in decode"
=============================================================================
