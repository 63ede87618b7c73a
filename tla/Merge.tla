-------------------------------- MODULE Merge --------------------------------
(***************************************************************************)
(* Merging deltas (xdelta3 merge -m d1 -m d2 d3): a chain of deltas, each  *)
(* against what the one before it produces, becomes a single delta against *)
(* the first source, without any of the texts at hand.  A delta is read    *)
(* whole, window by window, into a list of instructions with absolute      *)
(* addresses (xd3_whole_append_window).  xd3_merge_inputs then replaces    *)
(* what the later delta copies from its source by the instructions of the  *)
(* earlier one that made it, and main_merge_output writes the result out   *)
(* again, in the windows of the last delta.                                *)
(*                                                                         *)
(* A delta is a sequence of windows [cpyoff, cpylen, inst]; an instruction *)
(* is a record [type, size, addr, bytes].  A copy's address is in the      *)
(* address space of its window: the cpylen bytes of the source from cpyoff *)
(* on, then the window itself.                                             *)
(***************************************************************************)
EXTENDS Integers, Sequences

CONSTANTS
  Source,  \* the bytes of the first source
  Chains   \* the chains of deltas to merge

Byte == 0..255

\* An instruction of a delta, and a window, as the decoder hands them over: an ADD brings its
\* bytes, a RUN one.
Hinst ==
  {i \in [type : {"ADD", "RUN", "CPY"}, size : Nat, addr : Nat, bytes : Seq(Byte)] :
     /\ i.type = "ADD" => Len(i.bytes) = i.size
     /\ i.type = "RUN" => Len(i.bytes) = 1}

Window == [cpyoff : Nat, cpylen : Nat, inst : Seq(Hinst)]

\* The last delta has a window, as main_merge_output asserts: an encoder writes one of no bytes
\* for an empty text.
ASSUME ChainsAssumption ==
  /\ Source \in Seq(Byte)
  /\ \A c \in Chains : c \in Seq(Seq(Window)) /\ c # <<>> /\ c[Len(c)] # <<>>

VARIABLES
  chain,        \* the deltas on the command line
  file, window, \* the delta being read, and how many of its windows have been
  stream,       \* stream.whole_target: the delta read last, and in the end the merged one
  merge_input,  \* what the deltas before it merged to (merge_stream in the end)
  tmp,          \* tmp_stream.whole_target: the merged delta so far
  input_i,      \* how many instructions of the window are read, or of stream merged
  todo,         \* the calls of xd3_merge_source_copy, the innermost last
  rec,          \* main_merge_output: the window being written
  out,          \* the windows written
  pc            \* what comes next

vars == <<chain, file, window, stream, merge_input, tmp, input_i, todo, rec, out, pc>>

-----------------------------------------------------------------------------
\* xd3_whole_state_init; ret is what the last call on the state returned.
EmptyWhole == [inst |-> <<>>, adds |-> <<>>, wininfo |-> <<>>, length |-> 0, ret |-> 0]

\* How many bytes the first k instructions make.
Sizes(inst, k) ==
  LET sum[n \in 0..k] == IF n = 0 THEN 0 ELSE sum[n - 1] + inst[n].size
  IN  sum[k]

Winst(type, mode, size, addr, position) ==
  [type |-> type, mode |-> mode, size |-> size, addr |-> addr, position |-> position]

\* An instruction that brings its own bytes: they are added to those of the state.
WithBytes(w, type, size, position, bytes) ==
  [w EXCEPT !.inst = Append(@, Winst(type, "NONE", size, Len(w.adds), position)), !.adds = @ \o bytes]

WithCopy(w, mode, size, addr, position) ==
  [w EXCEPT !.inst = Append(@, Winst("CPY", mode, size, addr, position))]

Longer(w, size) == [w EXCEPT !.length = @ + size]

\* The bytes of an instruction of w, from the offset'th on.
Bytes(w, i, offset, size) ==
  IF i.type = "RUN" THEN <<w.adds[i.addr + 1]>> ELSE SubSeq(w.adds, i.addr + offset + 1, i.addr + offset + size)

\* xd3_whole_append_inst: hinst of window win, which starts at dec_winstart.
WholeAppendInst(w, win, dec_winstart, hinst) ==
  Longer(IF hinst.type # "CPY" THEN WithBytes(w, hinst.type, hinst.size, w.length, hinst.bytes)
         ELSE IF hinst.addr < win.cpylen
         THEN WithCopy(w, "SOURCE", hinst.size, win.cpyoff + hinst.addr, w.length)
         ELSE WithCopy(w, "HERE", hinst.size, dec_winstart + hinst.addr - win.cpylen, w.length),
         hinst.size)

\* xd3_whole_append_window before its loop; the decoder's windows follow each other.
WholeAppendWindow(w, win) ==
  [w EXCEPT !.wininfo = Append(@, [offset |-> w.length, length |-> Sizes(win.inst, Len(win.inst))])]

-----------------------------------------------------------------------------
\* xd3_merge_find_position: the instruction of source that makes the byte at address; 0 if the
\* address is not in the text.
MergeFindPosition(source, address) ==
  LET bound == 1..(Len(source.inst) + 1)
      find[part \in {p \in bound \X bound : p[1] <= p[2]}] ==
        LET low == part[1]
            high == part[2]
            mid == low + (high - low) \div 2
            lpos == source.inst[mid].position
        IN  IF low = high THEN 0
            ELSE IF address < lpos THEN find[<<low, mid>>]
            ELSE IF address >= lpos + source.inst[mid].size THEN find[<<mid + 1, high>>]
            ELSE mid
  IN  IF address >= source.length THEN 0 ELSE find[<<1, Len(source.inst) + 1>>]

\* What is left to a call of xd3_merge_source_copy: iinst, and sinst_num.
Call(addr, size, position, sinst_num) ==
  [addr |-> addr, size |-> size, position |-> position, sinst_num |-> sinst_num]

\* Mutant: a piece of an ADD begins at the ADD's first byte.
Piece_NoOffset(w, source, sinst, offset, take, position) ==
  IF sinst.type # "CPY"
  THEN WithBytes(w, sinst.type, take, position, Bytes(source, sinst, 0, take))
  ELSE WithCopy(w, sinst.mode, take, sinst.addr + offset, position)

\* take bytes of sinst from the offset'th on, for the merged delta.
Piece(w, source, sinst, offset, take, position) ==
  IF sinst.type # "CPY"
  THEN WithBytes(w, sinst.type, take, position, Bytes(source, sinst, offset, take))
  ELSE WithCopy(w, sinst.mode, take, sinst.addr + offset, position)

\* Mutant: the length is not updated for a copy within the target.
MergeInst_NoLength(w, input, iinst) ==
  IF iinst.type # "CPY"
  THEN Longer(WithBytes(w, iinst.type, iinst.size, w.length, Bytes(input, iinst, 0, iinst.size)), iinst.size)
  ELSE [w EXCEPT !.inst = Append(@, iinst)]

\* xd3_merge_run, xd3_merge_add, xd3_merge_target_copy.
MergeInst(w, input, iinst) ==
  Longer(IF iinst.type # "CPY"
         THEN WithBytes(w, iinst.type, iinst.size, w.length, Bytes(input, iinst, 0, iinst.size))
         ELSE [w EXCEPT !.inst = Append(@, iinst)],
         iinst.size)

-----------------------------------------------------------------------------
\* main_merge_output's copies: the part of the source they need grows with each of them.
Needs(r, addr, take) ==
  IF ~r.srcset THEN [r EXCEPT !.srcset = TRUE, !.srcmin = addr, !.srcmax = addr + take]
  ELSE [r EXCEPT !.srcmin = IF addr < @ THEN addr ELSE @, !.srcmax = IF addr + take > @ THEN addr + take ELSE @]

\* xd3_emit_run, xd3_found_match: an instruction waits in the instruction buffer, which grows
\* as needed here (the recode stream has no iopt_size).
Buffered(r, type, take, addr, is_source, byte) ==
  [r EXCEPT !.used = Append(@, [type |-> type, pos |-> r.pos, size |-> take, addr |-> addr,
                                is_source |-> is_source, byte |-> byte])]

\* main_bdata: the bytes ADDs put into the window's input, at its position.
Input(r, bytes) ==
  [r EXCEPT !.bdata = [k \in 1..Len(@) |->
     IF k \in (r.pos + 1)..(r.pos + Len(bytes)) THEN bytes[k - r.pos] ELSE @[k]]]

\* An instruction of the merged delta, of which take bytes belong to this window.
EncodeInst(r, w, i, take) ==
  IF i.type = "RUN" THEN Buffered(r, "RUN", take, 0, FALSE, Bytes(w, i, 0, take))
  ELSE IF i.type = "ADD" THEN Input(r, Bytes(w, i, 0, take))
  ELSE IF i.mode = "SOURCE" THEN Buffered(Needs(r, i.addr, take), "CPY", take, i.addr, TRUE, <<>>)
  ELSE Buffered(r, "CPY", take, i.addr - r.start, FALSE, <<>>)

\* The ADD for what no instruction covers before pos (xd3_iopt_add).
Gap(r, off, pos) ==
  IF pos > off THEN <<[type |-> "ADD", size |-> pos - off, addr |-> 0, bytes |-> SubSeq(r.bdata, off + 1, pos)]>>
  ELSE <<>>

\* The end of main_merge_output's window: the source window is decided, and the buffered
\* instructions are encoded with the ADDs between them (ENC_INSTR, xd3_iopt_add_encoding,
\* xd3_iopt_finish_encoding, xd3_iopt_add_finalize).
EncodeWindow(r) ==
  LET srclen == IF r.srcset THEN r.srcmax - r.srcmin ELSE 0
      Addr(i) == IF i.is_source THEN i.addr - r.srcmin ELSE i.addr + srclen
      Off(k) == IF k = 0 THEN 0 ELSE r.used[k].pos + r.used[k].size
      One(k) == Gap(r, Off(k - 1), r.used[k].pos)
                \o <<[type |-> r.used[k].type, size |-> r.used[k].size,
                      addr |-> IF r.used[k].type = "CPY" THEN Addr(r.used[k]) ELSE 0, bytes |-> r.used[k].byte]>>
      enc[k \in 0..Len(r.used)] == IF k = 0 THEN <<>> ELSE enc[k - 1] \o One(k)
  IN  [cpyoff |-> IF r.srcset THEN r.srcmin ELSE 0, cpylen |-> srclen,
       inst |-> enc[Len(r.used)] \o Gap(r, Off(Len(r.used)), r.pos)]

-----------------------------------------------------------------------------
(***************************************************************************)
(* The command.                                                            *)
(***************************************************************************)

NoWindow == [on |-> FALSE, inst_pos |-> 0, output_pos |-> 0, num |-> 0, start |-> 0, pos |-> 0, size |-> 0,
             srcset |-> FALSE, srcmin |-> 0, srcmax |-> 0, used |-> <<>>, bdata |-> <<>>]

Init ==
  /\ chain \in Chains
  /\ file = 1 /\ window = 0
  /\ stream = EmptyWhole /\ merge_input = EmptyWhole /\ tmp = EmptyWhole
  /\ input_i = 0 /\ todo = <<>> /\ rec = NoWindow /\ out = <<>>
  /\ pc = "read"

\* main_merge_func: the next window of the delta, of which xd3_whole_append_window is called.
ReadWindow ==
  /\ pc = "read" /\ window < Len(chain[file])
  /\ window' = window + 1
  /\ stream' = WholeAppendWindow(stream, chain[file][window + 1])
  /\ input_i' = 0
  /\ pc' = "append"
  /\ UNCHANGED <<chain, file, merge_input, tmp, todo, rec, out>>

\* Its loop, and its end.
AppendInstruction ==
  /\ pc = "append" /\ input_i < Len(chain[file][window].inst)
  /\ LET win == chain[file][window]
     IN  stream' = WholeAppendInst(stream, win, stream.wininfo[window].offset, win.inst[input_i + 1])
  /\ input_i' = input_i + 1
  /\ UNCHANGED <<chain, file, window, merge_input, tmp, todo, rec, out, pc>>

WindowIsRead ==
  /\ pc = "append" /\ input_i = Len(chain[file][window].inst)
  /\ pc' = "read"
  /\ UNCHANGED <<chain, file, window, stream, merge_input, tmp, input_i, todo, rec, out>>

\* The end of the first -m argument: it is what the next delta is applied to
\* (xd3_swap_whole_state in main_merge_arguments).
FirstArgument ==
  /\ pc = "read" /\ window = Len(chain[file])
  /\ file = 1 /\ Len(chain) > 1
  /\ merge_input' = stream /\ stream' = EmptyWhole
  /\ file' = 2 /\ window' = 0
  /\ UNCHANGED <<chain, tmp, input_i, todo, rec, out, pc>>

\* The end of another delta: it is merged (main_merge_arguments; main_merge_output for the last).
BeginMerge ==
  /\ pc = "read" /\ window = Len(chain[file])
  /\ file > 1
  /\ tmp' = [EmptyWhole EXCEPT !.wininfo = stream.wininfo]
  /\ input_i' = 0
  /\ pc' = "merge"
  /\ UNCHANGED <<chain, file, window, stream, merge_input, todo, rec, out>>

\* An instruction of xd3_merge_inputs that is no copy from the source.  (No delta that was read
\* has a VCD_TARGET copy: the decoder refuses such windows.)
MergeInstruction ==
  /\ pc = "merge" /\ tmp.ret = 0 /\ todo = <<>> /\ input_i < Len(stream.inst)
  /\ LET iinst == stream.inst[input_i + 1]
     IN  /\ iinst.mode # "SOURCE"
         /\ tmp' = MergeInst(tmp, stream, iinst)
  /\ input_i' = input_i + 1
  /\ UNCHANGED <<chain, file, window, stream, merge_input, todo, rec, out, pc>>

\* xd3_merge_source_copy is called, by those of calls: an address that is not in the text
\* makes all of them return.
MergeSourceCopy(calls, addr, size, position) ==
  LET n == MergeFindPosition(merge_input, addr)
  IN  IF n = 0
      THEN tmp' = [tmp EXCEPT !.ret = -1] /\ todo' = <<>>
      ELSE tmp' = tmp /\ todo' = Append(calls, Call(addr, size, position, n))

\* An instruction that is a copy from the source: in its place come the instructions of
\* merge_input that make the bytes it copies.
SourceCopy ==
  /\ pc = "merge" /\ tmp.ret = 0 /\ todo = <<>> /\ input_i < Len(stream.inst)
  /\ LET iinst == stream.inst[input_i + 1]
     IN  /\ iinst.mode = "SOURCE"
         /\ MergeSourceCopy(<<>>, iinst.addr, iinst.size, iinst.position)
  /\ UNCHANGED <<chain, file, window, stream, merge_input, input_i, rec, out, pc>>

\* A round of the loop of xd3_merge_source_copy.  What sinst itself copied within the text of
\* merge_input is looked up there in turn; the caller's iinst moves on beforehand here.
SourcePiece ==
  /\ pc = "merge" /\ todo # <<>> /\ todo[Len(todo)].size > 0
  /\ LET iinst == todo[Len(todo)]
         sinst == merge_input.inst[iinst.sinst_num]
         offset == iinst.addr - sinst.position
         left == sinst.size - offset
         take == IF iinst.size < left THEN iinst.size ELSE left
         rest == [todo EXCEPT ![Len(todo)] =
                    Call(iinst.addr + take, iinst.size - take, iinst.position + take, iinst.sinst_num + 1)]
     IN  IF sinst.mode # "HERE"
         THEN tmp' = Piece(tmp, merge_input, sinst, offset, take, iinst.position) /\ todo' = rest
         ELSE MergeSourceCopy(rest, sinst.addr + offset, take, iinst.position)
  /\ UNCHANGED <<chain, file, window, stream, merge_input, input_i, rec, out, pc>>

\* It returns; from the outermost call the merge goes on.
SourceReturn ==
  /\ pc = "merge" /\ todo # <<>> /\ todo[Len(todo)].size = 0
  /\ todo' = SubSeq(todo, 1, Len(todo) - 1)
  /\ IF Len(todo) = 1
     THEN tmp' = Longer(tmp, stream.inst[input_i + 1].size) /\ input_i' = input_i + 1
     ELSE UNCHANGED <<tmp, input_i>>
  /\ UNCHANGED <<chain, file, window, stream, merge_input, rec, out, pc>>

\* xd3_merge_input_output returns: an error ends the command; the result of an argument is
\* what the next delta is applied to, that of the last delta is written.
EndMerge ==
  /\ pc = "merge" /\ (tmp.ret # 0 \/ (todo = <<>> /\ input_i = Len(stream.inst)))
  /\ IF tmp.ret # 0
     THEN pc' = "failed" /\ UNCHANGED <<file, window, stream, merge_input>>
     ELSE IF file < Len(chain)
     THEN /\ merge_input' = tmp /\ stream' = EmptyWhole
          /\ file' = file + 1 /\ window' = 0 /\ pc' = "read"
     ELSE /\ stream' = tmp /\ pc' = "output"
          /\ UNCHANGED <<file, window, merge_input>>
  /\ UNCHANGED <<chain, tmp, input_i, todo, rec, out>>

\* A single delta is only written anew.
NoArguments ==
  /\ pc = "read" /\ window = Len(chain[file])
  /\ Len(chain) = 1
  /\ pc' = "output"
  /\ UNCHANGED <<chain, file, window, stream, merge_input, tmp, input_i, todo, rec, out>>

\* main_merge_output begins a window, of the size it had in the last delta.
BeginWindow ==
  /\ pc = "output" /\ ~rec.on
  /\ rec.inst_pos < Len(stream.inst) \/ out = <<>>
  /\ LET info == stream.wininfo[rec.num + 1]
     IN  IF rec.output_pos # info.offset THEN pc' = "failed" /\ UNCHANGED rec
         ELSE /\ rec' = [rec EXCEPT !.on = TRUE, !.num = @ + 1, !.start = rec.output_pos, !.pos = 0,
                                    !.size = info.length, !.srcset = FALSE, !.srcmin = 0, !.srcmax = 0,
                                    !.used = <<>>,
                                    !.bdata = IF Len(@) < info.length THEN [k \in 1..info.length |-> 0] ELSE @]
              /\ UNCHANGED pc
  /\ UNCHANGED <<chain, file, window, stream, merge_input, tmp, input_i, todo, out>>

\* The next instruction, or as much of it as fits.
OutputInstruction ==
  /\ pc = "output" /\ rec.on
  /\ rec.pos < rec.size /\ rec.inst_pos < Len(stream.inst)
  /\ LET k == rec.inst_pos + 1
         i == stream.inst[k]
         take == IF i.size < rec.size - rec.pos THEN i.size ELSE rec.size - rec.pos
         after == EncodeInst(rec, stream, i, take)
     IN  /\ rec' = [after EXCEPT !.pos = @ + take, !.output_pos = @ + take,
                                 !.inst_pos = IF take = i.size THEN @ + 1 ELSE @]
         /\ stream' = IF take = i.size THEN stream
                      ELSE [stream EXCEPT !.inst[k].size = @ - take,
                                          !.inst[k].addr = IF i.type # "RUN" THEN @ + take ELSE @]
  /\ UNCHANGED <<chain, file, window, merge_input, tmp, input_i, todo, out, pc>>

\* The window is encoded and written.
EndWindow ==
  /\ pc = "output" /\ rec.on
  /\ rec.pos = rec.size \/ rec.inst_pos = Len(stream.inst)
  /\ out' = Append(out, EncodeWindow(rec))
  /\ rec' = [rec EXCEPT !.on = FALSE]
  /\ UNCHANGED <<chain, file, window, stream, merge_input, tmp, input_i, todo, pc>>

Finish ==
  /\ pc = "output" /\ ~rec.on
  /\ rec.inst_pos = Len(stream.inst) /\ out # <<>>
  /\ pc' = "done"
  /\ UNCHANGED <<chain, file, window, stream, merge_input, tmp, input_i, todo, rec, out>>

Ended == pc \in {"done", "failed"} /\ UNCHANGED vars

Next ==
  \/ ReadWindow \/ AppendInstruction \/ WindowIsRead \/ FirstArgument
  \/ BeginMerge \/ MergeInstruction \/ SourceCopy \/ SourcePiece \/ SourceReturn \/ EndMerge \/ NoArguments
  \/ BeginWindow \/ OutputInstruction \/ EndWindow \/ Finish
  \/ Ended

Spec == Init /\ [][Next]_vars

-----------------------------------------------------------------------------
(***************************************************************************)
(* What a delta means, and properties.                                     *)
(***************************************************************************)

\* What the decoder accepts of a window: copies from what is there already, of which those
\* from the source stay within it.  No instruction is empty.
WellFormed(srclen, win) ==
  /\ win.cpyoff + win.cpylen <= srclen
  /\ \A k \in 1..Len(win.inst) :
       LET i == win.inst[k]
       IN  /\ i.size > 0
           /\ i.type = "CPY" => /\ i.addr < win.cpylen + Sizes(win.inst, k - 1)
                                /\ i.addr < win.cpylen => i.addr + i.size <= win.cpylen

\* The bytes so far, with those of an instruction.  A copy may read bytes it has just written.
Grown(bytes, i) ==
  LET copied[k \in 1..i.size] ==
        IF i.addr + k <= Len(bytes) THEN bytes[i.addr + k] ELSE copied[i.addr + k - Len(bytes)]
  IN  bytes \o (IF i.type = "ADD" THEN i.bytes
                ELSE IF i.type = "RUN" THEN [k \in 1..i.size |-> i.bytes[1]]
                ELSE copied)

\* The address space of a window when all its instructions are done, and what is new in it.
Space(source, win) ==
  LET grown[n \in 0..Len(win.inst)] ==
        IF n = 0 THEN SubSeq(source, win.cpyoff + 1, win.cpyoff + win.cpylen)
        ELSE Grown(grown[n - 1], win.inst[n])
  IN  grown[Len(win.inst)]

Produced(source, win) ==
  SubSeq(Space(source, win), win.cpylen + 1, win.cpylen + Sizes(win.inst, Len(win.inst)))

Decoded(source, delta) ==
  LET text[n \in 0..Len(delta)] == IF n = 0 THEN <<>> ELSE text[n - 1] \o Produced(source, delta[n])
  IN  text[Len(delta)]

\* The texts the first deltas of a chain lead to, from none to all.
Texts(c) ==
  LET text[n \in 0..Len(c)] == IF n = 0 THEN Source ELSE Decoded(text[n - 1], c[n])
  IN  text

\* How many bytes the first k windows of a delta make.
Total(delta, k) ==
  LET sum[n \in 0..k] == IF n = 0 THEN 0 ELSE sum[n - 1] + Sizes(delta[n].inst, Len(delta[n].inst))
  IN  sum[k]

\* The length of the text below the k'th delta.
BaseLength(c, k) == IF k = 1 THEN Len(Source) ELSE Total(c[k - 1], Len(c[k - 1]))

\* No delta of the chain copies from beyond the text it is against.
Fits(c) == \A k \in 1..Len(c) : \A n \in 1..Len(c[k]) : WellFormed(BaseLength(c, k), c[k][n])

\* The merged delta is one the decoder accepts, and applied to the first source it yields what
\* the deltas of the chain yield one after the other; deltas that belong together are never
\* refused (xd3_merge_inputs, main_merge_output).
MergedDeltaDecodes ==
  Fits(chain) =>
    /\ pc # "failed"
    /\ \A k \in 1..Len(out) : WellFormed(Len(Source), out[k])
    /\ pc = "done" => Decoded(Source, out) = Texts(chain)[Len(chain)]

\* Where the first k instructions of a state end.
End(inst, k) == IF k = 0 THEN 0 ELSE inst[k].position + inst[k].size

\* The instructions of a state being built follow each other without a gap, none is empty, what
\* they add is there, and their copies look back within the window they are in, or into the
\* text below: what xd3_merge_find_position searches by, and main_merge_output asserts.
Tiles(w, base) ==
  \A k \in 1..Len(w.inst) :
    LET i == w.inst[k]
    IN  /\ i.size > 0
        /\ i.position = End(w.inst, k - 1)
        /\ i.type # "CPY" => i.addr + (IF i.type = "RUN" THEN 1 ELSE i.size) <= Len(w.adds)
        /\ i.mode = "SOURCE" => i.addr + i.size <= base
        /\ i.mode = "HERE" =>
             \E n \in 1..Len(w.wininfo) :
               LET info == w.wininfo[n]
               IN  /\ info.offset <= i.addr /\ i.addr < i.position
                   /\ i.position + i.size <= info.offset + info.length

\* No address is missed.
Complete(w) == w.length = End(w.inst, Len(w.inst))

\* What xd3_merge_inputs and xd3_merge_source_copy assert of the instruction they are at.
AssertsHold ==
  /\ (pc = "merge" /\ todo = <<>> /\ input_i < Len(stream.inst)) =>
       tmp.length = stream.inst[input_i + 1].position
  /\ (todo # <<>> /\ todo[Len(todo)].size > 0) =>
       LET iinst == todo[Len(todo)]
           sinst == merge_input.inst[iinst.sinst_num]
       IN  /\ iinst.sinst_num <= Len(merge_input.inst)
           /\ sinst.position <= iinst.addr /\ iinst.addr < sinst.position + sinst.size

\* Every state is such a list, at every step, also in the middle of a copy that is being
\* followed: what is merged copies only from the first source, no assertion fails, and no copy
\* leads out of the text.
InstructionsTile ==
  (Fits(chain) /\ pc \in {"read", "append", "merge"}) =>
    /\ Tiles(merge_input, Len(Source)) /\ Complete(merge_input)
    /\ Tiles(tmp, Len(Source)) /\ (todo = <<>> => Complete(tmp))
    /\ Tiles(stream, BaseLength(chain, file)) /\ Complete(stream)
    /\ AssertsHold /\ tmp.ret = 0
=============================================================================
