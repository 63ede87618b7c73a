---------------------------- MODULE DeltaReader ----------------------------
(***************************************************************************)
(* The reading half of a DeltaFile: stream_read and the loop of            *)
(* do_processing in deltamodule.c, and the states of xd3_decode_input that *)
(* gather a window from input that comes in pieces and decode it.          *)
(*                                                                         *)
(* The bytes of the delta are the numbers 1, 2, ... of their places in the *)
(* target file, those of the decoded content 1, 2, ... likewise.  Of a     *)
(* window it matters how many bytes its header and its three sections have *)
(* and how many it decodes to; the file's own header counts as part of the *)
(* first window's.  The buffer of buffer.c is the queue that ByteBuffer    *)
(* implements.  A caller that reads on after the decoder raised an error   *)
(* is left out: that is not an end the stream remembers.                   *)
(***************************************************************************)
EXTENDS Integers, Sequences

CONSTANTS
  WinSize,      \* stream->winsize: how much is read at a time
  Headers,      \* lengths of a window's header
  Sizes,        \* lengths of a section
  Contents,     \* lengths of a decoded window
  MaxWindows,   \* bound: windows of a delta
  Wants,        \* the arguments of read
  All,          \* no argument, and no limit
  MaxReads,     \* bound: calls of read
  MaxFailures   \* bound: failures of the target's read method and of buffer_append

ASSUME ReaderAssumption ==
  /\ WinSize \in Nat \ {0}
  /\ Headers \subseteq Nat \ {0}
  /\ Sizes \subseteq Nat /\ Contents \subseteq Nat
  /\ Wants \subseteq Nat \cup {All} /\ All \notin Nat
  /\ {MaxWindows, MaxReads, MaxFailures} \subseteq Nat

SectionStates == {"DEC_DATA", "DEC_INST", "DEC_ADDR"}
After == [DEC_DATA |-> "DEC_INST", DEC_INST |-> "DEC_ADDR", DEC_ADDR |-> "DEC_EMIT"]
Windows == [header : Headers, DEC_DATA : Sizes, DEC_INST : Sizes, DEC_ADDR : Sizes,
            content : Contents]

VARIABLES
  \* the target file: a delta, or the first length bytes of one
  delta,
  length,
  fpos,
  \* stream_read and do_processing
  pc,          \* "idle", "input", "process", "output"; "broken" after a decoder's error
  asked,       \* num_bytes of the call
  remaining,   \* All for no limit
  dest,        \* the string to be returned
  short,
  \* the xd3_stream
  dec_state,   \* DEC_WININD stands for all the states of a header
  window,      \* the number of the window
  pos,         \* bytes gathered of the header or section
  sects,       \* the sections: their bytes, and whether they lie in the caller's string
  next_in,     \* the avail_in bytes of input
  next_out,    \* the avail_out bytes of output
  \* Stream.buffer
  overflow,
  \* what callers were given, what was lost, whether the last read raised and how
  \* many bytes it returned; bounds
  given,
  dropped,
  ok,
  returned,
  reads,
  failures

file == <<delta, length>>
call == <<asked, reads>>
result == <<given, ok, returned>>
vars == <<file, fpos, pc, call, remaining, dest, short, dec_state, window, pos, sects,
          next_in, next_out, overflow, result, dropped, failures>>
decoder == <<dec_state, window, pos, sects, next_in>>

Least(m, n) == IF m < n THEN m ELSE n
Chunk(s, n) == SubSeq(s, 1, Least(n, Len(s)))
Beyond(s, n) == SubSeq(s, Least(n, Len(s)) + 1, Len(s))
From(start, n) == [i \in 1..n |-> start + i]
Bytes(s) == {s[i] : i \in 1..Len(s)}

SectionsSize(w) == w.DEC_DATA + w.DEC_INST + w.DEC_ADDR
EncodedSize(w) == w.header + SectionsSize(w)

\* The sizes of the delta's windows, encoded and decoded.
Encoded == [k \in DOMAIN delta |-> EncodedSize(delta[k])]
Content == [k \in DOMAIN delta |-> delta[k].content]

\* The size of the first k windows.
Before(sizes, k) ==
  LET sum[i \in 0..k] == IF i = 0 THEN 0 ELSE sum[i - 1] + sizes[i]
  IN  sum[k]

NoSections == [s \in SectionStates |-> [bytes |-> <<>>, borrowed |-> FALSE]]

Init ==
  /\ delta \in UNION {[1..n -> Windows] : n \in 0..MaxWindows}
  /\ length \in 0..Before(Encoded, Len(delta))
  /\ fpos = 0
  /\ pc = "idle" /\ asked = 0 /\ remaining = 0 /\ dest = <<>> /\ short = FALSE
  /\ dec_state = "DEC_WININD" /\ window = 1 /\ pos = 0 /\ sects = NoSections
  /\ next_in = <<>> /\ next_out = <<>>
  /\ overflow = <<>>
  /\ given = <<>> /\ ok = TRUE /\ returned = 0 /\ dropped = {}
  /\ reads = 0 /\ failures = 0

-----------------------------------------------------------------------------
(* stream_read and do_processing. *)

\* What is in the buffer is taken first; whatever that yields, input is read.
Read(want) ==
  LET got == IF want = All THEN Len(overflow) ELSE Least(want, Len(overflow))
  IN  /\ pc = "idle"
      /\ reads < MaxReads
      /\ reads' = reads + 1
      /\ asked' = want
      /\ dest' = Chunk(overflow, got)
      /\ overflow' = Beyond(overflow, got)
      /\ remaining' = IF want = All THEN All ELSE want - got
      /\ pc' = "input"
      /\ UNCHANGED <<file, fpos, short, decoder, next_out, result, dropped, failures>>

Succeed ==
  /\ pc' = "idle"
  /\ given' = given \o dest
  /\ returned' = Len(dest)
  /\ ok' = TRUE
  /\ dest' = <<>>
  /\ UNCHANGED dropped

\* The string that was to be returned is dropped with all that is in it.
Raise(next) ==
  /\ pc' = next
  /\ dropped' = dropped \cup Bytes(dest)
  /\ ok' = FALSE
  /\ dest' = <<>>
  /\ UNCHANGED <<given, returned>>

\* read_from_file and xd3_avail_input: the target returns a piece, shorter than was
\* asked for at its end, and elsewhere if it is a pipe or a socket.
ReadInput ==
  /\ pc = "input"
  /\ \E n \in 0..Least(WinSize, length - fpos) :
       /\ fpos < length => n > 0
       /\ next_in' = From(fpos, n)
       /\ fpos' = fpos + n
       /\ short' = (n < WinSize)
  /\ pc' = "process"
  /\ UNCHANGED <<file, call, remaining, dest, dec_state, window, pos, sects, next_out,
                 overflow, result, dropped, failures>>

\* The target's read method raises.
ReadInputFails ==
  /\ pc = "input"
  /\ failures < MaxFailures
  /\ failures' = failures + 1
  /\ Raise("idle")
  /\ UNCHANGED <<file, fpos, call, remaining, short, decoder, next_out, overflow>>

\* Mutant: the end of the input is no reason to stop.
MoreInput_Always ==
  IF remaining = 0 THEN Succeed
  ELSE pc' = "input" /\ UNCHANGED <<dest, result, dropped>>

\* Mutant: a call that has something to return does not read on.
MoreInput_UntilSome ==
  IF short \/ dest # <<>> THEN Succeed
  ELSE pc' = "input" /\ UNCHANGED <<dest, result, dropped>>

\* XD3_INPUT: more is read unless the last piece was short or enough was output.
MoreInput ==
  IF short \/ remaining = 0 THEN Succeed
  ELSE pc' = "input" /\ UNCHANGED <<dest, result, dropped>>

\* How much of the output the caller gets.
Fits == IF remaining = All THEN Len(next_out) ELSE Least(remaining, Len(next_out))

Output(rest) ==
  /\ pc = "output"
  /\ dest' = dest \o Chunk(next_out, Fits)
  /\ remaining' = IF remaining = All THEN All ELSE remaining - Fits
  /\ overflow' = overflow \o rest
  /\ next_out' = <<>>
  /\ pc' = "process"
  /\ UNCHANGED <<file, fpos, call, short, decoder, result>>

\* Mutant: all of a window's output is put into the buffer.
OutputWindow_Twice ==
  /\ Output(IF Fits < Len(next_out) THEN next_out ELSE <<>>)
  /\ UNCHANGED <<dropped, failures>>

\* XD3_OUTPUT: what the caller did not ask for goes to the buffer.
OutputWindow ==
  /\ Output(Beyond(next_out, Fits))
  /\ UNCHANGED <<dropped, failures>>

\* buffer_append fails, and nobody asks.
OutputLosesRest ==
  /\ Fits < Len(next_out)
  /\ failures < MaxFailures
  /\ Output(<<>>)
  /\ failures' = failures + 1
  /\ dropped' = dropped \cup Bytes(Beyond(next_out, Fits))

-----------------------------------------------------------------------------
(* xd3_decode_input. *)

Decoding(states) ==
  /\ pc = "process"
  /\ dec_state \in states
  /\ UNCHANGED <<file, fpos, call, remaining, short, overflow, failures>>

\* The decoder goes on without asking for input.
GoesOn == UNCHANGED <<pc, dest, result, dropped>>

\* A header is gathered byte by byte, from as many pieces as it takes.
DecodeHeader ==
  LET need == IF window <= Len(delta) THEN delta[window].header - pos ELSE 0
      take == Least(need, Len(next_in))
  IN  /\ Decoding({"DEC_WININD"})
      /\ next_in' = Beyond(next_in, take)
      /\ IF take = need /\ window <= Len(delta)
         THEN dec_state' = "DEC_DATA" /\ pos' = 0 /\ GoesOn
         ELSE pos' = pos + take /\ MoreInput /\ UNCHANGED dec_state
      /\ UNCHANGED <<window, sects, next_out>>

\* The bytes of the window's sections that have come, and that are yet to come.
SectionsDone ==
  (IF dec_state = "DEC_DATA" THEN 0 ELSE delta[window].DEC_DATA)
  + (IF dec_state = "DEC_ADDR" THEN delta[window].DEC_INST ELSE 0) + pos
More == SectionsSize(delta[window]) - SectionsDone

\* Mutant: a section is used where it lies if all of it is there.
InPlace_PerSection ==
  pos = 0 /\ delta[window][dec_state] <= Len(next_in)

\* A section is used where it lies only if the rest of the window is there too.
InPlace == pos = 0 /\ More <= Len(next_in)

\* Mutant: every piece of a section is put at its start.
DecodeSection_AtStart ==
  LET total == delta[window][dec_state]
      take == Least(total - pos, Len(next_in))
  IN  /\ Decoding(SectionStates)
      /\ sects' = [sects EXCEPT ![dec_state] =
                     [bytes |-> Chunk(next_in, take), borrowed |-> InPlace /\ total > 0]]
      /\ next_in' = Beyond(next_in, take)
      /\ IF pos + take = total
         THEN dec_state' = After[dec_state] /\ pos' = 0 /\ GoesOn
         ELSE pos' = pos + take /\ MoreInput /\ UNCHANGED dec_state
      /\ UNCHANGED <<window, next_out>>

\* xd3_decode_section
DecodeSection ==
  LET total == delta[window][dec_state]
      take == Least(total - pos, Len(next_in))
      start == IF pos = 0 THEN <<>> ELSE sects[dec_state].bytes
  IN  /\ Decoding(SectionStates)
      /\ sects' = [sects EXCEPT ![dec_state] =
                     [bytes |-> start \o Chunk(next_in, take),
                      borrowed |-> InPlace /\ total > 0]]
      /\ next_in' = Beyond(next_in, take)
      /\ IF pos + take = total
         THEN dec_state' = After[dec_state] /\ pos' = 0 /\ GoesOn
         ELSE pos' = pos + take /\ MoreInput /\ UNCHANGED dec_state
      /\ UNCHANGED <<window, next_out>>

\* xd3_decode_emit
EmitWindow ==
  /\ Decoding({"DEC_EMIT"})
  /\ next_out' = From(Before(Content, window - 1), delta[window].content)
  /\ dec_state' = "DEC_FINISH"
  /\ pc' = "output"
  /\ UNCHANGED <<window, pos, sects, next_in, dest, result, dropped>>

\* A window that cannot be decoded: it is corrupt, or a block of the source is missing.
EmitFails ==
  /\ Decoding({"DEC_EMIT"})
  /\ Raise("broken")
  /\ UNCHANGED <<decoder, next_out>>

FinishWindow ==
  /\ Decoding({"DEC_FINISH"})
  /\ window' = window + 1
  /\ dec_state' = "DEC_WININD"
  /\ GoesOn
  /\ UNCHANGED <<pos, sects, next_in, next_out>>

Process ==
  \/ ReadInput
  \/ ReadInputFails
  \/ OutputWindow
  \/ OutputLosesRest
  \/ DecodeHeader
  \/ DecodeSection
  \/ EmitWindow
  \/ EmitFails
  \/ FinishWindow

Next == (\E want \in Wants : Read(want)) \/ Process

\* A call of read runs to its end: the module has one thread.
Spec == Init /\ [][Next]_vars /\ WF_vars(Process)

-----------------------------------------------------------------------------
\* The windows that the file holds to their ends, and what they decode to.
Whole == {k \in 0..Len(delta) : Before(Encoded, k) <= length}
AllDecoded == \A k \in Whole : k < window
Decoded == Before(Content,
             IF dec_state = "DEC_FINISH" THEN window ELSE window - 1)

\* Every byte decoded so far was given to a caller, is on its way to one, waits in
\* the buffer or was lost with a failure; the ones not lost are in order and there
\* once, whatever the sizes asked for and wherever the pieces of input ended.
Kept == given \o dest \o overflow \o next_out
InOrder ==
  /\ \A i, j \in 1..Len(Kept) : i < j => Kept[i] < Kept[j]
  /\ Bytes(Kept) \cup dropped = 1..Decoded
  /\ Bytes(Kept) \cap dropped = {}
  /\ failures = 0 /\ pc # "broken" => dropped = {}

\* A read that succeeds returns the number of bytes asked for, or else all there is to
\* have, nothing left waiting in the buffer: the target returned a short piece (which a
\* pipe may do before its end), and once it was read to its end, all windows that it
\* holds whole are decoded.
FewerOnlyAtTheEnd ==
  pc = "idle" /\ ok /\ reads > 0 =>
    \/ returned = asked
    \/ /\ asked # All => returned < asked
       /\ overflow = <<>>
       /\ short
       /\ fpos = length => AllDecoded

\* A section that lies in the string of one piece of input is decoded before that
\* string is dropped: when the next piece is read, every section gathered so far of
\* the window at hand was copied.
NoDanglingSection ==
  pc \in {"idle", "input"} =>
    /\ dec_state \in {"DEC_INST", "DEC_ADDR"} => ~ sects.DEC_DATA.borrowed
    /\ dec_state = "DEC_ADDR" => ~ sects.DEC_INST.borrowed
    /\ dec_state \notin {"DEC_EMIT", "DEC_FINISH"}

\* However the delta was cut into pieces, the sections that are decoded are the
\* window's: the bytes of the file at its place.
SectionsAreRight ==
  dec_state = "DEC_EMIT" =>
    LET w == delta[window]
        start == Before(Encoded, window - 1) + w.header
    IN  /\ sects.DEC_DATA.bytes = From(start, w.DEC_DATA)
        /\ sects.DEC_INST.bytes = From(start + w.DEC_DATA, w.DEC_INST)
        /\ sects.DEC_ADDR.bytes = From(start + w.DEC_DATA + w.DEC_INST, w.DEC_ADDR)

\* Every read returns or raises.
ReadsReturn == pc \in {"input", "process", "output"} ~> pc \in {"idle", "broken"}
=============================================================================
