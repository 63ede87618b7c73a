---------------------------- MODULE DeltaWriter ----------------------------
(***************************************************************************)
(* The writing half of a DeltaFile: the calls of xdelta.py, the loop of    *)
(* do_processing in deltamodule.c, and the states of xd3_encode_input that *)
(* cut what is written into windows and hand each out page by page.        *)
(*                                                                         *)
(* Bytes are the numbers 1, 2, ... in the order callers wrote them.  A     *)
(* window is known by the bytes it encodes; how it encodes them is left    *)
(* out, but not that it leaves the encoder as one or more pages of output, *)
(* each of which the target's write method may refuse.                     *)
(***************************************************************************)
EXTENDS Integers, Sequences

CONSTANTS
  WinSize,      \* stream->winsize
  Contents,     \* lengths of the strings callers write
  Pages,        \* numbers of pages a window's output may fill
  Sources,      \* source files a caller may assign
  NoSource,
  None,         \* a null pointer
  MaxBytes,     \* bound: bytes written
  MaxPages,     \* bound: pages in the target when a flush is called
  MaxFailures   \* bound: calls of the target's write method that raise

ASSUME WriterAssumption ==
  /\ WinSize \in Nat \ {0}
  /\ Contents \subseteq Nat
  /\ Pages \subseteq Nat \ {0}
  /\ {MaxBytes, MaxPages, MaxFailures} \subseteq Nat
  /\ None \notin Seq(Nat)

VARIABLES
  \* the DeltaFile
  mode,        \* "writing", "reading" once open was called, "closed"
  call,        \* the method that runs: "none", "write", "flush", "close"
  result,      \* the last method that returned, and whether it raised
  \* do_processing
  pc,          \* "idle", "input", "process", "output", "closing"
  rest,        \* what is not yet read of the string to encode
  short,       \* the last piece read was shorter than a window
  \* the xd3_stream
  enc_state,
  flush,       \* XD3_FLUSH is set
  next_in,     \* the avail_in bytes of input
  buf_in,      \* the first buf_avail bytes of it
  leftover,    \* the bytes of buf_leftover
  page,        \* enc_current, and the number of pages in its list
  pages,
  avail_out,   \* the page is yet to be consumed
  source,
  \* the target file, page by page; how many bytes were written, and which of them
  \* complete windows of the file encode; and failures of the target
  file,
  written,
  committed,
  failures

deltafile == <<mode, call, result>>
processing == <<pc, rest, short>>
input == <<next_in, buf_in, leftover>>
output == <<page, pages, avail_out>>
world == <<file, committed, failures>>
vars == <<deltafile, processing, enc_state, flush, input, output, source, world, written>>

Least(m, n) == IF m < n THEN m ELSE n
Chunk(s, n) == SubSeq(s, 1, Least(n, Len(s)))
Beyond(s, n) == SubSeq(s, Least(n, Len(s)) + 1, Len(s))

\* A stream that stream_new and stream_init have just made.
FreshStream ==
  /\ enc_state' = "ENC_INIT"
  /\ flush' = FALSE
  /\ next_in' = <<>>
  /\ buf_in' = <<>>
  /\ leftover' = None
  /\ page' = 0
  /\ pages' = 0
  /\ avail_out' = FALSE

Init ==
  /\ mode = "writing" /\ call = "none" /\ result = <<"none", TRUE>>
  /\ pc = "idle" /\ rest = <<>> /\ short = FALSE
  /\ enc_state = "ENC_INIT" /\ flush = FALSE
  /\ next_in = <<>> /\ buf_in = <<>> /\ leftover = None
  /\ page = 0 /\ pages = 0 /\ avail_out = FALSE
  /\ source = NoSource
  /\ file = <<>> /\ written = 0 /\ committed = <<>> /\ failures = 0

-----------------------------------------------------------------------------
(* The methods of a DeltaFile. *)

\* do_processing is called on s.
Run(method, s) ==
  /\ call' = method
  /\ rest' = s
  /\ pc' = "input"
  /\ UNCHANGED <<mode, result, short, enc_state, input, output, source, world>>

\* Mutant: a flush leaves XD3_FLUSH set.
Return_KeepsFlush(ok) ==
  /\ rest' = <<>>
  /\ IF ok /\ call = "close"
     THEN pc' = "closing" /\ UNCHANGED <<call, result>>
     ELSE pc' = "idle" /\ call' = "none" /\ result' = <<call, ok>>
  /\ UNCHANGED <<mode, short, flush>>

\* do_processing returns to the method, and the method to its caller.
Return(ok) ==
  /\ flush' = FALSE
  /\ rest' = <<>>
  /\ IF ok /\ call = "close"
     THEN pc' = "closing" /\ UNCHANGED <<call, result>>
     ELSE pc' = "idle" /\ call' = "none" /\ result' = <<call, ok>>
  /\ UNCHANGED <<mode, short>>

\* DeltaFile.write, stream_write
Write(n) ==
  /\ pc = "idle" /\ mode = "writing"
  /\ written + n <= MaxBytes
  /\ written' = written + n
  /\ Run("write", [i \in 1..n |-> written + i])
  /\ UNCHANGED flush

\* DeltaFile.flush and the flush in DeltaFile.close: stream_flush writes nothing
\* when the encoder has never run.
Flush(method) ==
  /\ pc = "idle" /\ mode # "closed"
  /\ \/ /\ enc_state # "ENC_INIT" /\ Len(file) < MaxPages
        /\ flush' = TRUE
        /\ Run(method, <<>>)
     \/ /\ enc_state = "ENC_INIT"
        /\ IF method = "close"
           THEN pc' = "closing" /\ call' = "close" /\ UNCHANGED result
           ELSE result' = <<"flush", TRUE>> /\ UNCHANGED <<pc, call>>
        /\ UNCHANGED <<mode, rest, short, enc_state, flush, input, output, source, world>>
  /\ UNCHANGED written

\* The rest of DeltaFile.close: the stream is dropped, and assigning None to the
\* source makes another.
Discard ==
  /\ pc = "closing"
  /\ FreshStream
  /\ source' = NoSource
  /\ mode' = "closed" /\ pc' = "idle" /\ call' = "none" /\ result' = <<"close", TRUE>>
  /\ UNCHANGED <<rest, short, world, written>>

\* DeltaFile.open, to read what was written: another stream, with the same source.
Open ==
  /\ pc = "idle" /\ mode = "writing"
  /\ FreshStream
  /\ mode' = "reading" /\ result' = <<"open", TRUE>>
  /\ UNCHANGED <<call, processing, source, world, written>>

\* Mutant: only an encoder that is busy with a window is in progress.
InProgress_Window == enc_state \notin {"ENC_INIT", "ENC_INPUT"}

\* in_progress, of a stream that does not decode
InProgress == enc_state # "ENC_INIT"

\* DeltaFile.source, stream_set_source
SetSource(s) ==
  /\ pc = "idle" /\ mode # "closed"
  /\ ~ InProgress
  /\ source' = s
  /\ UNCHANGED <<deltafile, processing, enc_state, flush, input, output, world, written>>

-----------------------------------------------------------------------------
(* The loop of do_processing, and what xd3_encode_input does in each state. *)

\* Mutant: the loop goes on until nothing at all remains to be read.
ReadInput_NeverShort ==
  /\ pc = "input"
  /\ next_in' = Chunk(rest, WinSize)
  /\ rest' = Beyond(rest, WinSize)
  /\ short' = FALSE
  /\ pc' = "process"
  /\ UNCHANGED <<deltafile, enc_state, flush, buf_in, leftover, output, source, world,
                 written>>

\* read_from_string and xd3_avail_input
ReadInput ==
  /\ pc = "input"
  /\ next_in' = Chunk(rest, WinSize)
  /\ rest' = Beyond(rest, WinSize)
  /\ short' = (Len(rest) < WinSize)
  /\ pc' = "process"
  /\ UNCHANGED <<deltafile, enc_state, flush, buf_in, leftover, output, source, world,
                 written>>

\* XD3_INPUT: another piece is read unless the last was short.
MoreInput ==
  IF short THEN Return(TRUE)
  ELSE pc' = "input" /\ UNCHANGED <<deltafile, rest, short, flush>>

Working == pc = "process" /\ UNCHANGED <<source, world, written>>

\* What is in buf_in once the leftover input of the last window is in it.
Held == IF leftover # None THEN leftover ELSE buf_in

\* What is in buf_in when as much as fits of the input is copied after that.
Room == WinSize - Len(Held)
Filled(in) == Held \o Chunk(in, Room)

\* Mutant: full windows are taken from the input even while some is buffered.
Buffers_UnlessFull(in) == leftover # None \/ (Len(in) < WinSize /\ ~ flush)

\* Input goes through the buffer if some is there or it makes no window by itself.
Buffers(in) == leftover # None \/ buf_in # <<>> \/ (Len(in) < WinSize /\ ~ flush)

\* Mutant: a flush does not cut a window from input that is buffered.
Cuts_IgnoresFlush(in) == Len(in) > Room \/ Len(Filled(in)) = WinSize

\* Mutant: a buffer that is exactly full waits for more.
Cuts_WhenOverfull(in) == Len(in) > Room \/ flush

\* The buffer makes a window once it is full or flushed.
Cuts(in) == Len(in) > Room \/ Len(Filled(in)) = WinSize \/ flush

\* The label enc_flush of xd3_encode_input and xd3_encode_buffer_leftover.
Cut(in) ==
  IF ~ Buffers(in)
  THEN [window |-> TRUE, next |-> in, buf |-> buf_in, left |-> leftover]
  ELSE [window |-> Cuts(in),
        next |-> IF Cuts(in) THEN Filled(in) ELSE in,
        buf |-> IF Cuts(in) THEN <<>> ELSE Filled(in),
        left |-> IF Len(in) > Room THEN Beyond(in, Room) ELSE None]

TakeInput(in) ==
  LET c == Cut(in)
  IN  /\ next_in' = c.next
      /\ buf_in' = c.buf
      /\ leftover' = c.left
      /\ IF c.window
         THEN enc_state' = "ENC_SEARCH" /\ UNCHANGED <<deltafile, processing, flush>>
         ELSE enc_state' = "ENC_INPUT" /\ MoreInput

\* ENC_INIT and ENC_INPUT
BeginWindow ==
  /\ Working
  /\ enc_state \in {"ENC_INIT", "ENC_INPUT"}
  /\ TakeInput(next_in)
  /\ UNCHANGED output

\* ENC_SEARCH, ENC_INSTR and ENC_FLUSH: the window is encoded, its first page is output.
EncodeWindow ==
  /\ Working
  /\ enc_state = "ENC_SEARCH"
  /\ pages' \in Pages
  /\ page' = 1
  /\ avail_out' = TRUE
  /\ enc_state' = "ENC_POSTOUT"
  /\ pc' = "output"
  /\ UNCHANGED <<deltafile, rest, short, flush, input>>

\* ENC_POSTOUT
NextPage ==
  /\ Working
  /\ enc_state = "ENC_POSTOUT" /\ ~ avail_out /\ page < pages
  /\ page' = page + 1
  /\ avail_out' = TRUE
  /\ pc' = "output"
  /\ UNCHANGED <<deltafile, rest, short, enc_state, flush, input, pages>>

FinishWindow ==
  /\ Working
  /\ enc_state = "ENC_POSTOUT" /\ ~ avail_out /\ page = pages
  /\ enc_state' = "ENC_POSTWIN"
  /\ UNCHANGED <<deltafile, processing, flush, input, output>>

\* "missed call to consume output"
MissedOutput ==
  /\ Working
  /\ enc_state = "ENC_POSTOUT" /\ avail_out
  /\ Return(FALSE)
  /\ UNCHANGED <<enc_state, input, output>>

\* Mutant: a window is never cut from leftover input at once.
ResetWindow_NoRepeat ==
  /\ Working
  /\ enc_state = "ENC_POSTWIN"
  /\ page' = 0 /\ pages' = 0
  /\ enc_state' = "ENC_INPUT"
  /\ next_in' = <<>>
  /\ MoreInput
  /\ UNCHANGED <<buf_in, leftover, avail_out>>

\* ENC_POSTWIN and xd3_encode_reset
ResetWindow ==
  /\ Working
  /\ enc_state = "ENC_POSTWIN"
  /\ page' = 0 /\ pages' = 0
  /\ IF leftover # None
     THEN TakeInput(<<>>)
     ELSE /\ enc_state' = "ENC_INPUT"
          /\ next_in' = <<>>
          /\ MoreInput
          /\ UNCHANGED <<buf_in, leftover>>
  /\ UNCHANGED avail_out

\* write_to_file and xd3_consume_output
OutputPage ==
  /\ pc = "output"
  /\ file' = Append(file, [bytes |-> next_in, page |-> page, pages |-> pages,
                           call |-> call, source |-> source])
  /\ committed' = IF page = pages THEN committed \o next_in ELSE committed
  /\ avail_out' = FALSE
  /\ pc' = "process"
  /\ UNCHANGED <<deltafile, rest, short, enc_state, flush, input, page, pages, source, written,
                 failures>>

\* Mutant: a page that could not be written counts as consumed.
OutputFails_Consumes ==
  /\ pc = "output"
  /\ failures < MaxFailures
  /\ failures' = failures + 1
  /\ avail_out' = FALSE
  /\ Return(FALSE)
  /\ UNCHANGED <<enc_state, input, page, pages, source, file, committed, written>>

\* The target's write method raises.
OutputFails ==
  /\ pc = "output"
  /\ failures < MaxFailures
  /\ failures' = failures + 1
  /\ Return(FALSE)
  /\ UNCHANGED <<enc_state, input, output, source, file, committed, written>>

Process ==
  \/ ReadInput
  \/ BeginWindow
  \/ EncodeWindow
  \/ NextPage
  \/ FinishWindow
  \/ MissedOutput
  \/ ResetWindow
  \/ OutputPage
  \/ OutputFails
  \/ Discard

Next ==
  \/ \E n \in Contents : Write(n)
  \/ Flush("flush")
  \/ Flush("close")
  \/ Open
  \/ \E s \in Sources \cup {NoSource} : SetSource(s)
  \/ Process

\* A method that was called runs to its end: the module has one thread.
Spec == Init /\ [][Next]_vars /\ WF_vars(Process)

-----------------------------------------------------------------------------
Numbers(s) == \A i \in 1..Len(s) : s[i] \in 1..written

\* xd3_encode_buffer_leftover asserts of the leftover input that nothing else is
\* buffered and that it is shorter than a window; a full buffer never waits.
BufferFits ==
  /\ leftover # None => buf_in = <<>> /\ Len(leftover) < WinSize
  /\ Len(buf_in) < WinSize

\* What the encoder has in hand, in order.
InWindow ==
  \/ enc_state = "ENC_SEARCH"
  \/ enc_state = "ENC_POSTOUT" /\ (avail_out \/ page < pages)
InHand ==
  (IF InWindow THEN next_in ELSE <<>>)
    \o Held
    \o (IF pc = "process" /\ enc_state \in {"ENC_INIT", "ENC_INPUT"} THEN next_in ELSE <<>>)
    \o rest

Stuck == enc_state = "ENC_POSTOUT" /\ avail_out /\ pc # "output"

\* While nothing has failed, the complete windows of the file followed by what the
\* encoder has in hand are the bytes written, each once and in order: whatever the
\* sizes of the strings, between calls and in the middle of them.
ConservesContent ==
  mode = "writing" /\ ~ Stuck => committed \o InHand = [i \in 1..written |-> i]

\* A write never ends a window early, however short its string is and whatever was
\* flushed before: only flush and close cut windows short.
WindowsAreFull ==
  \A i \in 1..Len(file) :
    /\ Len(file[i].bytes) <= WinSize
    /\ file[i].call = "write" => Len(file[i].bytes) = WinSize

\* The file is the pages of its windows in order, without a gap even after failures:
\* only its last window may be torn.  One decoder reads it with one source: all its
\* windows were encoded with that.
TornOnlyAtTheEnd ==
  \A i \in 1..Len(file) :
    /\ file[i].source = file[1].source
    /\ IF i = 1 \/ file[i].page = 1
       THEN file[i].page = 1 /\ (i > 1 => file[i - 1].page = file[i - 1].pages)
       ELSE /\ file[i].page = file[i - 1].page + 1
            /\ file[i].bytes = file[i - 1].bytes

\* "Write any pending data to output": when a flush returns, everything written so
\* far is in complete windows of the file.
FlushCommits ==
  result = <<"flush", TRUE>> /\ pc = "idle" /\ mode = "writing" =>
    committed = [i \in 1..written |-> i]

\* Leftover input lies in a string that do_processing drops when it returns: it is
\* used before, or never, because the encoder refuses to go on.
NoDanglingInput == pc = "idle" /\ leftover # None => Stuck

\* Every method that was called returns, even when the target's write method raises.
CallsReturn == pc # "idle" ~> pc = "idle"

\* xdelta.py of write: "this content might not be fully committed until close() is
\* called on the file".  Is it committed then?
CommittedAtClose ==
  result = <<"close", TRUE>> => committed = [i \in 1..written |-> i]
=============================================================================
