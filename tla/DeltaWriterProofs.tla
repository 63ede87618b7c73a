------------------------- MODULE DeltaWriterProofs -------------------------
(***************************************************************************)
(* Theorems about DeltaWriter, for every window size and whatever callers  *)
(* write.  The inductive invariant has five parts: the types, what the     *)
(* place of the program says of the encoder (Control), where input may lie *)
(* (Sizes), what the file's last page says of the encoder's page           *)
(* (LastPage), and the properties themselves.                              *)
(***************************************************************************)
EXTENDS DeltaWriter, SequenceTheorems, TLAPS

Bytes == Seq(Nat)
Methods == {"none", "write", "flush", "close", "open"}
FileSources == Sources \cup {NoSource}
FilePages == [bytes : Bytes, page : Nat, pages : Nat, call : Methods, source : FileSources]

TypeOK ==
  /\ mode \in {"writing", "reading", "closed"}
  /\ call \in Methods
  /\ result \in Methods \X BOOLEAN
  /\ pc \in {"idle", "input", "process", "output", "closing"}
  /\ rest \in Bytes /\ short \in BOOLEAN
  /\ enc_state \in {"ENC_INIT", "ENC_INPUT", "ENC_SEARCH", "ENC_POSTOUT", "ENC_POSTWIN"}
  /\ flush \in BOOLEAN
  /\ next_in \in Bytes /\ buf_in \in Bytes /\ leftover \in Bytes \cup {None}
  /\ page \in Nat /\ pages \in Nat /\ avail_out \in BOOLEAN
  /\ source \in FileSources
  /\ file \in Seq(FilePages) /\ written \in Nat /\ committed \in Bytes /\ failures \in Nat

Begun == enc_state \in {"ENC_INIT", "ENC_INPUT"}
Running == pc \in {"input", "process", "output"}

\* The place of the program, the flag of a flush and the state of the encoder.
Control ==
  /\ pc = "output" => enc_state = "ENC_POSTOUT" /\ avail_out
  /\ enc_state \in {"ENC_SEARCH", "ENC_POSTWIN"} => pc = "process"
  /\ enc_state = "ENC_POSTOUT" /\ ~ avail_out => pc = "process"
  /\ enc_state # "ENC_POSTOUT" => ~ avail_out
  /\ pc = "closing" => Begun
  /\ mode # "writing" => enc_state = "ENC_INIT" /\ pc \in {"idle", "closing"}
  /\ enc_state = "ENC_INIT" => buf_in = <<>>
  /\ enc_state = "ENC_INIT" /\ mode = "writing" => file = <<>> /\ committed = <<>>
  /\ IF Running
     THEN call \in {"write", "flush", "close"} /\ (flush <=> call # "write")
     ELSE ~ flush
  /\ ~ Running \/ call # "write" => rest = <<>>
  /\ pc \in {"process", "output"} /\ short => rest = <<>>

\* Input is buffered between windows and left over within them.
Sizes ==
  /\ Len(next_in) <= WinSize
  /\ IF Begun THEN leftover = None ELSE buf_in = <<>>
  /\ call = "write" /\ ~ Begun /\ enc_state # "ENC_POSTWIN" /\ ~ Stuck =>
       Len(next_in) = WinSize

\* The last window of the file is complete.
Whole == file # <<>> => file[Len(file)].page = file[Len(file)].pages

\* The last page in the file is page n of the window in hand.
Shows(n) ==
  /\ file # <<>>
  /\ file[Len(file)].page = n
  /\ file[Len(file)].pages = pages
  /\ file[Len(file)].bytes = next_in

LastPage ==
  /\ mode = "writing" /\ file # <<>> => file[1].source = source
  /\ mode = "writing" /\ enc_state # "ENC_POSTOUT" => Whole
  /\ enc_state = "ENC_POSTOUT" /\ ~ avail_out => page \in 1..pages /\ Shows(page)
  /\ pc = "output" => page \in 1..pages /\ (IF page = 1 THEN Whole ELSE Shows(page - 1))

IInv ==
  /\ TypeOK /\ Control /\ Sizes /\ LastPage
  /\ BufferFits /\ WindowsAreFull /\ TornOnlyAtTheEnd
  /\ ConservesContent /\ FlushCommits

-----------------------------------------------------------------------------
(* Sequences of bytes, and how a piece is cut. *)

\* What is cut off a string and what is left of it are the string.
LEMMA Cutting ==
  ASSUME NEW s \in Bytes, NEW n \in Nat
  PROVE  /\ Chunk(s, n) \in Bytes /\ Beyond(s, n) \in Bytes
         /\ Len(Chunk(s, n)) = Least(n, Len(s))
         /\ Len(Beyond(s, n)) = Len(s) - Least(n, Len(s))
         /\ Chunk(s, n) \o Beyond(s, n) = s
         /\ Len(s) <= n => Chunk(s, n) = s /\ Beyond(s, n) = <<>>
<1> DEFINE m == Least(n, Len(s))
<1>1. Len(s) \in Nat /\ m \in 0..Len(s) /\ (Len(s) <= n => m = Len(s))
  BY LenProperties DEF Bytes, Least
<1> HIDE DEF m
<1>2. \A i \in 1..m : s[i] \in Nat
  BY <1>1, ElementOfSeq DEF Bytes
<1>3. \A i \in (m + 1)..Len(s) : s[i] \in Nat
  BY <1>1, ElementOfSeq DEF Bytes
<1>4. /\ SubSeq(s, 1, m) \in Bytes
      /\ Len(SubSeq(s, 1, m)) = m
  BY <1>1, <1>2, SubSeqProperties DEF Bytes
<1>5. /\ SubSeq(s, m + 1, Len(s)) \in Bytes
      /\ Len(SubSeq(s, m + 1, Len(s))) = Len(s) - m
  BY <1>1, <1>3, SubSeqProperties DEF Bytes
<1>6. SubSeq(s, 1, m) \o SubSeq(s, m + 1, Len(s)) = s
  <2>1. 1 \in 1..(Len(s) + 1) /\ m \in 0..Len(s) /\ Len(s) \in m..Len(s) /\ 1 - 1 = 0
    BY <1>1
  <2>2. SubSeq(s, 1, m) \o SubSeq(s, m + 1, Len(s)) = SubSeq(s, 1, Len(s))
    BY <2>1, ConcatAdjacentSubSeq DEF Bytes
  <2> QED
    BY <2>2, SubSeqFull DEF Bytes
<1>7. m = Len(s) => SubSeq(s, 1, m) = s /\ SubSeq(s, m + 1, Len(s)) = <<>>
  BY <1>1, SubSeqFull, SubSeqEmpty DEF Bytes
<1> QED
  BY <1>1, <1>4, <1>5, <1>6, <1>7 DEF Chunk, Beyond, m

\* Concatenation, at the type of bytes.
LEMMA Joining ==
  ASSUME NEW s \in Bytes, NEW t \in Bytes
  PROVE  /\ s \o t \in Bytes /\ Len(s \o t) = Len(s) + Len(t)
         /\ s \o <<>> = s /\ <<>> \o s = s /\ <<>> \in Bytes /\ Len(<<>>) = 0
         /\ Len(s) \in Nat /\ (Len(s) = 0 <=> s = <<>>)
BY ConcatProperties, ConcatEmptySeq, EmptySeq, LenProperties DEF Bytes

\* No bytes at all.
LEMMA NoBytes == <<>> \in Bytes /\ Len(<<>>) = 0
BY EmptySeq DEF Bytes

\* Concatenation is associative.
LEMMA Regrouping ==
  ASSUME NEW s \in Bytes, NEW t \in Bytes, NEW u \in Bytes
  PROVE  (s \o t) \o u = s \o (t \o u)
BY ConcatAssociative, SMTT(30) DEF Bytes

\* What the encoder may hold when it is given a piece.
Ready(in) ==
  /\ in \in Bytes /\ Len(in) <= WinSize
  /\ buf_in \in Bytes /\ leftover \in Bytes \cup {None} /\ flush \in BOOLEAN
  /\ BufferFits
  /\ leftover = None \/ in = <<>>

\* Whichever way a piece goes, buffered or not: it keeps its place after what is
\* held; a window of it is full unless a flush cuts it, and a flush does cut one.
LEMMA CutFacts ==
  ASSUME NEW in, Ready(in), NEW c, c = Cut(in)
  PROVE  /\ c.window \in BOOLEAN /\ c.next \in Bytes /\ c.buf \in Bytes
         /\ c.left \in Bytes \cup {None}
         /\ Len(c.next) <= WinSize
         /\ IF c.window THEN c.buf = <<>> ELSE c.left = None
         /\ c.left # None => Len(c.left) < WinSize
         /\ Len(c.buf) < WinSize
         /\ c.window /\ ~ flush => Len(c.next) = WinSize
         /\ flush => c.window
         /\ (IF c.window THEN c.next ELSE <<>>) \o (IF c.left # None THEN c.left ELSE c.buf)
              = Held \o in
<1> USE WriterAssumption
<1>1. /\ Held \in Bytes /\ Len(Held) \in 0..(WinSize - 1)
      /\ Len(in) \in Nat /\ Room \in Nat /\ Room = WinSize - Len(Held)
  BY Joining DEF Ready, BufferFits, Held, Room
<1>2. CASE ~ Buffers(in)
  <2>1. c = [window |-> TRUE, next |-> in, buf |-> buf_in, left |-> leftover]
    BY <1>2 DEF Cut
  <2>2. leftover = None /\ buf_in = <<>> /\ (Len(in) < WinSize => flush)
    BY <1>2 DEF Buffers, Ready
  <2>3. Held = <<>>
    BY <2>2 DEF Held
  <2>4. Len(in) \in Nat /\ WinSize \in Nat \ {0} /\ Len(in) <= WinSize
    BY <1>1 DEF Ready
  <2> QED
    BY <2>1, <2>2, <2>3, <2>4, Joining DEF Ready
<1>3. CASE Buffers(in)
  <2> DEFINE chunk == Chunk(in, Room)
             beyond == Beyond(in, Room)
  <2>1. c = [window |-> Cuts(in),
             next |-> IF Cuts(in) THEN Filled(in) ELSE in,
             buf |-> IF Cuts(in) THEN <<>> ELSE Filled(in),
             left |-> IF Len(in) > Room THEN beyond ELSE None]
    BY <1>3 DEF Cut
  <2>2. /\ chunk \in Bytes /\ beyond \in Bytes
        /\ Len(chunk) = Least(Room, Len(in))
        /\ Len(beyond) = Len(in) - Least(Room, Len(in))
        /\ chunk \o beyond = in
        /\ Len(in) <= Room => chunk = in /\ beyond = <<>>
    BY <1>1, Cutting DEF Ready
  <2> HIDE DEF chunk, beyond
  <2>3. /\ Filled(in) = Held \o chunk
        /\ Filled(in) \in Bytes
        /\ Len(Filled(in)) = Len(Held) + Least(Room, Len(in))
    <3>1. Filled(in) = Held \o chunk
      BY DEF Filled, chunk
    <3>2. Held \o chunk \in Bytes /\ Len(Held \o chunk) = Len(Held) + Len(chunk)
      BY <1>1, <2>2, Joining
    <3> QED
      BY <2>2, <3>1, <3>2
  <2>4. /\ Len(Filled(in)) <= WinSize
        /\ Len(in) > Room => Len(Filled(in)) = WinSize
    BY <1>1, <2>3 DEF Least
  <2>5. Cuts(in) <=> Len(in) > Room \/ Len(Filled(in)) = WinSize \/ flush
    BY DEF Cuts
  <2>6. Len(in) > Room => Len(beyond) < WinSize
    <3>1. leftover # None => Len(in) = 0
      BY Joining DEF Ready
    <3>2. leftover = None /\ Len(in) = WinSize => Len(Held) > 0 \/ Held = <<>>
      BY <1>1, Joining
    <3>3. SUFFICES ASSUME Len(in) > Room
                   PROVE  Room > 0 /\ Len(in) <= WinSize
      BY <1>1, <2>2 DEF Least
    <3> QED
      BY <1>1 DEF Ready
  <2>7. Filled(in) \o beyond = Held \o in
    <3>1. (Held \o chunk) \o beyond = Held \o (chunk \o beyond)
      BY <1>1, <2>2, Regrouping
    <3> QED
      BY <2>2, <2>3, <3>1
  <2>8. /\ c.window = Cuts(in)
        /\ c.next = IF Cuts(in) THEN Filled(in) ELSE in
        /\ c.buf = IF Cuts(in) THEN <<>> ELSE Filled(in)
        /\ c.left = IF Len(in) > Room THEN beyond ELSE None
        /\ Cuts(in) \in BOOLEAN
    BY <2>1 DEF Cuts, Ready
  <2>9. beyond # None
    BY <2>2 DEF Bytes
  <2>10. CASE Len(in) > Room
    <3>1. c.window /\ c.next = Filled(in) /\ c.buf = <<>> /\ c.left = beyond
      BY <2>5, <2>8, <2>10
    <3>2. Len(c.buf) < WinSize /\ c.buf \in Bytes
      BY <3>1, NoBytes, WriterAssumption
    <3> QED
      BY <2>2, <2>3, <2>4, <2>6, <2>7, <2>8, <2>9, <2>10, <3>1, <3>2
  <2>11. CASE ~ (Len(in) > Room)
    <3>1. Filled(in) = Held \o in
      <4>1. Len(in) <= Room
        BY <1>1, <2>11
      <4> QED
        BY <2>2, <2>3, <4>1
    <3>2. c.left = None
      BY <2>8, <2>11
    <3>3. CASE Cuts(in)
      <4>1. c.window /\ c.next = Filled(in) /\ c.buf = <<>>
        BY <2>8, <3>3
      <4>2. Len(c.buf) < WinSize /\ c.buf \in Bytes /\ Filled(in) \o <<>> = Filled(in)
        BY <2>3, <4>1, Joining
      <4> QED
        BY <2>3, <2>4, <2>5, <2>8, <2>11, <3>1, <3>2, <3>3, <4>1, <4>2
    <3>4. CASE ~ Cuts(in)
      <4>1. ~ c.window /\ c.next = in /\ c.buf = Filled(in)
        BY <2>8, <3>4
      <4>2. Len(Filled(in)) < WinSize
        <5>1. Len(Filled(in)) \in Nat
          BY <2>3, Joining
        <5> QED
          BY <2>4, <2>5, <3>4, <5>1
      <4>3. <<>> \o Filled(in) = Filled(in)
        BY <2>3, Joining
      <4> QED
        BY <2>3, <2>5, <2>8, <3>1, <3>2, <3>4, <4>1, <4>2, <4>3 DEF Ready
    <3> QED
      BY <3>3, <3>4
  <2> QED
    BY <2>10, <2>11
<1> QED
  BY <1>2, <1>3

-----------------------------------------------------------------------------
(* The types. *)

\* A piece the encoder is given is ready to be cut.
LEMMA PieceIsReady ==
  ASSUME IInv
  PROVE  /\ Begun => Ready(next_in)
         /\ enc_state = "ENC_POSTWIN" => Ready(<<>>)
<1>1. <<>> \in Bytes /\ Len(<<>>) <= WinSize
  BY NoBytes, WriterAssumption
<1> QED
  BY <1>1 DEF IInv, TypeOK, Sizes, Ready

\* do_processing returns, or its loop goes on.
LEMMA ReturnTypes ==
  ASSUME TypeOK, NEW ok \in BOOLEAN, Return(ok)
  PROVE  /\ mode' = mode /\ short' = short
         /\ call' \in Methods /\ result' \in Methods \X BOOLEAN
         /\ pc' \in {"idle", "closing"} /\ rest' = <<>> /\ flush' = FALSE
<1>1. <<call, ok>> \in Methods \X BOOLEAN
  BY Zenon DEF TypeOK
<1>2. CASE ok /\ call = "close"
  BY <1>2 DEF Return, TypeOK
<1>3. CASE ~ (ok /\ call = "close")
  <2>1. result' = <<call, ok>> /\ pc' = "idle" /\ call' = "none"
    BY <1>3 DEF Return
  <2> QED
    BY <1>1, <2>1 DEF Return, Methods
<1> QED
  BY <1>2, <1>3

\* When the encoder wants input, the call returns or its loop goes on.
LEMMA MoreInputTypes ==
  ASSUME TypeOK, MoreInput
  PROVE  /\ mode' = mode /\ short' = short
         /\ call' \in Methods /\ result' \in Methods \X BOOLEAN
         /\ pc' \in {"idle", "input", "closing"} /\ rest' \in Bytes /\ flush' \in BOOLEAN
<1>1. CASE short
  BY <1>1, ReturnTypes, NoBytes DEF MoreInput
<1>2. CASE ~ short
  BY <1>2 DEF MoreInput, TypeOK, deltafile
<1> QED
  BY <1>1, <1>2

\* What the encoder holds after a piece was cut.
LEMMA TakeInputTypes ==
  ASSUME IInv, NEW in, Ready(in), TakeInput(in)
  PROVE  /\ next_in' \in Bytes /\ buf_in' \in Bytes /\ leftover' \in Bytes \cup {None}
         /\ enc_state' \in {"ENC_INPUT", "ENC_SEARCH"}
         /\ mode' = mode /\ short' = short
         /\ call' \in Methods /\ result' \in Methods \X BOOLEAN
         /\ pc' \in {"idle", "input", "process", "output", "closing"}
         /\ rest' \in Bytes /\ flush' \in BOOLEAN
<1>1. /\ next_in' = Cut(in).next /\ buf_in' = Cut(in).buf /\ leftover' = Cut(in).left
      /\ Cut(in).next \in Bytes /\ Cut(in).buf \in Bytes /\ Cut(in).left \in Bytes \cup {None}
  BY CutFacts DEF TakeInput
<1>2. CASE Cut(in).window
  BY <1>1, <1>2 DEF TakeInput, IInv, TypeOK, deltafile, processing
<1>3. CASE ~ Cut(in).window
  BY <1>1, <1>3, MoreInputTypes DEF TakeInput, IInv
<1> QED
  BY <1>2, <1>3

\* Every step keeps the types.
LEMMA TypeStep ==
  ASSUME IInv, Next
  PROVE  TypeOK'
<1> USE NoBytes, WriterAssumption DEF Methods, FileSources
<1>1. TypeOK
  BY DEF IInv
<1>2. ASSUME NEW n \in Contents, Write(n)
      PROVE  TypeOK'
  <2>1. [i \in 1..n |-> written + i] \in Bytes
    BY <1>1, IsASeq, SMTT(30) DEF Bytes, TypeOK
  <2> QED
    BY <1>1, <1>2, <2>1 DEF TypeOK, Write, Run, input, output, world
<1>3. ASSUME NEW m \in {"flush", "close"}, Flush(m)
      PROVE  TypeOK'
  <2>1. CASE enc_state # "ENC_INIT"
    BY <1>1, <1>3, <2>1 DEF TypeOK, Flush, Run, input, output, world
  <2>2. CASE enc_state = "ENC_INIT"
    <3>1. result' = result \/ result' = <<"flush", TRUE>>
      BY <1>3, <2>2 DEF Flush
    <3>2. <<"flush", TRUE>> \in Methods \X BOOLEAN
      BY Zenon DEF Methods
    <3>3. result' \in Methods \X BOOLEAN
      BY <1>1, <3>1, <3>2 DEF TypeOK
    <3>4. /\ pc' \in {pc, "closing"} /\ call' \in {call, "close"}
          /\ UNCHANGED <<mode, rest, short, enc_state, flush, input, output, source, world,
                         written>>
      BY <1>3, <2>2 DEF Flush
    <3> QED
      BY <1>1, <3>3, <3>4 DEF TypeOK, input, output, world
  <2> QED
    BY <2>1, <2>2
<1>4. CASE Open
  BY <1>1, <1>4 DEF TypeOK, Open, FreshStream, processing, world
<1>5. ASSUME NEW s \in Sources \cup {NoSource}, SetSource(s)
      PROVE  TypeOK'
  BY <1>1, <1>5 DEF TypeOK, SetSource, deltafile, processing, input, output, world
<1>6. CASE ReadInput
  <2>1. Chunk(rest, WinSize) \in Bytes /\ Beyond(rest, WinSize) \in Bytes
    BY <1>1, Cutting DEF TypeOK
  <2> QED
    BY <1>1, <1>6, <2>1 DEF TypeOK, ReadInput, deltafile, output, world
<1>7. CASE BeginWindow
  <2>1. Ready(next_in) /\ TakeInput(next_in)
    BY <1>7, PieceIsReady DEF BeginWindow, Begun
  <2> QED
    BY <1>1, <1>7, <2>1, TakeInputTypes DEF TypeOK, BeginWindow, Working, output, world
<1>8. CASE EncodeWindow
  BY <1>1, <1>8 DEF TypeOK, EncodeWindow, Working, deltafile, input, world
<1>9. CASE NextPage
  BY <1>1, <1>9 DEF TypeOK, NextPage, Working, deltafile, input, world
<1>10. CASE FinishWindow
  BY <1>1, <1>10 DEF TypeOK, FinishWindow, Working, deltafile, processing, input, output, world
<1>11. CASE MissedOutput
  <2>1. Return(FALSE)
    BY <1>11 DEF MissedOutput
  <2> QED
    BY <1>1, <1>11, <2>1, ReturnTypes DEF TypeOK, MissedOutput, Working, input, output, world
<1>12. CASE ResetWindow
  <2>1. CASE leftover # None
    <3>1. Ready(<<>>) /\ TakeInput(<<>>)
      BY <1>12, <2>1, PieceIsReady DEF ResetWindow
    <3> QED
      BY <1>1, <1>12, <3>1, TakeInputTypes DEF TypeOK, ResetWindow, Working, world
  <2>2. CASE leftover = None
    <3>1. MoreInput
      BY <1>12, <2>2 DEF ResetWindow
    <3> QED
      BY <1>1, <1>12, <2>2, <3>1, MoreInputTypes DEF TypeOK, ResetWindow, Working, world
  <2> QED
    BY <2>1, <2>2
<1>13. CASE OutputPage
  <2> DEFINE new == [bytes |-> next_in, page |-> page, pages |-> pages,
                     call |-> call, source |-> source]
  <2>1. new \in FilePages
    BY <1>1 DEF TypeOK, FilePages
  <2>2. file' \in Seq(FilePages)
    BY <1>1, <1>13, <2>1, AppendProperties DEF TypeOK, OutputPage
  <2>3. committed' \in Bytes
    BY <1>1, <1>13, Joining DEF TypeOK, OutputPage
  <2> HIDE DEF new
  <2>4. /\ pc' = "process" /\ avail_out' = FALSE
        /\ UNCHANGED <<deltafile, rest, short, enc_state, flush, input, page, pages, source, written,
                       failures>>
    BY <1>13 DEF OutputPage
  <2>5. mode' = mode /\ call' = call /\ result' = result /\ rest' = rest /\ short' = short
    BY <2>4 DEF deltafile
  <2>6. next_in' = next_in /\ buf_in' = buf_in /\ leftover' = leftover
    BY <2>4 DEF input
  <2> QED
    BY ONLY <1>1, <2>2, <2>3, <2>4, <2>5, <2>6 DEF TypeOK
<1>14. CASE OutputFails
  <2>1. Return(FALSE)
    BY <1>14 DEF OutputFails
  <2> QED
    <3>1. /\ mode' = mode /\ short' = short
          /\ call' \in Methods /\ result' \in Methods \X BOOLEAN
          /\ pc' \in {"idle", "closing"} /\ rest' = <<>> /\ flush' = FALSE
      BY <1>1, <2>1, ReturnTypes
    <3>2. failures' \in Nat
      BY <1>1, <1>14 DEF TypeOK, OutputFails
    <3>3. UNCHANGED <<enc_state, input, output, source, file, committed, written>>
      BY <1>14 DEF OutputFails
    <3> QED
      BY <1>1, <3>1, <3>2, <3>3 DEF TypeOK, input, output
<1>15. CASE Discard
  BY <1>1, <1>15 DEF TypeOK, Discard, FreshStream, world
<1> QED
  BY <1>2, <1>3, <1>4, <1>5, <1>6, <1>7, <1>8, <1>9, <1>10, <1>11, <1>12, <1>13, <1>14, <1>15
  DEF Next, Process

-----------------------------------------------------------------------------
(* Where the program is, and where input may lie. *)

Safe == Control /\ Sizes /\ BufferFits

\* What a call that returns changes.
LEMMA ReturnOutcome ==
  ASSUME NEW ok \in BOOLEAN, Return(ok)
  PROVE  /\ rest' = <<>> /\ flush' = FALSE /\ mode' = mode /\ short' = short
         /\ \/ pc' = "closing" /\ ok /\ call = "close" /\ call' = call
            \/ pc' = "idle" /\ call' = "none"
BY DEF Return

\* After a piece: a window of it is encoded, or more input is asked for.
LEMMA TakeInputOutcome ==
  ASSUME NEW in, Ready(in), TakeInput(in)
  PROVE  /\ Len(next_in') <= WinSize
         /\ buf_in' \in Bytes
         /\ leftover' # None => Len(leftover') < WinSize
         /\ Len(buf_in') < WinSize
         /\ \/ /\ enc_state' = "ENC_SEARCH" /\ buf_in' = <<>>
               /\ ~ flush => Len(next_in') = WinSize
               /\ UNCHANGED <<mode, call, result, pc, rest, short, flush>>
            \/ /\ enc_state' = "ENC_INPUT" /\ leftover' = None /\ ~ flush
               /\ MoreInput
<1> DEFINE c == Cut(in)
<1>1. /\ Len(c.next) <= WinSize /\ c.buf \in Bytes
      /\ IF c.window THEN c.buf = <<>> ELSE c.left = None
      /\ c.left # None => Len(c.left) < WinSize
      /\ Len(c.buf) < WinSize
      /\ c.window /\ ~ flush => Len(c.next) = WinSize
      /\ flush => c.window
  BY CutFacts
<1>2. /\ next_in' = c.next /\ buf_in' = c.buf /\ leftover' = c.left
      /\ IF c.window
         THEN enc_state' = "ENC_SEARCH" /\ UNCHANGED <<deltafile, processing, flush>>
         ELSE enc_state' = "ENC_INPUT" /\ MoreInput
  BY DEF TakeInput
<1> HIDE DEF c
<1> QED
  BY <1>1, <1>2 DEF deltafile, processing

\* A piece that is cut leaves buffer and leftover as the encoder asserts them.
LEMMA TakeInputSafe ==
  ASSUME IInv, NEW in, Ready(in), TakeInput(in),
         pc = "process", Begun \/ enc_state = "ENC_POSTWIN",
         UNCHANGED <<avail_out, file, committed>>
  PROVE  Safe'
<1>1. Control /\ Sizes /\ BufferFits /\ TypeOK
  BY DEF IInv
<1>2. CASE /\ enc_state' = "ENC_SEARCH" /\ buf_in' = <<>>
           /\ ~ flush => Len(next_in') = WinSize
           /\ UNCHANGED <<mode, call, result, pc, rest, short, flush>>
  <2>1. Control'
    BY <1>1, <1>2 DEF Control, Begun, Running
  <2>2. Sizes' /\ BufferFits'
    BY <1>1, <1>2, TakeInputOutcome DEF Control, Sizes, BufferFits, Begun, Running, Stuck
  <2> QED
    BY <2>1, <2>2 DEF Safe
<1>3. CASE /\ enc_state' = "ENC_INPUT" /\ leftover' = None /\ ~ flush
           /\ MoreInput
  <2>1. CASE short
    <3>1. Return(TRUE)
      BY <1>3, <2>1 DEF MoreInput
    <3>2. Control'
      BY <1>1, <1>3, <3>1, ReturnOutcome DEF Control, Begun, Running
    <3>3. Sizes' /\ BufferFits'
      BY <1>1, <1>3, TakeInputOutcome DEF Sizes, BufferFits, Begun
    <3> QED
      BY <3>2, <3>3 DEF Safe
  <2>2. CASE ~ short
    <3>1. pc' = "input" /\ UNCHANGED <<mode, call, rest, short, flush>>
      BY <1>3, <2>2 DEF MoreInput, deltafile
    <3>2. Control'
      BY <1>1, <1>3, <3>1 DEF Control, Begun, Running
    <3>3. Sizes' /\ BufferFits'
      BY <1>1, <1>3, TakeInputOutcome DEF Sizes, BufferFits, Begun
    <3> QED
      BY <3>2, <3>3 DEF Safe
  <2> QED
    BY <2>1, <2>2
<1> QED
  BY <1>2, <1>3, TakeInputOutcome

\* Every step keeps the control state and the sizes of what is buffered.
LEMMA SafeStep ==
  ASSUME IInv, Next
  PROVE  Safe'
<1> USE NoBytes, WriterAssumption DEF Safe, Begun, Running, Stuck
<1>1. Control /\ Sizes /\ BufferFits /\ TypeOK
  BY DEF IInv
<1>2. ASSUME NEW n \in Contents, Write(n)
      PROVE  Safe'
  <2>1. Begun \/ Stuck
    BY <1>1, <1>2 DEF Control, TypeOK, Write
  <2> QED
    BY <1>1, <1>2, <2>1 DEF Control, Sizes, BufferFits, Write, Run, input, output, world
<1>3. ASSUME NEW m \in {"flush", "close"}, Flush(m)
      PROVE  Safe'
  <2>1. Begun \/ Stuck
    BY <1>1, <1>3 DEF Control, TypeOK, Flush
  <2>2. CASE enc_state # "ENC_INIT"
    <3>1. /\ pc = "idle" /\ pc' = "input" /\ flush' /\ call' # "write" /\ rest' = <<>>
          /\ call' \in {"flush", "close"}
          /\ UNCHANGED <<mode, short, enc_state, next_in, buf_in, leftover, avail_out, file,
                         committed>>
      BY <1>3, <2>2 DEF Flush, Run, input, output, world
    <3>2. mode = "writing"
      BY <1>1, <2>2 DEF Control
    <3>3. Control'
      BY <1>1, <3>1, <3>2 DEF Control
    <3>4. Sizes' /\ BufferFits'
      BY <1>1, <3>1 DEF Sizes, BufferFits
    <3> QED
      BY <3>3, <3>4
  <2>3. CASE enc_state = "ENC_INIT"
    <3>1. /\ pc = "idle"
          /\ \/ pc' = "closing" /\ call' = "close"
             \/ pc' = pc /\ call' = call
          /\ UNCHANGED <<mode, rest, short, enc_state, flush, input, output, file, committed>>
      BY <1>3, <2>3 DEF Flush, world
    <3> QED
      BY <1>1, <2>3, <3>1 DEF Control, Sizes, BufferFits, input, output
  <2> QED
    BY <2>2, <2>3
<1>4. CASE Open
  BY <1>1, <1>4 DEF Control, Sizes, BufferFits, Open, FreshStream, processing, world
<1>5. ASSUME NEW s \in Sources \cup {NoSource}, SetSource(s)
      PROVE  Safe'
  BY <1>1, <1>5
  DEF Control, Sizes, BufferFits, SetSource, deltafile, processing, input, output, world
<1>6. CASE ReadInput
  <2>1. /\ Len(next_in') <= WinSize
        /\ short' => rest' = <<>>
        /\ rest = <<>> => rest' = <<>>
    <3>1. /\ rest \in Bytes /\ WinSize \in Nat /\ pc = "input"
          /\ next_in' = Chunk(rest, WinSize) /\ rest' = Beyond(rest, WinSize)
          /\ short' = (Len(rest) < WinSize)
      BY <1>1, <1>6 DEF TypeOK, ReadInput
    <3>2. /\ Len(rest) \in Nat
          /\ rest = <<>> => Len(rest) <= WinSize
          /\ Len(next_in') = Least(WinSize, Len(rest))
          /\ Len(rest) <= WinSize => rest' = <<>>
      BY <3>1, Cutting, Joining
    <3>3. short' => Len(rest) < WinSize
      BY <3>1
    <3> QED
      BY <3>1, <3>2, <3>3 DEF Least
  <2>2. /\ pc = "input" /\ pc' = "process"
        /\ UNCHANGED <<mode, call, enc_state, flush, buf_in, leftover, avail_out, file, committed>>
    BY <1>6 DEF ReadInput, deltafile, output, world
  <2>3. Control'
    BY <1>1, <2>1, <2>2 DEF Control
  <2>4. Sizes' /\ BufferFits'
    BY <1>1, <2>1, <2>2 DEF Sizes, BufferFits, TypeOK, Control
  <2> QED
    BY <2>3, <2>4
<1>7. CASE BeginWindow
  <2>1. Ready(next_in) /\ TakeInput(next_in)
    BY <1>7, PieceIsReady DEF BeginWindow
  <2> QED
    BY <1>7, <2>1, TakeInputSafe DEF BeginWindow, Working, output, world
<1>8. CASE EncodeWindow
  BY <1>1, <1>8 DEF Control, Sizes, BufferFits, EncodeWindow, Working, deltafile, input, world
<1>9. CASE NextPage
  BY <1>1, <1>9 DEF Control, Sizes, BufferFits, NextPage, Working, deltafile, input, world
<1>10. CASE FinishWindow
  BY <1>1, <1>10
  DEF Control, Sizes, BufferFits, FinishWindow, Working, deltafile, processing, input, output,
      world
<1>11. CASE MissedOutput
  <2>1. Return(FALSE)
    BY <1>11 DEF MissedOutput
  <2> QED
    BY <1>1, <1>11, <2>1, ReturnOutcome
    DEF Control, Sizes, BufferFits, MissedOutput, Working, input, output, world
<1>12. CASE ResetWindow
  <2>1. CASE leftover # None
    <3>1. Ready(<<>>) /\ TakeInput(<<>>)
      BY <1>12, <2>1, PieceIsReady DEF ResetWindow
    <3> QED
      BY <1>12, <3>1, TakeInputSafe DEF ResetWindow, Working, world
  <2>2. CASE leftover = None
    <3>1. /\ enc_state' = "ENC_INPUT" /\ next_in' = <<>> /\ MoreInput
          /\ UNCHANGED <<buf_in, leftover, avail_out, source, file, committed>>
      BY <1>12, <2>2 DEF ResetWindow, Working, world
    <3>2. CASE short
      <4>1. Return(TRUE)
        BY <3>1, <3>2 DEF MoreInput
      <4> QED
        <5>1. pc = "process" /\ enc_state = "ENC_POSTWIN"
          BY <1>12 DEF ResetWindow, Working
        <5> QED
          <6>1. /\ rest' = <<>> /\ flush' = FALSE /\ mode' = mode
                /\ pc' \in {"closing", "idle"}
            BY <4>1, ReturnOutcome
          <6>2. Control'
            BY <1>1, <3>1, <5>1, <6>1 DEF Control
          <6>3. Sizes' /\ BufferFits'
            BY <1>1, <2>2, <3>1, <5>1 DEF Sizes, BufferFits
          <6> QED
            BY <6>2, <6>3
    <3>3. CASE ~ short
      <4>1. pc' = "input" /\ UNCHANGED <<mode, call, rest, short, flush>>
        BY <3>1, <3>3 DEF MoreInput, deltafile
      <4> QED
        BY <1>1, <1>12, <2>2, <3>1, <4>1
        DEF Control, Sizes, BufferFits, ResetWindow, Working
    <3> QED
      BY <3>2, <3>3
  <2> QED
    BY <2>1, <2>2
<1>13. CASE OutputPage
  BY <1>1, <1>13 DEF Control, Sizes, BufferFits, OutputPage, deltafile, input
<1>14. CASE OutputFails
  <2>1. Return(FALSE)
    BY <1>14 DEF OutputFails
  <2> QED
    BY <1>1, <1>14, <2>1, ReturnOutcome
    DEF Control, Sizes, BufferFits, OutputFails, input, output
<1>15. CASE Discard
  BY <1>1, <1>15 DEF Control, Sizes, BufferFits, Discard, FreshStream, world
<1> QED
  BY <1>2, <1>3, <1>4, <1>5, <1>6, <1>7, <1>8, <1>9, <1>10, <1>11, <1>12, <1>13, <1>14, <1>15
  DEF Next, Process

-----------------------------------------------------------------------------
(* The pages in the file. *)

FileIsRight == LastPage /\ WindowsAreFull /\ TornOnlyAtTheEnd

\* A page put at the end of the file leaves the others where they are.
LEMMA Appended ==
  ASSUME file \in Seq(FilePages), NEW new \in FilePages
  PROVE  /\ Append(file, new) \in Seq(FilePages)
         /\ Len(file) \in Nat /\ Len(Append(file, new)) = Len(file) + 1
         /\ \A i \in 1..Len(file) : Append(file, new)[i] = file[i]
         /\ Append(file, new)[Len(file) + 1] = new
         /\ Append(file, new) # <<>>
         /\ file # <<>> <=> Len(file) > 0
BY AppendProperties, EmptySeq, LenProperties

\* The page that is written is the one its window lacks, and of one source with them.
LEMMA OutputPageFile ==
  ASSUME IInv, OutputPage
  PROVE  FileIsRight'
<1> DEFINE new == [bytes |-> next_in, page |-> page, pages |-> pages,
                   call |-> call, source |-> source]
           n == Len(file)
<1>1. TypeOK /\ Control /\ Sizes /\ LastPage /\ WindowsAreFull /\ TornOnlyAtTheEnd
  BY DEF IInv
<1>2. /\ pc = "output" /\ pc' = "process" /\ avail_out' = FALSE
      /\ file' = Append(file, new)
      /\ UNCHANGED <<mode, call, next_in, enc_state, page, pages, source>>
  BY DEF OutputPage, deltafile, input
<1>3. /\ mode = "writing" /\ enc_state = "ENC_POSTOUT"
      /\ call = "write" => Len(next_in) = WinSize
      /\ Len(next_in) <= WinSize
  BY <1>1, <1>2 DEF Control, Sizes, Stuck, Begun
<1>4. new \in FilePages
  BY <1>1 DEF TypeOK, FilePages
<1>5. /\ new.bytes = next_in /\ new.page = page /\ new.pages = pages
      /\ new.call = call /\ new.source = source
  OBVIOUS
<1> HIDE DEF new
<1>6. /\ n \in Nat /\ Len(file') = n + 1 /\ file' # <<>>
      /\ \A i \in 1..n : file'[i] = file[i]
      /\ file'[n + 1] = new
      /\ file # <<>> <=> n > 0
  BY <1>1, <1>2, <1>4, Appended DEF TypeOK
<1>7. /\ page \in 1..pages
      /\ page \in Nat
      /\ IF page = 1 THEN Whole ELSE Shows(page - 1)
      /\ n > 0 => file[1].source = source
  BY <1>1, <1>2, <1>3, <1>6 DEF LastPage, TypeOK
<1> HIDE DEF n
<1>8. file'[1].source = source
  BY <1>5, <1>6, <1>7
<1>9. LastPage'
  <2>1. Shows(page)'
    BY <1>2, <1>5, <1>6 DEF Shows
  <2> QED
    BY <1>2, <1>3, <1>7, <1>8, <2>1 DEF LastPage
<1>10. WindowsAreFull'
  <2> SUFFICES ASSUME NEW i \in 1..Len(file')
               PROVE  /\ Len(file'[i].bytes) <= WinSize
                      /\ file'[i].call = "write" => Len(file'[i].bytes) = WinSize
    BY DEF WindowsAreFull
  <2>1. CASE i \in 1..n
    BY <1>1, <1>6, <2>1 DEF WindowsAreFull, n
  <2>2. CASE i = n + 1
    BY <1>3, <1>5, <1>6, <2>2
  <2> QED
    BY <1>6, <2>1, <2>2
<1>11. TornOnlyAtTheEnd'
  <2> DEFINE Good(f, i) ==
        /\ f[i].source = f[1].source
        /\ IF i = 1 \/ f[i].page = 1
           THEN f[i].page = 1 /\ (i > 1 => f[i - 1].page = f[i - 1].pages)
           ELSE /\ f[i].page = f[i - 1].page + 1
                /\ f[i].bytes = f[i - 1].bytes
  <2>1. \A i \in 1..n : Good(file, i)
    BY <1>1 DEF TornOnlyAtTheEnd, n
  <2>2. ASSUME NEW i \in 1..n
        PROVE  Good(file', i)
    <3>1. file'[i] = file[i] /\ file'[1] = file[1] /\ (i > 1 => file'[i - 1] = file[i - 1])
      BY <1>6
    <3> QED
      BY <1>6, <2>1, <3>1
  <2>3. Good(file', n + 1)
    <3>1. CASE page = 1
      <4>1. n > 0 => file[n].page = file[n].pages
        BY <1>6, <1>7, <3>1 DEF Whole, n
      <4>2. n > 0 => file'[n] = file[n]
        BY <1>6
      <4> QED
        BY <1>5, <1>6, <1>8, <3>1, <4>1, <4>2
    <3>2. CASE page # 1
      <4>1. n > 0 /\ file[n].page = page - 1 /\ file[n].bytes = next_in
        BY <1>6, <1>7, <3>2 DEF Shows, n
      <4>2. file'[n] = file[n]
        BY <1>6, <4>1
      <4> QED
        BY <1>5, <1>6, <1>7, <1>8, <3>2, <4>1, <4>2
    <3> QED
      BY <3>1, <3>2
  <2> HIDE DEF Good
  <2>4. \A i \in 1..Len(file') : Good(file', i)
    BY <1>6, <2>2, <2>3
  <2> QED
    BY <2>4 DEF Good, TornOnlyAtTheEnd
<1> QED
  BY <1>9, <1>10, <1>11 DEF FileIsRight

\* Every step keeps the pages of the file those of its windows.
LEMMA FileStep ==
  ASSUME IInv, Next
  PROVE  FileIsRight'
<1> USE WriterAssumption
<1>1. Control /\ TypeOK /\ LastPage /\ WindowsAreFull /\ TornOnlyAtTheEnd
  BY DEF IInv
<1>2. ASSUME UNCHANGED file, LastPage'
      PROVE  FileIsRight'
  BY <1>1, <1>2 DEF FileIsRight, WindowsAreFull, TornOnlyAtTheEnd
<1>3. ASSUME UNCHANGED <<file, source>>, mode' = mode, pc' # "output",
             enc_state' # "ENC_POSTOUT", enc_state # "ENC_POSTOUT"
      PROVE  FileIsRight'
  BY <1>1, <1>2, <1>3 DEF LastPage, Whole
<1>4. ASSUME UNCHANGED <<file, source, mode, enc_state, avail_out, page, pages>>,
             pc' # "output", enc_state = "ENC_POSTOUT" /\ ~ avail_out => next_in' = next_in
      PROVE  FileIsRight'
  BY <1>1, <1>2, <1>4 DEF LastPage, Whole, Shows
<1>5. ASSUME UNCHANGED file, mode' # "writing", pc' # "output", enc_state' = "ENC_INIT"
      PROVE  FileIsRight'
  BY <1>2, <1>5 DEF LastPage
<1>6. ASSUME NEW n \in Contents, Write(n)
      PROVE  FileIsRight'
  BY <1>4, <1>6 DEF Write, Run, input, output, world
<1>7. ASSUME NEW m \in {"flush", "close"}, Flush(m)
      PROVE  FileIsRight'
  BY <1>4, <1>7 DEF Flush, Run, input, output, world
<1>8. CASE Open
  BY <1>5, <1>8 DEF Open, FreshStream, processing, world
<1>9. ASSUME NEW s \in Sources \cup {NoSource}, SetSource(s)
      PROVE  FileIsRight'
  <2>1. CASE mode = "writing"
    BY <1>1, <1>2, <1>9, <2>1
    DEF Control, LastPage, Whole, SetSource, InProgress, deltafile, processing, world
  <2>2. CASE mode # "writing"
    BY <1>1, <1>5, <1>9, <2>2 DEF Control, SetSource, deltafile, processing, world
  <2> QED
    BY <2>1, <2>2
<1>10. CASE ReadInput
  BY <1>1, <1>4, <1>10 DEF Control, ReadInput, deltafile, output, world
<1>11. ASSUME NEW in, Ready(in), TakeInput(in), pc = "process",
              UNCHANGED <<file, source>>, enc_state # "ENC_POSTOUT"
       PROVE  FileIsRight'
  <2>1. CASE UNCHANGED <<mode, pc>>
    BY <1>3, <1>11, <2>1, TakeInputOutcome
  <2>2. CASE MoreInput
    BY <1>3, <1>11, <2>2, TakeInputOutcome, ReturnOutcome DEF MoreInput, deltafile
  <2> QED
    BY <1>11, <2>1, <2>2, TakeInputOutcome
<1>12. CASE BeginWindow
  BY <1>11, <1>12, PieceIsReady DEF BeginWindow, Begun, Working, world
<1>13. CASE EncodeWindow
  <2>1. /\ pages' \in Nat \ {0} /\ page' = 1 /\ enc_state' = "ENC_POSTOUT" /\ avail_out'
        /\ UNCHANGED <<mode, file, source>>
    BY <1>13 DEF EncodeWindow, Working, deltafile, world
  <2>2. mode = "writing" /\ Whole
    BY <1>1, <1>13 DEF EncodeWindow, Control, LastPage
  <2> QED
    BY <1>1, <1>2, <2>1, <2>2 DEF LastPage, Whole
<1>14. CASE NextPage
  <2>1. /\ page \in 1..pages /\ page < pages /\ Shows(page) /\ mode = "writing"
    BY <1>1, <1>14 DEF NextPage, LastPage, Control
  <2>2. /\ page' = page + 1 /\ avail_out' = TRUE
        /\ UNCHANGED <<mode, file, source, enc_state, pages, next_in>>
    BY <1>14 DEF NextPage, Working, deltafile, input, world
  <2>3. page' \in 1..pages' /\ page' # 1 /\ page' - 1 = page
    BY <1>1, <2>1, <2>2 DEF TypeOK
  <2>4. LastPage'
    BY <1>1, <1>14, <2>1, <2>2, <2>3 DEF NextPage, LastPage, Shows
  <2> QED
    BY <1>2, <2>2, <2>4
<1>15. CASE FinishWindow
  BY <1>1, <1>2, <1>15
  DEF FinishWindow, Working, LastPage, Whole, Shows, deltafile, processing, output, world
<1>16. CASE MissedOutput
  <2>1. Return(FALSE)
    BY <1>16 DEF MissedOutput
  <2> QED
    BY <1>4, <1>16, <2>1, ReturnOutcome DEF MissedOutput, Working, input, output, world
<1>17. CASE ResetWindow
  <2>1. CASE leftover # None
    BY <1>11, <1>17, <2>1, PieceIsReady DEF ResetWindow, Working, world
  <2>2. CASE leftover = None
    BY <1>3, <1>17, <2>2, ReturnOutcome DEF ResetWindow, MoreInput, Working, deltafile, world
  <2> QED
    BY <2>1, <2>2
<1>18. CASE OutputPage
  BY <1>18, OutputPageFile
<1>19. CASE OutputFails
  <2>1. Return(FALSE)
    BY <1>19 DEF OutputFails
  <2> QED
    BY <1>1, <1>4, <1>19, <2>1, ReturnOutcome DEF OutputFails, input, output
<1>20. CASE Discard
  BY <1>5, <1>20 DEF Discard, FreshStream, world
<1> QED
  BY <1>6, <1>7, <1>8, <1>9, <1>10, <1>12, <1>13, <1>14, <1>15, <1>16, <1>17, <1>18, <1>19, <1>20
  DEF Next, Process

-----------------------------------------------------------------------------
(* The bytes written are in the file or in hand. *)

First(n) == [i \in 1..n |-> i]

\* The bytes of a write follow those written before.
LEMMA Counting ==
  ASSUME NEW w \in Nat, NEW n \in Nat
  PROVE  /\ First(w) \in Bytes
         /\ [i \in 1..n |-> w + i] \in Bytes
         /\ First(w) \o [i \in 1..n |-> w + i] = First(w + n)
<1> DEFINE next == [i \in 1..n |-> w + i]
<1>1. First(w) \in Bytes /\ Len(First(w)) = w
  BY IsASeq DEF First, Bytes
<1>2. next \in Bytes /\ Len(next) = n
  BY IsASeq DEF Bytes
<1>3. First(w + n) \in Bytes /\ Len(First(w + n)) = w + n
  BY IsASeq DEF First, Bytes
<1>4. \A i \in 1..(w + n) : (First(w) \o next)[i] = IF i <= w THEN First(w)[i] ELSE next[i - w]
  <2> HIDE DEF next
  <2>1. \A i \in 1..(Len(First(w)) + Len(next)) :
          (First(w) \o next)[i] = IF i <= Len(First(w)) THEN First(w)[i]
                                  ELSE next[i - Len(First(w))]
    BY <1>1, <1>2, ConcatProperties DEF Bytes
  <2> QED
    BY <1>1, <1>2, <2>1
<1>5. \A i \in 1..(w + n) : (First(w) \o next)[i] = i /\ First(w + n)[i] = i
  BY <1>4 DEF First
<1>6. First(w) \o next \in Bytes /\ Len(First(w) \o next) = w + n
  <2> HIDE DEF next
  <2> QED
    BY <1>1, <1>2, Joining
<1> HIDE DEF next
<1>7. First(w) \o next = First(w + n)
  BY <1>3, <1>5, <1>6, SeqEqual DEF Bytes
<1> QED
  BY <1>1, <1>2, <1>7 DEF next

\* What is in hand, by the state of the encoder.
InHandIs ==
  /\ Held \in Bytes /\ InHand \in Bytes
  /\ Begun /\ pc = "process" => InHand = (Held \o next_in) \o rest
  /\ ~ InWindow /\ ~ (Begun /\ pc = "process") => InHand = Held \o rest
  /\ InWindow => InHand = (next_in \o Held) \o rest

\* What is in hand is one of three: a window, the input, or the input's leftover.
LEMMA HandNow == TypeOK => InHandIs
<1> SUFFICES ASSUME TypeOK
             PROVE  InHandIs
  OBVIOUS
<1>1. Held \in Bytes /\ next_in \in Bytes /\ rest \in Bytes /\ <<>> \in Bytes
  BY NoBytes DEF TypeOK, Held
<1>2. InWindow => ~ Begun
  BY DEF InWindow, Begun
<1>3. /\ <<>> \o Held = Held /\ Held \o <<>> = Held
      /\ Held \o next_in \in Bytes /\ next_in \o Held \in Bytes
  BY <1>1, Joining
<1>4. /\ (next_in \o Held) \o <<>> = next_in \o Held
      /\ (Held \o next_in) \o rest \in Bytes
      /\ (next_in \o Held) \o rest \in Bytes
      /\ Held \o rest \in Bytes
  BY <1>1, <1>3, Joining
<1>5. CASE Begun /\ pc = "process"
  <2>1. InHand = ((<<>> \o Held) \o next_in) \o rest
    BY <1>2, <1>5 DEF InHand, Begun
  <2>2. InHand = (Held \o next_in) \o rest /\ InHand \in Bytes
    BY <1>3, <1>4, <2>1
  <2> QED
    BY <1>1, <1>2, <1>5, <2>2 DEF InHandIs
<1>6. CASE InWindow
  <2>1. InHand = ((next_in \o Held) \o <<>>) \o rest
    BY <1>2, <1>6 DEF InHand, Begun
  <2>2. InHand = (next_in \o Held) \o rest /\ InHand \in Bytes
    BY <1>3, <1>4, <2>1
  <2> QED
    BY <1>1, <1>2, <1>6, <2>2 DEF InHandIs
<1>7. CASE ~ InWindow /\ ~ (Begun /\ pc = "process")
  <2>1. InHand = ((<<>> \o Held) \o <<>>) \o rest
    BY <1>7 DEF InHand, Begun
  <2>2. InHand = Held \o rest /\ InHand \in Bytes
    BY <1>3, <1>4, <2>1
  <2> QED
    BY <1>1, <1>7, <2>2 DEF InHandIs
<1> QED
  BY <1>5, <1>6, <1>7

\* The same after a step.
LEMMA HandNext == TypeOK' => InHandIs'
BY HandNow, PTL

\* A piece the encoder is given stays in hand, after what was held.
LEMMA TakeInputHand ==
  ASSUME IInv, TypeOK', NEW in, Ready(in), TakeInput(in), pc = "process"
  PROVE  InHand' = (Held \o in) \o rest
<1> DEFINE c == Cut(in)
<1>1. TypeOK /\ Control
  BY DEF IInv
<1>2. /\ IF c.window THEN c.buf = <<>> ELSE c.left = None
      /\ (IF c.window THEN c.next ELSE <<>>) \o (IF c.left # None THEN c.left ELSE c.buf)
           = Held \o in
  BY CutFacts
<1>3. /\ next_in' = c.next /\ buf_in' = c.buf /\ leftover' = c.left
      /\ IF c.window
         THEN enc_state' = "ENC_SEARCH" /\ UNCHANGED <<deltafile, processing, flush>>
         ELSE enc_state' = "ENC_INPUT" /\ MoreInput
  BY DEF TakeInput
<1> HIDE DEF c
<1>4. Held' = IF c.left # None THEN c.left ELSE c.buf
  BY <1>3 DEF Held
<1>5. CASE c.window
  <2>1. InWindow' /\ rest' = rest
    BY <1>3, <1>5 DEF InWindow, processing
  <2>2. InHand' = (next_in' \o Held') \o rest'
    BY <2>1, HandNext DEF InHandIs
  <2> QED
    BY <1>2, <1>3, <1>4, <1>5, <2>1, <2>2
<1>6. CASE ~ c.window
  <2>1. enc_state' = "ENC_INPUT" /\ MoreInput
    BY <1>3, <1>6
  <2>2. rest' = rest /\ pc' # "process"
    <3>1. CASE short
      <4>1. Return(TRUE) /\ rest = <<>>
        BY <1>1, <2>1, <3>1 DEF MoreInput, Control
      <4> QED
        BY <4>1, ReturnOutcome
    <3>2. CASE ~ short
      BY <2>1, <3>2 DEF MoreInput
    <3> QED
      BY <3>1, <3>2
  <2>3. ~ InWindow'
    BY <2>1 DEF InWindow
  <2>4. InHand' = Held' \o rest' /\ Held' \in Bytes
    BY <2>2, <2>3, HandNext DEF InHandIs
  <2>5. <<>> \o Held' = Held'
    BY <2>4, Joining
  <2> QED
    BY <1>2, <1>4, <1>6, <2>2, <2>4, <2>5
<1> QED
  BY <1>5, <1>6

\* Every step keeps the bytes written, in the file or in hand.
LEMMA ContentStep ==
  ASSUME IInv, Next, TypeOK'
  PROVE  ConservesContent'
<1> USE WriterAssumption DEF Begun, Running, Stuck
<1>1. TypeOK /\ Control /\ Sizes /\ LastPage /\ ConservesContent
  BY DEF IInv
<1>2. /\ InHandIs /\ InHandIs'
      /\ next_in \in Bytes /\ rest \in Bytes /\ committed \in Bytes
  BY <1>1, HandNow, HandNext DEF TypeOK
<1>3. ASSUME Stuck' \/ mode' # "writing"
      PROVE  ConservesContent'
  BY <1>3 DEF ConservesContent
<1>4. ASSUME mode = "writing", ~ Stuck, written' = written,
             committed' \o InHand' = committed \o InHand
      PROVE  ConservesContent'
  BY <1>1, <1>4 DEF ConservesContent
<1>5. ASSUME mode' = mode, UNCHANGED <<written, committed>>,
             ~ Stuck => InHand' = InHand, Stuck => Stuck'
      PROVE  ConservesContent'
  BY <1>1, <1>5 DEF ConservesContent
<1>6. ASSUME NEW n \in Contents, Write(n)
      PROVE  ConservesContent'
  <2> DEFINE new == [i \in 1..n |-> written + i]
  <2>1. /\ pc = "idle" /\ pc' = "input" /\ mode = "writing" /\ mode' = mode
        /\ written' = written + n /\ rest' = new
        /\ UNCHANGED <<enc_state, next_in, buf_in, leftover, avail_out, page, pages, committed>>
    BY <1>6 DEF Write, Run, input, output, world
  <2>2. /\ n \in Nat /\ written \in Nat
        /\ First(written) \in Bytes /\ new \in Bytes
        /\ First(written) \o new = First(written + n)
    BY <1>1, Counting DEF TypeOK
  <2> HIDE DEF new
  <2>3. CASE ~ Begun
    BY <1>1, <1>3, <2>1, <2>3 DEF Control, TypeOK
  <2>4. CASE Begun
    <3>1. rest = <<>> /\ Held' = Held /\ ~ Stuck
      BY <1>1, <2>1, <2>4 DEF Control, Held
    <3>2. InHand = Held /\ Held \in Bytes
      <4>1. InHand = Held \o <<>>
        BY <1>2, <2>1, <2>4, <3>1 DEF InHandIs, InWindow
      <4> QED
        BY <1>2, <4>1, Joining DEF InHandIs
    <3>3. InHand' = Held \o new
      BY <1>2, <2>1, <2>4, <3>1 DEF InHandIs, InWindow
    <3>4. committed \o (Held \o new) = (committed \o Held) \o new
      <4>1. committed \in Bytes /\ Held \in Bytes /\ new \in Bytes
        BY <1>2, <2>2, <3>2
      <4> QED
        BY ONLY <4>1, Regrouping
    <3>5. committed \o Held = First(written)
      BY <1>1, <2>1, <3>1, <3>2 DEF ConservesContent, First
    <3> QED
      BY <2>1, <2>2, <3>3, <3>4, <3>5 DEF ConservesContent, First
  <2> QED
    BY <2>3, <2>4
<1>7. ASSUME NEW m \in {"flush", "close"}, Flush(m)
      PROVE  ConservesContent'
  <2>1. /\ pc = "idle" /\ pc' \notin {"process", "output"}
        /\ rest' = rest \/ rest' = <<>>
        /\ UNCHANGED <<mode, enc_state, next_in, buf_in, leftover, avail_out, page, pages,
                       committed, written>>
    BY <1>7 DEF Flush, Run, input, output, world
  <2>2. rest' = rest
    BY <1>1, <2>1 DEF Control
  <2>3. InHand' = InHand
    BY <2>1, <2>2 DEF InHand, InWindow, Held
  <2> QED
    BY <1>5, <2>1, <2>3
<1>8. CASE Open
  BY <1>3, <1>8 DEF Open
<1>9. ASSUME NEW s \in Sources \cup {NoSource}, SetSource(s)
      PROVE  ConservesContent'
  BY <1>1, <1>9
  DEF SetSource, ConservesContent, InHand, InWindow, Held, deltafile, processing, input, output,
      world
<1>10. CASE ReadInput
  <2>1. /\ pc = "input" /\ pc' = "process"
        /\ next_in' = Chunk(rest, WinSize) /\ rest' = Beyond(rest, WinSize)
        /\ UNCHANGED <<mode, enc_state, buf_in, leftover, avail_out, committed, written>>
    BY <1>10 DEF ReadInput, deltafile, output, world
  <2>2. /\ next_in' \in Bytes /\ rest' \in Bytes /\ next_in' \o rest' = rest
    BY <1>2, <2>1, Cutting
  <2>3. ASSUME ~ Stuck
        PROVE  InHand' = InHand
    <3>1. Begun
      BY <1>1, <2>1, <2>3 DEF Control, TypeOK
    <3>2. InHand = Held \o rest /\ Held \in Bytes /\ Held' = Held
      BY <1>2, <2>1, <3>1 DEF InHandIs, InWindow, Held
    <3>3. InHand' = (Held \o next_in') \o rest'
      BY <1>2, <2>1, <3>1, <3>2 DEF InHandIs
    <3> QED
      BY <2>2, <3>2, <3>3, Regrouping
  <2> QED
    BY <1>5, <2>1, <2>3
<1>11. CASE BeginWindow
  <2>1. Ready(next_in) /\ TakeInput(next_in) /\ pc = "process" /\ Begun
        /\ UNCHANGED <<committed, written>>
    BY <1>11, PieceIsReady DEF BeginWindow, Working, world
  <2>2. InHand' = InHand
    BY <1>2, <2>1, TakeInputHand DEF InHandIs
  <2>3. mode = "writing" \/ mode' # "writing"
    BY <1>1, <2>1 DEF Control
  <2> QED
    BY <1>3, <1>4, <2>1, <2>2, <2>3
<1>12. CASE EncodeWindow
  <2>1. /\ enc_state = "ENC_SEARCH" /\ enc_state' = "ENC_POSTOUT" /\ avail_out' /\ pc' = "output"
        /\ UNCHANGED <<mode, rest, next_in, buf_in, leftover, committed, written>>
    BY <1>12 DEF EncodeWindow, Working, deltafile, input, world
  <2>2. InHand' = InHand
    BY <1>2, <2>1 DEF InHandIs, InWindow, Held
  <2> QED
    BY <1>5, <2>1, <2>2
<1>13. CASE NextPage
  <2>1. /\ enc_state = "ENC_POSTOUT" /\ ~ avail_out /\ page < pages
        /\ avail_out' /\ pc' = "output"
        /\ UNCHANGED <<mode, rest, enc_state, next_in, buf_in, leftover, committed, written>>
    BY <1>13 DEF NextPage, Working, deltafile, input, world
  <2>2. InHand' = InHand
    BY <1>2, <2>1 DEF InHandIs, InWindow, Held
  <2> QED
    BY <1>5, <2>1, <2>2
<1>14. CASE FinishWindow
  <2>1. /\ enc_state = "ENC_POSTOUT" /\ ~ avail_out /\ page = pages /\ pages \in Nat
        /\ enc_state' = "ENC_POSTWIN"
        /\ UNCHANGED <<mode, pc, rest, next_in, buf_in, leftover, avail_out, committed, written>>
    BY <1>1, <1>14
    DEF TypeOK, FinishWindow, Working, deltafile, processing, input, output, world
  <2>2. InHand' = InHand
    <3>1. ~ InWindow /\ ~ InWindow'
      BY <2>1 DEF InWindow
    <3>2. Held' = Held
      BY <2>1 DEF Held
    <3> QED
      BY <1>2, <2>1, <3>1, <3>2 DEF InHandIs
  <2> QED
    BY <1>5, <2>1, <2>2
<1>15. CASE MissedOutput
  <2>1. /\ enc_state = "ENC_POSTOUT" /\ avail_out /\ Return(FALSE)
        /\ UNCHANGED <<enc_state, avail_out>>
    BY <1>15 DEF MissedOutput, output
  <2> QED
    BY <1>3, <2>1, ReturnOutcome
<1>16. CASE ResetWindow
  <2>1. /\ enc_state = "ENC_POSTWIN" /\ pc = "process" /\ mode = "writing"
        /\ UNCHANGED <<committed, written>>
    BY <1>1, <1>16 DEF ResetWindow, Working, world, Control
  <2>2. InHand = Held \o rest /\ Held \in Bytes
    BY <1>2, <2>1 DEF InHandIs, InWindow
  <2>3. CASE leftover # None
    <3>1. Ready(<<>>) /\ TakeInput(<<>>)
      BY <1>16, <2>3, PieceIsReady DEF ResetWindow
    <3>2. InHand' = (Held \o <<>>) \o rest
      BY <2>1, <3>1, TakeInputHand
    <3>3. Held \o <<>> = Held
      BY <2>2, Joining
    <3> QED
      BY <1>4, <2>1, <2>2, <3>2, <3>3
  <2>4. CASE leftover = None
    <3>1. /\ enc_state' = "ENC_INPUT" /\ MoreInput
          /\ UNCHANGED <<buf_in, leftover>>
      BY <1>16, <2>4 DEF ResetWindow
    <3>2. rest' = rest /\ pc' # "process"
      <4>1. CASE short
        BY <1>1, <2>1, <3>1, <4>1, ReturnOutcome DEF MoreInput, Control
      <4>2. CASE ~ short
        BY <3>1, <4>2 DEF MoreInput
      <4> QED
        BY <4>1, <4>2
    <3>3. InHand' = Held \o rest
      BY <1>2, <3>1, <3>2 DEF InHandIs, InWindow, Held
    <3> QED
      BY <1>4, <2>1, <2>2, <3>3
  <2> QED
    BY <2>3, <2>4
<1>17. CASE OutputPage
  <2>1. /\ enc_state = "ENC_POSTOUT" /\ avail_out /\ pc = "output" /\ mode = "writing"
        /\ page \in 1..pages /\ page \in Nat /\ pages \in Nat
    BY <1>1, <1>17 DEF OutputPage, Control, LastPage, TypeOK
  <2>2. /\ ~ avail_out' /\ pc' = "process"
        /\ committed' = IF page = pages THEN committed \o next_in ELSE committed
        /\ UNCHANGED <<mode, rest, enc_state, next_in, buf_in, leftover, page, pages, written>>
    BY <1>17 DEF OutputPage, deltafile, input
  <2>3. InHand = (next_in \o Held) \o rest /\ Held \in Bytes /\ Held' = Held
    BY <1>2, <2>1, <2>2 DEF InHandIs, InWindow, Held
  <2>4. CASE page = pages
    <3>1. InHand' = Held \o rest /\ committed' = committed \o next_in
      BY <1>2, <2>1, <2>2, <2>3, <2>4 DEF InHandIs, InWindow
    <3>2. InHand = next_in \o (Held \o rest)
      BY <1>2, <2>3, Regrouping, SMTT(30)
    <3>3. Held \o rest \in Bytes
      BY <1>2, <2>3, Joining
    <3>4. (committed \o next_in) \o (Held \o rest) = committed \o (next_in \o (Held \o rest))
      BY <1>2, <3>3, Regrouping
    <3> QED
      BY <1>4, <2>1, <2>2, <3>1, <3>2, <3>4
  <2>5. CASE page # pages
    <3>1. InHand' = InHand
      BY <1>2, <2>1, <2>2, <2>3, <2>5 DEF InHandIs, InWindow
    <3> QED
      BY <1>4, <2>1, <2>2, <2>5, <3>1
  <2> QED
    BY <2>4, <2>5
<1>18. CASE OutputFails
  <2>1. /\ enc_state = "ENC_POSTOUT" /\ avail_out /\ Return(FALSE)
        /\ UNCHANGED <<enc_state, avail_out>>
    BY <1>1, <1>18 DEF OutputFails, Control, output
  <2> QED
    BY <1>3, <2>1, ReturnOutcome
<1>19. CASE Discard
  BY <1>3, <1>19 DEF Discard
<1> QED
  BY <1>6, <1>7, <1>8, <1>9, <1>10, <1>11, <1>12, <1>13, <1>14, <1>15, <1>16, <1>17, <1>18, <1>19
  DEF Next, Process

\* With nothing in hand, all that was written is in the file.
LEMMA NothingInHand ==
  ASSUME TypeOK', ConservesContent', mode' = "writing", ~ Stuck', ~ InWindow',
         pc' # "process", Held' = <<>>, rest' = <<>>
  PROVE  committed' = [i \in 1..written' |-> i]
<1>1. InHand' = Held' \o rest' /\ committed' \in Bytes
  BY HandNext DEF InHandIs, TypeOK
<1>2. <<>> \o <<>> = <<>>
  BY NoBytes, Joining
<1>3. committed' \o <<>> = committed'
  BY <1>1, Joining
<1> QED
  BY <1>1, <1>2, <1>3 DEF ConservesContent

\* A flush that returns leaves nothing in hand.
LEMMA FlushStep ==
  ASSUME IInv, Next, TypeOK', Safe', ConservesContent'
  PROVE  FlushCommits'
<1> USE DEF Begun, Running, Stuck
<1>1. TypeOK /\ Control /\ Sizes /\ FlushCommits
  BY DEF IInv
<1>2. ASSUME pc' # "idle" \/ mode' # "writing"
      PROVE  FlushCommits'
  BY <1>2 DEF FlushCommits
<1>3. ASSUME pc = "idle", UNCHANGED <<mode, pc, result, committed, written>>
      PROVE  FlushCommits'
  BY <1>1, <1>3 DEF FlushCommits
<1>4. ASSUME result' # <<"flush", TRUE>>
      PROVE  FlushCommits'
  BY <1>4 DEF FlushCommits
<1>5. ASSUME Return(FALSE)
      PROVE  FlushCommits'
  <2>1. result' = <<call, FALSE>>
    BY <1>5 DEF Return
  <2>2. <<call, FALSE>> # <<"flush", TRUE>>
    OBVIOUS
  <2> QED
    BY <1>4, <2>1, <2>2
<1>6. ASSUME MoreInput, ~ flush, pc = "process"
      PROVE  FlushCommits'
  <2>1. CASE short
    <3>1. call = "write" /\ Return(TRUE)
      BY <1>1, <1>6, <2>1 DEF Control, MoreInput
    <3>2. result' = <<"write", TRUE>>
      BY <3>1 DEF Return
    <3>3. <<"write", TRUE>> # <<"flush", TRUE>>
      OBVIOUS
    <3> QED
      BY <1>4, <3>2, <3>3
  <2>2. CASE ~ short
    BY <1>2, <1>6, <2>2 DEF MoreInput
  <2> QED
    BY <2>1, <2>2
<1>7. ASSUME NEW n \in Contents, Write(n)
      PROVE  FlushCommits'
  BY <1>2, <1>7 DEF Write, Run
<1>8. ASSUME NEW m \in {"flush", "close"}, Flush(m)
      PROVE  FlushCommits'
  <2>1. CASE enc_state # "ENC_INIT"
    BY <1>2, <1>8, <2>1 DEF Flush, Run
  <2>2. CASE enc_state = "ENC_INIT" /\ pc' = "idle" /\ mode' = "writing"
    <3>1. /\ enc_state' = "ENC_INIT" /\ pc = "idle"
          /\ UNCHANGED <<rest, buf_in, leftover, avail_out>>
      BY <1>8, <2>2 DEF Flush, input, output
    <3>2. rest' = <<>> /\ Held' = <<>> /\ ~ Stuck' /\ ~ InWindow'
      BY <1>1, <2>2, <3>1 DEF Control, Sizes, Held, InWindow
    <3> QED
      BY <2>2, <3>2, NothingInHand DEF FlushCommits
  <2> QED
    BY <1>2, <2>1, <2>2
<1>9. CASE Open
  BY <1>2, <1>9 DEF Open
<1>10. ASSUME NEW s \in Sources \cup {NoSource}, SetSource(s)
       PROVE  FlushCommits'
  BY <1>3, <1>10 DEF SetSource, deltafile, processing, world
<1>11. ASSUME NEW in, Ready(in), TakeInput(in), pc = "process"
       PROVE  FlushCommits'
  BY <1>2, <1>6, <1>11, TakeInputOutcome
<1>12. CASE ReadInput \/ EncodeWindow \/ NextPage \/ OutputPage
  BY <1>2, <1>12 DEF ReadInput, EncodeWindow, NextPage, OutputPage
<1>13. CASE BeginWindow
  BY <1>11, <1>13, PieceIsReady DEF BeginWindow, Working
<1>14. CASE FinishWindow
  BY <1>2, <1>14 DEF FinishWindow, Working, processing
<1>15. CASE MissedOutput \/ OutputFails
  BY <1>5, <1>15 DEF MissedOutput, OutputFails
<1>16. CASE ResetWindow
  <2>1. CASE leftover # None
    BY <1>11, <1>16, <2>1, PieceIsReady DEF ResetWindow, Working
  <2>2. CASE leftover = None /\ pc' = "idle" /\ mode' = "writing"
    <3>1. /\ enc_state = "ENC_POSTWIN" /\ enc_state' = "ENC_INPUT" /\ MoreInput
          /\ UNCHANGED <<buf_in, leftover, avail_out>>
      BY <1>16, <2>2 DEF ResetWindow
    <3>2. Return(TRUE)
      BY <2>2, <3>1 DEF MoreInput
    <3>3. rest' = <<>> /\ Held' = <<>> /\ ~ Stuck' /\ ~ InWindow'
      BY <1>1, <2>2, <3>1, <3>2, ReturnOutcome DEF Sizes, Held, InWindow
    <3> QED
      BY <2>2, <3>3, NothingInHand DEF FlushCommits
  <2> QED
    BY <1>2, <2>1, <2>2
<1>17. CASE Discard
  BY <1>2, <1>17 DEF Discard
<1> QED
  BY <1>7, <1>8, <1>9, <1>10, <1>12, <1>13, <1>14, <1>15, <1>16, <1>17 DEF Next, Process

-----------------------------------------------------------------------------
(* The theorems. *)

\* A stream that was just opened satisfies the invariant.
LEMMA InitIInv == Init => IInv
<1> SUFFICES ASSUME Init
             PROVE  IInv
  OBVIOUS
<1> USE NoBytes, WriterAssumption
<1>1. result \in Methods \X BOOLEAN
  BY Zenon DEF Init, Methods
<1>2. file \in Seq(FilePages)
  BY EmptySeq DEF Init
<1>3. TypeOK
  BY <1>1, <1>2 DEF Init, TypeOK, Methods, FileSources
<1>4. Control /\ Sizes /\ BufferFits
  BY DEF Init, Control, Sizes, BufferFits, Begun, Running
<1>5. LastPage /\ WindowsAreFull /\ TornOnlyAtTheEnd
  BY DEF Init, LastPage, Whole, WindowsAreFull, TornOnlyAtTheEnd
<1>6. ConservesContent
  <2>1. Held = <<>> /\ ~ InWindow /\ pc # "process" /\ rest = <<>>
    BY DEF Init, Held, InWindow
  <2>2. InHand = <<>> \o <<>>
    BY <1>3, <2>1, HandNow DEF InHandIs
  <2>3. <<>> \o <<>> = <<>>
    BY Joining
  <2>4. First(0) = <<>>
    <3>1. First(0) \in Bytes /\ Len(First(0)) = 0
      BY IsASeq DEF First, Bytes
    <3> QED
      BY <3>1, Joining
  <2> QED
    BY <2>2, <2>3, <2>4 DEF Init, ConservesContent, First
<1>7. FlushCommits
  BY DEF Init, FlushCommits
<1> QED
  BY <1>3, <1>4, <1>5, <1>6, <1>7 DEF IInv

\* Every step keeps the invariant.
LEMMA NextIInv == IInv /\ [Next]_vars => IInv'
<1>1. ASSUME IInv, Next
      PROVE  IInv'
  BY <1>1, TypeStep, SafeStep, FileStep, ContentStep, FlushStep DEF IInv, Safe, FileIsRight
<1>2. ASSUME IInv, UNCHANGED vars
      PROVE  IInv'
  <2>1. UNCHANGED <<mode, call, result, pc, rest, short, enc_state, flush, next_in, buf_in,
                    leftover, page, pages, avail_out, source, file, committed, failures, written>>
    BY <1>2 DEF vars, deltafile, processing, input, output, world
  <2>2. TypeOK'
    BY <1>2, <2>1 DEF IInv, TypeOK
  <2>3. Control' /\ Sizes' /\ BufferFits'
    BY <1>2, <2>1 DEF IInv, Control, Sizes, BufferFits, Begun, Running, Stuck
  <2>4. LastPage' /\ WindowsAreFull' /\ TornOnlyAtTheEnd'
    BY <1>2, <2>1 DEF IInv, LastPage, Whole, Shows, WindowsAreFull, TornOnlyAtTheEnd
  <2>5. ConservesContent' /\ FlushCommits'
    BY <1>2, <2>1
    DEF IInv, ConservesContent, FlushCommits, InHand, InWindow, Held, Stuck
  <2> QED
    BY <2>2, <2>3, <2>4, <2>5 DEF IInv
<1> QED
  BY <1>1, <1>2

\* The invariant holds in every reachable state.
LEMMA WriterInvariant == Spec => []IInv
BY InitIInv, NextIInv, PTL DEF Spec

\* What xd3_encode_buffer_leftover asserts: leftover input is shorter than a window and
\* never joins other buffered input; a full buffer never waits for more.
THEOREM InputFits == Spec => []BufferFits
<1>1. IInv => BufferFits
  BY DEF IInv
<1> QED
  BY <1>1, WriterInvariant, PTL

\* While nothing has failed the complete windows of the file and what the encoder has
\* in hand are the bytes written, each once and in order.
THEOREM NothingIsLost == Spec => []ConservesContent
<1>1. IInv => ConservesContent
  BY DEF IInv
<1> QED
  BY <1>1, WriterInvariant, PTL

\* No write cuts a window short: only flush and close do.
THEOREM WritesFillWindows == Spec => []WindowsAreFull
<1>1. IInv => WindowsAreFull
  BY DEF IInv
<1> QED
  BY <1>1, WriterInvariant, PTL

\* The file's pages are those of its windows, in order, of one source; a failure of the
\* target leaves at most the last window torn.
THEOREM FileHasNoGaps == Spec => []TornOnlyAtTheEnd
<1>1. IInv => TornOnlyAtTheEnd
  BY DEF IInv
<1> QED
  BY <1>1, WriterInvariant, PTL

\* When flush returns, all that was written is in complete windows of the file.
THEOREM FlushIsComplete == Spec => []FlushCommits
<1>1. IInv => FlushCommits
  BY DEF IInv
<1> QED
  BY <1>1, WriterInvariant, PTL

\* Between calls no leftover input refers to a string that is gone, except in an encoder
\* that will not go on.
THEOREM LeftoverIsUsed == Spec => []NoDanglingInput
<1>1. IInv => NoDanglingInput
  BY DEF IInv, TypeOK, Control, Sizes, Begun, Stuck, NoDanglingInput
<1> QED
  BY <1>1, WriterInvariant, PTL
=============================================================================
