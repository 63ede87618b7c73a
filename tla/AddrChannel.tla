---------------------------- MODULE AddrChannel ----------------------------
(***************************************************************************)
(* An encoder and a decoder that share nothing but a stream of instructions*)
(* and must keep their address caches in step: xd3_encode_address updates  *)
(* the one, xd3_decode_address the other, any number of instructions       *)
(* later.  Both are cleared at the start of a window (xd3_encode_input,    *)
(* xd3_decode_init_window), where positions start after the source window. *)
(*                                                                         *)
(* `past' is history: for each instruction on the wire, the state in which *)
(* the encoder sent it and the address it meant.                           *)
(***************************************************************************)
EXTENDS AddrCache, Sequences

CONSTANTS
  SourceLens,   \* lengths of a source window
  Sizes,        \* lengths of an instruction
  MaxPos,       \* bound: positions in a window
  MaxLag        \* bound: instructions on the wire

ASSUME ChannelAssumption ==
  /\ SourceLens \subseteq Nat
  /\ Sizes \subseteq Nat \ {0}
  /\ MaxPos \in Nat
  /\ MaxLag \in Nat

VARIABLES
  enc,       \* the encoder's acache
  here,      \* its position in the window: taroff + inst->pos
  dec,       \* the decoder's acache
  dhere,     \* dec_position
  wire,      \* the instructions between them
  past,
  decoded    \* the last address decoded, and the one that was meant

vars == <<enc, here, dec, dhere, wire, past, decoded>>
encoder == <<enc, here>>
decoder == <<dec, dhere, decoded>>

Init ==
  /\ \E n \in SourceLens : here = n /\ dhere = n
  /\ enc = EmptyCache
  /\ dec = EmptyCache
  /\ wire = <<>>
  /\ past = <<>>
  /\ decoded = <<0, 0>>

Window(n) == [kind |-> "window", size |-> n]
NoCopy(n) == [kind |-> "add", size |-> n]
Copy(n, a) == [kind |-> "copy", size |-> n, mode |-> a.mode, value |-> a.value]

Emit(inst, addr) ==
  /\ Len(wire) < MaxLag
  /\ wire' = Append(wire, inst)
  /\ past' = Append(past, [cache |-> enc, here |-> here, addr |-> addr])

\* The encoder starts a window over the first n bytes of a source.
StartWindow(n) ==
  /\ Emit(Window(n), 0)
  /\ enc' = EmptyCache
  /\ here' = n
  /\ UNCHANGED decoder

\* An ADD or RUN of n bytes.
EmitNoCopy(n) ==
  /\ here + n <= MaxPos
  /\ Emit(NoCopy(n), 0)
  /\ here' = here + n
  /\ UNCHANGED <<enc, decoder>>

\* A copy of n bytes from addr, which lies before the current position.
EmitCopy(n, addr) ==
  /\ here + n <= MaxPos
  /\ addr < here
  /\ Emit(Copy(n, Encode(enc, addr, here)), addr)
  /\ enc' = Update(enc, addr)
  /\ here' = here + n
  /\ UNCHANGED decoder

Receive(kind) ==
  /\ wire # <<>>
  /\ Head(wire).kind = kind
  /\ wire' = Tail(wire)
  /\ past' = Tail(past)

\* Mutant: the decoder keeps its cache across windows.
ReadWindow_KeepsCache ==
  /\ Receive("window")
  /\ dhere' = Head(wire).size
  /\ UNCHANGED <<encoder, dec, decoded>>

\* xd3_decode_init_window
ReadWindow ==
  /\ Receive("window")
  /\ dec' = EmptyCache
  /\ dhere' = Head(wire).size
  /\ UNCHANGED <<encoder, decoded>>

ReadNoCopy ==
  /\ Receive("add")
  /\ dhere' = dhere + Head(wire).size
  /\ UNCHANGED <<encoder, dec, decoded>>

\* xd3_decode_parse_halfinst for a copy.
ReadCopy ==
  LET addr == Decode(dec, dhere, Head(wire).mode, Head(wire).value)
  IN  /\ Receive("copy")
      /\ dec' = Update(dec, addr)
      /\ dhere' = dhere + Head(wire).size
      /\ decoded' = <<addr, Head(past).addr>>
      /\ UNCHANGED encoder

Next ==
  \/ \E n \in SourceLens : StartWindow(n)
  \/ \E n \in Sizes : EmitNoCopy(n)
  \/ \E n \in Sizes, addr \in 0..(MaxPos - 1) : EmitCopy(n, addr)
  \/ ReadWindow
  \/ ReadNoCopy
  \/ ReadCopy

Spec == Init /\ [][Next]_vars

-----------------------------------------------------------------------------
\* Both caches and everything on the wire keep their types; a SAME value fits a
\* byte and a mode is one of the code table's.
TypeOK ==
  /\ enc \in Caches
  /\ dec \in Caches
  /\ here \in Nat /\ dhere \in Nat
  /\ \A i \in 1..Len(wire) :
       wire[i].kind = "copy" => /\ wire[i].mode \in 0..(TotalModes - 1)
                                /\ wire[i].value \in Nat
                                /\ wire[i].mode >= FirstSame => wire[i].value < Buckets

\* Every address comes out as it went in, however far the decoder lags behind
\* and whatever windows were started in between.
AddressesSurvive == decoded[1] = decoded[2]

\* Where the encoder stood when it sent the i-th instruction on the wire.
EncoderAt(i) ==
  IF i <= Len(wire) THEN [cache |-> past[i].cache, here |-> past[i].here]
  ELSE [cache |-> enc, here |-> here]

\* inst takes the encoder from state `from' to state `to'.
Leads(inst, from, to) ==
  \/ /\ inst = Window(inst.size)
     /\ to = [cache |-> EmptyCache, here |-> inst.size]
  \/ /\ inst = NoCopy(inst.size)
     /\ to = [cache |-> from.cache, here |-> from.here + inst.size]
  \/ /\ from.addr < from.here
     /\ inst = Copy(inst.size, Encode(from.cache, from.addr, from.here))
     /\ to = [cache |-> Update(from.cache, from.addr), here |-> from.here + inst.size]

\* The decoder's cache and position are always those the encoder had when it sent
\* the next instruction on the wire: the lag never puts them out of step, and once
\* it has caught up the two caches are equal.
InStep ==
  /\ Len(past) = Len(wire)
  /\ [cache |-> dec, here |-> dhere] = EncoderAt(1)
  /\ \A i \in 1..Len(wire) : Leads(wire[i], past[i], EncoderAt(i + 1))

\* xd3_encode_address: "Attempt to find the address mode that yields the smallest
\* integer value for d, the encoded address value, thereby minimizing the encoded
\* size of the address": stopping at the first one-byte number costs nothing.
NoShorterForm ==
  \A addr \in 0..(here - 1) :
    LET a == Encode(enc, addr, here)
    IN  /\ \A m \in Usable(enc, addr) :
             Bytes(a.mode, a.value) <= Bytes(m, Distance(enc, addr, here, m))
        /\ SameHit(enc, addr) => Bytes(a.mode, a.value) = 1
=============================================================================
