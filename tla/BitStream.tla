------------------------------ MODULE BitStream ------------------------------
(***************************************************************************)
(* The bit streams of the secondary compressors (xdelta3-second.h).  The   *)
(* C code packs bits into bytes from the least significant mask up and     *)
(* writes a value's most significant bit first: what a reader sees is a    *)
(* sequence of bits, filled with zeros to a whole number of bytes.         *)
(***************************************************************************)
EXTENDS Naturals, Sequences

BYTE_BITS == 8

\* xd3_encode_bits: value in nbits bits, the most significant one first.
xd3_encode_bits(nbits, value) ==
  [i \in 1 .. nbits |-> (value \div 2 ^ (nbits - i)) % 2]

\* xd3_flush_bits: the last, partial byte goes out as it is.
xd3_flush_bits(bits) ==
  bits \o [i \in 1 .. ((BYTE_BITS - (Len(bits) % BYTE_BITS)) % BYTE_BITS) |-> 0]

\* output->next, as far as these bits moved it: a byte counts when its eighth
\* bit is written (xd3_encode_bit).
BytesOut(bits) == Len(bits) \div BYTE_BITS

\* A reader: the input, the bits used of it, the value last read.  "ok" turns
\* FALSE when the input ends too early or holds an invalid code, and the
\* functions that decode give up.
Reader(bits) == [in |-> bits, pos |-> 0, ok |-> TRUE, val |-> 0]

Fail(r) == [r EXCEPT !.ok = FALSE]

\* BIT_STATE_DECODE_INIT and the loop of xd3_decode_bits.
RECURSIVE xd3_decode_bits(_, _)
xd3_decode_bits(r, nbits) ==
  IF ~r.ok \/ r.pos + nbits > Len(r.in)
  THEN Fail(r)
  ELSE IF nbits = 0
       THEN [r EXCEPT !.val = 0]
       ELSE LET high == xd3_decode_bits(r, nbits - 1)
            IN [high EXCEPT !.pos = @ + 1, !.val = 2 * @ + r.in[high.pos + 1]]

\* sect->buf == sect->buf_max: every byte of the input was taken.
InputUsed(r) == Len(r.in) - r.pos < BYTE_BITS

\* xd3_test_clean_bits: no bit is set after the last one that was used.
CleanBits(r) == \A i \in r.pos + 1 .. Len(r.in) : r.in[i] = 0

=============================================================================
