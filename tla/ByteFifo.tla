------------------------------ MODULE ByteFifo ------------------------------
(***************************************************************************)
(* What buffer.h promises of a byte buffer: bytes come out in the order    *)
(* they were stored, each once, and a request takes as many of them as are *)
(* there.  The n-th byte ever stored is called n; the buffer never looks   *)
(* at a byte, so nothing else about it matters.                            *)
(***************************************************************************)
EXTENDS Integers, Sequences

CONSTANT Lens   \* the lengths a caller may ask to store or to take

VARIABLES
  stored,   \* number of bytes stored so far
  taken,    \* number of bytes that left the buffer (taken or released)
  last      \* the bytes the last operation returned to its caller

vars == <<stored, taken, last>>

Init ==
  /\ stored = 0
  /\ taken = 0
  /\ last = <<>>

\* len more bytes are stored.
Store(len) ==
  /\ stored' = stored + len
  /\ last' = <<>>
  /\ UNCHANGED taken

\* A request to store is refused: nothing of it is kept.
Refuse ==
  /\ last' = <<>>
  /\ UNCHANGED <<stored, taken>>

\* A reader gets the next bytes in order, at most len of them.
Get(len) ==
  LET n == IF stored - taken < len THEN stored - taken ELSE len
  IN  /\ taken' = taken + n
      /\ last' = [k \in 1..n |-> taken + k]
      /\ UNCHANGED stored

\* The buffer is released with whatever it still holds.
Drop ==
  /\ taken' = stored
  /\ last' = <<>>
  /\ UNCHANGED stored

Next ==
  \/ \E len \in Lens : Store(len) \/ Get(len)
  \/ Refuse
  \/ Drop

Spec == Init /\ [][Next]_vars
=============================================================================
