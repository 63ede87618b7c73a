----------------------------- MODULE ByteBuffer -----------------------------
(***************************************************************************)
(* buffer.c: the growing byte buffer in which a Stream keeps decoded bytes *)
(* its reader has not asked for yet.  A struct of a heap block, the number *)
(* of bytes used in it and the offset of the first byte not yet taken.     *)
(*                                                                         *)
(* The n-th byte ever appended is written n: buffer.c copies bytes and     *)
(* never inspects one.  `stored', `taken' and `last' are history; the code *)
(* keeps none of them.                                                     *)
(***************************************************************************)
EXTENDS Integers

CONSTANTS
  MinWasteage,   \* MIN_WASTEAGE
  MaxWasteage,   \* MAX_WASTEAGE
  MaxLen,        \* bound: longest single append or take
  MaxStored      \* bound: bytes appended in a behaviour

ASSUME WasteageAssumption ==
  /\ MinWasteage \in Nat
  /\ MaxWasteage \in Nat
  /\ MinWasteage <= MaxWasteage
ASSUME BoundsAssumption ==
  /\ MaxLen \in Nat
  /\ MaxStored \in Nat

VARIABLES
  allocated,   \* *buffer != NULL
  data,        \* contents of the heap block; NoBlock is data = NULL
  size,
  offset,
  stored, taken, last

buffer_vars == <<allocated, data, size, offset, stored, taken, last>>
history == <<stored, taken, last>>

NoBlock == [k \in 1..0 |-> 0]

BufferInit ==
  /\ allocated = FALSE
  /\ data = NoBlock
  /\ size = 0
  /\ offset = 0
  /\ stored = 0
  /\ taken = 0
  /\ last = <<>>

\* buffer_remaining
Remaining == size - offset

\* The condition under which the taken bytes are left where they are.
KeepsWaste ==
  \/ offset < MinWasteage
  \/ offset < MaxWasteage /\ offset > size \div 4

\* The next len bytes of the caller, placed after the first `used' bytes of `block'.
Extended(block, used, len) ==
  [k \in 1..(used + len) |-> IF k <= used THEN block[k] ELSE stored + (k - used)]

\* buffer_append with len = 0: at most the struct is allocated.
AppendNothing ==
  /\ allocated' = TRUE
  /\ last' = <<>>
  /\ UNCHANGED <<data, size, offset, stored, taken>>

\* buffer_append, the block grown in place by realloc.
AppendGrow(len) ==
  /\ KeepsWaste
  /\ allocated' = TRUE
  /\ data' = Extended(data, size, len)
  /\ size' = size + len
  /\ stored' = stored + len
  /\ last' = <<>>
  /\ UNCHANGED <<offset, taken>>

\* Mutant: the offset is not reset after the bytes have moved.
AppendCompact_KeepsOffset(len) ==
  /\ ~KeepsWaste
  /\ allocated' = TRUE
  /\ data' = Extended([k \in 1..Remaining |-> data[offset + k]], Remaining, len)
  /\ size' = Remaining + len
  /\ stored' = stored + len
  /\ last' = <<>>
  /\ UNCHANGED <<offset, taken>>

\* Mutant: the bytes moved are those at the front of the old block.
AppendCompact_FromFront(len) ==
  /\ ~KeepsWaste
  /\ allocated' = TRUE
  /\ data' = Extended([k \in 1..Remaining |-> data[k]], Remaining, len)
  /\ size' = Remaining + len
  /\ offset' = 0
  /\ stored' = stored + len
  /\ last' = <<>>
  /\ UNCHANGED taken

\* buffer_append, the bytes not yet taken moved to the front of a new block.
AppendCompact(len) ==
  /\ ~KeepsWaste
  /\ allocated' = TRUE
  /\ data' = Extended([k \in 1..Remaining |-> data[offset + k]], Remaining, len)
  /\ size' = Remaining + len
  /\ offset' = 0
  /\ stored' = stored + len
  /\ last' = <<>>
  /\ UNCHANGED taken

\* buffer_append returning 0: calloc failed, or realloc or malloc after it.
AppendFails ==
  /\ allocated' \in {allocated, TRUE}
  /\ last' = <<>>
  /\ UNCHANGED <<data, size, offset, stored, taken>>

\* buffer_take on no buffer or an empty one.
TakeNothing ==
  /\ ~allocated \/ data = NoBlock
  /\ last' = <<>>
  /\ UNCHANGED <<allocated, data, size, offset, stored, taken>>

\* Mutant: the bytes handed out are those at the front of the block.
Take_FromFront(len) ==
  LET n == IF Remaining < len THEN Remaining ELSE len
  IN  /\ allocated /\ data # NoBlock
      /\ last' = [k \in 1..n |-> data[k]]
      /\ taken' = taken + n
      /\ IF offset + n = size
         THEN data' = NoBlock /\ size' = 0 /\ offset' = 0
         ELSE offset' = offset + n /\ UNCHANGED <<data, size>>
      /\ UNCHANGED <<allocated, stored>>

\* buffer_take; the block is freed once its last byte is taken.
Take(len) ==
  LET n == IF Remaining < len THEN Remaining ELSE len
  IN  /\ allocated /\ data # NoBlock
      /\ last' = [k \in 1..n |-> data[offset + k]]
      /\ taken' = taken + n
      /\ IF offset + n = size
         THEN data' = NoBlock /\ size' = 0 /\ offset' = 0
         ELSE offset' = offset + n /\ UNCHANGED <<data, size>>
      /\ UNCHANGED <<allocated, stored>>

\* buffer_release
Release ==
  /\ allocated
  /\ allocated' = FALSE
  /\ data' = NoBlock
  /\ size' = 0
  /\ offset' = 0
  /\ taken' = stored
  /\ last' = <<>>
  /\ UNCHANGED stored

AppendBytes(len) ==
  /\ stored + len <= MaxStored
  /\ \/ AppendGrow(len)
     \/ AppendCompact(len)
     \/ AppendFails

BufferNext ==
  \/ AppendNothing
  \/ \E len \in 1..MaxLen : AppendBytes(len)
  \/ TakeNothing
  \/ \E len \in 0..MaxLen : Take(len)
  \/ Release

BufferSpec == BufferInit /\ [][BufferNext]_buffer_vars

-----------------------------------------------------------------------------
\* The fields keep their types, and the heap block is exactly as long as `size'
\* says: no append or take reaches outside it.
TypeOK ==
  /\ allocated \in BOOLEAN
  /\ size \in Nat
  /\ offset \in 0..size
  /\ data \in [1..size -> Nat]
  /\ stored \in Nat
  /\ taken \in 0..stored
  /\ ~allocated => size = 0

\* What is in the buffer is what was stored and not yet taken, in order: however
\* growing, compaction and failures alternate, no byte of buffer_append is lost,
\* repeated or moved.
HoldsTheRest ==
  /\ stored = taken + Remaining
  /\ \A k \in 1..Remaining : data[offset + k] = taken + k

Fifo == INSTANCE ByteFifo WITH Lens <- 0..MaxLen

\* buffer.h's contract: buffer_append and buffer_take behave as a first-in
\* first-out queue of bytes, failed allocations included.
ImplementsFifo == Fifo!Spec
=============================================================================
