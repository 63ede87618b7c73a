------------------------- MODULE DeltaReaderProofs -------------------------
(***************************************************************************)
(* Theorems about DeltaReader, for every delta, however long its windows   *)
(* and sections are and in whatever pieces the target returns it, and, at  *)
(* the end, about the buffer of buffer.c that read() takes from.           *)
(*                                                                         *)
(* The invariants come in three layers.  IInv says where the decoder may be, *)
(* and of a section that is not copied what makes that safe: the decoder   *)
(* does not stop until the window is decoded, since what is left of the    *)
(* window's sections is all in the input it has.  Position and Gathered say *)
(* which bytes of the file the decoder has consumed and gathered.  Outputs *)
(* says where the bytes decoded are: with callers, on their way, waiting or *)
(* lost.  Sums over windows are defined by recursion; what the proofs need *)
(* of them (IsSum) comes first, by induction.                              *)
(***************************************************************************)
EXTENDS DeltaReader, ByteBuffer, WellFoundedInduction, SequenceTheorems, TLAPS

-----------------------------------------------------------------------------
(* Induction: a property of every number, as the set of those that have it. *)

\* A nonempty set of natural numbers has a smallest one.
LEMMA NatMin ==
  ASSUME NEW T, T \subseteq Nat, T # {}
  PROVE  \E x \in T : \A y \in T : x <= y
<1> DEFINE Less == {p \in Nat \X Nat : p[1] < p[2]}
<1>1. OpToRel(<, Nat) = Less
  BY DEF OpToRel
<1>2. PICK x \in T : \A y \in T : ~ (<<y, x>> \in Less)
  <2>1. IsWellFoundedOn(Less, Nat)
    BY <1>1, NatLessThanWellFounded
  <2> HIDE DEF Less
  <2> QED BY <2>1, WFMin
<1>3. ASSUME NEW y \in T
      PROVE  x <= y
  <2>1. x \in Nat /\ y \in Nat /\ <<y, x>> \in Nat \X Nat
    OBVIOUS
  <2> QED BY <1>2, <2>1
<1> QED BY <1>3

\* A set of numbers that holds 0 and the successor of each of its elements is all.
LEMMA NatInduct ==
  ASSUME NEW T, 0 \in T, \A n \in Nat : n \in T => n + 1 \in T
  PROVE  \A n \in Nat : n \in T
<1> DEFINE Others == {n \in Nat : n \notin T}
<1>1. SUFFICES ASSUME Others # {}
               PROVE  FALSE
  OBVIOUS
<1>2. PICK x \in Others : \A y \in Others : x <= y
  BY <1>1, NatMin
<1>3. x - 1 \in Nat /\ x - 1 \notin Others
  BY <1>2
<1> QED
  BY <1>2, <1>3

-----------------------------------------------------------------------------
(* Sums that are defined by recursion: s is the sum of the first entries of z. *)

IsSum(s, z, k) ==
  s = [i \in 0..k |-> IF i = 0 THEN 0 ELSE s[i - 1] + z[i]]

\* There is such a sum.
LEMMA SumExists ==
  ASSUME NEW z \in Seq(Nat), NEW k \in 0..Len(z)
  PROVE  \E s \in [0..k -> Nat] : IsSum(s, z, k)
<1> DEFINE T == {n \in Nat : n <= Len(z) => \E s \in [0..n -> Nat] : IsSum(s, z, n)}
<1>1. 0 \in T
  <2>1. [i \in 0..0 |-> 0] \in [0..0 -> Nat] /\ IsSum([i \in 0..0 |-> 0], z, 0)
    BY DEF IsSum
  <2> QED
    BY <2>1
<1>2. ASSUME NEW n \in Nat, n \in T
      PROVE  n + 1 \in T
  <2>1. SUFFICES ASSUME n + 1 <= Len(z)
                 PROVE  \E s \in [0..(n + 1) -> Nat] : IsSum(s, z, n + 1)
    OBVIOUS
  <2>2. PICK s \in [0..n -> Nat] : IsSum(s, z, n)
    BY <1>2, <2>1
  <2> DEFINE r == [i \in 0..(n + 1) |-> IF i = n + 1 THEN s[n] + z[n + 1] ELSE s[i]]
  <2>3. z[n + 1] \in Nat
    BY <2>1
  <2>4. r \in [0..(n + 1) -> Nat]
    BY <2>3
  <2>5. ASSUME NEW i \in 0..(n + 1)
        PROVE  r[i] = IF i = 0 THEN 0 ELSE r[i - 1] + z[i]
    BY <2>2 DEF IsSum
  <2>6. IsSum(r, z, n + 1)
    BY <2>4, <2>5 DEF IsSum
  <2> QED
    BY <2>4, <2>6
<1> HIDE DEF T
<1>3. \A n \in Nat : n \in T
  BY <1>1, <1>2, NatInduct
<1>4. k \in Nat /\ k <= Len(z)
  OBVIOUS
<1> QED
  BY <1>3, <1>4 DEF T

\* Sums of fewer entries agree with it.
LEMMA SumsAgree ==
  ASSUME NEW z, NEW m \in Nat, NEW k \in 0..m, NEW s, NEW r,
         IsSum(s, z, k), IsSum(r, z, m)
  PROVE  \A i \in 0..k : s[i] = r[i]
<1> DEFINE T == {i \in Nat : i <= k => s[i] = r[i]}
<1>1. 0 \in T
  <2>1. s[0] = 0 /\ r[0] = 0
    BY DEF IsSum
  <2> QED
    BY <2>1
<1>2. ASSUME NEW n \in Nat, n \in T
      PROVE  n + 1 \in T
  <2>1. SUFFICES ASSUME n + 1 <= k
                 PROVE  s[n + 1] = r[n + 1]
    OBVIOUS
  <2>2. s[n + 1] = s[n] + z[n + 1] /\ r[n + 1] = r[n] + z[n + 1]
    BY <2>1 DEF IsSum
  <2> QED
    BY <1>2, <2>1, <2>2
<1> HIDE DEF T
<1>3. \A i \in Nat : i \in T
  BY <1>1, <1>2, NatInduct
<1> QED
  BY <1>3 DEF T

\* The sum of one more entry.
LEMMA SumGrows ==
  ASSUME NEW z, NEW k \in Nat, NEW s, NEW r,
         IsSum(s, z, k), IsSum(r, z, k + 1)
  PROVE  r[k + 1] = s[k] + z[k + 1]
<1>1. k + 1 \in Nat /\ k \in 0..(k + 1) /\ k \in 0..k
  OBVIOUS
<1>2. \A i \in 0..k : s[i] = r[i]
  BY <1>1, SumsAgree
<1>3. r[k + 1] = r[k] + z[k + 1]
  BY DEF IsSum
<1> QED
  BY <1>1, <1>2, <1>3

-----------------------------------------------------------------------------

Places == Nat
Pieces == Seq(Places)
Steps == SectionStates \cup {"DEC_WININD", "DEC_EMIT", "DEC_FINISH"}

\* What the proof needs of the types: the decoder's state and the control state.
DecoderTypes ==
  /\ delta \in Seq(Windows)
  /\ pc \in {"idle", "input", "process", "output", "broken"}
  /\ dec_state \in Steps
  /\ window \in Nat \ {0}
  /\ pos \in Nat
  /\ sects \in [SectionStates -> [bytes : Pieces, borrowed : BOOLEAN]]
  /\ next_in \in Pieces
  /\ fpos \in Nat

\* The decoder is at most at the end of what it gathers, a header or a section of a
\* window the delta has.
InPlaceOfDelta ==
  /\ dec_state \in SectionStates =>
       window <= Len(delta) /\ pos <= delta[window][dec_state]
  /\ dec_state = "DEC_WININD" /\ window <= Len(delta) => pos <= delta[window].header
  /\ dec_state \in {"DEC_EMIT", "DEC_FINISH"} => pos = 0

\* A decoded window goes straight to the caller.
EmitAtOnce ==
  /\ pc \in {"idle", "input"} => dec_state \notin {"DEC_EMIT", "DEC_FINISH"}
  /\ pc = "output" => dec_state = "DEC_FINISH"

\* While a section that was gathered lies in the caller's string, the rest of the
\* window's sections does, too, and nothing keeps the decoder from going on.
RestIsHere ==
  /\ dec_state = "DEC_INST" /\ sects.DEC_DATA.borrowed =>
       /\ pc \notin {"idle", "input"}
       /\ pos = 0
       /\ delta[window].DEC_INST + delta[window].DEC_ADDR <= Len(next_in)
  /\ dec_state = "DEC_ADDR" /\ (sects.DEC_DATA.borrowed \/ sects.DEC_INST.borrowed) =>
       /\ pc \notin {"idle", "input"}
       /\ pos = 0
       /\ delta[window].DEC_ADDR <= Len(next_in)

IInv == DecoderTypes /\ InPlaceOfDelta /\ EmitAtOnce /\ RestIsHere

-----------------------------------------------------------------------------

\* Before is that sum.
LEMMA BeforeIsSum ==
  ASSUME NEW z \in Seq(Nat), NEW k \in 0..Len(z)
  PROVE  \E s \in [0..k -> Nat] : IsSum(s, z, k) /\ Before(z, k) = s[k]
<1> DEFINE sum == CHOOSE s : s = [i \in 0..k |-> IF i = 0 THEN 0 ELSE s[i - 1] + z[i]]
<1>1. PICK s \in [0..k -> Nat] : IsSum(s, z, k)
  BY SumExists
<1>2. IsSum(sum, z, k)
  BY <1>1 DEF IsSum
<1>3. Before(z, k) = sum[k]
  BY DEF Before
<1> HIDE DEF sum
<1>4. \A i \in 0..k : sum[i] = s[i]
  BY <1>1, <1>2, SumsAgree
<1>5. sum = s
  BY <1>1, <1>2, <1>4 DEF IsSum
<1> QED
  BY <1>1, <1>3, <1>5

\* The size of no windows, and of one more.
LEMMA BeforeSteps ==
  ASSUME NEW z \in Seq(Nat), NEW k \in 0..Len(z)
  PROVE  /\ Before(z, 0) = 0
         /\ Before(z, k) \in Nat
         /\ k < Len(z) => Before(z, k + 1) = Before(z, k) + z[k + 1]
<1>1. Before(z, 0) = 0
  <2>1. PICK s \in [0..0 -> Nat] : IsSum(s, z, 0) /\ Before(z, 0) = s[0]
    <3>1. 0 \in 0..Len(z)
      OBVIOUS
    <3> QED
      BY <3>1, BeforeIsSum
  <2> QED
    <3>1. 0 \in 0..0
      OBVIOUS
    <3>2. s[0] = 0
      BY <2>1, <3>1 DEF IsSum
    <3> QED
      BY <2>1, <3>2
<1>2. PICK s \in [0..k -> Nat] : IsSum(s, z, k) /\ Before(z, k) = s[k]
  BY BeforeIsSum
<1>3. ASSUME k < Len(z)
      PROVE  Before(z, k + 1) = Before(z, k) + z[k + 1]
  <2>1. k + 1 \in 0..Len(z) /\ k \in Nat
    BY <1>3
  <2>2. PICK r \in [0..(k + 1) -> Nat] : IsSum(r, z, k + 1) /\ Before(z, k + 1) = r[k + 1]
    BY <2>1, BeforeIsSum
  <2>3. r[k + 1] = s[k] + z[k + 1]
    BY <1>2, <2>1, <2>2, SumGrows
  <2> QED
    BY <1>2, <2>2, <2>3
<1> QED
  BY <1>1, <1>2, <1>3

\* More windows are no smaller.
LEMMA BeforeGrows ==
  ASSUME NEW z \in Seq(Nat), NEW k \in 0..Len(z), NEW m \in k..Len(z)
  PROVE  Before(z, k) <= Before(z, m)
<1> DEFINE T == {n \in Nat : k + n <= Len(z) => Before(z, k) <= Before(z, k + n)}
<1>1. 0 \in T
  BY BeforeSteps
<1>2. ASSUME NEW n \in Nat, n \in T
      PROVE  n + 1 \in T
  <2>1. SUFFICES ASSUME k + (n + 1) <= Len(z)
                 PROVE  Before(z, k) <= Before(z, k + (n + 1))
    OBVIOUS
  <2>2. k + n \in 0..Len(z) /\ k + n < Len(z) /\ (k + n) + 1 = k + (n + 1)
        /\ z[(k + n) + 1] \in Nat
    BY <2>1
  <2>3. Before(z, (k + n) + 1) = Before(z, k + n) + z[(k + n) + 1]
        /\ Before(z, k + n) \in Nat /\ Before(z, k) \in Nat
    BY <2>2, BeforeSteps
  <2>4. Before(z, k) <= Before(z, k + n)
    BY <1>2, <2>1
  <2> QED
    BY <2>2, <2>3, <2>4
<1> HIDE DEF T
<1>3. \A n \in Nat : n \in T
  BY <1>1, <1>2, NatInduct
<1>4. m - k \in Nat /\ k + (m - k) = m /\ k + (m - k) <= Len(z)
  OBVIOUS
<1> QED
  BY <1>3, <1>4 DEF T

\* What is taken from a piece of input and what is left of it.
LEMMA Taking ==
  ASSUME NEW s \in Pieces, NEW n \in Nat
  PROVE  /\ Least(n, Len(s)) \in Nat /\ Least(n, Len(s)) <= n /\ Least(n, Len(s)) <= Len(s)
         /\ n <= Len(s) => Least(n, Len(s)) = n
         /\ Chunk(s, n) \in Pieces
         /\ Beyond(s, n) \in Pieces
         /\ Len(Beyond(s, n)) = Len(s) - Least(n, Len(s))
<1> DEFINE k == Least(n, Len(s))
<1>1. k \in Nat /\ k <= n /\ k <= Len(s) /\ (n <= Len(s) => k = n)
  BY DEF Least, Pieces
<1> HIDE DEF k
<1>2. SubSeq(s, 1, k) \in Pieces
  BY <1>1 DEF Pieces, Places
<1>3. SubSeq(s, k + 1, Len(s)) \in Pieces /\ Len(SubSeq(s, k + 1, Len(s))) = Len(s) - k
  BY <1>1 DEF Pieces, Places
<1> QED
  BY <1>1, <1>2, <1>3 DEF k, Chunk, Beyond

\* A new piece of input.
LEMMA NewPiece ==
  ASSUME NEW start \in Nat, NEW n \in Nat
  PROVE  From(start, n) \in Pieces
  BY DEF From, Pieces, Places

\* A window of the delta and the lengths of its parts.
LEMMA WindowTypes ==
  ASSUME DecoderTypes, window <= Len(delta)
  PROVE  /\ delta[window] \in Windows
         /\ delta[window].header \in Nat
         /\ \A s \in SectionStates : delta[window][s] \in Nat
         /\ delta[window].DEC_DATA \in Nat
         /\ delta[window].DEC_INST \in Nat
         /\ delta[window].DEC_ADDR \in Nat
         /\ delta[window]["DEC_DATA"] = delta[window].DEC_DATA
<1>1. delta[window] \in Windows
  BY DEF DecoderTypes
<1>2. delta[window].header \in Nat /\ delta[window].DEC_DATA \in Nat
      /\ delta[window].DEC_INST \in Nat /\ delta[window].DEC_ADDR \in Nat
  BY <1>1, ReaderAssumption DEF Windows
<1> QED
  BY <1>1, <1>2 DEF SectionStates

\* A decoder that wants input lets the call return or read on.
LEMMA WantsInput == MoreInput => pc' \in {"idle", "input"}
  BY DEF MoreInput, Succeed

\* A section that is gathered or not, its bytes, and what is left of the input.
LEMMA SectionStep ==
  ASSUME IInv, DecodeSection
  PROVE  IInv'
<1> DEFINE total == delta[window][dec_state]
           take == Least(total - pos, Len(next_in))
           start == IF pos = 0 THEN <<>> ELSE sects[dec_state].bytes
           section == [bytes |-> start \o Chunk(next_in, take),
                       borrowed |-> InPlace /\ total > 0]
<1>1. /\ dec_state \in SectionStates /\ pc = "process"
      /\ sects' = [sects EXCEPT ![dec_state] = section]
      /\ next_in' = Beyond(next_in, take)
      /\ IF pos + take = total
         THEN dec_state' = After[dec_state] /\ pos' = 0 /\ GoesOn
         ELSE pos' = pos + take /\ MoreInput /\ UNCHANGED dec_state
      /\ UNCHANGED <<delta, length, fpos, window>>
  BY DEF DecodeSection, Decoding, file
<1>2. /\ window <= Len(delta) /\ total \in Nat /\ pos \in Nat /\ pos <= total
      /\ next_in \in Pieces /\ total - pos \in Nat
  BY <1>1, WindowTypes DEF IInv, DecoderTypes, InPlaceOfDelta
<1>3. /\ take \in Nat /\ take <= total - pos /\ take <= Len(next_in)
      /\ (total - pos <= Len(next_in) => take = total - pos)
      /\ Len(next_in) \in Nat
  <2>1. Len(next_in) \in Nat
    BY <1>2 DEF Pieces
  <2> QED
    BY <1>2, <2>1, Taking
<1>4. /\ Chunk(next_in, take) \in Pieces
      /\ Beyond(next_in, take) \in Pieces
      /\ Len(Beyond(next_in, take)) = Len(next_in) - take
  <2>1. Least(take, Len(next_in)) = take
    BY <1>3 DEF Least
  <2> QED
    BY <1>2, <1>3, <2>1, Taking
<1>5. start \in Pieces
  BY <1>1 DEF IInv, DecoderTypes, Pieces
<1>6. section \in [bytes : Pieces, borrowed : BOOLEAN]
  <2>1. start \o Chunk(next_in, take) \in Pieces
    BY <1>4, <1>5 DEF Pieces
  <2>2. (InPlace /\ total > 0) \in BOOLEAN
    OBVIOUS
  <2> QED
    BY <2>1, <2>2
<1>7. /\ section.borrowed => pos = 0 /\ More <= Len(next_in)
  BY DEF InPlace
<1> HIDE DEF section
<1>8. sects' \in [SectionStates -> [bytes : Pieces, borrowed : BOOLEAN]]
  BY <1>1, <1>6 DEF IInv, DecoderTypes
<1>9. CASE pos + take = total
  <2>1. /\ dec_state' = After[dec_state] /\ pos' = 0 /\ pc' = "process"
        /\ take = total - pos
    BY <1>1, <1>2, <1>3, <1>9 DEF GoesOn
  <2>2. DecoderTypes'
    BY <1>1, <1>4, <1>8, <2>1 DEF IInv, DecoderTypes, After, SectionStates, Steps
  <2>3. InPlaceOfDelta'
    BY <1>1, <1>2, <2>1, WindowTypes DEF IInv, InPlaceOfDelta, After, SectionStates
  <2>4. EmitAtOnce'
    BY <2>1 DEF EmitAtOnce
  <2>5. RestIsHere'
    <3> DEFINE w == delta[window]
    <3>1. w' = w /\ w.DEC_DATA \in Nat /\ w.DEC_INST \in Nat /\ w.DEC_ADDR \in Nat
          /\ total = w[dec_state] /\ Len(next_in') = Len(next_in) - take
      BY <1>1, <1>2, <1>4, WindowTypes DEF IInv
    <3> HIDE DEF w
    <3>2. CASE dec_state = "DEC_DATA"
      <4>1. sects'.DEC_DATA = section /\ dec_state' = "DEC_INST" /\ total = w.DEC_DATA
        BY <1>1, <2>1, <3>1, <3>2 DEF After, SectionStates, IInv, DecoderTypes
      <4>2. SectionsDone = pos
        BY <1>2, <3>2 DEF SectionsDone
      <4>3. section.borrowed => (w.DEC_DATA + w.DEC_INST + w.DEC_ADDR) - pos <= Len(next_in)
        BY <1>7, <4>2 DEF More, SectionsSize, w
      <4>4. section.borrowed => w.DEC_INST + w.DEC_ADDR <= Len(next_in')
        <5> DEFINE inst == w.DEC_INST
                   addr == w.DEC_ADDR
                   datalen == w.DEC_DATA
                   left == Len(next_in)
        <5>1. inst \in Nat /\ addr \in Nat /\ datalen \in Nat /\ left \in Nat
          BY <1>3, <3>1
        <5>2. section.borrowed => pos = 0 /\ (datalen + inst + addr) - pos <= left
          BY <1>7, <4>3
        <5>3. take = datalen - pos /\ Len(next_in') = left - take
          BY <2>1, <3>1, <4>1
        <5> HIDE DEF inst, addr, datalen, left, take
        <5>4. section.borrowed => inst + addr <= Len(next_in')
          BY <1>2, <5>1, <5>2, <5>3
        <5> QED
          BY <5>4 DEF inst, addr
      <4> QED
        BY <2>1, <3>1, <4>1, <4>4 DEF RestIsHere, w
    <3>3. CASE dec_state = "DEC_INST"
      <4>1. /\ sects'.DEC_INST = section /\ sects'.DEC_DATA = sects.DEC_DATA
            /\ dec_state' = "DEC_ADDR" /\ total = w.DEC_INST
        BY <1>1, <2>1, <3>1, <3>3 DEF After, SectionStates, IInv, DecoderTypes
      <4>2. section.borrowed => w.DEC_ADDR <= Len(next_in')
        <5>1. pos = 0 => More = w.DEC_INST + w.DEC_ADDR
          BY <3>1, <3>3 DEF More, SectionsDone, SectionsSize, w
        <5> QED
          BY <1>2, <1>3, <1>7, <2>1, <3>1, <4>1, <5>1
      <4>3. sects.DEC_DATA.borrowed => w.DEC_ADDR <= Len(next_in')
        BY <1>2, <1>3, <2>1, <3>1, <3>3, <4>1 DEF IInv, RestIsHere, w
      <4> QED
        BY <2>1, <3>1, <4>1, <4>2, <4>3 DEF RestIsHere, w
    <3>4. CASE dec_state = "DEC_ADDR"
      BY <2>1, <3>4 DEF RestIsHere, After, SectionStates
    <3> QED
      BY <1>1, <3>2, <3>3, <3>4 DEF SectionStates
  <2> QED
    BY <2>2, <2>3, <2>4, <2>5 DEF IInv
<1>10. CASE pos + take # total
  <2>1. /\ dec_state' = dec_state /\ pos' = pos + take /\ pc' \in {"idle", "input"}
        /\ pos' \in Nat /\ pos' <= total
    BY <1>1, <1>2, <1>3, <1>10, WantsInput
  <2>2. ~ (total - pos <= Len(next_in))
    BY <1>2, <1>3, <1>10
  <2>3. DecoderTypes'
    BY <1>1, <1>4, <1>8, <2>1 DEF IInv, DecoderTypes
  <2>4. InPlaceOfDelta'
    BY <1>1, <1>2, <2>1 DEF InPlaceOfDelta, SectionStates
  <2>5. EmitAtOnce'
    BY <1>1, <2>1 DEF EmitAtOnce, SectionStates
  <2>6. RestIsHere'
    <3>1. delta[window].DEC_ADDR \in Nat /\ delta[window].DEC_INST \in Nat
          /\ total = delta[window][dec_state]
      BY <1>1, <1>2, WindowTypes DEF IInv
    <3>2. CASE dec_state = "DEC_DATA"
      BY <2>1, <3>2 DEF RestIsHere
    <3>3. CASE dec_state = "DEC_INST"
      <4>1. total = delta[window].DEC_INST /\ sects'.DEC_DATA = sects.DEC_DATA
        BY <1>1, <3>3 DEF SectionStates, IInv, DecoderTypes
      <4>2. ~ sects.DEC_DATA.borrowed
        BY <1>2, <1>3, <2>2, <3>1, <3>3, <4>1 DEF IInv, RestIsHere
      <4> QED
        BY <2>1, <3>3, <4>1, <4>2 DEF RestIsHere
    <3>4. CASE dec_state = "DEC_ADDR"
      <4>1. total = delta[window].DEC_ADDR /\ sects'.DEC_DATA = sects.DEC_DATA
            /\ sects'.DEC_INST = sects.DEC_INST
        BY <1>1, <3>4 DEF SectionStates, IInv, DecoderTypes
      <4>2. ~ sects.DEC_DATA.borrowed /\ ~ sects.DEC_INST.borrowed
        BY <1>2, <1>3, <2>2, <3>1, <3>4, <4>1 DEF IInv, RestIsHere
      <4> QED
        BY <2>1, <3>4, <4>1, <4>2 DEF RestIsHere
    <3> QED
      BY <1>1, <3>2, <3>3, <3>4 DEF SectionStates
  <2> QED
    BY <2>3, <2>4, <2>5, <2>6 DEF IInv
<1> QED
  BY <1>9, <1>10

\* A header's bytes are gathered.
LEMMA HeaderStep ==
  ASSUME IInv, DecodeHeader
  PROVE  IInv'
<1> DEFINE need == IF window <= Len(delta) THEN delta[window].header - pos ELSE 0
           take == Least(need, Len(next_in))
<1>1. /\ dec_state = "DEC_WININD" /\ pc = "process"
      /\ next_in' = Beyond(next_in, take)
      /\ IF take = need /\ window <= Len(delta)
         THEN dec_state' = "DEC_DATA" /\ pos' = 0 /\ GoesOn
         ELSE pos' = pos + take /\ MoreInput /\ UNCHANGED dec_state
      /\ UNCHANGED <<delta, fpos, window, sects>>
  BY DEF DecodeHeader, Decoding, file
<1>2. need \in Nat /\ (window <= Len(delta) => need = delta[window].header - pos)
  BY <1>1, WindowTypes DEF IInv, DecoderTypes, InPlaceOfDelta
<1>3. next_in \in Pieces /\ pos \in Nat /\ window \in Nat /\ Len(delta) \in Nat
  BY DEF IInv, DecoderTypes
<1> HIDE DEF need
<1>4. take \in Nat /\ take <= need /\ take <= Len(next_in)
  BY <1>2, <1>3, Taking
<1>5. next_in' \in Pieces
  BY <1>1, <1>3, <1>4, Taking
<1> HIDE DEF take
<1>6. CASE take = need /\ window <= Len(delta)
  <2>1. dec_state' = "DEC_DATA" /\ pos' = 0 /\ pc' = "process"
    BY <1>1, <1>6 DEF GoesOn
  <2>2. DecoderTypes'
    BY <1>1, <1>5, <2>1 DEF IInv, DecoderTypes, SectionStates, Steps
  <2>3. InPlaceOfDelta'
    BY <1>1, <1>6, <2>1, WindowTypes DEF IInv, InPlaceOfDelta, SectionStates
  <2> QED
    BY <2>1, <2>2, <2>3 DEF IInv, EmitAtOnce, RestIsHere
<1>7. CASE ~ (take = need /\ window <= Len(delta))
  <2>1. dec_state' = "DEC_WININD" /\ pos' = pos + take /\ pc' \in {"idle", "input"}
    BY <1>1, <1>7, WantsInput
  <2>2. DecoderTypes'
    BY <1>1, <1>3, <1>4, <1>5, <2>1 DEF IInv, DecoderTypes
  <2>3. InPlaceOfDelta'
    <3>1. window <= Len(delta) => delta[window].header \in Nat
      BY WindowTypes DEF IInv
    <3> QED
      BY <1>1, <1>2, <1>3, <1>4, <2>1, <3>1 DEF InPlaceOfDelta, SectionStates
  <2> QED
    BY <2>1, <2>2, <2>3 DEF IInv, EmitAtOnce, RestIsHere
<1> QED
  BY <1>6, <1>7

\* The invariant holds of a file that nothing was read from.
LEMMA InitIInv == Init => IInv
<1> SUFFICES ASSUME Init
             PROVE  IInv
  OBVIOUS
<1>1. delta \in Seq(Windows)
  BY DEF Init
<1>2. sects \in [SectionStates -> [bytes : Pieces, borrowed : BOOLEAN]]
  BY DEF Init, NoSections, Pieces
<1>3. DecoderTypes
  BY <1>1, <1>2 DEF Init, DecoderTypes, Steps, Pieces
<1>4. InPlaceOfDelta
  BY <1>3, WindowTypes DEF Init, InPlaceOfDelta, SectionStates
<1>5. EmitAtOnce /\ RestIsHere
  BY DEF Init, EmitAtOnce, RestIsHere
<1> QED
  BY <1>3, <1>4, <1>5 DEF IInv

\* Every step keeps it: those of the decoder, and those that do not touch the decoder.
LEMMA NextIInv == IInv /\ [Next]_vars => IInv'
<1> SUFFICES ASSUME IInv, [Next]_vars
             PROVE  IInv'
  OBVIOUS
<1> USE DEF file, call, result, decoder
<1>1. ASSUME NEW want \in Wants, Read(want)
      PROVE  IInv'
  BY <1>1 DEF Read, IInv, DecoderTypes, InPlaceOfDelta, EmitAtOnce, RestIsHere
<1>2. CASE ReadInput
  <2>1. PICK n \in 0..Least(WinSize, length - fpos) : next_in' = From(fpos, n) /\ fpos' = fpos + n
    BY <1>2 DEF ReadInput
  <2>2. n \in Nat
    BY <2>1
  <2>3. next_in' \in Pieces /\ fpos' \in Nat
    BY <2>1, <2>2, NewPiece DEF IInv, DecoderTypes
  <2>4. pc = "input" /\ pc' = "process" /\ UNCHANGED <<delta, dec_state, window, pos, sects>>
    BY <1>2 DEF ReadInput
  <2>5. DecoderTypes' /\ InPlaceOfDelta'
    BY <2>3, <2>4 DEF IInv, DecoderTypes, InPlaceOfDelta
  <2> QED
    BY <2>4, <2>5 DEF IInv, EmitAtOnce, RestIsHere
<1>3. CASE ReadInputFails
  BY <1>3 DEF ReadInputFails, Raise, IInv, DecoderTypes, InPlaceOfDelta, EmitAtOnce, RestIsHere
<1>4. CASE OutputWindow \/ OutputLosesRest
  <2>1. pc = "output" /\ pc' = "process" /\ UNCHANGED <<delta, fpos, decoder>>
    BY <1>4 DEF OutputWindow, OutputLosesRest, Output
  <2> QED
    BY <2>1 DEF IInv, DecoderTypes, InPlaceOfDelta, EmitAtOnce, RestIsHere
<1>5. CASE DecodeHeader
  BY <1>5, HeaderStep
<1>6. CASE DecodeSection
  BY <1>6, SectionStep
<1>7. CASE EmitWindow
  <2>1. /\ dec_state = "DEC_EMIT" /\ dec_state' = "DEC_FINISH" /\ pc' = "output"
        /\ UNCHANGED <<delta, fpos, window, pos, sects, next_in>>
    BY <1>7 DEF EmitWindow, Decoding
  <2> QED
    BY <2>1 DEF IInv, DecoderTypes, InPlaceOfDelta, EmitAtOnce, RestIsHere,
                Steps, SectionStates
<1>8. CASE EmitFails
  <2>1. pc' = "broken" /\ UNCHANGED <<delta, fpos, decoder>>
    BY <1>8 DEF EmitFails, Decoding, Raise
  <2> QED
    BY <2>1 DEF IInv, DecoderTypes, InPlaceOfDelta, EmitAtOnce, RestIsHere
<1>9. CASE FinishWindow
  <2>1. /\ dec_state' = "DEC_WININD" /\ pc' = "process" /\ window' = window + 1
        /\ UNCHANGED <<delta, fpos, pos, sects, next_in>>
    BY <1>9 DEF FinishWindow, Decoding, GoesOn
  <2>2. pos = 0 /\ DecoderTypes'
    BY <1>9, <2>1 DEF FinishWindow, Decoding, IInv, DecoderTypes, InPlaceOfDelta, Steps
  <2>3. window' <= Len(delta) => delta[window'].header \in Nat
    <3>1. window' \in Nat \ {0} /\ delta \in Seq(Windows)
      BY <2>1, <2>2 DEF DecoderTypes
    <3>2. window' <= Len(delta) => delta[window'] \in Windows
      BY <3>1
    <3> QED
      BY <3>2, ReaderAssumption DEF Windows
  <2>4. InPlaceOfDelta'
    BY <2>1, <2>2, <2>3 DEF InPlaceOfDelta, SectionStates
  <2> QED
    BY <2>1, <2>2, <2>4 DEF IInv, EmitAtOnce, RestIsHere
<1>10. CASE UNCHANGED vars
  BY <1>10 DEF vars, IInv, DecoderTypes, InPlaceOfDelta, EmitAtOnce, RestIsHere
<1> QED
  BY <1>1, <1>2, <1>3, <1>4, <1>5, <1>6, <1>7, <1>8, <1>9, <1>10 DEF Next, Process

\* The invariant holds in every reachable state.
LEMMA DecoderInvariant == Spec => []IInv
  BY InitIInv, NextIInv, PTL DEF Spec

-----------------------------------------------------------------------------
(* Where the decoder is in the file. *)

\* Stretches of numbers: their elements, and how they are cut and joined.
LEMMA Stretch ==
  ASSUME NEW start \in Nat, NEW n \in Nat
  PROVE  /\ From(start, n) \in Pieces
         /\ Len(From(start, n)) = n
         /\ \A i \in 1..n : From(start, n)[i] = start + i
  BY DEF From, Pieces, Places

\* The first bytes of a stretch of the file, and those after them.
LEMMA StretchCut ==
  ASSUME NEW start \in Nat, NEW n \in Nat, NEW k \in 0..n
  PROVE  /\ Chunk(From(start, n), k) = From(start, k)
         /\ Beyond(From(start, n), k) = From(start + k, n - k)
<1> DEFINE s == From(start, n)
<1>1. s \in Seq(Nat) /\ Len(s) = n /\ \A i \in 1..n : s[i] = start + i
  BY Stretch DEF Pieces, Places
<1> HIDE DEF s
<1>2. Least(k, Len(s)) = k /\ k \in Nat /\ n - k \in Nat
  BY <1>1 DEF Least
<1>3. SubSeq(s, 1, k) = From(start, k)
  <2>1. /\ SubSeq(s, 1, k) \in Seq(Nat) /\ Len(SubSeq(s, 1, k)) = k
        /\ \A i \in 1..k : SubSeq(s, 1, k)[i] = start + i
    BY <1>1, <1>2
  <2>2. From(start, k) \in Seq(Nat) /\ Len(From(start, k)) = k
        /\ \A i \in 1..k : From(start, k)[i] = start + i
    BY <1>2, Stretch DEF Pieces, Places
  <2> QED
    BY <2>1, <2>2, SeqEqual
<1>4. SubSeq(s, k + 1, n) = From(start + k, n - k)
  <2>1. /\ SubSeq(s, k + 1, n) \in Seq(Nat) /\ Len(SubSeq(s, k + 1, n)) = n - k
        /\ \A i \in 1..(n - k) : SubSeq(s, k + 1, n)[i] = start + k + i
    <3>1. \A i \in (k + 1)..n : s[i] \in Nat
      BY <1>1, <1>2
    <3>2. n - (k + 1) + 1 = n - k /\ (k + 1 <= n \/ n - k = 0)
          /\ k + 1 \in Int /\ n \in Int
      BY <1>2
    <3>3. /\ SubSeq(s, k + 1, n) \in Seq(Nat) /\ Len(SubSeq(s, k + 1, n)) = n - k
          /\ \A i \in 1..(n - k) : SubSeq(s, k + 1, n)[i] = s[(k + 1) + i - 1]
      BY <3>1, <3>2, SubSeqProperties
    <3>4. \A i \in 1..(n - k) : s[(k + 1) + i - 1] = start + k + i
      BY <1>1, <1>2
    <3> QED
      BY <3>3, <3>4
  <2>2. From(start + k, n - k) \in Seq(Nat) /\ Len(From(start + k, n - k)) = n - k
        /\ \A i \in 1..(n - k) : From(start + k, n - k)[i] = start + k + i
    <3>1. start + k \in Nat /\ n - k \in Nat
      BY <1>2
    <3> QED
      BY <3>1, Stretch DEF Pieces, Places
  <2> QED
    BY <2>1, <2>2, SeqEqual
<1> QED
  BY <1>1, <1>2, <1>3, <1>4 DEF Chunk, Beyond, s

\* Two adjacent stretches are one.
LEMMA StretchJoin ==
  ASSUME NEW start \in Nat, NEW m \in Nat, NEW n \in Nat
  PROVE  From(start, m) \o From(start + m, n) = From(start, m + n)
<1> DEFINE a == From(start, m)
           b == From(start + m, n)
           c == From(start, m + n)
<1>1. a \in Seq(Nat) /\ Len(a) = m /\ \A i \in 1..m : a[i] = start + i
  BY Stretch DEF Pieces, Places
<1>2. b \in Seq(Nat) /\ Len(b) = n /\ \A i \in 1..n : b[i] = (start + m) + i
  <2>1. start + m \in Nat
    OBVIOUS
  <2> QED
    BY <2>1, Stretch DEF Pieces, Places
<1>3. c \in Seq(Nat) /\ Len(c) = m + n /\ \A i \in 1..(m + n) : c[i] = start + i
  <2>1. m + n \in Nat
    OBVIOUS
  <2> QED
    BY <2>1, Stretch DEF Pieces, Places
<1> HIDE DEF a, b, c
<1>4. /\ a \o b \in Seq(Nat) /\ Len(a \o b) = m + n
      /\ \A i \in 1..(m + n) : (a \o b)[i] = IF i <= m THEN a[i] ELSE b[i - m]
  <2>1. /\ a \o b \in Seq(Nat) /\ Len(a \o b) = Len(a) + Len(b)
        /\ \A i \in 1..(Len(a) + Len(b)) : (a \o b)[i] = IF i <= Len(a) THEN a[i] ELSE b[i - Len(a)]
    <3>1. a \in Seq(Nat) /\ b \in Seq(Nat)
      BY <1>1, <1>2
    <3> QED
      BY ONLY <3>1, ConcatProperties
  <2> QED
    BY <1>1, <1>2, <2>1
<1>5. ASSUME NEW i \in 1..(m + n)
      PROVE  (a \o b)[i] = c[i]
  <2>1. c[i] = start + i
    BY <1>3
  <2>2. CASE i <= m
    <3>1. (a \o b)[i] = a[i] /\ i \in 1..m
      BY <1>4, <2>2
    <3>2. a[i] = start + i
      BY <1>1, <3>1
    <3> QED
      BY <2>1, <3>1, <3>2
  <2>3. CASE i > m
    <3> DEFINE j == i - m
    <3>1. (a \o b)[i] = b[j] /\ j \in 1..n
      BY <1>4, <2>3
    <3>2. (start + m) + j = start + i
      OBVIOUS
    <3> HIDE DEF j
    <3>3. b[j] = (start + m) + j
      BY <1>2, <3>1
    <3> QED
      BY <2>1, <3>1, <3>2, <3>3
  <2>4. i <= m \/ i > m
    OBVIOUS
  <2> QED
    BY <2>2, <2>3, <2>4
<1>6. a \o b = c
  BY <1>3, <1>4, <1>5, SeqEqual
<1> QED
  BY <1>6 DEF a, b, c

\* The sizes of a delta's windows.
LEMMA EncodedTypes ==
  ASSUME delta \in Seq(Windows)
  PROVE  /\ Encoded \in Seq(Nat) /\ Len(Encoded) = Len(delta)
         /\ \A k \in 1..Len(delta) :
              /\ Encoded[k] = delta[k].header
                   + (delta[k].DEC_DATA + delta[k].DEC_INST + delta[k].DEC_ADDR)
              /\ delta[k].header \in Nat \ {0}
              /\ delta[k].DEC_DATA \in Nat
              /\ delta[k].DEC_INST \in Nat
              /\ delta[k].DEC_ADDR \in Nat
<1>1. ASSUME NEW k \in 1..Len(delta)
      PROVE  /\ delta[k].header \in Nat \ {0} /\ delta[k].DEC_DATA \in Nat
             /\ delta[k].DEC_INST \in Nat /\ delta[k].DEC_ADDR \in Nat
  <2>1. delta[k] \in Windows
    OBVIOUS
  <2> QED
    BY <2>1, ReaderAssumption DEF Windows
<1>2. DOMAIN delta = 1..Len(delta) /\ Len(delta) \in Nat
  OBVIOUS
<1>3. ASSUME NEW k \in 1..Len(delta)
      PROVE  /\ EncodedSize(delta[k]) = delta[k].header
                  + (delta[k].DEC_DATA + delta[k].DEC_INST + delta[k].DEC_ADDR)
             /\ EncodedSize(delta[k]) \in Nat
  <2> DEFINE w == delta[k]
  <2>1. w.header \in Nat /\ w.DEC_DATA \in Nat /\ w.DEC_INST \in Nat /\ w.DEC_ADDR \in Nat
    BY <1>1
  <2> HIDE DEF w
  <2>2. EncodedSize(w) = w.header + (w.DEC_DATA + w.DEC_INST + w.DEC_ADDR)
    BY DEF EncodedSize, SectionsSize
  <2>3. EncodedSize(w) \in Nat
    BY <2>1, <2>2
  <2> QED
    BY <2>2, <2>3 DEF w
<1>4. Encoded = [k \in 1..Len(delta) |-> EncodedSize(delta[k])]
  BY <1>2 DEF Encoded
<1>5. Encoded \in Seq(Nat) /\ Len(Encoded) = Len(delta)
  BY <1>2, <1>3, <1>4
<1> QED
  BY <1>1, <1>3, <1>4, <1>5

\* Where the decoder is in the file, and where the window at hand begins.
At == fpos - Len(next_in)
Start == Before(Encoded, window - 1)

\* The decoder has consumed the windows before the one at hand and the parts before
\* the one it gathers; it has the rest of what was read, and stops only for want of it.
Position ==
  /\ window <= Len(delta) + 1
  /\ dec_state # "DEC_WININD" => window <= Len(delta)
  /\ fpos <= length /\ length <= Before(Encoded, Len(delta)) /\ length \in Nat
  /\ At \in Nat /\ next_in = From(At, Len(next_in))
  /\ dec_state = "DEC_WININD" => At = Start + pos
  /\ dec_state = "DEC_DATA" => At = Start + delta[window].header + pos
  /\ dec_state = "DEC_INST" =>
       At = Start + delta[window].header + delta[window].DEC_DATA + pos
  /\ dec_state = "DEC_ADDR" =>
       At = Start + delta[window].header + delta[window].DEC_DATA
              + delta[window].DEC_INST + pos
  /\ dec_state \in {"DEC_EMIT", "DEC_FINISH"} => At = Before(Encoded, window)
  /\ pc \in {"idle", "input"} =>
       next_in = <<>> /\ (window <= Len(delta) => At < Before(Encoded, window))

\* The window at hand in the file.
LEMMA WindowPlace ==
  ASSUME DecoderTypes, window <= Len(delta) + 1
  PROVE  /\ Start \in Nat
         /\ window <= Len(delta) =>
              /\ delta[window].header \in Nat \ {0} /\ delta[window].DEC_DATA \in Nat
              /\ delta[window].DEC_INST \in Nat /\ delta[window].DEC_ADDR \in Nat
              /\ Before(Encoded, window) =
                   Start + delta[window].header + delta[window].DEC_DATA
                     + delta[window].DEC_INST + delta[window].DEC_ADDR
<1>1. /\ Encoded \in Seq(Nat) /\ Len(Encoded) = Len(delta)
      /\ window \in Nat \ {0} /\ Len(delta) \in Nat
  BY EncodedTypes DEF DecoderTypes
<1>2. window - 1 \in 0..Len(Encoded)
  BY <1>1
<1>3. Start \in Nat
  BY <1>1, <1>2, BeforeSteps DEF Start
<1>4. ASSUME window <= Len(delta)
      PROVE  /\ delta[window].header \in Nat \ {0} /\ delta[window].DEC_DATA \in Nat
             /\ delta[window].DEC_INST \in Nat /\ delta[window].DEC_ADDR \in Nat
             /\ Encoded[window] = delta[window].header
                  + (delta[window].DEC_DATA + delta[window].DEC_INST
                     + delta[window].DEC_ADDR)
  <2>1. window \in 1..Len(delta)
    BY <1>1, <1>4
  <2> QED
    BY <2>1, EncodedTypes DEF DecoderTypes
<1>5. ASSUME window <= Len(delta)
      PROVE  Before(Encoded, window) = Start + Encoded[window]
  <2>1. (window - 1) + 1 = window /\ window - 1 < Len(Encoded)
    BY <1>1, <1>5
  <2>2. Before(Encoded, (window - 1) + 1)
          = Before(Encoded, window - 1) + Encoded[(window - 1) + 1]
    BY <1>1, <1>2, <2>1, BeforeSteps
  <2> QED
    BY <2>1, <2>2 DEF Start
<1>6. ASSUME window <= Len(delta)
      PROVE  Before(Encoded, window) =
               Start + delta[window].header + delta[window].DEC_DATA
                 + delta[window].DEC_INST + delta[window].DEC_ADDR
  <2> DEFINE h == delta[window].header
             d == delta[window].DEC_DATA
             i == delta[window].DEC_INST
             a == delta[window].DEC_ADDR
  <2>1. /\ h \in Nat /\ d \in Nat /\ i \in Nat /\ a \in Nat
        /\ Before(Encoded, window) = Start + (h + (d + i + a))
    BY <1>4, <1>5, <1>6
  <2> HIDE DEF h, d, i, a
  <2>2. Before(Encoded, window) = Start + h + d + i + a
    BY <1>3, <2>1
  <2> QED
    BY <2>2 DEF h, d, i, a
<1> QED
  BY <1>3, <1>4, <1>6

\* The decoder takes the first bytes of the input.
LEMMA Consume ==
  ASSUME DecoderTypes, Position, NEW take \in 0..Len(next_in),
         next_in' = Beyond(next_in, take), fpos' = fpos
  PROVE  /\ Chunk(next_in, take) = From(At, take)
         /\ Len(next_in') = Len(next_in) - take
         /\ At' = At + take /\ At' \in Nat
         /\ next_in' = From(At', Len(next_in'))
<1> DEFINE n == Len(next_in)
<1>1. n \in Nat /\ fpos \in Nat /\ At \in Nat /\ fpos = At + n /\ next_in = From(At, n)
  BY DEF DecoderTypes, Position, At, Pieces
<1> HIDE DEF n
<1>2. take \in 0..n /\ take \in Nat /\ n - take \in Nat /\ At + take \in Nat
  BY <1>1 DEF n
<1>3. Chunk(next_in, take) = From(At, take) /\ next_in' = From(At + take, n - take)
  BY <1>1, <1>2, StretchCut
<1>4. Len(next_in') = n - take
  BY <1>2, <1>3, Stretch
<1>5. At' = At + take
  <2>1. At' = fpos - (n - take)
    BY <1>4 DEF At
  <2> QED
    BY <1>1, <1>2, <2>1
<1> QED
  BY <1>2, <1>3, <1>4, <1>5 DEF n

\* At the start nothing was consumed.
LEMMA InitPosition == Init => Position
<1> SUFFICES ASSUME Init
             PROVE  Position
  OBVIOUS
<1>1. DecoderTypes
  BY InitIInv DEF IInv
<1>2. Encoded \in Seq(Nat) /\ Len(Encoded) = Len(delta) /\ Len(delta) \in Nat
  BY <1>1, EncodedTypes DEF DecoderTypes
<1>3. Before(Encoded, 0) = 0 /\ Before(Encoded, Len(delta)) \in Nat
  <2>1. Len(delta) \in 0..Len(Encoded)
    BY <1>2
  <2> QED
    BY <1>2, <2>1, BeforeSteps
<1>4. length \in Nat /\ length <= Before(Encoded, Len(delta))
  <2>1. length \in 0..Before(Encoded, Len(delta))
    BY DEF Init
  <2> HIDE DEF Init
  <2> QED
    BY <1>3, <2>1
<1>5. fpos = 0 /\ next_in = <<>> /\ window = 1 /\ dec_state = "DEC_WININD" /\ pos = 0
  BY DEF Init
<1>6. At = 0 /\ Start = 0
  <2>1. window - 1 = 0
    BY <1>5
  <2>2. Len(next_in) = 0
    BY <1>5
  <2>3. At = 0
    <3>1. fpos = 0
      BY <1>5
    <3> QED
      BY <2>2, <3>1 DEF At
  <2>4. Start = 0
    BY <1>3, <2>1 DEF Start
  <2> QED
    BY <2>3, <2>4
<1>7. next_in = From(0, 0)
  BY <1>5 DEF From
<1>8. window <= Len(delta) => At < Before(Encoded, window)
  BY <1>1, <1>2, <1>5, <1>6, WindowPlace
<1> QED
  BY <1>2, <1>4, <1>5, <1>6, <1>7, <1>8 DEF Position

\* Steps that leave the decoder alone leave its place alone.
LEMMA PositionFrame ==
  ASSUME Position, UNCHANGED <<delta, length, fpos, dec_state, window, pos, next_in>>,
         pc' \in {"idle", "input"} => pc \in {"idle", "input"}
  PROVE  Position'
<1>1. At' = At /\ Start' = Start /\ Encoded' = Encoded
  BY DEF At, Start, Encoded
<1> QED
  BY <1>1 DEF Position

\* The decoder stops for want of input when all of it is taken.
LEMMA TookAll ==
  ASSUME DecoderTypes, NEW take \in 0..Len(next_in), Len(next_in) <= take,
         next_in' = Beyond(next_in, take)
  PROVE  next_in' = <<>>
<1>1. Len(next_in) \in Nat /\ next_in \in Pieces
  BY DEF DecoderTypes, Pieces
<1>2. take = Len(next_in) /\ Least(take, Len(next_in)) = Len(next_in)
  BY <1>1 DEF Least
<1> QED
  BY <1>1, <1>2, SubSeqEmpty DEF Beyond

\* Gathering a header moves the decoder to the first section, or leaves it in want of
\* input.
LEMMA HeaderPosition ==
  ASSUME IInv, Position, DecodeHeader
  PROVE  Position'
<1> DEFINE need == IF window <= Len(delta) THEN delta[window].header - pos ELSE 0
           take == Least(need, Len(next_in))
<1>1. /\ dec_state = "DEC_WININD" /\ pc = "process"
      /\ next_in' = Beyond(next_in, take)
      /\ IF take = need /\ window <= Len(delta)
         THEN dec_state' = "DEC_DATA" /\ pos' = 0 /\ GoesOn
         ELSE pos' = pos + take /\ MoreInput /\ UNCHANGED dec_state
      /\ UNCHANGED <<delta, length, fpos, window>>
  BY DEF DecodeHeader, Decoding, file
<1>2. DecoderTypes
  BY DEF IInv
<1>3. /\ need \in Nat
      /\ window <= Len(delta) => need = delta[window].header - pos
      /\ ~ (window <= Len(delta)) => need = 0
  BY <1>1, <1>2, WindowTypes DEF IInv, DecoderTypes, InPlaceOfDelta
<1>4. next_in \in Pieces /\ pos \in Nat /\ window \in Nat /\ Len(delta) \in Nat
      /\ Len(next_in) \in Nat
  BY <1>2 DEF DecoderTypes, Pieces
<1>5. Start \in Nat /\ window <= Len(delta) + 1 /\ At = Start + pos /\ At \in Nat
  BY <1>1, <1>2, WindowPlace DEF Position
<1> HIDE DEF need
<1>6. /\ take \in 0..Len(next_in) /\ take \in Nat /\ take <= need
      /\ take # need => take = Len(next_in)
  <2>1. take \in Nat /\ take <= need /\ take <= Len(next_in)
    BY <1>3, <1>4, Taking
  <2>2. take # need => take = Len(next_in)
    BY <1>3, <1>4 DEF Least
  <2> QED
    BY <1>4, <2>1, <2>2
<1> HIDE DEF take
<1>7. /\ At' = At + take /\ At' \in Nat /\ next_in' = From(At', Len(next_in'))
      /\ Len(next_in') = Len(next_in) - take
  BY <1>1, <1>2, <1>6, Consume
<1>8. Start' = Start /\ Encoded' = Encoded
  BY <1>1 DEF Start, Encoded
<1>9. CASE take = need /\ window <= Len(delta)
  <2>1. dec_state' = "DEC_DATA" /\ pos' = 0 /\ pc' = "process"
    BY <1>1, <1>9 DEF GoesOn
  <2>2. delta[window].header \in Nat
    BY <1>2, <1>5, <1>9, WindowPlace
  <2>3. At' = Start' + delta'[window'].header + pos'
    <3> DEFINE h == delta[window].header
    <3>1. h' = h
      BY <1>1
    <3>2. h \in Nat /\ need = h - pos /\ take = need
      BY <1>3, <1>9, <2>2
    <3> HIDE DEF h
    <3>3. At' = Start + h
      BY <1>4, <1>5, <1>7, <3>2
    <3>4. At' = Start' + h' + pos'
      BY <1>5, <1>8, <2>1, <3>1, <3>2, <3>3
    <3> QED
      BY <3>4 DEF h
  <2> QED
    BY <1>1, <1>5, <1>7, <1>8, <1>9, <2>1, <2>3 DEF Position
<1>10. CASE ~ (take = need /\ window <= Len(delta))
  <2>1. dec_state' = "DEC_WININD" /\ pos' = pos + take
    BY <1>1, <1>10
  <2>2. At' = Start' + pos'
    BY <1>4, <1>5, <1>6, <1>7, <1>8, <2>1
  <2>3. CASE window <= Len(delta)
    <3>1. take < need /\ take = Len(next_in)
      BY <1>3, <1>6, <1>10, <2>3
    <3>2. next_in' = <<>>
      BY <1>1, <1>2, <1>4, <1>6, <3>1, TookAll
    <3>3. At' < Before(Encoded, window)
      <4> DEFINE h == delta[window].header
                 d == delta[window].DEC_DATA
                 i == delta[window].DEC_INST
                 a == delta[window].DEC_ADDR
      <4>1. /\ h \in Nat /\ d \in Nat /\ i \in Nat /\ a \in Nat
            /\ Before(Encoded, window) = Start + h + d + i + a
        BY <1>2, <1>5, <2>3, WindowPlace
      <4>2. need = h - pos
        BY <1>3, <2>3
      <4> HIDE DEF h, d, i, a
      <4>3. At' < Start + h
        BY <1>3, <1>4, <1>5, <1>6, <1>7, <3>1, <4>1, <4>2
      <4> QED
        BY <1>5, <1>7, <4>1, <4>3
    <3> QED
      BY <1>1, <1>5, <1>7, <1>8, <2>1, <2>2, <3>2, <3>3 DEF Position
  <2>4. CASE ~ (window <= Len(delta))
    <3>1. window = Len(delta) + 1 /\ need = 0 /\ take = 0 /\ window - 1 = Len(delta)
      BY <1>3, <1>4, <1>5, <1>6, <2>4
    <3>2. fpos <= Start /\ At = fpos - Len(next_in) /\ fpos \in Nat
      <4>1. fpos <= length /\ length <= Before(Encoded, Len(delta)) /\ length \in Nat
        BY DEF Position
      <4>2. Start = Before(Encoded, Len(delta))
        BY <3>1 DEF Start
      <4>3. fpos \in Nat /\ At = fpos - Len(next_in)
        BY <1>2 DEF DecoderTypes, At
      <4> QED
        BY <1>5, <4>1, <4>2, <4>3
    <3>3. Len(next_in) = 0
      BY <1>4, <1>5, <3>2
    <3>4. next_in' = <<>>
      BY <1>1, <1>2, <1>6, <3>1, <3>3, TookAll
    <3> QED
      BY <1>1, <1>5, <1>7, <1>8, <2>1, <2>2, <2>4, <3>4 DEF Position
  <2> QED
    BY <2>3, <2>4
<1> QED
  BY <1>9, <1>10

\* The sections gathered are the window's, and so is what has come of the one at hand.
Gathered ==
  /\ dec_state \in {"DEC_INST", "DEC_ADDR", "DEC_EMIT"} =>
       sects.DEC_DATA.bytes = From(Start + delta[window].header, delta[window].DEC_DATA)
  /\ dec_state \in {"DEC_ADDR", "DEC_EMIT"} =>
       sects.DEC_INST.bytes =
         From(Start + delta[window].header + delta[window].DEC_DATA, delta[window].DEC_INST)
  /\ dec_state = "DEC_EMIT" =>
       sects.DEC_ADDR.bytes =
         From(Start + delta[window].header + delta[window].DEC_DATA
                + delta[window].DEC_INST, delta[window].DEC_ADDR)
  /\ dec_state \in SectionStates /\ pos > 0 =>
       sects[dec_state].bytes = From(At - pos, pos)

\* Gathering a section: what is gathered is the stretch of the file it lies at.
LEMMA SectionPosition ==
  ASSUME IInv, Position, Gathered, DecodeSection
  PROVE  Position' /\ Gathered'
<1> DEFINE total == delta[window][dec_state]
           take == Least(total - pos, Len(next_in))
           start == IF pos = 0 THEN <<>> ELSE sects[dec_state].bytes
           section == [bytes |-> start \o Chunk(next_in, take),
                       borrowed |-> InPlace /\ total > 0]
<1>1. /\ dec_state \in SectionStates /\ pc = "process"
      /\ sects' = [sects EXCEPT ![dec_state] = section]
      /\ next_in' = Beyond(next_in, take)
      /\ IF pos + take = total
         THEN dec_state' = After[dec_state] /\ pos' = 0 /\ GoesOn
         ELSE pos' = pos + take /\ MoreInput /\ UNCHANGED dec_state
      /\ UNCHANGED <<delta, length, fpos, window>>
  BY DEF DecodeSection, Decoding, file
<1>2. DecoderTypes
  BY DEF IInv
<1>3. /\ window <= Len(delta) /\ total \in Nat /\ pos \in Nat /\ pos <= total
      /\ next_in \in Pieces /\ total - pos \in Nat /\ Len(next_in) \in Nat
  BY <1>1, <1>2, WindowTypes DEF IInv, DecoderTypes, InPlaceOfDelta, Pieces
<1>4. /\ take \in 0..Len(next_in) /\ take \in Nat /\ take <= total - pos
      /\ take # total - pos => take = Len(next_in)
  <2>1. take \in Nat /\ take <= total - pos /\ take <= Len(next_in)
    BY <1>3, Taking
  <2>2. take # total - pos => take = Len(next_in)
    BY <1>3 DEF Least
  <2> QED
    BY <1>3, <2>1, <2>2
<1> DEFINE h == delta[window].header
           d == delta[window].DEC_DATA
           i == delta[window].DEC_INST
           a == delta[window].DEC_ADDR
<1>5. /\ h \in Nat /\ d \in Nat /\ i \in Nat /\ a \in Nat /\ Start \in Nat
      /\ Before(Encoded, window) = Start + h + d + i + a
  <2>1. window <= Len(delta) + 1 /\ window <= Len(delta)
    BY <1>3 DEF Position
  <2> QED
    BY <1>2, <2>1, WindowPlace
<1>6. /\ dec_state = "DEC_DATA" => total = d /\ At = Start + h + pos
      /\ dec_state = "DEC_INST" => total = i /\ At = Start + h + d + pos
      /\ dec_state = "DEC_ADDR" => total = a /\ At = Start + h + d + i + pos
  BY <1>1, <1>2, <1>3, WindowTypes DEF Position
<1>7. Start' = Start /\ Encoded' = Encoded /\ h' = h /\ d' = d /\ i' = i /\ a' = a
  BY <1>1 DEF Start, Encoded
<1> HIDE DEF h, d, i, a, total, take, section
<1>8. dec_state = "DEC_DATA" \/ dec_state = "DEC_INST" \/ dec_state = "DEC_ADDR"
  BY <1>1 DEF SectionStates
<1>9. At - pos \in Nat /\ At \in Nat /\ At = (At - pos) + pos
  <2>1. At \in Nat
    BY DEF Position
  <2>2. At - pos \in Nat
    BY <1>3, <1>5, <1>6, <1>8, <2>1
  <2> QED
    BY <1>3, <2>1, <2>2
<1>10. /\ At' = At + take /\ At' \in Nat /\ next_in' = From(At', Len(next_in'))
       /\ Chunk(next_in, take) = From(At, take)
  BY <1>1, <1>2, <1>4, Consume
<1>11. sects'[dec_state].bytes = From(At - pos, pos + take)
  <2>1. sects'[dec_state].bytes = start \o From(At, take)
    BY <1>1, <1>2, <1>10 DEF DecoderTypes, section
  <2>2. CASE pos = 0
    <3>1. From(At, take) \in Seq(Nat)
      BY <1>4, <1>9, Stretch DEF Pieces, Places
    <3>2. sects'[dec_state].bytes = From(At, take)
      BY <2>1, <2>2, <3>1, ConcatEmptySeq
    <3>3. At - pos = At /\ pos + take = take
      BY <1>4, <1>9, <2>2
    <3> QED
      BY <3>2, <3>3
  <2>3. CASE pos # 0
    <3>1. start = From(At - pos, pos)
      BY <1>1, <1>3, <2>3 DEF Gathered
    <3>2. From(At - pos, pos) \o From((At - pos) + pos, take) = From(At - pos, pos + take)
      <4>1. At - pos \in Nat /\ pos \in Nat /\ take \in Nat
        BY <1>3, <1>4, <1>9
      <4> DEFINE q == At - pos
      <4> HIDE DEF q
      <4>2. From(q, pos) \o From(q + pos, take) = From(q, pos + take)
        BY ONLY <4>1, StretchJoin DEF q
      <4> QED
        BY <4>2 DEF q
    <3> QED
      BY <1>9, <2>1, <3>1, <3>2
  <2> QED
    BY <2>2, <2>3
<1>12. \A s \in SectionStates \ {dec_state} : sects'[s] = sects[s]
  BY <1>1, <1>2 DEF DecoderTypes
<1>13. CASE pos + take = total
  <2>1. dec_state' = After[dec_state] /\ pos' = 0 /\ pc' = "process"
    BY <1>1, <1>13 DEF GoesOn
  <2>2. At' = (At - pos) + total
    BY <1>3, <1>4, <1>9, <1>10, <1>13
  <2>3. CASE dec_state = "DEC_DATA"
    <3>1. dec_state' = "DEC_INST" /\ At' = Start + h + d + pos' /\ At - pos = Start + h
      BY <1>3, <1>5, <1>6, <2>1, <2>2, <2>3 DEF After
    <3>2. Position'
      BY <1>1, <1>3, <1>7, <1>10, <2>1, <3>1 DEF Position, h, d
    <3>3. sects'.DEC_DATA.bytes = From(Start + h, d)
      BY <1>6, <1>11, <1>13, <2>3, <3>1
    <3> QED
      BY <1>7, <2>1, <3>1, <3>2, <3>3 DEF Gathered, h, d
  <2>4. CASE dec_state = "DEC_INST"
    <3>1. dec_state' = "DEC_ADDR" /\ At' = Start + h + d + i + pos' /\ At - pos = Start + h + d
      BY <1>3, <1>5, <1>6, <2>1, <2>2, <2>4 DEF After
    <3>2. Position'
      BY <1>1, <1>3, <1>7, <1>10, <2>1, <3>1 DEF Position, h, d, i
    <3>3. /\ sects'.DEC_INST.bytes = From(Start + h + d, i)
          /\ sects'.DEC_DATA = sects.DEC_DATA
      BY <1>6, <1>11, <1>12, <1>13, <2>4, <3>1 DEF SectionStates
    <3>4. sects'.DEC_DATA.bytes = From(Start + h, d)
      BY <2>4, <3>3 DEF Gathered, h, d
    <3> QED
      BY <1>7, <2>1, <3>1, <3>2, <3>3, <3>4 DEF Gathered, h, d, i
  <2>5. CASE dec_state = "DEC_ADDR"
    <3>1. /\ dec_state' = "DEC_EMIT" /\ At' = Start + h + d + i + a
          /\ At - pos = Start + h + d + i
      BY <1>3, <1>5, <1>6, <2>1, <2>2, <2>5 DEF After
    <3>2. Position'
      BY <1>1, <1>3, <1>5, <1>7, <1>10, <2>1, <3>1 DEF Position
    <3>3. /\ sects'.DEC_ADDR.bytes = From(Start + h + d + i, a)
          /\ sects'.DEC_DATA = sects.DEC_DATA /\ sects'.DEC_INST = sects.DEC_INST
      BY <1>6, <1>11, <1>12, <1>13, <2>5, <3>1 DEF SectionStates
    <3>4. /\ sects'.DEC_DATA.bytes = From(Start + h, d)
          /\ sects'.DEC_INST.bytes = From(Start + h + d, i)
      BY <2>5, <3>3 DEF Gathered, h, d, i
    <3> QED
      BY <1>7, <2>1, <3>1, <3>2, <3>3, <3>4 DEF Gathered, SectionStates, h, d, i, a
  <2> QED
    BY <1>8, <2>3, <2>4, <2>5
<1>14. CASE pos + take # total
  <2>1. dec_state' = dec_state /\ pos' = pos + take
    BY <1>1, <1>14
  <2>2. take = Len(next_in) /\ take < total - pos
    BY <1>3, <1>4, <1>14
  <2>3. next_in' = <<>>
    BY <1>1, <1>2, <1>3, <1>4, <2>2, TookAll
  <2>4. At' < Before(Encoded, window)
    BY <1>3, <1>4, <1>5, <1>6, <1>8, <1>9, <1>10, <2>2
  <2>5. /\ dec_state = "DEC_DATA" => At' = Start + h + pos'
        /\ dec_state = "DEC_INST" => At' = Start + h + d + pos'
        /\ dec_state = "DEC_ADDR" => At' = Start + h + d + i + pos'
    BY <1>3, <1>4, <1>5, <1>6, <1>8, <1>9, <1>10, <2>1
  <2>6. Position'
    BY <1>1, <1>3, <1>7, <1>8, <1>10, <2>1, <2>3, <2>4, <2>5 DEF Position, h, d, i
  <2>7. At' - pos' = At - pos
    BY <1>3, <1>4, <1>9, <1>10, <2>1
  <2>8. sects'[dec_state'].bytes = From(At' - pos', pos')
    BY <1>11, <2>1, <2>7
  <2>9. Gathered'
    BY <1>1, <1>7, <1>8, <1>12, <2>1, <2>8 DEF Gathered, SectionStates
  <2> QED
    BY <2>6, <2>9
<1> QED
  BY <1>13, <1>14

\* Every step keeps both.
LEMMA NextPosition == IInv /\ Position /\ Gathered /\ [Next]_vars => Position' /\ Gathered'
<1> SUFFICES ASSUME IInv, Position, Gathered, [Next]_vars
             PROVE  Position' /\ Gathered'
  OBVIOUS
<1> USE DEF file, call, result, decoder
<1>1. ASSUME UNCHANGED <<delta, length, fpos, dec_state, window, pos, sects, next_in>>,
             pc' \in {"idle", "input"} => pc \in {"idle", "input"}
      PROVE  Position' /\ Gathered'
  <2>1. At' = At /\ Start' = Start
    BY <1>1 DEF At, Start, Encoded
  <2> QED
    BY <1>1, <2>1, PositionFrame DEF Gathered
<1>2. ASSUME NEW want \in Wants, Read(want)
      PROVE  Position' /\ Gathered'
  BY <1>1, <1>2 DEF Read
<1>3. CASE ReadInput
  <2>1. /\ pc = "input" /\ pc' = "process"
        /\ UNCHANGED <<delta, length, dec_state, window, pos, sects>>
    BY <1>3 DEF ReadInput
  <2>2. PICK n \in 0..Least(WinSize, length - fpos) : next_in' = From(fpos, n) /\ fpos' = fpos + n
    BY <1>3 DEF ReadInput
  <2>3. /\ fpos \in Nat /\ length \in Nat /\ fpos <= length
        /\ next_in = <<>> /\ Len(next_in) = 0 /\ At \in Nat /\ At = fpos - Len(next_in)
    BY <2>1 DEF IInv, DecoderTypes, Position, At
  <2>4. n \in Nat /\ n <= length - fpos
    BY <2>2, <2>3, ReaderAssumption DEF Least
  <2>5. Len(next_in') = n
    BY <2>2, <2>3, <2>4, Stretch
  <2>6. At = fpos /\ At' = fpos
    <3>1. At' = (fpos + n) - n
      BY <2>2, <2>5 DEF At
    <3> QED
      BY <2>3, <2>4, <3>1
  <2>7. Start' = Start /\ Encoded' = Encoded
    BY <2>1 DEF Start, Encoded
  <2>8. fpos' <= length
    BY <2>2, <2>3, <2>4
  <2>9. Position'
    BY <2>1, <2>2, <2>3, <2>5, <2>6, <2>7, <2>8 DEF Position
  <2> QED
    BY <2>1, <2>6, <2>7, <2>9 DEF Gathered
<1>4. CASE ReadInputFails
  BY <1>1, <1>4 DEF ReadInputFails
<1>5. CASE OutputWindow \/ OutputLosesRest
  BY <1>1, <1>5 DEF OutputWindow, OutputLosesRest, Output
<1>6. CASE DecodeHeader
  <2>1. Position'
    BY <1>6, HeaderPosition
  <2>2. dec_state' = "DEC_WININD" \/ (dec_state' = "DEC_DATA" /\ pos' = 0)
    BY <1>6 DEF DecodeHeader, Decoding
  <2> QED
    BY <2>1, <2>2 DEF Gathered, SectionStates
<1>7. CASE DecodeSection
  BY <1>7, SectionPosition
<1>8. CASE EmitWindow
  <2>1. /\ dec_state = "DEC_EMIT" /\ dec_state' = "DEC_FINISH" /\ pc' = "output"
        /\ UNCHANGED <<delta, length, fpos, window, pos, sects, next_in>>
    BY <1>8 DEF EmitWindow, Decoding
  <2>2. At' = At /\ Start' = Start /\ Encoded' = Encoded
    BY <2>1 DEF At, Start, Encoded
  <2> QED
    BY <2>1, <2>2 DEF Position, Gathered, SectionStates
<1>9. CASE EmitFails
  BY <1>1, <1>9 DEF EmitFails, Decoding, Raise
<1>10. CASE FinishWindow
  <2>1. /\ dec_state = "DEC_FINISH" /\ dec_state' = "DEC_WININD" /\ pc' = pc /\ pc = "process"
        /\ window' = window + 1
        /\ UNCHANGED <<delta, length, fpos, pos, sects, next_in>>
    BY <1>10 DEF FinishWindow, Decoding, GoesOn
  <2>2. At' = At /\ Encoded' = Encoded
    BY <2>1 DEF At, Encoded
  <2>3. window' - 1 = window /\ window' <= Len(delta) + 1 /\ pos = 0
    BY <2>1 DEF IInv, DecoderTypes, InPlaceOfDelta, Position
  <2>4. Start' = Before(Encoded, window)
    BY <2>2, <2>3 DEF Start
  <2>5. At = Before(Encoded, window) /\ At \in Nat
    BY <2>1 DEF Position
  <2>6. At' = Start' + pos'
    BY <2>1, <2>2, <2>3, <2>4, <2>5
  <2> QED
    BY <2>1, <2>2, <2>3, <2>6 DEF Position, Gathered, SectionStates
<1>11. CASE UNCHANGED vars
  BY <1>1, <1>11 DEF vars
<1> QED
  BY <1>2, <1>3, <1>4, <1>5, <1>6, <1>7, <1>8, <1>9, <1>10, <1>11 DEF Next, Process

\* Where the decoder is and what it gathered, in every reachable state.
LEMMA PositionInvariant == Spec => [](Position /\ Gathered)
<1>1. Init => Position /\ Gathered
  BY InitPosition DEF Init, Gathered, SectionStates
<1> QED
  BY <1>1, NextPosition, DecoderInvariant, PTL DEF Spec

-----------------------------------------------------------------------------
(* What callers get. *)

OutputTypes ==
  /\ given \in Pieces /\ dest \in Pieces /\ overflow \in Pieces /\ next_out \in Pieces
  /\ dropped \subseteq Nat
  /\ asked \in Nat \cup {All} /\ remaining \in Nat \cup {All}
  /\ failures \in Nat /\ reads \in Nat /\ short \in BOOLEAN

\* Output is on its way only within a call, and while bytes wait in the buffer the
\* call has all it asked for.
OneWay ==
  /\ pc # "output" => next_out = <<>>
  /\ pc \in {"idle", "broken"} => dest = <<>>
  /\ pc \in {"input", "process", "output"} /\ overflow # <<>> => remaining = 0

\* What is still to be returned.
Counted ==
  pc \in {"input", "process", "output"} =>
    IF asked = All THEN remaining = All
    ELSE asked \in Nat /\ remaining \in Nat /\ Len(dest) + remaining = asked

Outputs == OutputTypes /\ OneWay /\ Counted /\ InOrder

Ordered(s) == \A i, j \in 1..Len(s) : i < j => s[i] < s[j]
Precedes(s, t) == \A x \in Bytes(s), y \in Bytes(t) : x < y

\* Two strings after one another.
LEMMA TwoParts ==
  ASSUME NEW s \in Pieces, NEW t \in Pieces
  PROVE  /\ s \o t \in Pieces
         /\ Bytes(s \o t) = Bytes(s) \cup Bytes(t)
         /\ Bytes(s) \subseteq Nat
         /\ Ordered(s \o t) <=> Ordered(s) /\ Ordered(t) /\ Precedes(s, t)
<1> DEFINE m == Len(s)
           n == Len(t)
           u == s \o t
<1>1. /\ u \in Seq(Nat) /\ Len(u) = m + n
      /\ \A i \in 1..(m + n) : u[i] = IF i <= m THEN s[i] ELSE t[i - m]
  BY ConcatProperties DEF Pieces, Places
<1>2. m \in Nat /\ n \in Nat /\ s \in Seq(Nat) /\ t \in Seq(Nat)
  BY DEF Pieces, Places
<1>3. /\ \A i \in 1..m : s[i] \in Nat
      /\ \A i \in 1..n : t[i] \in Nat
  BY <1>2
<1> HIDE DEF m, n, u
<1>4. /\ \A i \in 1..m : i \in 1..(m + n) /\ u[i] = s[i]
      /\ \A i \in 1..n : m + i \in 1..(m + n) /\ u[m + i] = t[i]
  <2>1. ASSUME NEW i \in 1..m
        PROVE  i \in 1..(m + n) /\ u[i] = s[i]
    BY <1>1, <1>2
  <2>2. ASSUME NEW i \in 1..n
        PROVE  m + i \in 1..(m + n) /\ u[m + i] = t[i]
    <3>1. m + i \in 1..(m + n) /\ ~ (m + i <= m) /\ (m + i) - m = i
      BY <1>2
    <3> QED
      BY <1>1, <3>1
  <2> QED
    BY <2>1, <2>2
<1>5. \A i \in 1..(m + n) :
        i \in 1..m \/ \E j \in 1..n : i = m + j
  <2>1. ASSUME NEW i \in 1..(m + n), ~ (i \in 1..m)
        PROVE  \E j \in 1..n : i = m + j
    <3>1. i - m \in 1..n /\ i = m + (i - m)
      BY <1>2, <2>1
    <3> QED
      BY <3>1
  <2> QED
    BY <2>1
<1>6. Bytes(u) = Bytes(s) \cup Bytes(t)
  <2>1. Bytes(u) = {u[i] : i \in 1..(m + n)}
    BY <1>1 DEF Bytes
  <2>2. Bytes(s) = {s[i] : i \in 1..m} /\ Bytes(t) = {t[i] : i \in 1..n}
    BY DEF Bytes, m, n
  <2>3. ASSUME NEW x \in Bytes(u)
        PROVE  x \in Bytes(s) \cup Bytes(t)
    <3>1. PICK i \in 1..(m + n) : x = u[i]
      BY <2>1
    <3> QED
      BY <1>4, <1>5, <2>2, <3>1
  <2>4. ASSUME NEW x \in Bytes(s) \cup Bytes(t)
        PROVE  x \in Bytes(u)
    BY <1>4, <2>1, <2>2
  <2> QED
    BY <2>3, <2>4
<1>7. ASSUME Ordered(u)
      PROVE  Ordered(s) /\ Ordered(t) /\ Precedes(s, t)
  <2>1. \A i, j \in 1..(m + n) : i < j => u[i] < u[j]
    BY <1>1, <1>7 DEF Ordered
  <2>2. ASSUME NEW i \in 1..m, NEW j \in 1..m, i < j
        PROVE  s[i] < s[j]
    BY <1>4, <2>1, <2>2
  <2>3. ASSUME NEW i \in 1..n, NEW j \in 1..n, i < j
        PROVE  t[i] < t[j]
    <3>1. m + i < m + j
      BY <1>2, <2>3
    <3> QED
      BY <1>4, <2>1, <3>1
  <2>4. ASSUME NEW i \in 1..m, NEW j \in 1..n
        PROVE  s[i] < t[j]
    <3>1. i < m + j
      BY <1>2
    <3> QED
      BY <1>4, <2>1, <3>1
  <2> QED
    BY <2>2, <2>3, <2>4 DEF Ordered, Precedes, Bytes, m, n
<1>8. ASSUME Ordered(s), Ordered(t), Precedes(s, t)
      PROVE  Ordered(u)
  <2>1. /\ \A i, j \in 1..m : i < j => s[i] < s[j]
        /\ \A i, j \in 1..n : i < j => t[i] < t[j]
        /\ \A i \in 1..m, j \in 1..n : s[i] < t[j]
    BY <1>8 DEF Ordered, Precedes, Bytes, m, n
  <2>2. ASSUME NEW i \in 1..(m + n), NEW j \in 1..(m + n), i < j
        PROVE  u[i] < u[j]
    <3>1. CASE j \in 1..m
      <4>1. i \in 1..m
        BY <1>2, <2>2, <3>1
      <4> QED
        BY <1>4, <2>1, <2>2, <3>1, <4>1
    <3>2. CASE ~ (j \in 1..m)
      <4>1. PICK l \in 1..n : j = m + l
        BY <1>5, <3>2
      <4>2. CASE i \in 1..m
        BY <1>4, <2>1, <4>1, <4>2
      <4>3. CASE ~ (i \in 1..m)
        <5>1. PICK k \in 1..n : i = m + k
          BY <1>5, <4>3
        <5>2. k < l
          BY <1>2, <2>2, <4>1, <5>1
        <5> QED
          BY <1>4, <2>1, <4>1, <5>1, <5>2
      <4> QED
        BY <4>2, <4>3
    <3> QED
      BY <3>1, <3>2
  <2> QED
    BY <1>1, <2>2 DEF Ordered
<1> QED
  BY <1>1, <1>3, <1>6, <1>7, <1>8 DEF u, Pieces, Places, Bytes, m

\* A string that is cut in two.
LEMMA CutParts ==
  ASSUME NEW s \in Pieces, NEW n \in Nat
  PROVE  /\ Chunk(s, n) \in Pieces /\ Beyond(s, n) \in Pieces
         /\ Chunk(s, n) \o Beyond(s, n) = s
         /\ Bytes(s) = Bytes(Chunk(s, n)) \cup Bytes(Beyond(s, n))
         /\ Ordered(s) <=> /\ Ordered(Chunk(s, n)) /\ Ordered(Beyond(s, n))
                           /\ Precedes(Chunk(s, n), Beyond(s, n))
         /\ Len(Chunk(s, n)) = Least(n, Len(s))
         /\ n >= Len(s) => Beyond(s, n) = <<>>
<1> DEFINE k == Least(n, Len(s))
<1>1. Len(s) \in Nat /\ s \in Seq(Nat)
  BY DEF Pieces, Places
<1>2. k \in 0..Len(s) /\ k \in Nat /\ k \in Int /\ (n >= Len(s) => k = Len(s))
  BY <1>1 DEF Least
<1> HIDE DEF k
<1>3. SubSeq(s, 1, k) \o SubSeq(s, k + 1, Len(s)) = s
  <2>1. 1 \in 1..(Len(s) + 1) /\ k \in (1 - 1)..Len(s) /\ Len(s) \in k..Len(s)
    BY <1>1, <1>2
  <2>2. SubSeq(s, 1, k) \o SubSeq(s, k + 1, Len(s)) = SubSeq(s, 1, Len(s))
    BY <1>1, <2>1, ConcatAdjacentSubSeq
  <2> QED
    BY <1>1, <2>2, SubSeqFull
<1>4. Len(SubSeq(s, 1, k)) = k
  BY <1>1, <1>2
<1>5. k = Len(s) => SubSeq(s, k + 1, Len(s)) = <<>>
  <2>1. ASSUME k = Len(s)
        PROVE  SubSeq(s, k + 1, Len(s)) = <<>>
    <3>1. Len(s) < k + 1 /\ k + 1 \in Int /\ Len(s) \in Int
      BY <1>1, <1>2, <2>1
    <3> QED
      BY <3>1, SubSeqEmpty
  <2> QED
    BY <2>1
<1>6. Chunk(s, n) \in Pieces /\ Beyond(s, n) \in Pieces
  BY Taking
<1>7. Chunk(s, n) = SubSeq(s, 1, k) /\ Beyond(s, n) = SubSeq(s, k + 1, Len(s))
  BY DEF Chunk, Beyond, k
<1>8. Chunk(s, n) \o Beyond(s, n) = s
  BY <1>3, <1>7
<1>9. /\ Bytes(s) = Bytes(Chunk(s, n)) \cup Bytes(Beyond(s, n))
      /\ Ordered(s) <=> /\ Ordered(Chunk(s, n)) /\ Ordered(Beyond(s, n))
                        /\ Precedes(Chunk(s, n), Beyond(s, n))
  <2> DEFINE c == Chunk(s, n)
             b == Beyond(s, n)
  <2> HIDE DEF c, b
  <2>1. /\ Bytes(c \o b) = Bytes(c) \cup Bytes(b)
        /\ Ordered(c \o b) <=> Ordered(c) /\ Ordered(b) /\ Precedes(c, b)
    <3>1. c \in Pieces /\ b \in Pieces
      BY <1>6 DEF c, b
    <3> QED
      BY <3>1, TwoParts
  <2>2. c \o b = s
    BY <1>8 DEF c, b
  <2>3. /\ Bytes(s) = Bytes(c) \cup Bytes(b)
        /\ Ordered(s) <=> Ordered(c) /\ Ordered(b) /\ Precedes(c, b)
    BY ONLY <2>1, <2>2, Zenon
  <2> QED
    BY <2>3 DEF c, b
<1> QED
  BY <1>2, <1>4, <1>5, <1>6, <1>7, <1>8, <1>9 DEF k

\* No bytes.
LEMMA NoBytes == <<>> \in Pieces /\ Bytes(<<>>) = {} /\ Ordered(<<>>) /\ Len(<<>>) = 0
  BY DEF Pieces, Bytes, Ordered

\* The bytes on their way to callers are in order if those of each place are and the
\* places are in order.
PlacesInOrder ==
  /\ Ordered(given) /\ Ordered(dest) /\ Ordered(overflow) /\ Ordered(next_out)
  /\ Precedes(given, dest) /\ Precedes(given, overflow) /\ Precedes(given, next_out)
  /\ Precedes(dest, overflow) /\ Precedes(dest, next_out) /\ Precedes(overflow, next_out)

AllBytes == Bytes(given) \cup Bytes(dest) \cup Bytes(overflow) \cup Bytes(next_out)

\* The bytes that are not lost, part by part.
LEMMA KeptParts ==
  ASSUME OutputTypes
  PROVE  /\ Bytes(Kept) = AllBytes /\ AllBytes \subseteq Nat
         /\ Ordered(Kept) <=> PlacesInOrder
<1>1. given \in Pieces /\ dest \in Pieces /\ overflow \in Pieces /\ next_out \in Pieces
  BY DEF OutputTypes
<1> DEFINE two == given \o dest
           three == two \o overflow
<1>2. /\ two \in Pieces /\ Bytes(two) = Bytes(given) \cup Bytes(dest)
      /\ Ordered(two) <=> Ordered(given) /\ Ordered(dest) /\ Precedes(given, dest)
      /\ Bytes(given) \subseteq Nat /\ Bytes(dest) \subseteq Nat
  BY <1>1, TwoParts
<1> HIDE DEF two
<1>3. /\ three \in Pieces /\ Bytes(three) = Bytes(two) \cup Bytes(overflow)
      /\ Ordered(three) <=> Ordered(two) /\ Ordered(overflow) /\ Precedes(two, overflow)
      /\ Bytes(overflow) \subseteq Nat
  BY <1>1, <1>2, TwoParts
<1> HIDE DEF three
<1>4. /\ Bytes(three \o next_out) = Bytes(three) \cup Bytes(next_out)
      /\ Ordered(three \o next_out) <=>
           Ordered(three) /\ Ordered(next_out) /\ Precedes(three, next_out)
      /\ Bytes(next_out) \subseteq Nat
  BY <1>1, <1>3, TwoParts
<1>5. Kept = three \o next_out
  BY DEF Kept, three, two
<1>6. Precedes(two, overflow) <=> Precedes(given, overflow) /\ Precedes(dest, overflow)
  BY <1>2 DEF Precedes
<1>7. Precedes(three, next_out) <=>
        Precedes(given, next_out) /\ Precedes(dest, next_out) /\ Precedes(overflow, next_out)
  BY <1>2, <1>3 DEF Precedes
<1> QED
  BY <1>2, <1>3, <1>4, <1>5, <1>6, <1>7 DEF PlacesInOrder, AllBytes

\* InOrder in these terms.
InPlaces ==
  /\ PlacesInOrder
  /\ AllBytes \cup dropped = 1..Decoded
  /\ AllBytes \cap dropped = {}
  /\ failures = 0 /\ pc # "broken" => dropped = {}

\* InOrder in terms of the places, for the proof to work with.
LEMMA OrderByPlaces == OutputTypes => (InOrder <=> InPlaces)
<1>1. InOrder <=> /\ Ordered(Kept)
                  /\ Bytes(Kept) \cup dropped = 1..Decoded
                  /\ Bytes(Kept) \cap dropped = {}
                  /\ failures = 0 /\ pc # "broken" => dropped = {}
  BY DEF InOrder, Ordered
<1> QED
  BY <1>1, KeptParts DEF InPlaces

\* The sizes of what the windows decode to.
LEMMA ContentTypes ==
  ASSUME DecoderTypes
  PROVE  /\ Content \in Seq(Nat) /\ Len(Content) = Len(delta)
         /\ \A k \in 1..Len(delta) : Content[k] = delta[k].content /\ delta[k].content \in Nat
<1>1. delta \in Seq(Windows) /\ Len(delta) \in Nat
  BY DEF DecoderTypes
<1>2. \A k \in 1..Len(delta) : delta[k].content \in Nat
  <2>1. ASSUME NEW k \in 1..Len(delta)
        PROVE  delta[k].content \in Nat
    <3>1. delta[k] \in Windows
      BY <1>1
    <3> QED
      BY <3>1, ReaderAssumption DEF Windows
  <2> QED
    BY <2>1
<1>3. Content = [k \in 1..Len(delta) |-> delta[k].content]
  <2>1. DOMAIN delta = 1..Len(delta)
    BY <1>1
  <2> QED
    BY <2>1 DEF Content
<1>4. /\ Content \in Seq(Nat) /\ Len(Content) = Len(delta)
      /\ \A k \in 1..Len(delta) : Content[k] = delta[k].content
  BY <1>1, <1>2, <1>3
<1> QED
  BY <1>2, <1>4

\* How much is decoded, before the window at hand and with it.
LEMMA DecodedSize ==
  ASSUME DecoderTypes, Position
  PROVE  /\ Decoded \in Nat
         /\ Before(Content, window - 1) \in Nat
         /\ window <= Len(delta) =>
              /\ delta[window].content \in Nat
              /\ Before(Content, window) =
                   Before(Content, window - 1) + delta[window].content
<1>1. window \in Nat \ {0} /\ delta \in Seq(Windows) /\ window <= Len(delta) + 1
      /\ Len(delta) \in Nat
  BY DEF DecoderTypes, Position
<1>4. /\ Content \in Seq(Nat) /\ Len(Content) = Len(delta)
      /\ \A k \in 1..Len(delta) : Content[k] = delta[k].content /\ delta[k].content \in Nat
  BY ContentTypes
<1>5. window - 1 \in 0..Len(Content) /\ (window - 1) + 1 = window
  BY <1>1, <1>4
<1>6. Before(Content, window - 1) \in Nat
  BY <1>4, <1>5, BeforeSteps
<1>7. ASSUME window <= Len(delta)
      PROVE  /\ delta[window].content \in Nat
             /\ Before(Content, window) =
                  Before(Content, window - 1) + delta[window].content
             /\ Before(Content, window) \in Nat
  <2>1. window \in 1..Len(delta) /\ window - 1 < Len(Content)
    BY <1>1, <1>4, <1>7
  <2>2. Before(Content, (window - 1) + 1)
          = Before(Content, window - 1) + Content[(window - 1) + 1]
    BY <1>4, <1>5, <2>1, BeforeSteps
  <2>3. Content[window] = delta[window].content /\ delta[window].content \in Nat
    BY <1>4, <2>1
  <2>4. Before(Content, window) = Before(Content, window - 1) + delta[window].content
    BY <1>5, <2>2, <2>3
  <2> QED
    BY <1>6, <2>3, <2>4
<1>8. Decoded \in Nat
  <2>1. CASE dec_state = "DEC_FINISH"
    BY <1>7, <2>1 DEF Decoded, Position
  <2>2. CASE dec_state # "DEC_FINISH"
    BY <1>6, <2>2 DEF Decoded
  <2> QED
    BY <2>1, <2>2
<1> QED
  BY <1>6, <1>7, <1>8

\* A call takes what waits in the buffer.
LEMMA ReadOutput ==
  ASSUME Outputs, NEW want \in Wants, Read(want)
  PROVE  Outputs'
<1> DEFINE got == IF want = All THEN Len(overflow) ELSE Least(want, Len(overflow))
<1>1. /\ pc = "idle" /\ pc' = "input"
      /\ asked' = want
      /\ dest' = Chunk(overflow, got) /\ overflow' = Beyond(overflow, got)
      /\ remaining' = IF want = All THEN All ELSE want - got
      /\ reads' = reads + 1
      /\ UNCHANGED <<given, next_out, dropped, failures, short, delta, window, dec_state>>
  BY DEF Read, file, result, decoder
<1>2. OutputTypes /\ InPlaces /\ dest = <<>> /\ next_out = <<>>
  BY <1>1, OrderByPlaces DEF Outputs, OneWay
<1>3. overflow \in Pieces /\ Len(overflow) \in Nat /\ want \in Nat \cup {All} /\ All \notin Nat
  BY <1>2, ReaderAssumption DEF OutputTypes, Pieces
<1>4. /\ got \in Nat /\ got <= Len(overflow)
      /\ want # All => got <= want /\ (got = want \/ got = Len(overflow))
      /\ want = All => got = Len(overflow)
  BY <1>3 DEF Least
<1> HIDE DEF got
<1>5. /\ dest' \in Pieces /\ overflow' \in Pieces
      /\ Bytes(overflow) = Bytes(dest') \cup Bytes(overflow')
      /\ Ordered(overflow) <=> Ordered(dest') /\ Ordered(overflow') /\ Precedes(dest', overflow')
      /\ Len(dest') = got
      /\ got = Len(overflow) => overflow' = <<>>
  <2>1. Least(got, Len(overflow)) = got
    BY <1>3, <1>4 DEF Least
  <2> QED
    BY <1>1, <1>3, <1>4, <2>1, CutParts
<1>6. OutputTypes'
  BY <1>1, <1>2, <1>3, <1>4, <1>5 DEF OutputTypes
<1>7. OneWay'
  BY <1>1, <1>2, <1>3, <1>4, <1>5 DEF OneWay
<1>8. Counted'
  BY <1>1, <1>3, <1>4, <1>5 DEF Counted
<1>9. InPlaces'
  <2>1. Decoded' = Decoded
    BY <1>1 DEF Decoded, Content
  <2>2. AllBytes' = AllBytes
    BY <1>1, <1>2, <1>5, NoBytes DEF AllBytes
  <2>3. PlacesInOrder'
    BY <1>1, <1>2, <1>5, NoBytes DEF InPlaces, PlacesInOrder, Precedes
  <2> QED
    BY <1>1, <1>2, <2>1, <2>2, <2>3 DEF InPlaces
<1> QED
  BY <1>6, <1>7, <1>8, <1>9, OrderByPlaces, PTL DEF Outputs

\* The property after a step.
LEMMA OrderAfter == OutputTypes' => (InOrder' <=> InPlaces')
  BY OrderByPlaces, PTL

\* A call returns, or reads on.
LEMMA ReturnOutput ==
  ASSUME Outputs, pc = "process", MoreInput, Decoded' = Decoded,
         UNCHANGED <<asked, reads, remaining, short, overflow, next_out, failures>>
  PROVE  Outputs'
<1>1. OutputTypes /\ InPlaces /\ next_out = <<>>
  BY OrderByPlaces DEF Outputs, OneWay
<1>2. dropped' = dropped
  BY DEF MoreInput, Succeed, result
<1>3. CASE short \/ remaining = 0
  <2>1. pc' = "idle" /\ given' = given \o dest /\ dest' = <<>>
    BY <1>3 DEF MoreInput, Succeed
  <2>2. /\ given' \in Pieces /\ Bytes(given') = Bytes(given) \cup Bytes(dest)
        /\ Ordered(given') <=> Ordered(given) /\ Ordered(dest) /\ Precedes(given, dest)
    BY <1>1, <2>1, TwoParts DEF OutputTypes
  <2>3. OutputTypes'
    BY <1>1, <1>2, <2>1, <2>2, NoBytes DEF OutputTypes
  <2>4. AllBytes' = AllBytes
    BY <2>1, <2>2, NoBytes DEF AllBytes
  <2>5. PlacesInOrder'
    BY <1>1, <2>1, <2>2, NoBytes DEF InPlaces, PlacesInOrder, Precedes
  <2>6. InPlaces'
    BY <1>1, <1>2, <2>1, <2>4, <2>5 DEF InPlaces
  <2> QED
    BY <1>1, <2>1, <2>3, <2>6, OrderAfter DEF Outputs, OneWay, Counted
<1>4. CASE ~ (short \/ remaining = 0)
  <2>1. pc' = "input" /\ UNCHANGED <<dest, given>>
    BY <1>4 DEF MoreInput, result
  <2>2. OutputTypes' /\ OneWay' /\ Counted'
    BY <1>1, <1>2, <2>1 DEF Outputs, OutputTypes, OneWay, Counted
  <2>3. InPlaces'
    BY <1>1, <1>2, <2>1 DEF InPlaces, PlacesInOrder, AllBytes
  <2> QED
    BY <2>2, <2>3, OrderAfter DEF Outputs
<1> QED
  BY <1>3, <1>4

\* A call raises: what it would have returned is lost.
LEMMA RaiseOutput ==
  ASSUME Outputs, pc \in {"input", "process"}, NEW next \in {"idle", "broken"}, Raise(next),
         Decoded' = Decoded, failures' \in Nat, next = "broken" \/ failures' > 0,
         UNCHANGED <<asked, reads, remaining, short, overflow, next_out>>
  PROVE  Outputs'
<1>1. OutputTypes /\ InPlaces /\ next_out = <<>>
  BY OrderByPlaces DEF Outputs, OneWay
<1>2. pc' = next /\ dropped' = dropped \cup Bytes(dest) /\ dest' = <<>> /\ given' = given
  BY DEF Raise
<1>3. AllBytes \subseteq Nat
  BY <1>1, KeptParts
<1>4. OutputTypes'
  BY <1>1, <1>2, <1>3, NoBytes DEF OutputTypes, AllBytes
<1>5. \A x \in Bytes(dest) :
        x \notin Bytes(given) /\ x \notin Bytes(overflow) /\ x \notin Bytes(next_out)
  <2>1. \A x \in Bytes(dest) : ~ (x < x)
    BY <1>3 DEF AllBytes
  <2> QED
    BY <1>1, <2>1 DEF InPlaces, PlacesInOrder, Precedes
<1>6. AllBytes' = Bytes(given) \cup Bytes(overflow) \cup Bytes(next_out)
  BY <1>2, NoBytes DEF AllBytes
<1>7. InPlaces'
  <2>1. PlacesInOrder'
    BY <1>1, <1>2, NoBytes DEF InPlaces, PlacesInOrder, Precedes
  <2>2. AllBytes' \cup dropped' = 1..Decoded'
    BY <1>1, <1>2, <1>6 DEF InPlaces, AllBytes
  <2>3. AllBytes' \cap dropped' = {}
    BY <1>1, <1>2, <1>5, <1>6 DEF InPlaces, AllBytes
  <2> QED
    BY <1>2, <2>1, <2>2, <2>3 DEF InPlaces
<1>8. OneWay' /\ Counted'
  BY <1>1, <1>2 DEF OneWay, Counted
<1> QED
  BY <1>4, <1>7, <1>8, OrderAfter DEF Outputs

\* A window's output goes to the caller as far as it was asked for; the rest waits, or
\* is lost.
LEMMA OutputOutput ==
  ASSUME Outputs, OutputWindow \/ OutputLosesRest, DecoderTypes
  PROVE  Outputs'
<1> DEFINE c == Chunk(next_out, Fits)
           b == Beyond(next_out, Fits)
<1>1. /\ pc = "output" /\ pc' = "process"
      /\ dest' = dest \o c
      /\ remaining' = IF remaining = All THEN All ELSE remaining - Fits
      /\ next_out' = <<>>
      /\ \/ overflow' = overflow \o b /\ UNCHANGED <<dropped, failures>>
         \/ /\ overflow' = overflow \o <<>> /\ dropped' = dropped \cup Bytes(b)
            /\ failures' = failures + 1
      /\ UNCHANGED <<asked, reads, short, given, delta, window, dec_state>>
  BY DEF OutputWindow, OutputLosesRest, Output, call, file, result, decoder
<1>2. OutputTypes /\ InPlaces
  BY OrderByPlaces DEF Outputs
<1>3. next_out \in Pieces /\ Len(next_out) \in Nat /\ dest \in Pieces /\ Len(dest) \in Nat
      /\ overflow \in Pieces /\ remaining \in Nat \cup {All} /\ All \notin Nat
  BY <1>2, ReaderAssumption DEF OutputTypes, Pieces
<1>4. /\ Fits \in Nat /\ Fits <= Len(next_out)
      /\ remaining # All => Fits <= remaining /\ (Fits = remaining \/ Fits = Len(next_out))
      /\ remaining = All => Fits = Len(next_out)
  BY <1>3 DEF Fits, Least
<1>5. /\ c \in Pieces /\ b \in Pieces
      /\ Bytes(next_out) = Bytes(c) \cup Bytes(b)
      /\ Ordered(next_out) <=> Ordered(c) /\ Ordered(b) /\ Precedes(c, b)
      /\ Len(c) = Fits
      /\ Fits = Len(next_out) => b = <<>>
  <2>1. Least(Fits, Len(next_out)) = Fits
    BY <1>3, <1>4 DEF Least
  <2> QED
    BY <1>3, <1>4, <2>1, CutParts
<1> HIDE DEF c, b
<1>6. /\ dest \o c \in Pieces
      /\ Bytes(dest \o c) = Bytes(dest) \cup Bytes(c)
      /\ Ordered(dest \o c) <=> Ordered(dest) /\ Ordered(c) /\ Precedes(dest, c)
      /\ Len(dest \o c) = Len(dest) + Fits
  <2>1. Len(dest \o c) = Len(dest) + Len(c)
    BY <1>3, <1>5, ConcatProperties DEF Pieces
  <2> QED
    BY <1>3, <1>5, <2>1, TwoParts
<1>7. /\ overflow \o b \in Pieces
      /\ Bytes(overflow \o b) = Bytes(overflow) \cup Bytes(b)
      /\ Ordered(overflow \o b) <=> Ordered(overflow) /\ Ordered(b) /\ Precedes(overflow, b)
  BY <1>3, <1>5, TwoParts
<1>8. overflow \o <<>> = overflow
  BY <1>3, ConcatEmptySeq DEF Pieces
<1>9. overflow = <<>> \/ c = <<>>
  <2>1. overflow # <<>> => remaining = 0
    BY <1>1 DEF Outputs, OneWay
  <2>2. remaining = 0 => Len(c) = 0
    BY <1>3, <1>4, <1>5
  <2>3. Len(c) = 0 => c = <<>>
    BY <1>5, EmptySeq DEF Pieces
  <2> QED
    BY <2>1, <2>2, <2>3
<1>10. AllBytes \subseteq Nat
  BY <1>2, KeptParts
<1>11. OutputTypes'
  <2>1. dest' \in Pieces /\ overflow' \in Pieces /\ next_out' \in Pieces
    BY <1>1, <1>3, <1>6, <1>7, <1>8, NoBytes
  <2>2. remaining' \in Nat \cup {All}
    BY <1>1, <1>3, <1>4
  <2>3. Bytes(b) \subseteq Nat
    BY <1>5, <1>10 DEF AllBytes
  <2>4. dropped' \subseteq Nat /\ failures' \in Nat
    <3>1. dropped \subseteq Nat /\ failures \in Nat
      BY <1>2 DEF OutputTypes
    <3>2. dropped' = dropped \/ dropped' = dropped \cup Bytes(b)
      BY <1>1
    <3>3. failures' = failures \/ failures' = failures + 1
      BY <1>1
    <3>4. dropped' \subseteq Nat
      BY <2>3, <3>1, <3>2
    <3>5. failures' \in Nat
      BY <3>1, <3>3
    <3> QED
      BY <3>4, <3>5
  <2> QED
    BY <1>1, <1>2, <2>1, <2>2, <2>4 DEF OutputTypes
<1>12. Counted'
  BY <1>1, <1>3, <1>4, <1>6 DEF Outputs, Counted
<1>13. OneWay'
  <2>1. overflow' # <<>> => remaining' = 0
    <3>1. ASSUME overflow # <<>>
          PROVE  remaining' = 0
      BY <1>1, <1>3, <1>4, <3>1 DEF Outputs, OneWay
    <3>2. ASSUME b # <<>>
          PROVE  remaining' = 0
      BY <1>1, <1>3, <1>4, <1>5, <3>2
    <3>3. overflow = <<>> /\ b = <<>> => overflow' = <<>>
      BY <1>1, <1>8
    <3> QED
      BY <3>1, <3>2, <3>3
  <2> QED
    BY <1>1, <2>1 DEF OneWay
<1>14. Decoded' = Decoded
  BY <1>1 DEF Decoded, Content
<1>15. PlacesInOrder'
  <2>1. /\ Ordered(dest') /\ Precedes(given, dest')
    BY <1>1, <1>2, <1>5, <1>6 DEF InPlaces, PlacesInOrder, Precedes
  <2>2. /\ Ordered(overflow') /\ Precedes(given, overflow') /\ Precedes(dest', overflow')
    BY <1>1, <1>2, <1>5, <1>6, <1>7, <1>8, <1>9, NoBytes
       DEF InPlaces, PlacesInOrder, Precedes
  <2> QED
    BY <1>1, <1>2, <2>1, <2>2, NoBytes DEF InPlaces, PlacesInOrder, Precedes
<1>16. InPlaces'
  <2>1. CASE overflow' = overflow \o b /\ UNCHANGED <<dropped, failures>>
    <3>1. AllBytes' = AllBytes
      BY <1>1, <1>5, <1>6, <1>7, <2>1, NoBytes DEF AllBytes
    <3> QED
      BY <1>1, <1>2, <1>14, <1>15, <2>1, <3>1 DEF InPlaces
  <2>2. CASE /\ overflow' = overflow \o <<>> /\ dropped' = dropped \cup Bytes(b)
             /\ failures' = failures + 1
    <3>1. AllBytes = AllBytes' \cup Bytes(b)
      BY <1>1, <1>5, <1>6, <1>8, <2>2, NoBytes DEF AllBytes
    <3>2. \A x \in Bytes(b) : x \notin AllBytes'
      <4>1. \A x \in Bytes(b) : ~ (x < x)
        BY <1>5, <1>10 DEF AllBytes
      <4>2. /\ Precedes(given, b) /\ Precedes(dest, b) /\ Precedes(overflow, b)
            /\ Precedes(c, b)
        BY <1>2, <1>5 DEF InPlaces, PlacesInOrder, Precedes
      <4> QED
        BY <1>1, <1>6, <1>8, <2>2, <4>1, <4>2, NoBytes DEF AllBytes, Precedes
    <3>3. AllBytes' \cup dropped' = 1..Decoded'
      BY <1>2, <1>14, <2>2, <3>1 DEF InPlaces
    <3>4. AllBytes' \cap dropped' = {}
      BY <1>2, <2>2, <3>1, <3>2 DEF InPlaces
    <3>5. failures' # 0
      BY <1>2, <2>2 DEF OutputTypes
    <3> QED
      BY <1>15, <3>3, <3>4, <3>5 DEF InPlaces
  <2> QED
    BY <1>1, <2>1, <2>2
<1> QED
  BY <1>11, <1>12, <1>13, <1>16, OrderAfter DEF Outputs

\* A window is decoded: its bytes follow all that came before.
LEMMA EmitOutput ==
  ASSUME Outputs, EmitWindow, DecoderTypes, Position
  PROVE  Outputs'
<1> DEFINE base == Before(Content, window - 1)
           n == delta[window].content
<1>1. /\ pc = "process" /\ pc' = "output"
      /\ dec_state = "DEC_EMIT" /\ dec_state' = "DEC_FINISH"
      /\ next_out' = From(base, n)
      /\ UNCHANGED <<asked, reads, remaining, short, overflow, dest, given, dropped, failures,
                     delta, window>>
  BY DEF EmitWindow, Decoding, file, call, result
<1>2. OutputTypes /\ InPlaces /\ next_out = <<>>
  BY <1>1, OrderByPlaces DEF Outputs, OneWay
<1>3. window <= Len(delta)
  BY <1>1 DEF Position
<1>4. base \in Nat /\ n \in Nat /\ Before(Content, window) = base + n
  BY <1>3, DecodedSize
<1>5. Decoded = base /\ Decoded' = base + n
  <2>1. Decoded = base
    BY <1>1 DEF Decoded
  <2>2. Decoded' = Before(Content, window)
    BY <1>1 DEF Decoded, Content
  <2> QED
    BY <1>4, <2>1, <2>2
<1> HIDE DEF base, n
<1>6. /\ From(base, n) \in Pieces
      /\ Bytes(From(base, n)) = (base + 1)..(base + n)
      /\ Ordered(From(base, n))
  <2>1. /\ From(base, n) \in Pieces /\ Len(From(base, n)) = n
        /\ \A i \in 1..n : From(base, n)[i] = base + i
    BY <1>4, Stretch
  <2>2. Bytes(From(base, n)) = {From(base, n)[i] : i \in 1..n}
    BY <2>1 DEF Bytes
  <2>3. ASSUME NEW x \in (base + 1)..(base + n)
        PROVE  x \in Bytes(From(base, n))
    <3>1. x - base \in 1..n /\ x = base + (x - base)
      BY <1>4
    <3> QED
      BY <2>1, <2>2, <3>1
  <2>4. ASSUME NEW x \in Bytes(From(base, n))
        PROVE  x \in (base + 1)..(base + n)
    <3>1. PICK i \in 1..n : x = From(base, n)[i]
      BY <2>2
    <3> QED
      BY <1>4, <2>1, <3>1
  <2>5. Ordered(From(base, n))
    BY <1>4, <2>1 DEF Ordered
  <2> QED
    BY <2>1, <2>3, <2>4, <2>5
<1>7. AllBytes' = AllBytes \cup (base + 1)..(base + n)
  BY <1>1, <1>2, <1>6, NoBytes DEF AllBytes
<1>8. \A x \in AllBytes \cup dropped : x \in 1..base
  BY <1>2, <1>5 DEF InPlaces
<1>9. PlacesInOrder'
  <2>1. \A x \in AllBytes, y \in Bytes(From(base, n)) : x < y
    BY <1>4, <1>6, <1>8
  <2> QED
    BY <1>1, <1>2, <1>6, <2>1 DEF InPlaces, PlacesInOrder, Precedes, AllBytes
<1>10. InPlaces'
  <2>1. 1..(base + n) = 1..base \cup (base + 1)..(base + n)
    BY <1>4
  <2>2. AllBytes' \cup dropped' = 1..Decoded'
    BY <1>1, <1>2, <1>5, <1>7, <2>1 DEF InPlaces
  <2>3. \A x \in dropped : x \notin (base + 1)..(base + n)
    BY <1>4, <1>8
  <2>4. AllBytes' \cap dropped' = {}
    BY <1>1, <1>2, <1>7, <2>3 DEF InPlaces
  <2> QED
    BY <1>1, <1>2, <1>9, <2>2, <2>4 DEF InPlaces
<1>11. OutputTypes' /\ OneWay' /\ Counted'
  BY <1>1, <1>2, <1>6 DEF Outputs, OutputTypes, OneWay, Counted
<1> QED
  BY <1>10, <1>11, OrderAfter DEF Outputs

\* Before anything was read all is empty.
LEMMA InitOutputs == Init => Outputs
<1> SUFFICES ASSUME Init
             PROVE  Outputs
  OBVIOUS
<1>1. DecoderTypes /\ Position
  BY InitIInv, InitPosition DEF IInv
<1>2. /\ pc = "idle" /\ given = <<>> /\ dest = <<>> /\ overflow = <<>> /\ next_out = <<>>
      /\ dropped = {} /\ asked = 0 /\ remaining = 0 /\ failures = 0 /\ reads = 0
      /\ short = FALSE /\ dec_state = "DEC_WININD" /\ window = 1
  BY DEF Init
<1>3. OutputTypes /\ OneWay /\ Counted
  BY <1>2, NoBytes DEF OutputTypes, OneWay, Counted
<1>4. AllBytes = {} /\ PlacesInOrder
  BY <1>2, NoBytes DEF AllBytes, PlacesInOrder, Precedes
<1>5. Decoded = 0
  <2>1. window - 1 = 0
    BY <1>2
  <2>2. Decoded = Before(Content, 0)
    BY <1>2, <2>1 DEF Decoded
  <2>3. Content \in Seq(Nat)
    BY <1>1, ContentTypes
  <2>4. 0 \in 0..Len(Content)
    BY <2>3
  <2> QED
    BY <2>2, <2>3, <2>4, BeforeSteps
<1>6. InPlaces
  <2>1. 1..Decoded = {}
    BY <1>5
  <2> QED
    BY <1>2, <1>4, <2>1 DEF InPlaces
<1> QED
  BY <1>3, <1>6, OrderByPlaces DEF Outputs

\* Every step keeps the bytes in order and none of them is lost.
LEMMA NextOutputs == IInv /\ Position /\ Outputs /\ [Next]_vars => Outputs'
<1> SUFFICES ASSUME IInv, Position, Outputs, [Next]_vars
             PROVE  Outputs'
  OBVIOUS
<1> USE DEF file, call, result, decoder
<1>1. DecoderTypes /\ failures \in Nat
  BY DEF IInv, Outputs, OutputTypes
<1>2. ASSUME UNCHANGED <<delta, window>>, dec_state # "DEC_FINISH", dec_state' # "DEC_FINISH"
      PROVE  Decoded' = Decoded
  BY <1>2 DEF Decoded, Content
<1>3. ASSUME UNCHANGED <<pc, dest, given, dropped, asked, reads, remaining, short, overflow,
                         next_out, failures>>,
             Decoded' = Decoded
      PROVE  Outputs'
  BY <1>3 DEF Outputs, OutputTypes, OneWay, Counted, InOrder, Kept
<1>4. ASSUME NEW want \in Wants, Read(want)
      PROVE  Outputs'
  BY <1>4, ReadOutput
<1>5. CASE ReadInput
  <2>1. /\ pc = "input" /\ pc' = "process" /\ short' \in BOOLEAN
        /\ UNCHANGED <<dest, given, dropped, asked, reads, remaining, overflow, next_out,
                       failures, delta, window, dec_state>>
    BY <1>5 DEF ReadInput
  <2>2. Decoded' = Decoded /\ Kept' = Kept
    BY <2>1 DEF Decoded, Content, Kept
  <2> QED
    BY <2>1, <2>2 DEF Outputs, OutputTypes, OneWay, Counted, InOrder
<1>6. CASE ReadInputFails
  <2>1. /\ pc = "input" /\ Raise("idle") /\ failures' = failures + 1
        /\ UNCHANGED <<asked, reads, remaining, short, overflow, next_out,
                       delta, window, dec_state>>
    BY <1>6 DEF ReadInputFails
  <2>2. Decoded' = Decoded /\ failures' \in Nat /\ failures' > 0
    BY <1>1, <2>1 DEF Decoded, Content
  <2> QED
    BY <2>1, <2>2, RaiseOutput
<1>7. CASE OutputWindow \/ OutputLosesRest
  BY <1>1, <1>7, OutputOutput
<1>8. CASE DecodeHeader
  <2>1. /\ pc = "process" /\ dec_state = "DEC_WININD" /\ dec_state' # "DEC_FINISH"
        /\ UNCHANGED <<asked, reads, remaining, short, overflow, next_out, failures,
                       delta, window>>
        /\ MoreInput \/ GoesOn
    BY <1>8 DEF DecodeHeader, Decoding
  <2>2. Decoded' = Decoded
    BY <1>2, <2>1
  <2>3. CASE MoreInput
    BY <2>1, <2>2, <2>3, ReturnOutput
  <2>4. CASE GoesOn
    BY <1>3, <2>1, <2>2, <2>4 DEF GoesOn
  <2> QED
    BY <2>1, <2>3, <2>4
<1>9. CASE DecodeSection
  <2>1. /\ pc = "process" /\ dec_state \in SectionStates
        /\ dec_state' = dec_state \/ dec_state' = After[dec_state]
        /\ UNCHANGED <<asked, reads, remaining, short, overflow, next_out, failures,
                       delta, window>>
        /\ MoreInput \/ GoesOn
    BY <1>9 DEF DecodeSection, Decoding
  <2>2. dec_state # "DEC_FINISH" /\ dec_state' # "DEC_FINISH"
    BY <2>1 DEF SectionStates, After
  <2>3. Decoded' = Decoded
    BY <1>2, <2>1, <2>2
  <2>4. CASE MoreInput
    BY <2>1, <2>3, <2>4, ReturnOutput
  <2>5. CASE GoesOn
    BY <1>3, <2>1, <2>3, <2>5 DEF GoesOn
  <2> QED
    BY <2>1, <2>4, <2>5
<1>10. CASE EmitWindow
  BY <1>1, <1>10, EmitOutput
<1>11. CASE EmitFails
  <2>1. /\ pc = "process" /\ Raise("broken")
        /\ UNCHANGED <<asked, reads, remaining, short, overflow, next_out, failures,
                       delta, window, dec_state>>
    BY <1>11 DEF EmitFails, Decoding
  <2>2. Decoded' = Decoded /\ failures' \in Nat
    BY <1>1, <2>1 DEF Decoded, Content
  <2> QED
    BY <2>1, <2>2, RaiseOutput
<1>12. CASE FinishWindow
  <2>1. /\ dec_state = "DEC_FINISH" /\ dec_state' = "DEC_WININD" /\ window' = window + 1
        /\ UNCHANGED <<pc, dest, given, dropped, asked, reads, remaining, short, overflow,
                       next_out, failures, delta>>
    BY <1>12 DEF FinishWindow, Decoding, GoesOn
  <2>2. window' - 1 = window
    BY <1>1, <2>1 DEF DecoderTypes
  <2>3. Decoded' = Decoded
    BY <2>1, <2>2 DEF Decoded, Content
  <2> QED
    BY <1>3, <2>1, <2>3
<1>13. CASE UNCHANGED vars
  <2>1. Decoded' = Decoded
    BY <1>13 DEF vars, Decoded, Content
  <2> QED
    BY <1>3, <1>13, <2>1 DEF vars
<1> QED
  BY <1>4, <1>5, <1>6, <1>7, <1>8, <1>9, <1>10, <1>11, <1>12, <1>13 DEF Next, Process

\* What callers get, in every reachable state.
LEMMA OutputInvariant == Spec => []Outputs
  BY InitOutputs, NextOutputs, DecoderInvariant, PositionInvariant, PTL DEF Spec

\* A decoder that waits for input at the end of the file has decoded what is whole there.
LEMMA WaitsAtTheEnd ==
  ASSUME DecoderTypes, Position, pc \in {"idle", "input"}, fpos = length
  PROVE  AllDecoded
<1>1. /\ Encoded \in Seq(Nat) /\ Len(Encoded) = Len(delta) /\ Len(delta) \in Nat
      /\ window \in Nat \ {0} /\ length \in Nat
  BY EncodedTypes DEF DecoderTypes, Position
<1>2. At = length
  <2>1. next_in = <<>> /\ At = fpos - Len(next_in)
    BY DEF Position, At
  <2>2. Len(next_in) = 0
    BY <2>1
  <2>3. At = fpos - 0
    BY <2>1, <2>2
  <2> QED
    BY <1>1, <2>3
<1>3. SUFFICES ASSUME NEW k \in 0..Len(delta), Before(Encoded, k) <= length, ~ (k < window)
               PROVE  FALSE
  BY DEF AllDecoded, Whole
<1>4. window \in 0..Len(Encoded) /\ k \in window..Len(Encoded) /\ k \in 0..Len(Encoded)
  BY <1>1, <1>3
<1>5. Before(Encoded, window) <= Before(Encoded, k)
  BY <1>1, <1>4, BeforeGrows
<1>6. Before(Encoded, window) \in Nat /\ Before(Encoded, k) \in Nat
  BY <1>1, <1>4, BeforeSteps
<1>7. At < Before(Encoded, window)
  BY <1>1, <1>4 DEF Position
<1> QED
  BY <1>1, <1>2, <1>3, <1>5, <1>6, <1>7

\* A call that returns has what it was asked for, or all there is.
LEMMA NextFewer ==
  IInv' /\ Position' /\ Outputs /\ Outputs' /\ FewerOnlyAtTheEnd /\ [Next]_vars
    => FewerOnlyAtTheEnd'
<1> SUFFICES ASSUME IInv', Position', Outputs, Outputs', FewerOnlyAtTheEnd, [Next]_vars
             PROVE  FewerOnlyAtTheEnd'
  OBVIOUS
<1> USE DEF file, call, result, decoder
<1>1. ASSUME pc' # "idle" \/ ~ ok'
      PROVE  FewerOnlyAtTheEnd'
  BY <1>1 DEF FewerOnlyAtTheEnd
<1>2. ASSUME pc = "process", MoreInput, UNCHANGED <<asked, short, overflow, remaining>>
      PROVE  FewerOnlyAtTheEnd'
  <2>1. SUFFICES ASSUME pc' = "idle"
                 PROVE  FewerOnlyAtTheEnd'
    BY <1>1
  <2>2. returned' = Len(dest) /\ (short \/ remaining = 0)
    BY <1>2, <2>1 DEF MoreInput, Succeed
  <2>3. /\ dest \in Pieces /\ Len(dest) \in Nat
        /\ asked \in Nat \cup {All} /\ remaining \in Nat \cup {All} /\ All \notin Nat
    BY ReaderAssumption DEF Outputs, OutputTypes, Pieces
  <2>4. IF asked = All THEN remaining = All
        ELSE asked \in Nat /\ remaining \in Nat /\ Len(dest) + remaining = asked
    BY <1>2 DEF Outputs, Counted
  <2>5. CASE remaining = 0
    <3>1. returned' = asked'
      BY <1>2, <2>2, <2>3, <2>4, <2>5
    <3> QED
      BY <3>1 DEF FewerOnlyAtTheEnd
  <2>6. CASE remaining # 0
    <3>1. short' /\ overflow' = <<>>
      BY <1>2, <2>2, <2>6 DEF Outputs, OneWay
    <3>2. asked' # All => returned' < asked'
      <4>1. SUFFICES ASSUME asked # All
                     PROVE  Len(dest) < asked
        BY <1>2, <2>2
      <4>2. asked \in Nat /\ remaining \in Nat \ {0} /\ Len(dest) + remaining = asked
        BY <2>3, <2>4, <2>6, <4>1
      <4> QED
        BY <2>3, <4>2
    <3>3. fpos' = length' => AllDecoded'
      <4>1. DecoderTypes' /\ Position' /\ pc' \in {"idle", "input"}
        BY <2>1 DEF IInv
      <4>2. (DecoderTypes /\ Position /\ pc \in {"idle", "input"} /\ fpos = length
               => AllDecoded)'
        BY WaitsAtTheEnd, PTL
      <4> QED
        BY <4>1, <4>2
    <3> QED
      BY <3>1, <3>2, <3>3 DEF FewerOnlyAtTheEnd
  <2> QED
    BY <2>5, <2>6
<1>3. ASSUME NEW want \in Wants, Read(want)
      PROVE  FewerOnlyAtTheEnd'
  BY <1>1, <1>3 DEF Read
<1>4. CASE ReadInput
  BY <1>1, <1>4 DEF ReadInput
<1>5. CASE ReadInputFails
  BY <1>1, <1>5 DEF ReadInputFails, Raise
<1>6. CASE OutputWindow \/ OutputLosesRest
  BY <1>1, <1>6 DEF OutputWindow, OutputLosesRest, Output
<1>7. CASE DecodeHeader
  <2>1. /\ pc = "process" /\ UNCHANGED <<asked, short, overflow, remaining>>
        /\ MoreInput \/ GoesOn
    BY <1>7 DEF DecodeHeader, Decoding
  <2> QED
    BY <1>1, <1>2, <2>1 DEF GoesOn
<1>8. CASE DecodeSection
  <2>1. /\ pc = "process" /\ UNCHANGED <<asked, short, overflow, remaining>>
        /\ MoreInput \/ GoesOn
    BY <1>8 DEF DecodeSection, Decoding
  <2> QED
    BY <1>1, <1>2, <2>1 DEF GoesOn
<1>9. CASE EmitWindow
  BY <1>1, <1>9 DEF EmitWindow
<1>10. CASE EmitFails
  BY <1>1, <1>10 DEF EmitFails, Raise
<1>11. CASE FinishWindow
  BY <1>1, <1>11 DEF FinishWindow, Decoding, GoesOn
<1>12. CASE UNCHANGED vars
  BY <1>12 DEF vars, FewerOnlyAtTheEnd, AllDecoded, Whole, Encoded
<1> QED
  BY <1>3, <1>4, <1>5, <1>6, <1>7, <1>8, <1>9, <1>10, <1>11, <1>12 DEF Next, Process

-----------------------------------------------------------------------------
\* A section that is decoded where it lies in the string of one call to the target's
\* read method is decoded before that string is let go of.
THEOREM SectionsOutliveNoInput == Spec => []NoDanglingSection
<1>1. IInv => NoDanglingSection
  BY DEF IInv, EmitAtOnce, RestIsHere, NoDanglingSection
<1> QED
  BY <1>1, DecoderInvariant, PTL

\* However the input was cut, the sections a window is decoded from are those of its
\* place in the file.
THEOREM SectionsAreTheWindows == Spec => []SectionsAreRight
<1>1. Position /\ Gathered => SectionsAreRight
  BY DEF Gathered, SectionsAreRight, Start
<1> QED
  BY <1>1, PositionInvariant, PTL

\* The bytes that callers are given, that wait for them and that were lost with a
\* failure are the bytes decoded, each once; those not lost are in order.
THEOREM ReadsAreInOrder == Spec => []InOrder
<1>1. Outputs => InOrder
  BY DEF Outputs
<1> QED
  BY <1>1, OutputInvariant, PTL

\* A read returns less than it was asked for only when the target returned a short
\* piece, and at the end of the target only when all its whole windows are decoded.
THEOREM ShortReadsAreTheLast == Spec => []FewerOnlyAtTheEnd
<1>1. Init => FewerOnlyAtTheEnd
  BY DEF Init, FewerOnlyAtTheEnd
<1> QED
  BY <1>1, NextFewer, DecoderInvariant, PositionInvariant, OutputInvariant, PTL DEF Spec

-----------------------------------------------------------------------------
(* The buffer between the decoder and read(): buffer.c, for every pair of    *)
(* thresholds and every bound on lengths.  The inductive invariant is        *)
(* TypeOK /\ HoldsTheRest: the bytes in the block are determined by the two  *)
(* counters, so an append that moves them and one that does not leave the    *)
(* same queue behind.                                                        *)

BufferInv == TypeOK /\ HoldsTheRest

\* data = NULL, seen as a block without a cell.
LEMMA NoBlockType == NoBlock \in [1..0 -> Nat]
  BY DEF NoBlock

\* The initial buffer: nothing allocated, nothing owed.
LEMMA InitBufferInv == BufferInit => BufferInv
<1> SUFFICES ASSUME BufferInit
             PROVE  BufferInv
  OBVIOUS
<1>1. data \in [1..size -> Nat]
  BY NoBlockType DEF BufferInit
<1>2. size = 0 /\ offset = 0 /\ stored = 0 /\ taken = 0 /\ allocated \in BOOLEAN
  BY DEF BufferInit
<1>3. TypeOK
  BY <1>1, <1>2 DEF TypeOK
<1>4. HoldsTheRest
  BY DEF BufferInit, HoldsTheRest, Remaining
<1> QED
  BY <1>3, <1>4 DEF BufferInv

\* What Extended builds: the bytes kept, then the bytes of the caller.
LEMMA ExtendedBytes ==
  ASSUME stored \in Nat, NEW used \in Nat, NEW len \in Nat,
         NEW block \in [1..used -> Nat]
  PROVE  /\ Extended(block, used, len) \in [1..(used + len) -> Nat]
         /\ \A k \in 1..used : Extended(block, used, len)[k] = block[k]
         /\ \A k \in (used + 1)..(used + len) :
              Extended(block, used, len)[k] = stored + (k - used)
  BY DEF Extended

\* Storing at the end of a block that is made larger.
LEMMA AppendGrowInv ==
  ASSUME BufferInv, NEW len \in 1..MaxLen, AppendGrow(len)
  PROVE  BufferInv'
<1> USE BoundsAssumption DEF BufferInv, Remaining
<1>1. /\ data' \in [1..(size + len) -> Nat]
      /\ \A k \in 1..size : data'[k] = data[k]
      /\ \A k \in (size + 1)..(size + len) : data'[k] = stored + (k - size)
  BY ExtendedBytes DEF AppendGrow, TypeOK
<1>2. TypeOK'
  BY <1>1 DEF AppendGrow, TypeOK
<1>3. stored' = taken' + Remaining'
  BY DEF AppendGrow, TypeOK, HoldsTheRest
<1>4. ASSUME NEW k \in 1..Remaining'
      PROVE  data'[offset' + k] = taken' + k
  <2>1. CASE offset + k <= size
    BY <1>1, <2>1 DEF AppendGrow, TypeOK, HoldsTheRest
  <2>2. CASE offset + k > size
    BY <1>1, <2>2 DEF AppendGrow, TypeOK, HoldsTheRest
  <2> QED
    BY <2>1, <2>2 DEF AppendGrow, TypeOK
<1> QED
  BY <1>2, <1>3, <1>4 DEF HoldsTheRest

\* Storing behind the rest, which moves to a new block.
LEMMA AppendCompactInv ==
  ASSUME BufferInv, NEW len \in 1..MaxLen, AppendCompact(len)
  PROVE  BufferInv'
<1> USE BoundsAssumption DEF BufferInv, Remaining
<1> DEFINE rest == [k \in 1..(size - offset) |-> data[offset + k]]
<1>1. rest \in [1..(size - offset) -> Nat]
  BY DEF TypeOK
<1>2. /\ data' \in [1..((size - offset) + len) -> Nat]
      /\ \A k \in 1..(size - offset) : data'[k] = rest[k]
      /\ \A k \in ((size - offset) + 1)..((size - offset) + len) :
           data'[k] = stored + (k - (size - offset))
  <2> HIDE DEF rest
  <2>1. data' = Extended(rest, size - offset, len)
    BY DEF AppendCompact, rest
  <2>2. /\ stored \in Nat
        /\ size - offset \in Nat
        /\ len \in Nat
    BY DEF TypeOK
  <2> QED
    BY <1>1, <2>1, <2>2, ExtendedBytes
<1>3. /\ size' = (size - offset) + len
      /\ offset' = 0
      /\ stored' = stored + len
      /\ taken' = taken
      /\ allocated' = TRUE
  BY DEF AppendCompact
<1> HIDE DEF rest
<1>4. TypeOK'
  BY <1>2, <1>3 DEF TypeOK
<1>5. stored' = taken' + Remaining'
  BY <1>3 DEF TypeOK, HoldsTheRest
<1>6. ASSUME NEW k \in 1..Remaining'
      PROVE  data'[offset' + k] = taken' + k
  <2>1. CASE k <= size - offset
    <3>1. rest[k] = taken + k
      BY <1>3, <2>1 DEF rest, TypeOK, HoldsTheRest
    <3> QED
      BY <1>2, <1>3, <2>1, <3>1 DEF TypeOK
  <2>2. CASE k > size - offset
    BY <1>2, <1>3, <2>2 DEF TypeOK, HoldsTheRest
  <2> QED
    BY <1>3, <2>1, <2>2 DEF TypeOK
<1> QED
  BY <1>4, <1>5, <1>6 DEF HoldsTheRest

\* Taking bytes moves the offset only.
LEMMA TakeInv ==
  ASSUME BufferInv, NEW len \in 0..MaxLen, Take(len)
  PROVE  BufferInv'
<1> USE BoundsAssumption DEF BufferInv, Remaining
<1> DEFINE n == IF Remaining < len THEN Remaining ELSE len
<1>1. n \in 0..(size - offset)
  BY DEF TypeOK
<1>2. /\ taken' = taken + n
      /\ stored' = stored
      /\ allocated' = allocated
      /\ allocated
      /\ offset + n = size => data' = NoBlock /\ size' = 0 /\ offset' = 0
      /\ offset + n # size => data' = data /\ size' = size /\ offset' = offset + n
  BY DEF Take
<1> HIDE DEF n
<1>3. CASE offset + n = size
  BY <1>1, <1>2, <1>3, NoBlockType DEF TypeOK, HoldsTheRest
<1>4. CASE offset + n # size
  <2>1. TypeOK' /\ stored' = taken' + Remaining'
    BY <1>1, <1>2, <1>4 DEF TypeOK, HoldsTheRest
  <2>2. ASSUME NEW k \in 1..Remaining'
        PROVE  data'[offset' + k] = taken' + k
    <3>1. n + k \in 1..Remaining /\ offset' + k = offset + (n + k)
      BY <1>1, <1>2, <1>4 DEF TypeOK
    <3>2. data[offset + (n + k)] = taken + (n + k)
      BY <3>1 DEF HoldsTheRest
    <3> QED
      BY <1>1, <1>2, <1>4, <3>1, <3>2 DEF TypeOK
  <2> QED
    BY <2>1, <2>2 DEF HoldsTheRest
<1> QED
  BY <1>3, <1>4

\* Every step keeps the invariant.
LEMMA NextBufferInv == BufferInv /\ [BufferNext]_buffer_vars => BufferInv'
<1> SUFFICES ASSUME BufferInv, [BufferNext]_buffer_vars
             PROVE  BufferInv'
  OBVIOUS
<1> USE DEF BufferInv, TypeOK, HoldsTheRest, Remaining
<1>1. CASE AppendNothing
  BY <1>1 DEF AppendNothing
<1>2. ASSUME NEW len \in 1..MaxLen, AppendBytes(len)
      PROVE  BufferInv'
  <2>1. CASE AppendGrow(len)
    BY <2>1, AppendGrowInv
  <2>2. CASE AppendCompact(len)
    BY <2>2, AppendCompactInv
  <2>3. CASE AppendFails
    BY <2>3 DEF AppendFails
  <2> QED
    BY <1>2, <2>1, <2>2, <2>3 DEF AppendBytes
<1>3. CASE TakeNothing
  BY <1>3 DEF TakeNothing
<1>4. ASSUME NEW len \in 0..MaxLen, Take(len)
      PROVE  BufferInv'
  BY <1>4, TakeInv
<1>5. CASE Release
  <2>1. data' \in [1..size' -> Nat]
    BY <1>5, NoBlockType DEF Release
  <2>2. /\ size' = 0 /\ offset' = 0 /\ stored' = stored /\ taken' = stored
        /\ allocated' \in BOOLEAN
    BY <1>5 DEF Release
  <2>3. TypeOK'
    BY <2>1, <2>2
  <2>4. HoldsTheRest'
    BY <2>2
  <2> QED
    BY <2>3, <2>4
<1>6. CASE UNCHANGED buffer_vars
  BY <1>6 DEF buffer_vars
<1> QED
  BY <1>1, <1>2, <1>3, <1>4, <1>5, <1>6 DEF BufferNext

\* buffer.c never reads or writes outside its heap block, whatever the thresholds.
THEOREM BufferTypes == BufferSpec => []TypeOK
<1>1. BufferInv => TypeOK
  BY DEF BufferInv
<1> QED
  BY InitBufferInv, NextBufferInv, <1>1, PTL DEF BufferSpec

\* No byte handed to buffer_append is lost, repeated or moved before it is taken.
THEOREM NothingLost == BufferSpec => []HoldsTheRest
<1>1. BufferInv => HoldsTheRest
  BY DEF BufferInv
<1> QED
  BY InitBufferInv, NextBufferInv, <1>1, PTL DEF BufferSpec

-----------------------------------------------------------------------------
\* Every step of buffer.c is a step of the queue of buffer.h, or changes nothing of it.
LEMMA BufferStepImplements == BufferInv /\ [BufferNext]_buffer_vars => [Fifo!Next]_(Fifo!vars)
<1> SUFFICES ASSUME BufferInv, [BufferNext]_buffer_vars
             PROVE  [Fifo!Next]_(Fifo!vars)
  OBVIOUS
<1> USE BoundsAssumption
<1>1. CASE AppendNothing
  BY <1>1 DEF AppendNothing, Fifo!Next, Fifo!Refuse
<1>2. ASSUME NEW len \in 1..MaxLen, AppendBytes(len)
      PROVE  Fifo!Next
  <2>1. len \in 0..MaxLen
    OBVIOUS
  <2>2. CASE AppendGrow(len) \/ AppendCompact(len)
    BY <2>1, <2>2 DEF AppendGrow, AppendCompact, Fifo!Next, Fifo!Store
  <2>3. CASE AppendFails
    BY <2>3 DEF AppendFails, Fifo!Next, Fifo!Refuse
  <2> QED
    BY <1>2, <2>2, <2>3 DEF AppendBytes
<1>3. CASE TakeNothing
  BY <1>3 DEF TakeNothing, Fifo!Next, Fifo!Refuse
<1>4. ASSUME NEW len \in 0..MaxLen, Take(len)
      PROVE  Fifo!Next
  <2> DEFINE n == IF Remaining < len THEN Remaining ELSE len
  <2>1. /\ n = IF stored - taken < len THEN stored - taken ELSE len
        /\ n \in 0..Remaining
    BY DEF BufferInv, TypeOK, HoldsTheRest, Remaining
  <2>2. \A k \in 1..n : data[offset + k] = taken + k
    BY <2>1 DEF BufferInv, TypeOK, HoldsTheRest, Remaining
  <2>3. last' = [k \in 1..n |-> taken + k]
    BY <1>4, <2>2 DEF Take
  <2>4. Fifo!Get(len)
    BY <1>4, <2>1, <2>3 DEF Take, Fifo!Get
  <2> QED
    BY <2>4 DEF Fifo!Next
<1>5. CASE Release
  BY <1>5 DEF Release, Fifo!Next, Fifo!Drop
<1>6. CASE UNCHANGED buffer_vars
  BY <1>6 DEF buffer_vars, Fifo!vars
<1> QED
  BY <1>1, <1>2, <1>3, <1>4, <1>5, <1>6 DEF BufferNext

\* buffer.c implements the first-in first-out queue that buffer.h describes.
THEOREM BufferImplementsFifo == BufferSpec => ImplementsFifo
<1>1. BufferInit => Fifo!Init
  BY DEF BufferInit, Fifo!Init
<1> QED
  BY <1>1, InitBufferInv, NextBufferInv, BufferStepImplements, PTL DEF BufferSpec, ImplementsFifo, Fifo!Spec
=============================================================================
