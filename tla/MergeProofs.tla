----------------------------- MODULE MergeProofs -----------------------------
(***************************************************************************)
(* Proofs about Merge: the lists of instructions a merge reads and makes   *)
(* have no gap, no call of xd3_merge_source_copy leaves the text of the    *)
(* delta before, its assertions hold, and what is written decodes to what  *)
(* the chain yields, for every chain of deltas, of any number of windows   *)
(* and instructions.                                                       *)
(*                                                                         *)
(* IInv has five parts: the types; Place, which ties what is read so far   *)
(* to the sizes the deltas announce; Nested, which says where each call of *)
(* xd3_merge_source_copy is and that the innermost one writes where the    *)
(* merged delta ends, its caller where it will be done, and so on outwards;*)
(* Merged, how far the delta is merged; Tiled, what the theorem is about.  *)
(* What makes the calls possible is that the binary search of a list       *)
(* without gaps finds the instruction that makes the byte.                 *)
(*                                                                         *)
(* TextInv adds what the instructions say: Told, that each list tells the  *)
(* text of its delta byte by byte, and that what a call is to copy is what *)
(* belongs where it is written; Ready and Placed, what is to be written    *)
(* and how far it is; WindowTold, that the instructions buffered for a     *)
(* window and the bytes between them are the window's text; OutTold, that  *)
(* a window that was written makes its part of it.  Texts are defined by   *)
(* recursion: that such a function exists and is the only one is shown by  *)
(* induction, and the decoder's text is then known by its equations.       *)
(***************************************************************************)
EXTENDS Merge, WellFoundedInduction, SequenceTheorems, TLAPS

-----------------------------------------------------------------------------
(* Induction: a property of every number, as the set of those that have it. *)

\* A nonempty set of natural numbers has a smallest one.
LEMMA NatMin ==
  ASSUME NEW T, T \subseteq Nat, T # {}
  PROVE  \E x \in T : \A y \in T : x <= y
<1> DEFINE Less == {p \in Nat \X Nat : p[1] < p[2]}
<1>1. OpToRel(<, Nat) = Less
  BY DEF OpToRel
<1>2. PICK x \in T : \A y \in T : ~ (<<y, x>> \in Less)
  <2>1. IsWellFoundedOn(Less, Nat)
    BY <1>1, NatLessThanWellFounded
  <2> HIDE DEF Less
  <2> QED BY <2>1, WFMin
<1>3. ASSUME NEW y \in T
      PROVE  x <= y
  <2>1. x \in Nat /\ y \in Nat /\ <<y, x>> \in Nat \X Nat
    OBVIOUS
  <2> QED BY <1>2, <2>1
<1> QED BY <1>3

\* A set of numbers that holds 0 and the successor of each of its elements is all.
LEMMA NatInduct ==
  ASSUME NEW T, 0 \in T, \A n \in Nat : n \in T => n + 1 \in T
  PROVE  \A n \in Nat : n \in T
<1> DEFINE Others == {n \in Nat : n \notin T}
<1>1. SUFFICES ASSUME Others # {}
               PROVE  FALSE
  OBVIOUS
<1>2. PICK x \in Others : \A y \in Others : x <= y
  BY <1>1, NatMin
<1>3. x - 1 \in Nat /\ x - 1 \notin Others
  BY <1>2
<1> QED
  BY <1>2, <1>3

-----------------------------------------------------------------------------
(* Sums that are defined by recursion: s is the sum of the first entries of z. *)

IsSum(s, z, k) ==
  s = [i \in 0..k |-> IF i = 0 THEN 0 ELSE s[i - 1] + z[i]]

\* There is such a sum.
LEMMA SumExists ==
  ASSUME NEW z \in Seq(Nat), NEW k \in 0..Len(z)
  PROVE  \E s \in [0..k -> Nat] : IsSum(s, z, k)
<1> DEFINE T == {n \in Nat : n <= Len(z) => \E s \in [0..n -> Nat] : IsSum(s, z, n)}
<1>1. 0 \in T
  <2>1. [i \in 0..0 |-> 0] \in [0..0 -> Nat] /\ IsSum([i \in 0..0 |-> 0], z, 0)
    BY DEF IsSum
  <2> QED
    BY <2>1
<1>2. ASSUME NEW n \in Nat, n \in T
      PROVE  n + 1 \in T
  <2>1. SUFFICES ASSUME n + 1 <= Len(z)
                 PROVE  \E s \in [0..(n + 1) -> Nat] : IsSum(s, z, n + 1)
    OBVIOUS
  <2>2. PICK s \in [0..n -> Nat] : IsSum(s, z, n)
    BY <1>2, <2>1
  <2> DEFINE r == [i \in 0..(n + 1) |-> IF i = n + 1 THEN s[n] + z[n + 1] ELSE s[i]]
  <2>3. z[n + 1] \in Nat
    BY <2>1
  <2>4. r \in [0..(n + 1) -> Nat]
    BY <2>3
  <2>5. ASSUME NEW i \in 0..(n + 1)
        PROVE  r[i] = IF i = 0 THEN 0 ELSE r[i - 1] + z[i]
    BY <2>2 DEF IsSum
  <2>6. IsSum(r, z, n + 1)
    BY <2>4, <2>5 DEF IsSum
  <2> QED
    BY <2>4, <2>6
<1> HIDE DEF T
<1>3. \A n \in Nat : n \in T
  BY <1>1, <1>2, NatInduct
<1>4. k \in Nat /\ k <= Len(z)
  OBVIOUS
<1> QED
  BY <1>3, <1>4 DEF T

\* Sums of fewer entries agree with it.
LEMMA SumsAgree ==
  ASSUME NEW z, NEW m \in Nat, NEW k \in 0..m, NEW s, NEW r,
         IsSum(s, z, k), IsSum(r, z, m)
  PROVE  \A i \in 0..k : s[i] = r[i]
<1> DEFINE T == {i \in Nat : i <= k => s[i] = r[i]}
<1>1. 0 \in T
  <2>1. s[0] = 0 /\ r[0] = 0
    BY DEF IsSum
  <2> QED
    BY <2>1
<1>2. ASSUME NEW n \in Nat, n \in T
      PROVE  n + 1 \in T
  <2>1. SUFFICES ASSUME n + 1 <= k
                 PROVE  s[n + 1] = r[n + 1]
    OBVIOUS
  <2>2. s[n + 1] = s[n] + z[n + 1] /\ r[n + 1] = r[n] + z[n + 1]
    BY <2>1 DEF IsSum
  <2> QED
    BY <1>2, <2>1, <2>2
<1> HIDE DEF T
<1>3. \A i \in Nat : i \in T
  BY <1>1, <1>2, NatInduct
<1> QED
  BY <1>3 DEF T

\* The sum of one more entry.
LEMMA SumGrows ==
  ASSUME NEW z, NEW k \in Nat, NEW s, NEW r,
         IsSum(s, z, k), IsSum(r, z, k + 1)
  PROVE  r[k + 1] = s[k] + z[k + 1]
<1>1. k + 1 \in Nat /\ k \in 0..(k + 1) /\ k \in 0..k
  OBVIOUS
<1>2. \A i \in 0..k : s[i] = r[i]
  BY <1>1, SumsAgree
<1>3. r[k + 1] = r[k] + z[k + 1]
  BY DEF IsSum
<1> QED
  BY <1>1, <1>2, <1>3

-----------------------------------------------------------------------------
(* Sums. *)

\* Sizes is the sum of the sizes.
LEMMA SizesIsSum ==
  ASSUME NEW inst \in Seq(Hinst), NEW k \in 0..Len(inst), NEW z \in Seq(Nat),
         Len(z) = Len(inst), \A i \in 1..Len(inst) : z[i] = inst[i].size
  PROVE  \E s \in [0..k -> Nat] : IsSum(s, z, k) /\ Sizes(inst, k) = s[k]
<1> DEFINE sum == CHOOSE s : s = [i \in 0..k |-> IF i = 0 THEN 0 ELSE s[i - 1] + inst[i].size]
<1>1. PICK s \in [0..k -> Nat] : IsSum(s, z, k)
  BY SumExists
<1>2. s = [i \in 0..k |-> IF i = 0 THEN 0 ELSE s[i - 1] + inst[i].size]
  BY <1>1 DEF IsSum
<1>3. sum = [i \in 0..k |-> IF i = 0 THEN 0 ELSE sum[i - 1] + inst[i].size]
  BY <1>2
<1>4. Sizes(inst, k) = sum[k]
  BY DEF Sizes
<1> HIDE DEF sum
<1>5. IsSum(sum, z, k)
  <2> DEFINE A(i) == IF i = 0 THEN 0 ELSE sum[i - 1] + inst[i].size
             B(i) == IF i = 0 THEN 0 ELSE sum[i - 1] + z[i]
  <2>1. ASSUME NEW i \in 0..k
        PROVE  A(i) = B(i)
    <3>1. i = 0 \/ i \in 1..Len(inst)
      OBVIOUS
    <3> QED
      BY <3>1
  <2>2. sum = [i \in 0..k |-> A(i)]
    BY <1>3
  <2> HIDE DEF A, B
  <2>3. sum = [i \in 0..k |-> B(i)]
    BY <2>1, <2>2
  <2> QED
    BY <2>3 DEF IsSum, B
<1>6. \A i \in 0..k : sum[i] = s[i]
  <2>1. k \in Nat /\ k \in 0..k
    OBVIOUS
  <2> QED
    BY <1>1, <1>5, <2>1, SumsAgree
<1>7. k \in 0..k
  OBVIOUS
<1> QED
  BY <1>1, <1>4, <1>6, <1>7

\* Total is the sum of the windows' sizes.
LEMMA TotalIsSum ==
  ASSUME NEW delta, NEW k \in Nat, NEW z \in Seq(Nat), k <= Len(z),
         \A i \in 1..Len(z) : z[i] = Sizes(delta[i].inst, Len(delta[i].inst))
  PROVE  \E s \in [0..k -> Nat] : IsSum(s, z, k) /\ Total(delta, k) = s[k]
<1> DEFINE S(i) == Sizes(delta[i].inst, Len(delta[i].inst))
           A(s, i) == IF i = 0 THEN 0 ELSE s[i - 1] + S(i)
           B(s, i) == IF i = 0 THEN 0 ELSE s[i - 1] + z[i]
           sum == CHOOSE s : s = [i \in 0..k |-> A(s, i)]
<1>1. PICK s \in [0..k -> Nat] : IsSum(s, z, k)
  <2>1. k \in 0..Len(z)
    OBVIOUS
  <2> QED
    BY <2>1, SumExists
<1>2. Total(delta, k) = sum[k]
  BY DEF Total
<1>3. ASSUME NEW r, NEW i \in 0..k
      PROVE  A(r, i) = B(r, i)
  <2>1. i = 0 \/ i \in 1..Len(z)
    OBVIOUS
  <2> HIDE DEF S
  <2>2. i = 0 \/ z[i] = S(i)
    BY <2>1 DEF S
  <2> QED
    BY <2>2
<1>4. \A r : IsSum(r, z, k) <=> r = [i \in 0..k |-> B(r, i)]
  BY DEF IsSum
<1> HIDE DEF A, B
<1>5. \A r : IsSum(r, z, k) <=> r = [i \in 0..k |-> A(r, i)]
  BY <1>3, <1>4
<1>6. sum = [i \in 0..k |-> A(sum, i)]
  BY <1>1, <1>5
<1> HIDE DEF sum
<1>7. IsSum(sum, z, k)
  BY <1>5, <1>6
<1>8. \A i \in 0..k : sum[i] = s[i]
  <2>1. k \in Nat /\ k \in 0..k
    OBVIOUS
  <2> QED
    BY <1>1, <1>7, <2>1, SumsAgree
<1>9. k \in 0..k
  OBVIOUS
<1> QED
  BY <1>1, <1>2, <1>8, <1>9

\* The size of no instructions, and of one more.
LEMMA SizesSteps ==
  ASSUME NEW inst \in Seq(Hinst), NEW k \in 0..Len(inst)
  PROVE  /\ Sizes(inst, 0) = 0
         /\ Sizes(inst, k) \in Nat
         /\ k < Len(inst) => Sizes(inst, k + 1) = Sizes(inst, k) + inst[k + 1].size
<1> DEFINE z == [i \in 1..Len(inst) |-> inst[i].size]
<1>1. \A i \in 1..Len(inst) : inst[i].size \in Nat
  BY DEF Hinst
<1>2. z \in Seq(Nat) /\ Len(z) = Len(inst) /\ \A i \in 1..Len(inst) : z[i] = inst[i].size
  BY <1>1
<1> HIDE DEF z
<1>3. Sizes(inst, 0) = 0
  <2>1. 0 \in 0..Len(inst) /\ 0 \in 0..0
    OBVIOUS
  <2>2. PICK s \in [0..0 -> Nat] : IsSum(s, z, 0) /\ Sizes(inst, 0) = s[0]
    BY <1>2, <2>1, SizesIsSum
  <2> QED
    BY <2>1, <2>2 DEF IsSum
<1>4. PICK s \in [0..k -> Nat] : IsSum(s, z, k) /\ Sizes(inst, k) = s[k]
  BY <1>2, SizesIsSum
<1>5. ASSUME k < Len(inst)
      PROVE  Sizes(inst, k + 1) = Sizes(inst, k) + inst[k + 1].size
  <2>1. k + 1 \in 0..Len(inst) /\ k \in Nat /\ k + 1 \in 1..Len(inst)
    BY <1>5
  <2>2. PICK r \in [0..(k + 1) -> Nat] : IsSum(r, z, k + 1) /\ Sizes(inst, k + 1) = r[k + 1]
    BY <1>2, <2>1, SizesIsSum
  <2>3. r[k + 1] = s[k] + z[k + 1]
    BY <1>4, <2>1, <2>2, SumGrows
  <2> QED
    BY <1>2, <1>4, <2>1, <2>2, <2>3
<1> QED
  BY <1>3, <1>4, <1>5

\* All instructions are no smaller than some.
LEMMA SizesGrow ==
  ASSUME NEW inst \in Seq(Hinst), NEW k \in 0..Len(inst)
  PROVE  Sizes(inst, k) <= Sizes(inst, Len(inst))
<1> DEFINE T == {n \in Nat : n <= Len(inst) => Sizes(inst, Len(inst) - n) <= Sizes(inst, Len(inst))}
<1>1. 0 \in T
  <2>1. Len(inst) \in 0..Len(inst) /\ Len(inst) - 0 = Len(inst)
    OBVIOUS
  <2>2. Sizes(inst, Len(inst)) \in Nat
    BY <2>1, SizesSteps
  <2> QED
    BY <2>1, <2>2
<1>2. ASSUME NEW n \in Nat, n \in T
      PROVE  n + 1 \in T
  <2>1. SUFFICES ASSUME n + 1 <= Len(inst)
                 PROVE  Sizes(inst, Len(inst) - (n + 1)) <= Sizes(inst, Len(inst))
    OBVIOUS
  <2> DEFINE m == Len(inst) - (n + 1)
  <2>2. m \in 0..Len(inst) /\ m < Len(inst) /\ m + 1 = Len(inst) - n /\ m + 1 \in 1..Len(inst)
    BY <2>1
  <2>3. inst[m + 1].size \in Nat
    BY <2>2 DEF Hinst
  <2> HIDE DEF m
  <2>4. Sizes(inst, m + 1) = Sizes(inst, m) + inst[m + 1].size /\ Sizes(inst, m) \in Nat
    BY <2>2, SizesSteps
  <2>5. Sizes(inst, m + 1) <= Sizes(inst, Len(inst)) /\ Sizes(inst, Len(inst)) \in Nat
    BY <1>2, <2>1, <2>2, SizesSteps
  <2> QED
    BY <2>3, <2>4, <2>5 DEF m
<1> HIDE DEF T
<1>3. \A n \in Nat : n \in T
  BY <1>1, <1>2, NatInduct
<1>4. Len(inst) - k \in Nat /\ Len(inst) - (Len(inst) - k) = k /\ Len(inst) - k <= Len(inst)
  OBVIOUS
<1> QED
  BY <1>3, <1>4 DEF T

\* The size of no windows, and of one more.
LEMMA TotalSteps ==
  ASSUME NEW delta \in Seq(Window), NEW k \in 0..Len(delta)
  PROVE  /\ Total(delta, 0) = 0
         /\ Total(delta, k) \in Nat
         /\ k < Len(delta) =>
              Total(delta, k + 1) = Total(delta, k) + Sizes(delta[k + 1].inst, Len(delta[k + 1].inst))
<1> DEFINE S(i) == Sizes(delta[i].inst, Len(delta[i].inst))
           z == [i \in 1..Len(delta) |-> S(i)]
<1>0. Len(delta) \in Nat /\ \A i \in 1..Len(delta) : delta[i] \in Window
  OBVIOUS
<1>1. ASSUME NEW i \in 1..Len(delta)
      PROVE  S(i) \in Nat
  <2>1. delta[i].inst \in Seq(Hinst)
    BY <1>0 DEF Window
  <2>2. Len(delta[i].inst) \in 0..Len(delta[i].inst)
    BY <2>1
  <2> QED
    BY <2>1, <2>2, SizesSteps
<1>2. z \in Seq(Nat) /\ Len(z) = Len(delta) /\ \A i \in 1..Len(delta) : z[i] = S(i)
  <2> HIDE DEF S
  <2> QED BY <1>1
<1> HIDE DEF z
<1>3. Total(delta, 0) = 0
  <2>1. 0 \in Nat /\ 0 <= Len(delta) /\ 0 \in 0..0
    OBVIOUS
  <2>2. PICK s \in [0..0 -> Nat] : IsSum(s, z, 0) /\ Total(delta, 0) = s[0]
    BY <1>2, <2>1, TotalIsSum DEF S
  <2> QED
    BY <2>1, <2>2 DEF IsSum
<1>4. PICK s \in [0..k -> Nat] : IsSum(s, z, k) /\ Total(delta, k) = s[k]
  <2>1. k \in Nat /\ k <= Len(z)
    BY <1>2
  <2> QED
    BY <1>2, <2>1, TotalIsSum DEF S
<1>5. ASSUME k < Len(delta)
      PROVE  Total(delta, k + 1) = Total(delta, k) + S(k + 1)
  <2>1. k + 1 <= Len(delta) /\ k \in Nat /\ k + 1 \in Nat /\ k + 1 \in 1..Len(delta)
    BY <1>5
  <2>2. PICK r \in [0..(k + 1) -> Nat] : IsSum(r, z, k + 1) /\ Total(delta, k + 1) = r[k + 1]
    BY <1>2, <2>1, TotalIsSum DEF S
  <2>3. r[k + 1] = s[k] + z[k + 1]
    BY <1>4, <2>1, <2>2, SumGrows
  <2> HIDE DEF S
  <2> QED
    BY <1>2, <1>4, <2>1, <2>2, <2>3
<1> QED
  BY <1>3, <1>4, <1>5

-----------------------------------------------------------------------------
(* The invariant of the lists. *)

\* An instruction of a state, where a window begins and how long it is, a state, a call.
Winsts ==
  {i \in [type : {"ADD", "RUN", "CPY"}, mode : {"NONE", "SOURCE", "HERE"}, size : Nat, addr : Nat,
          position : Nat] : i.type = "CPY" <=> i.mode # "NONE"}

Infos == [offset : Nat, length : Nat]

Wholes == [inst : Seq(Winsts), adds : Seq(Byte), wininfo : Seq(Infos), length : Nat, ret : {0, -1}]

Calls == [addr : Nat, size : Nat, position : Nat, sinst_num : Nat]

\* The types that the proof needs.
Types ==
  /\ chain \in Chains /\ file \in 1..Len(chain) /\ window \in 0..Len(chain[file])
  /\ stream \in Wholes /\ merge_input \in Wholes /\ tmp \in Wholes
  /\ input_i \in Nat /\ todo \in Seq(Calls)
  /\ pc = "merge" \/ todo = <<>>

\* How far the delta is read.
Place ==
  /\ Len(stream.wininfo) = window
  /\ pc \in {"read", "merge"} => stream.length = Total(chain[file], window)
  /\ pc = "append" =>
       LET inst == chain[file][window].inst
       IN  /\ window > 0 /\ input_i <= Len(inst)
           /\ stream.wininfo[window] = [offset |-> Total(chain[file], window - 1), length |-> Sizes(inst, Len(inst))]
           /\ stream.length = Total(chain[file], window - 1) + Sizes(inst, input_i)
  /\ pc = "merge" => file > 1 /\ window = Len(chain[file])
  /\ file > 1 => merge_input.length = BaseLength(chain, file)

\* The instruction at num makes the byte at address.
Makes(inst, num, address) ==
  /\ num \in 1..Len(inst)
  /\ inst[num].position <= address /\ address < inst[num].position + inst[num].size

\* A call copies what is in the text, and is at the instruction that makes it.
Grounded(source, call) ==
  /\ call.addr + call.size <= source.length
  /\ call.size > 0 => Makes(source.inst, call.sinst_num, call.addr)

\* Where the innermost call writes is where the merged delta ends; where it will be done is
\* where its caller writes next; and so on, to the end of the instruction that is merged.
Nested ==
  /\ \A j \in 1..Len(todo) : Grounded(merge_input, todo[j])
  /\ \A j \in 1..(Len(todo) - 1) : todo[j].position = todo[j + 1].position + todo[j + 1].size
  /\ todo # <<>> =>
       /\ input_i < Len(stream.inst)
       /\ todo[1].position + todo[1].size = End(stream.inst, input_i + 1)
       /\ todo[Len(todo)].position = End(tmp.inst, Len(tmp.inst))

\* How far the delta is merged.
Merged ==
  pc = "merge" =>
    /\ input_i <= Len(stream.inst)
    /\ tmp.wininfo = stream.wininfo
    /\ tmp.length = End(stream.inst, input_i)

\* What InstructionsTile says of the lists.
Tiled ==
  /\ Tiles(merge_input, Len(Source)) /\ Complete(merge_input)
  /\ Tiles(tmp, Len(Source)) /\ (todo = <<>> => Complete(tmp))
  /\ Tiles(stream, BaseLength(chain, file)) /\ Complete(stream)
  /\ tmp.ret = 0

\* Nothing is claimed once the command writes or has failed, nor of deltas that do not fit.
IInv == (pc \in {"read", "append", "merge"} /\ Fits(chain)) => (Types /\ Place /\ Nested /\ Merged /\ Tiled)

-----------------------------------------------------------------------------
(* Lists without gaps. *)

\* What Tiles says of the places of instructions alone.
Contiguous(inst) == \A k \in 1..Len(inst) : inst[k].size > 0 /\ inst[k].position = End(inst, k - 1)

\* The numbers in an instruction, and where the first ones end.
LEMMA WinstFacts ==
  ASSUME NEW inst \in Seq(Winsts)
  PROVE  /\ \A k \in 1..Len(inst) : /\ inst[k] \in Winsts
                                    /\ inst[k].size \in Nat /\ inst[k].addr \in Nat /\ inst[k].position \in Nat
         /\ \A k \in 0..Len(inst) : End(inst, k) \in Nat
<1>1. ASSUME NEW k \in 1..Len(inst)
      PROVE  inst[k] \in Winsts /\ inst[k].size \in Nat /\ inst[k].addr \in Nat /\ inst[k].position \in Nat
  <2>1. inst[k] \in Winsts
    OBVIOUS
  <2> QED
    BY <2>1 DEF Winsts
<1>2. ASSUME NEW k \in 0..Len(inst)
      PROVE  End(inst, k) \in Nat
  <2>1. k = 0 \/ k \in 1..Len(inst)
    OBVIOUS
  <2>2. k \in 1..Len(inst) => inst[k].size \in Nat /\ inst[k].position \in Nat
    BY <1>1
  <2> QED
    BY <2>1, <2>2 DEF End
<1> QED
  BY <1>1, <1>2

\* For the arithmetic of the proofs below.
LEMMA AtMost ==
  ASSUME NEW a \in Nat, NEW b \in Nat, NEW c \in Nat, NEW d \in Nat, NEW e \in Nat,
         a + b <= c, c + d <= e
  PROVE  a + b <= e
  OBVIOUS

\* Instructions are in the order of the bytes they make.
LEMMA InOrder ==
  ASSUME NEW inst \in Seq(Winsts), Contiguous(inst), NEW j \in 1..Len(inst), NEW k \in 1..Len(inst), j < k
  PROVE  inst[j].position + inst[j].size <= inst[k].position
<1> DEFINE T == {n \in Nat : j + 1 + n <= Len(inst) =>
                   inst[j].position + inst[j].size <= inst[j + 1 + n].position}
<1>0. /\ inst[j].position \in Nat /\ inst[j].size \in Nat /\ Len(inst) \in Nat
      /\ \A m \in 1..Len(inst) : m + 1 <= Len(inst) =>
           /\ m + 1 \in 1..Len(inst) /\ inst[m].position \in Nat /\ inst[m].size \in Nat
           /\ inst[m + 1].position \in Nat
           /\ inst[m + 1].position = inst[m].position + inst[m].size
  <2>1. ASSUME NEW m \in 1..Len(inst), m + 1 <= Len(inst)
        PROVE  /\ m + 1 \in 1..Len(inst) /\ m # 0 /\ (m + 1) - 1 = m
               /\ inst[m + 1].position = inst[m].position + inst[m].size
    <3>1. m + 1 \in 1..Len(inst) /\ m # 0 /\ (m + 1) - 1 = m
      BY <2>1
    <3> QED
      BY <3>1 DEF Contiguous, End
  <2> QED
    BY <2>1, WinstFacts
<1>1. 0 \in T
  <2>1. j + 1 <= Len(inst) /\ j + 1 + 0 = j + 1
    BY <1>0
  <2> QED
    BY <1>0, <2>1
<1>2. ASSUME NEW n \in Nat, n \in T
      PROVE  n + 1 \in T
  <2>1. SUFFICES ASSUME j + 1 + (n + 1) <= Len(inst)
                 PROVE  inst[j].position + inst[j].size <= inst[j + 1 + (n + 1)].position
    OBVIOUS
  <2> DEFINE m == j + 1 + n
  <2>2. m \in 1..Len(inst) /\ m + 1 <= Len(inst) /\ m + 1 = j + 1 + (n + 1)
    BY <2>1
  <2>3. inst[j].position + inst[j].size <= inst[m].position
    BY <1>2, <2>1
  <2> HIDE DEF m
  <2>4. /\ inst[m].position \in Nat /\ inst[m].size \in Nat /\ inst[m + 1].position \in Nat
        /\ inst[m].position + inst[m].size <= inst[m + 1].position
    BY <1>0, <2>2
  <2>5. inst[j].position \in Nat /\ inst[j].size \in Nat
    BY <1>0
  <2>6. inst[j].position + inst[j].size <= inst[m + 1].position
    BY ONLY <2>3, <2>4, <2>5, AtMost
  <2> QED
    BY <2>2, <2>6
<1> HIDE DEF T
<1>3. \A n \in Nat : n \in T
  BY <1>1, <1>2, NatInduct
<1> DEFINE d == k - (j + 1)
<1>4. d \in Nat /\ j + 1 + d = k
  OBVIOUS
<1> HIDE DEF d
<1>5. d \in T /\ j + 1 + d <= Len(inst)
  BY <1>3, <1>4
<1>6. inst[j].position + inst[j].size <= inst[j + 1 + d].position
  BY <1>5 DEF T
<1> QED
  BY <1>4, <1>6

\* Every address before their end is made by one of them.
LEMMA Covered ==
  ASSUME NEW inst \in Seq(Winsts), Contiguous(inst), NEW address \in Nat, address < End(inst, Len(inst))
  PROVE  \E k \in 1..Len(inst) : Makes(inst, k, address)
<1> DEFINE T == {n \in Nat : (n <= Len(inst) /\ address < End(inst, n)) => \E k \in 1..n : Makes(inst, k, address)}
<1>1. 0 \in T
  BY DEF End
<1>2. ASSUME NEW n \in Nat, n \in T
      PROVE  n + 1 \in T
  <2>1. SUFFICES ASSUME n + 1 <= Len(inst), address < End(inst, n + 1)
                 PROVE  \E k \in 1..(n + 1) : Makes(inst, k, address)
    OBVIOUS
  <2>2. CASE address < End(inst, n)
    <3>1. PICK k \in 1..n : Makes(inst, k, address)
      BY <1>2, <2>1, <2>2
    <3> QED
      BY <3>1
  <2>3. CASE ~ (address < End(inst, n))
    <3>1. n + 1 \in 1..Len(inst) /\ n \in 0..Len(inst) /\ (n + 1) - 1 = n /\ n + 1 # 0
      BY <2>1
    <3>2. inst[n + 1].position = End(inst, n) /\ End(inst, n) \in Nat
      BY <3>1, WinstFacts DEF Contiguous
    <3>3. address < inst[n + 1].position + inst[n + 1].size
      BY <2>1, <3>1 DEF End
    <3>4. Makes(inst, n + 1, address)
      BY <2>3, <3>1, <3>2, <3>3 DEF Makes
    <3> QED
      BY <3>1, <3>4
  <2> QED
    BY <2>2, <2>3
<1> HIDE DEF T
<1>3. \A n \in Nat : n \in T
  BY <1>1, <1>2, NatInduct
<1>4. Len(inst) \in Nat
  OBVIOUS
<1> QED
  BY <1>3, <1>4 DEF T

-----------------------------------------------------------------------------
(* The binary search. *)

\* What xd3_merge_find_position finds in the part from low to before high.
Answer(inst, address, low, high, r) ==
  \/ r \in low..(high - 1) /\ Makes(inst, r, address)
  \/ r = 0 /\ \A j \in low..(high - 1) : ~ Makes(inst, j, address)

\* There is exactly one answer: no byte is made twice.
LEMMA OneAnswer ==
  ASSUME NEW inst \in Seq(Winsts), Contiguous(inst), NEW address \in Nat,
         NEW low \in 1..(Len(inst) + 1), NEW high \in 1..(Len(inst) + 1)
  PROVE  /\ \E r : Answer(inst, address, low, high, r)
         /\ \A r, s : Answer(inst, address, low, high, r) /\ Answer(inst, address, low, high, s) => r = s
<1>1. \E r : Answer(inst, address, low, high, r)
  BY DEF Answer
<1>2. ASSUME NEW r \in 1..Len(inst), NEW s \in 1..Len(inst), r < s
      PROVE  ~ (Makes(inst, r, address) /\ Makes(inst, s, address))
  <2>1. inst[r].position + inst[r].size <= inst[s].position
    BY <1>2, InOrder
  <2>2. inst[r].position \in Nat /\ inst[r].size \in Nat /\ inst[s].position \in Nat
    BY WinstFacts
  <2> QED
    BY <2>1, <2>2 DEF Makes
<1>3. ASSUME NEW r, NEW s, Makes(inst, r, address), Makes(inst, s, address)
      PROVE  r = s
  <2>1. r \in 1..Len(inst) /\ s \in 1..Len(inst)
    BY <1>3 DEF Makes
  <2>2. r < s \/ s < r \/ r = s
    BY <2>1
  <2> QED
    BY <1>2, <1>3, <2>1, <2>2
<1>4. ASSUME NEW r, NEW s, Answer(inst, address, low, high, r), Answer(inst, address, low, high, s)
      PROVE  r = s
  BY <1>3, <1>4 DEF Answer
<1> QED
  BY <1>1, <1>4

\* An instruction before or after an address does not make its byte.
LEMMA NotMade ==
  ASSUME NEW inst, NEW j, NEW address \in Nat, inst[j].position \in Nat, inst[j].size \in Nat,
         address < inst[j].position \/ inst[j].position + inst[j].size <= address
  PROVE  ~ Makes(inst, j, address)
  BY DEF Makes

\* The middle is between the two.
LEMMA Midpoint ==
  ASSUME NEW low \in Nat, NEW high \in Nat, low < high
  PROVE  /\ low + (high - low) \div 2 \in Nat
         /\ low <= low + (high - low) \div 2 /\ low + (high - low) \div 2 < high
  OBVIOUS

\* One step: what the half that is left answers is the answer.
LEMMA HalfAnswer ==
  ASSUME NEW inst \in Seq(Winsts), Contiguous(inst), NEW address \in Nat,
         NEW low \in 1..(Len(inst) + 1), NEW high \in 1..(Len(inst) + 1), low <= high,
         NEW mid, low < high => mid \in Nat /\ low <= mid /\ mid < high
  PROVE  /\ low = high => Answer(inst, address, low, high, 0)
         /\ low # high =>
              /\ mid \in 1..(Len(inst) + 1) /\ low <= mid /\ mid < high /\ mid + 1 \in 1..(Len(inst) + 1)
              /\ address < inst[mid].position =>
                   \A r : Answer(inst, address, low, mid, r) => Answer(inst, address, low, high, r)
              /\ address >= inst[mid].position + inst[mid].size =>
                   \A r : Answer(inst, address, mid + 1, high, r) => Answer(inst, address, low, high, r)
              /\ ~ (address < inst[mid].position) /\ ~ (address >= inst[mid].position + inst[mid].size) =>
                   Answer(inst, address, low, high, mid)
<1>1. CASE low = high
  <2>1. low..(high - 1) = {}
    BY <1>1
  <2> QED
    BY <1>1, <2>1 DEF Answer
<1>2. CASE low # high
  <2>1. low < high /\ mid \in Nat /\ low <= mid /\ mid < high
    BY <1>2
  <2>2. /\ mid \in 1..(Len(inst) + 1) /\ mid + 1 \in 1..(Len(inst) + 1) /\ mid \in 1..Len(inst)
        /\ mid \in low..(high - 1)
    BY <2>1
  <2>3. /\ inst[mid].position \in Nat /\ inst[mid].size \in Nat
        /\ \A j \in low..(high - 1) : j \in 1..Len(inst) /\ inst[j].position \in Nat /\ inst[j].size \in Nat
    <3>1. \A j \in low..(high - 1) : j \in 1..Len(inst)
      BY <2>1
    <3> QED
      BY <2>2, <3>1, WinstFacts
  <2>4. ASSUME address < inst[mid].position, NEW r, Answer(inst, address, low, mid, r)
        PROVE  Answer(inst, address, low, high, r)
    <3>1. ASSUME NEW j \in low..(high - 1), ~ (j \in low..(mid - 1))
          PROVE  ~ Makes(inst, j, address)
      <4>1. j = mid \/ mid < j
        BY <2>1, <3>1
      <4>2. mid < j => inst[mid].position + inst[mid].size <= inst[j].position
        BY <2>2, <2>3, InOrder
      <4>3. inst[j].position \in Nat /\ inst[j].size \in Nat /\ inst[mid].position \in Nat /\ inst[mid].size \in Nat
        BY <2>3
      <4>4. address < inst[mid].position /\ address \in Nat
        BY <2>4
      <4>5. mid < j => address < inst[j].position
        BY ONLY <4>2, <4>3, <4>4, SMTT(30)
      <4>6. address < inst[j].position
        BY <4>1, <4>4, <4>5
      <4> QED
        BY <4>3, <4>6, NotMade
    <3>2. \A j \in low..(mid - 1) : j \in low..(high - 1)
      BY <2>1
    <3> QED
      BY <2>4, <3>1, <3>2 DEF Answer
  <2>5. ASSUME address >= inst[mid].position + inst[mid].size, NEW r, Answer(inst, address, mid + 1, high, r)
        PROVE  Answer(inst, address, low, high, r)
    <3>1. ASSUME NEW j \in low..(high - 1), ~ (j \in (mid + 1)..(high - 1))
          PROVE  ~ Makes(inst, j, address)
      <4>1. j = mid \/ j < mid
        BY <2>1, <3>1
      <4>2. j < mid => inst[j].position + inst[j].size <= inst[mid].position
        BY <2>2, <2>3, InOrder
      <4>3. inst[j].position \in Nat /\ inst[j].size \in Nat /\ inst[mid].position \in Nat /\ inst[mid].size \in Nat
        BY <2>3
      <4>4. CASE j = mid
        BY <2>5, <4>3, <4>4 DEF Makes
      <4>5. CASE j < mid
        <5>1. inst[mid].position + inst[mid].size <= address /\ address \in Nat
          BY <2>5, <4>3
        <5>2. inst[j].position + inst[j].size <= inst[mid].position
          BY <4>2, <4>5
        <5>3. inst[j].position + inst[j].size <= address
          BY ONLY <4>3, <5>1, <5>2, AtMost
        <5> QED
          BY <4>3, <5>3, NotMade
      <4> QED
        BY <4>1, <4>4, <4>5
    <3>2. \A j \in (mid + 1)..(high - 1) : j \in low..(high - 1)
      BY <2>1
    <3> QED
      BY <2>5, <3>1, <3>2 DEF Answer
  <2>6. ~ (address < inst[mid].position) /\ ~ (address >= inst[mid].position + inst[mid].size) =>
          Answer(inst, address, low, high, mid)
    BY <2>2, <2>3 DEF Answer, Makes
  <2> QED
    BY <1>2, <2>1, <2>2, <2>4, <2>5, <2>6
<1> QED
  BY <1>1, <1>2

\* The parts of n instructions that are searched, and f as a search among them.
Parts(n) == {p \in (1..(n + 1)) \X (1..(n + 1)) : p[1] <= p[2]}

Sought(f, inst, address, low, high) ==
  LET mid == low + (high - low) \div 2
  IN  IF low = high THEN 0
      ELSE IF address < inst[mid].position THEN f[<<low, mid>>]
      ELSE IF address >= inst[mid].position + inst[mid].size THEN f[<<mid + 1, high>>]
      ELSE mid

Searches(f, inst, address) ==
  f = [p \in Parts(Len(inst)) |-> Sought(f, inst, address, p[1], p[2])]

\* What the halves answer correctly, the whole does.
LEMMA SoughtAnswers ==
  ASSUME NEW inst \in Seq(Winsts), Contiguous(inst), NEW address \in Nat, NEW f,
         NEW low \in 1..(Len(inst) + 1), NEW high \in 1..(Len(inst) + 1), low <= high,
         \A l, h \in 1..(Len(inst) + 1) : l <= h /\ h - l < high - low => Answer(inst, address, l, h, f[<<l, h>>])
  PROVE  Answer(inst, address, low, high, Sought(f, inst, address, low, high))
<1> DEFINE mid == low + (high - low) \div 2
<1>0. low < high => mid \in Nat /\ low <= mid /\ mid < high
  <2>1. low \in Nat /\ high \in Nat
    OBVIOUS
  <2> QED
    BY <2>1, Midpoint
<1>1. CASE low = high
  <2>1. ~ (low < high)
    BY <1>1
  <2> QED
    BY <1>1, <2>1, HalfAnswer DEF Sought
<1>2. CASE low # high
  <2>1. /\ mid \in 1..(Len(inst) + 1) /\ low <= mid /\ mid < high /\ mid + 1 \in 1..(Len(inst) + 1)
        /\ address < inst[mid].position =>
             \A r : Answer(inst, address, low, mid, r) => Answer(inst, address, low, high, r)
        /\ address >= inst[mid].position + inst[mid].size =>
             \A r : Answer(inst, address, mid + 1, high, r) => Answer(inst, address, low, high, r)
        /\ ~ (address < inst[mid].position) /\ ~ (address >= inst[mid].position + inst[mid].size) =>
             Answer(inst, address, low, high, mid)
    <3> HIDE DEF mid
    <3> QED
      BY <1>0, <1>2, HalfAnswer
  <2>2. Sought(f, inst, address, low, high) =
          IF address < inst[mid].position THEN f[<<low, mid>>]
          ELSE IF address >= inst[mid].position + inst[mid].size THEN f[<<mid + 1, high>>]
          ELSE mid
    BY <1>2 DEF Sought
  <2> HIDE DEF mid
  <2>3. low <= mid /\ mid - low < high - low /\ mid + 1 <= high /\ high - (mid + 1) < high - low
    BY <2>1
  <2>4. Answer(inst, address, low, mid, f[<<low, mid>>]) /\ Answer(inst, address, mid + 1, high, f[<<mid + 1, high>>])
    BY <2>1, <2>3
  <2> QED
    BY <2>1, <2>2, <2>4
<1> QED
  BY <1>1, <1>2

\* There is a function that searches so.
LEMMA SomeSearch ==
  ASSUME NEW inst \in Seq(Winsts), Contiguous(inst), NEW address \in Nat
  PROVE  \E f : Searches(f, inst, address)
<1> DEFINE P == Parts(Len(inst))
           f == [p \in P |-> CHOOSE r : Answer(inst, address, p[1], p[2], r)]
<1>1. ASSUME NEW l \in 1..(Len(inst) + 1), NEW h \in 1..(Len(inst) + 1), l <= h
      PROVE  <<l, h>> \in P /\ Answer(inst, address, l, h, f[<<l, h>>])
  <2>1. <<l, h>> \in P
    BY <1>1 DEF Parts
  <2>2. f[<<l, h>>] = CHOOSE r : Answer(inst, address, l, h, r)
    BY <2>1
  <2>3. \E r : Answer(inst, address, l, h, r)
    BY OneAnswer
  <2> QED
    BY <2>1, <2>2, <2>3
<1>2. f = [p \in P |-> f[p]]
  OBVIOUS
<1> HIDE DEF f
<1>3. ASSUME NEW p \in P
      PROVE  f[p] = Sought(f, inst, address, p[1], p[2])
  <2>1. p[1] \in 1..(Len(inst) + 1) /\ p[2] \in 1..(Len(inst) + 1) /\ p[1] <= p[2] /\ p = <<p[1], p[2]>>
    BY DEF Parts
  <2>2. Answer(inst, address, p[1], p[2], f[p])
    BY <1>1, <2>1
  <2>3. Answer(inst, address, p[1], p[2], Sought(f, inst, address, p[1], p[2]))
    BY <1>1, <2>1, SoughtAnswers
  <2> QED
    BY <2>1, <2>2, <2>3, OneAnswer
<1>4. f = [p \in P |-> Sought(f, inst, address, p[1], p[2])]
  <2> DEFINE S(p) == Sought(f, inst, address, p[1], p[2])
  <2>1. \A p \in P : f[p] = S(p)
    BY <1>3
  <2> HIDE DEF S, P
  <2>2. f = [p \in P |-> S(p)]
    BY <1>2, <2>1
  <2> QED
    BY <2>2 DEF S
<1> QED
  BY <1>4 DEF Searches

\* It finds the instruction.
LEMMA SearchAnswers ==
  ASSUME NEW inst \in Seq(Winsts), Contiguous(inst), NEW address \in Nat, NEW f, Searches(f, inst, address)
  PROVE  Answer(inst, address, 1, Len(inst) + 1, f[<<1, Len(inst) + 1>>])
<1> DEFINE B == 1..(Len(inst) + 1)
           T == {n \in Nat : \A l, h \in B : l <= h /\ h - l < n => Answer(inst, address, l, h, f[<<l, h>>])}
<1>1. 0 \in T
  OBVIOUS
<1>2. ASSUME NEW n \in Nat, n \in T
      PROVE  n + 1 \in T
  <2>1. ASSUME NEW l \in B, NEW h \in B, l <= h, h - l < n + 1
        PROVE  Answer(inst, address, l, h, f[<<l, h>>])
    <3>1. <<l, h>> \in Parts(Len(inst))
      BY <2>1 DEF Parts
    <3>2. f[<<l, h>>] = Sought(f, inst, address, l, h)
      BY <3>1 DEF Searches
    <3>3. \A k, m \in B : k <= m /\ m - k < h - l => Answer(inst, address, k, m, f[<<k, m>>])
      <4>1. ASSUME NEW k \in B, NEW m \in B, k <= m, m - k < h - l
            PROVE  m - k < n
        BY <2>1, <4>1
      <4> QED
        BY <1>2, <4>1
    <3> QED
      BY <2>1, <3>2, <3>3, SoughtAnswers
  <2> QED
    BY <2>1
<1> HIDE DEF T
<1>3. \A n \in Nat : n \in T
  BY <1>1, <1>2, NatInduct
<1>4. Len(inst) + 1 \in Nat /\ 1 \in B /\ Len(inst) + 1 \in B /\ 1 <= Len(inst) + 1 /\ (Len(inst) + 1) - 1 < Len(inst) + 1
  OBVIOUS
<1> QED
  BY <1>3, <1>4 DEF T

\* xd3_merge_find_position finds the instruction that makes the byte, if the text has it.
LEMMA PositionIsFound ==
  ASSUME NEW source, source.inst \in Seq(Winsts), Contiguous(source.inst), Complete(source),
         NEW address \in Nat, address < source.length
  PROVE  Makes(source.inst, MergeFindPosition(source, address), address)
<1> DEFINE inst == source.inst
           n == Len(inst)
           find == CHOOSE find : find = [part \in {p \in (1..(n + 1)) \X (1..(n + 1)) : p[1] <= p[2]} |->
                     IF part[1] = part[2] THEN 0
                     ELSE IF address < inst[part[1] + (part[2] - part[1]) \div 2].position
                     THEN find[<<part[1], part[1] + (part[2] - part[1]) \div 2>>]
                     ELSE IF address >= inst[part[1] + (part[2] - part[1]) \div 2].position
                                        + inst[part[1] + (part[2] - part[1]) \div 2].size
                     THEN find[<<part[1] + (part[2] - part[1]) \div 2 + 1, part[2]>>]
                     ELSE part[1] + (part[2] - part[1]) \div 2]
<1>1. MergeFindPosition(source, address) = find[<<1, n + 1>>]
  <2>1. source.length \in Nat
    BY WinstFacts DEF Complete
  <2>2. ~ (address >= source.length)
    BY <2>1
  <2> QED
    BY <2>2 DEF MergeFindPosition
<1>2. PICK f : Searches(f, inst, address)
  BY SomeSearch
<1>3. Searches(find, inst, address)
  BY <1>2 DEF Searches, Sought, Parts
<1> HIDE DEF find
<1>4. Answer(inst, address, 1, n + 1, find[<<1, n + 1>>])
  BY <1>3, SearchAnswers
<1>5. \E k \in 1..n : Makes(inst, k, address)
  BY Covered DEF Complete
<1> QED
  BY <1>1, <1>4, <1>5 DEF Answer

-----------------------------------------------------------------------------
(* What the operators on lists do. *)

\* What is said of an instruction in Tiles, but for its place.
Fitting(i, base, adds, wininfo) ==
  /\ i.size > 0
  /\ i.type # "CPY" => i.addr + (IF i.type = "RUN" THEN 1 ELSE i.size) <= adds
  /\ i.mode = "SOURCE" => i.addr + i.size <= base
  /\ i.mode = "HERE" =>
       \E n \in 1..Len(wininfo) :
         LET info == wininfo[n]
         IN  /\ info.offset <= i.addr /\ i.addr < i.position
             /\ i.position + i.size <= info.offset + info.length

\* Tiles, said of each instruction and its place.
LEMMA TilesMeans ==
  ASSUME NEW w, NEW base
  PROVE  Tiles(w, base) <=>
           \A k \in 1..Len(w.inst) : /\ w.inst[k].position = End(w.inst, k - 1)
                                     /\ Fitting(w.inst[k], base, Len(w.adds), w.wininfo)
<1>1. Tiles(w, base) => \A k \in 1..Len(w.inst) : /\ w.inst[k].position = End(w.inst, k - 1)
                                                  /\ Fitting(w.inst[k], base, Len(w.adds), w.wininfo)
  BY DEF Tiles, Fitting
<1>2. (\A k \in 1..Len(w.inst) : /\ w.inst[k].position = End(w.inst, k - 1)
                                 /\ Fitting(w.inst[k], base, Len(w.adds), w.wininfo)) => Tiles(w, base)
  BY DEF Tiles, Fitting
<1> QED
  BY <1>1, <1>2

\* A list that tiles has no gap.
LEMMA TilesContiguous ==
  ASSUME NEW w, NEW base, Tiles(w, base)
  PROVE  Contiguous(w.inst)
  BY DEF Tiles, Contiguous

\* More bytes do no harm, nor do more windows.
LEMMA FittingGrows ==
  ASSUME NEW i \in Winsts, NEW base, NEW a \in Nat, NEW b \in Nat, a <= b, NEW u \in Seq(Infos), NEW v \in Seq(Infos),
         Len(u) <= Len(v), \A n \in 1..Len(u) : v[n] = u[n], Fitting(i, base, a, u)
  PROVE  Fitting(i, base, b, v)
<1>1. \A n \in 1..Len(u) : n \in 1..Len(v)
  OBVIOUS
<1>2. i.type # "CPY" => i.addr + (IF i.type = "RUN" THEN 1 ELSE i.size) <= b
  BY DEF Fitting, Winsts
<1>3. i.mode = "HERE" =>
       \E n \in 1..Len(v) : /\ v[n].offset <= i.addr /\ i.addr < i.position
                            /\ i.position + i.size <= v[n].offset + v[n].length
  BY <1>1 DEF Fitting
<1> QED
  BY <1>2, <1>3 DEF Fitting

\* The parts of a state.
LEMMA WholeFacts ==
  ASSUME NEW w \in Wholes
  PROVE  /\ w.inst \in Seq(Winsts) /\ w.adds \in Seq(Byte) /\ w.wininfo \in Seq(Infos)
         /\ w.length \in Nat /\ w.ret \in {0, -1} /\ Len(w.adds) \in Nat /\ Len(w.inst) \in Nat
         /\ End(w.inst, Len(w.inst)) \in Nat
<1>1. w.inst \in Seq(Winsts) /\ w.adds \in Seq(Byte) /\ w.wininfo \in Seq(Infos)
      /\ w.length \in Nat /\ w.ret \in {0, -1}
  BY DEF Wholes
<1>2. Len(w.inst) \in 0..Len(w.inst)
  BY <1>1
<1> QED
  BY <1>1, <1>2, WinstFacts

\* An instruction more.
LEMMA OneMore ==
  ASSUME NEW w \in Wholes, NEW v \in Wholes, NEW i \in Winsts, NEW base, Tiles(w, base),
         v.inst = Append(w.inst, i), Len(w.adds) <= Len(v.adds), v.wininfo = w.wininfo,
         i.position = End(w.inst, Len(w.inst)), Fitting(i, base, Len(v.adds), v.wininfo)
  PROVE  Tiles(v, base) /\ End(v.inst, Len(v.inst)) = i.position + i.size
<1> DEFINE n == Len(w.inst)
<1>1. n \in Nat /\ Len(v.inst) = n + 1 /\ v.inst[n + 1] = i /\ \A k \in 1..n : v.inst[k] = w.inst[k]
  BY WholeFacts
<1>2. \A k \in 0..n : End(v.inst, k) = End(w.inst, k)
  BY <1>1 DEF End
<1>3. ASSUME NEW k \in 1..Len(v.inst)
      PROVE  v.inst[k].position = End(v.inst, k - 1) /\ Fitting(v.inst[k], base, Len(v.adds), v.wininfo)
  <2>1. CASE k = n + 1
    <3>1. k - 1 = n /\ n \in 0..n
      BY <1>1, <2>1
    <3> QED
      BY <1>1, <1>2, <2>1, <3>1
  <2>2. CASE k # n + 1
    <3>1. k \in 1..n /\ k - 1 \in 0..n
      BY <1>1, <2>2
    <3>2. w.inst[k].position = End(w.inst, k - 1) /\ Fitting(w.inst[k], base, Len(w.adds), w.wininfo)
      BY <3>1, TilesMeans
    <3>3. w.inst[k] \in Winsts /\ Len(w.adds) \in Nat /\ Len(v.adds) \in Nat /\ w.wininfo \in Seq(Infos)
          /\ Len(w.wininfo) <= Len(w.wininfo)
      BY <3>1, WholeFacts
    <3>4. Fitting(w.inst[k], base, Len(v.adds), w.wininfo)
      BY <3>2, <3>3, FittingGrows
    <3> QED
      BY <1>1, <1>2, <3>1, <3>2, <3>4
  <2> QED
    BY <2>1, <2>2
<1>4. End(v.inst, n + 1) = i.position + i.size
  BY <1>1 DEF End
<1> QED
  BY <1>1, <1>3, <1>4, TilesMeans

\* What v has of w, an instruction later that makes size bytes.
Follows(v, w, base, size) ==
  /\ v \in Wholes /\ Tiles(v, base) /\ v.wininfo = w.wininfo /\ v.length = w.length /\ v.ret = w.ret
  /\ End(v.inst, Len(v.inst)) = End(w.inst, Len(w.inst)) + size

\* The bytes of two sequences together.
LEMMA Joined ==
  ASSUME NEW s \in Seq(Byte), NEW t \in Seq(Byte)
  PROVE  s \o t \in Seq(Byte) /\ Len(s \o t) = Len(s) + Len(t) /\ Len(s) <= Len(s \o t)
<1>1. s \o t \in Seq(Byte) /\ Len(s \o t) = Len(s) + Len(t)
  BY ConcatProperties
<1>2. Len(s) \in Nat /\ Len(t) \in Nat
  OBVIOUS
<1> QED
  BY <1>1, <1>2

\* An ADD or a RUN, with its bytes.
LEMMA WithBytesFollows ==
  ASSUME NEW w \in Wholes, NEW base, Tiles(w, base), NEW type \in {"ADD", "RUN"}, NEW size \in Nat, size > 0,
         NEW bytes \in Seq(Byte), Len(bytes) = IF type = "RUN" THEN 1 ELSE size
  PROVE  Follows(WithBytes(w, type, size, End(w.inst, Len(w.inst)), bytes), w, base, size)
<1> DEFINE e == End(w.inst, Len(w.inst))
           i == Winst(type, "NONE", size, Len(w.adds), e)
           v == WithBytes(w, type, size, e, bytes)
<1>1. e \in Nat /\ Len(w.adds) \in Nat
  BY WholeFacts
<1>2. i \in Winsts
  <2> HIDE DEF e
  <2> QED BY <1>1 DEF Winst, Winsts
<1>3. i.position = e /\ i.size = size /\ i.addr = Len(w.adds) /\ i.type = type /\ i.mode = "NONE"
  BY DEF Winst
<1>4. v = [w EXCEPT !.inst = Append(@, i), !.adds = @ \o bytes]
  BY DEF WithBytes
<1> HIDE DEF i, v, e
<1>5. v.inst = Append(w.inst, i) /\ v.adds = w.adds \o bytes /\ v.wininfo = w.wininfo /\ v.length = w.length /\ v.ret = w.ret
  BY <1>4 DEF Wholes
<1>6. v \in Wholes
  <2>1. Append(w.inst, i) \in Seq(Winsts) /\ w.adds \o bytes \in Seq(Byte)
    BY <1>2, WholeFacts, Joined
  <2> QED
    BY <1>4, <2>1 DEF Wholes
<1>7. Len(v.adds) = Len(w.adds) + Len(bytes) /\ Len(w.adds) <= Len(v.adds)
  <2>1. w.adds \in Seq(Byte) /\ v.adds = w.adds \o bytes
    BY <1>5, WholeFacts
  <2> QED
    BY <2>1, Joined
<1>8. Fitting(i, base, Len(v.adds), v.wininfo)
  <2>1. i.size > 0 /\ i.mode # "SOURCE" /\ i.mode # "HERE"
    BY <1>3
  <2>2. (IF i.type = "RUN" THEN 1 ELSE i.size) = Len(bytes)
    BY <1>3
  <2>3. i.addr + (IF i.type = "RUN" THEN 1 ELSE i.size) <= Len(v.adds)
    <3>1. i.addr + (IF i.type = "RUN" THEN 1 ELSE i.size) = Len(v.adds)
      BY <1>3, <1>7, <2>2
    <3>2. v.adds \in Seq(Byte)
      BY <1>6, WholeFacts
    <3>3. Len(v.adds) \in Nat
      BY <3>2
    <3> QED
      BY <3>1, <3>3
  <2> QED
    BY <2>1, <2>3 DEF Fitting
<1>9. Tiles(v, base) /\ End(v.inst, Len(v.inst)) = i.position + i.size
  <2>1. Len(w.adds) <= Len(v.adds)
    BY <1>7
  <2>2. i.position = End(w.inst, Len(w.inst))
    BY <1>3 DEF e
  <2> QED
    BY <1>2, <1>5, <1>6, <1>8, <2>1, <2>2, OneMore
<1> QED
  BY <1>3, <1>5, <1>6, <1>9 DEF Follows, v, e

\* A copy, as it is.
LEMMA CopyFollows ==
  ASSUME NEW w \in Wholes, NEW base, Tiles(w, base), NEW i \in Winsts, i.position = End(w.inst, Len(w.inst)),
         Fitting(i, base, Len(w.adds), w.wininfo)
  PROVE  Follows([w EXCEPT !.inst = Append(@, i)], w, base, i.size)
<1> DEFINE v == [w EXCEPT !.inst = Append(@, i)]
<1>1. v.inst = Append(w.inst, i) /\ v.adds = w.adds /\ v.wininfo = w.wininfo /\ v.length = w.length /\ v.ret = w.ret
  BY DEF Wholes
<1>2. v \in Wholes
  <2>1. Append(w.inst, i) \in Seq(Winsts)
    BY WholeFacts
  <2> QED
    BY <2>1 DEF Wholes
<1> HIDE DEF v
<1>3. Len(w.adds) <= Len(v.adds)
  BY <1>1, WholeFacts
<1>4. Tiles(v, base) /\ End(v.inst, Len(v.inst)) = i.position + i.size
  BY <1>1, <1>2, <1>3, OneMore
<1> QED
  BY <1>1, <1>2, <1>4 DEF Follows, v

\* A copy, from its parts.
LEMMA WithCopyFollows ==
  ASSUME NEW w \in Wholes, NEW base, Tiles(w, base), NEW mode \in {"SOURCE", "HERE"}, NEW size \in Nat, size > 0,
         NEW addr \in Nat, mode = "SOURCE" => addr + size <= base,
         mode = "HERE" =>
           \E n \in 1..Len(w.wininfo) :
             /\ w.wininfo[n].offset <= addr /\ addr < End(w.inst, Len(w.inst))
             /\ End(w.inst, Len(w.inst)) + size <= w.wininfo[n].offset + w.wininfo[n].length
  PROVE  Follows(WithCopy(w, mode, size, addr, End(w.inst, Len(w.inst))), w, base, size)
<1> DEFINE e == End(w.inst, Len(w.inst))
           i == Winst("CPY", mode, size, addr, e)
<1>1. e \in Nat
  BY WholeFacts
<1>2. i \in Winsts
  <2> HIDE DEF e
  <2> QED BY <1>1 DEF Winst, Winsts
<1>3. i.position = e /\ i.size = size /\ i.addr = addr /\ i.type = "CPY" /\ i.mode = mode
  BY DEF Winst
<1>4. WithCopy(w, mode, size, addr, e) = [w EXCEPT !.inst = Append(@, i)]
  BY DEF WithCopy
<1> HIDE DEF i
<1>5. Fitting(i, base, Len(w.adds), w.wininfo)
  BY <1>3 DEF Fitting
<1>6. Follows([w EXCEPT !.inst = Append(@, i)], w, base, i.size)
  BY <1>2, <1>3, <1>5, CopyFollows
<1> QED
  BY <1>3, <1>4, <1>6

\* The bytes of an instruction.
LEMMA BytesAreThere ==
  ASSUME NEW w \in Wholes, NEW i \in Winsts, i.type # "CPY",
         i.addr + (IF i.type = "RUN" THEN 1 ELSE i.size) <= Len(w.adds),
         NEW offset \in Nat, NEW size \in Nat, offset + size <= i.size
  PROVE  /\ Bytes(w, i, offset, size) \in Seq(Byte)
         /\ Len(Bytes(w, i, offset, size)) = IF i.type = "RUN" THEN 1 ELSE size
<1>1. w.adds \in Seq(Byte) /\ Len(w.adds) \in Nat /\ i.addr \in Nat /\ i.size \in Nat
  BY WholeFacts DEF Winsts
<1>2. CASE i.type = "RUN"
  <2>1. i.addr + 1 \in 1..Len(w.adds)
    BY <1>1, <1>2
  <2>2. w.adds[i.addr + 1] \in Byte
    BY <1>1, <2>1
  <2> QED
    BY <1>2, <2>2 DEF Bytes
<1>3. CASE i.type # "RUN"
  <2>0. /\ i.addr + offset + 1 \in Nat /\ i.addr + offset + size \in Nat
        /\ 1 <= i.addr + offset + 1 /\ i.addr + offset + size <= Len(w.adds)
        /\ (i.addr + offset + size) - (i.addr + offset + 1) + 1 = size
        /\ i.addr + offset + 1 <= (i.addr + offset + size) + 1
    <3>1. i.addr + i.size <= Len(w.adds)
      BY <1>3
    <3>2. i.addr \in Nat /\ i.size \in Nat /\ Len(w.adds) \in Nat
      BY <1>1
    <3>3. offset \in Nat /\ size \in Nat /\ offset + size <= i.size
      OBVIOUS
    <3>4. /\ i.addr + offset + 1 \in Nat /\ i.addr + offset + size \in Nat /\ 1 <= i.addr + offset + 1
          /\ i.addr + offset + 1 <= (i.addr + offset + size) + 1
      BY ONLY <3>2, <3>3, SMTT(30)
    <3>5. (i.addr + offset + size) - (i.addr + offset + 1) + 1 = size
      BY ONLY <3>2, <3>3
    <3>6. i.addr + offset + size <= i.addr + i.size
      BY ONLY <3>2, <3>3
    <3>7. i.addr + offset + size <= Len(w.adds)
      BY ONLY <3>1, <3>2, <3>3, <3>6
    <3> QED
      BY <3>4, <3>5, <3>7
  <2> DEFINE a == i.addr + offset + 1
             b == i.addr + offset + size
  <2>1. a \in Nat /\ b \in Nat /\ 1 <= a /\ b <= Len(w.adds) /\ b - a + 1 = size /\ a <= b + 1
    BY <2>0
  <2>2. Bytes(w, i, offset, size) = SubSeq(w.adds, a, b)
    BY <1>3 DEF Bytes
  <2> HIDE DEF a, b
  <2>3. SubSeq(w.adds, a, b) \in Seq(Byte) /\ Len(SubSeq(w.adds, a, b)) = size
    <3>1. SubSeq(w.adds, a, b) = [k \in 1..(b - a + 1) |-> w.adds[a + k - 1]]
      BY <1>1, <2>1
    <3>2. \A k \in 1..size : a + k - 1 \in 1..Len(w.adds)
      BY <1>1, <2>1
    <3> QED
      BY <1>1, <2>1, <3>1, <3>2
  <2> QED
    BY <1>3, <2>2, <2>3
<1> QED
  BY <1>2, <1>3

\* Only the length changes.
LEMMA LongerFacts ==
  ASSUME NEW w \in Wholes, NEW base, Tiles(w, base), NEW size \in Nat
  PROVE  /\ Longer(w, size) \in Wholes /\ Tiles(Longer(w, size), base)
         /\ Longer(w, size).inst = w.inst /\ Longer(w, size).wininfo = w.wininfo /\ Longer(w, size).ret = w.ret
         /\ Longer(w, size).length = w.length + size
<1> DEFINE v == Longer(w, size)
<1>1. v \in Wholes /\ v.inst = w.inst /\ v.adds = w.adds /\ v.wininfo = w.wininfo /\ v.ret = w.ret /\ v.length = w.length + size
  BY DEF Longer, Wholes
<1> HIDE DEF v
<1>2. Tiles(v, base)
  BY <1>1, TilesMeans
<1> QED
  BY <1>1, <1>2 DEF v

-----------------------------------------------------------------------------
(* The steps. *)

\* The invariant while deltas are read and merged.
Good == Types /\ Place /\ Nested /\ Merged /\ Tiled

\* The windows of the delta that is read, and the text below it.
LEMMA ChainFacts ==
  ASSUME Types, Fits(chain)
  PROVE  /\ chain \in Seq(Seq(Window)) /\ chain[file] \in Seq(Window)
         /\ \A n \in 1..Len(chain[file]) :
              /\ chain[file][n] \in Window /\ chain[file][n].inst \in Seq(Hinst)
              /\ chain[file][n].cpyoff \in Nat /\ chain[file][n].cpylen \in Nat
              /\ WellFormed(BaseLength(chain, file), chain[file][n])
         /\ BaseLength(chain, file) \in Nat
         /\ BaseLength(chain, 1) = Len(Source) /\ Len(Source) \in Nat
         /\ BaseLength(chain, file + 1) = Total(chain[file], Len(chain[file]))
<1>1. chain \in Seq(Seq(Window)) /\ file \in 1..Len(chain) /\ Source \in Seq(Byte)
  BY ChainsAssumption DEF Types
<1>2. \A k \in 1..Len(chain) : chain[k] \in Seq(Window)
  BY <1>1
<1>3. \A n \in 1..Len(chain[file]) :
        /\ chain[file][n] \in Window /\ chain[file][n].inst \in Seq(Hinst)
        /\ chain[file][n].cpyoff \in Nat /\ chain[file][n].cpylen \in Nat
        /\ WellFormed(BaseLength(chain, file), chain[file][n])
  <2>1. ASSUME NEW n \in 1..Len(chain[file])
        PROVE  chain[file][n] \in Window
    BY <1>1, <1>2
  <2>2. ASSUME NEW n \in 1..Len(chain[file])
        PROVE  WellFormed(BaseLength(chain, file), chain[file][n])
    BY <1>1 DEF Fits
  <2> QED
    BY <2>1, <2>2 DEF Window
<1>4. BaseLength(chain, 1) = Len(Source) /\ Len(Source) \in Nat
  BY <1>1 DEF BaseLength
<1>5. BaseLength(chain, file) \in Nat
  <2>1. CASE file = 1
    BY <1>4, <2>1
  <2>2. CASE file # 1
    <3>1. file - 1 \in 1..Len(chain)
      BY <1>1, <2>2
    <3>2. chain[file - 1] \in Seq(Window) /\ Len(chain[file - 1]) \in 0..Len(chain[file - 1])
      BY <1>2, <3>1
    <3>3. Total(chain[file - 1], Len(chain[file - 1])) \in Nat
      BY <3>2, TotalSteps
    <3> QED
      BY <2>2, <3>3 DEF BaseLength
  <2> QED
    BY <2>1, <2>2
<1>6. BaseLength(chain, file + 1) = Total(chain[file], Len(chain[file]))
  <2>1. file + 1 # 1 /\ (file + 1) - 1 = file
    BY <1>1
  <2> QED
    BY <2>1 DEF BaseLength
<1> QED
  BY <1>1, <1>2, <1>3, <1>4, <1>5, <1>6

\* A list without anything.
LEMMA EmptyFacts ==
  ASSUME NEW base, NEW infos \in Seq(Infos)
  PROVE  LET w == [EmptyWhole EXCEPT !.wininfo = infos]
         IN  /\ EmptyWhole \in Wholes /\ w \in Wholes
             /\ Tiles(EmptyWhole, base) /\ Tiles(w, base) /\ Complete(EmptyWhole) /\ Complete(w)
             /\ EmptyWhole.inst = <<>> /\ EmptyWhole.wininfo = <<>> /\ EmptyWhole.length = 0 /\ EmptyWhole.ret = 0
             /\ w.inst = <<>> /\ w.wininfo = infos /\ w.length = 0 /\ w.ret = 0
<1> DEFINE w == [EmptyWhole EXCEPT !.wininfo = infos]
<1>1. /\ EmptyWhole.inst = <<>> /\ EmptyWhole.wininfo = <<>> /\ EmptyWhole.length = 0 /\ EmptyWhole.ret = 0
      /\ w.inst = <<>> /\ w.wininfo = infos /\ w.length = 0 /\ w.ret = 0
  BY DEF EmptyWhole
<1>2. EmptyWhole \in Wholes /\ w \in Wholes
  <2>1. <<>> \in Seq(Winsts) /\ <<>> \in Seq(Byte) /\ <<>> \in Seq(Infos)
    OBVIOUS
  <2> QED
    BY <2>1 DEF EmptyWhole, Wholes
<1> HIDE DEF w
<1>3. Len(<<>>) = 0
  OBVIOUS
<1>4. Tiles(EmptyWhole, base) /\ Tiles(w, base)
  BY <1>1, <1>3, TilesMeans
<1>5. Complete(EmptyWhole) /\ Complete(w)
  BY <1>1, <1>3 DEF Complete, End
<1> QED
  BY <1>1, <1>2, <1>4, <1>5 DEF w

\* Nothing is read or merged yet.
LEMMA InitGood ==
  ASSUME Init, Fits(chain)
  PROVE  Good
<1> USE DEF Init
<1>1. chain \in Chains /\ chain \in Seq(Seq(Window)) /\ chain # <<>>
  BY ChainsAssumption
<1>2. Len(chain) \in Nat /\ 1 \in 1..Len(chain)
  BY <1>1
<1>3. <<>> \in Seq(Infos)
  OBVIOUS
<1>4. \A base : EmptyWhole \in Wholes /\ Tiles(EmptyWhole, base) /\ Complete(EmptyWhole)
                /\ EmptyWhole.inst = <<>> /\ EmptyWhole.wininfo = <<>> /\ EmptyWhole.length = 0 /\ EmptyWhole.ret = 0
  BY <1>3, EmptyFacts
<1>5. Types
  <2>1. Len(chain[1]) \in Nat
    BY <1>1, <1>2
  <2> QED
    BY <1>1, <1>2, <1>4, <2>1 DEF Types
<1>6. Total(chain[1], 0) = 0
  <2>1. chain[1] \in Seq(Window) /\ 0 \in 0..Len(chain[1])
    BY <1>1, <1>2
  <2> QED
    BY <2>1, TotalSteps
<1>7. Place
  BY <1>4, <1>6 DEF Place
<1>8. Nested /\ Merged /\ Tiled
  BY <1>4 DEF Nested, Merged, Tiled
<1> QED
  BY <1>5, <1>7, <1>8 DEF Good

\* A window begins: nothing that was read needs it.
LEMMA ReadWindowGood ==
  ASSUME Good, Fits(chain), ReadWindow
  PROVE  Good'
<1> USE DEF ReadWindow
<1> DEFINE win == chain[file][window + 1]
           base == BaseLength(chain, file)
           info == [offset |-> stream.length, length |-> Sizes(win.inst, Len(win.inst))]
<1>1. Types /\ Place /\ Tiled /\ stream \in Wholes /\ window \in Nat
  BY DEF Good, Types
<1>2. window + 1 \in 1..Len(chain[file])
  BY DEF Good, Types
<1>3. win.inst \in Seq(Hinst) /\ chain[file] \in Seq(Window)
  BY <1>1, <1>2, ChainFacts
<1>4. info \in Infos
  <2>1. Len(win.inst) \in 0..Len(win.inst)
    BY <1>3
  <2>2. Sizes(win.inst, Len(win.inst)) \in Nat
    BY <1>3, <2>1, SizesSteps
  <2> HIDE DEF win
  <2> QED
    BY <1>1, <2>2, WholeFacts DEF Infos
<1>5. stream' = [stream EXCEPT !.wininfo = Append(@, info)]
  BY DEF WholeAppendWindow
<1> HIDE DEF info
<1>6. /\ stream'.inst = stream.inst /\ stream'.adds = stream.adds /\ stream'.length = stream.length
      /\ stream'.ret = stream.ret /\ stream'.wininfo = Append(stream.wininfo, info)
  BY <1>1, <1>5 DEF Wholes
<1>7. stream' \in Wholes
  <2>1. Append(stream.wininfo, info) \in Seq(Infos)
    BY <1>1, <1>4, WholeFacts
  <2> QED
    BY <1>1, <1>5, <2>1 DEF Wholes
<1>8. Tiles(stream', base) /\ Complete(stream')
  <2>1. Tiles(stream, base) /\ Complete(stream)
    BY <1>1 DEF Tiled
  <2>2. \A k \in 1..Len(stream.inst) : Fitting(stream.inst[k], base, Len(stream.adds), stream'.wininfo)
    <3>1. /\ stream.wininfo \in Seq(Infos) /\ stream'.wininfo \in Seq(Infos) /\ Len(stream.adds) \in Nat
          /\ Len(stream.wininfo) <= Len(stream'.wininfo) /\ Len(stream.adds) <= Len(stream.adds)
          /\ \A n \in 1..Len(stream.wininfo) : stream'.wininfo[n] = stream.wininfo[n]
      BY <1>1, <1>4, <1>6, <1>7, WholeFacts
    <3>2. ASSUME NEW k \in 1..Len(stream.inst)
          PROVE  stream.inst[k] \in Winsts /\ Fitting(stream.inst[k], base, Len(stream.adds), stream.wininfo)
      BY <1>1, <2>1, TilesMeans, WholeFacts
    <3> QED
      BY <3>1, <3>2, FittingGrows
  <2>3. \A k \in 1..Len(stream.inst) : stream.inst[k].position = End(stream.inst, k - 1)
    BY <2>1, TilesMeans
  <2>4. Tiles(stream', base)
    BY <1>6, <2>2, <2>3, TilesMeans
  <2> QED
    BY <1>6, <2>1, <2>4 DEF Complete
<1>9. Types'
  BY <1>1, <1>2, <1>7 DEF Types
<1>10. Place'
  <2>1. Len(stream.wininfo) = window /\ stream.length = Total(chain[file], window)
    BY <1>1 DEF Place
  <2>2. /\ Len(stream'.wininfo) = window + 1 /\ stream'.wininfo[window + 1] = info
    BY <1>1, <1>6, <2>1, WholeFacts
  <2>3. Sizes(win.inst, 0) = 0 /\ Len(win.inst) \in Nat /\ 0 <= Len(win.inst)
    <3>1. 0 \in 0..Len(win.inst)
      BY <1>3
    <3> QED
      BY <1>3, <3>1, SizesSteps
  <2>4. stream.length \in Nat /\ (window + 1) - 1 = window
    BY <1>1, WholeFacts
  <2>5. pc' = "append" /\ input_i' = 0 /\ window' = window + 1 /\ chain' = chain /\ file' = file /\ merge_input' = merge_input
    OBVIOUS
  <2>6. file > 1 => merge_input.length = BaseLength(chain, file)
    BY <1>1 DEF Place
  <2>7. /\ stream'.wininfo[window + 1] = [offset |-> Total(chain[file], (window + 1) - 1),
                                          length |-> Sizes(win.inst, Len(win.inst))]
        /\ stream'.length = Total(chain[file], (window + 1) - 1) + Sizes(win.inst, 0)
    BY <1>6, <2>1, <2>2, <2>3, <2>4 DEF info
  <2> HIDE DEF win
  <2> QED
    BY <1>1, <2>2, <2>3, <2>5, <2>6, <2>7 DEF Place, win
<1>11. Tiled' /\ Nested' /\ Merged'
  <2>1. todo = <<>> /\ todo' = <<>>
    BY <1>1 DEF Types
  <2> QED
    BY <1>1, <1>8, <2>1 DEF Tiled, Nested, Merged, Complete, base
<1> QED
  BY <1>9, <1>10, <1>11 DEF Good

\* A copy from the window itself looks back in it.
LEMMA WithinWindow ==
  ASSUME NEW start \in Nat, NEW addr \in Nat, NEW cpylen \in Nat, NEW sofar \in Nat, NEW size \in Nat, NEW all \in Nat,
         cpylen <= addr, addr < cpylen + sofar, sofar + size <= all
  PROVE  /\ start + addr - cpylen \in Nat /\ start <= start + addr - cpylen
         /\ start + addr - cpylen < start + sofar /\ start + sofar + size <= start + all
  OBVIOUS

\* The instruction that is read begins where the list ends: what it copies from the source is in
\* the text below, what it copies from its window is there already.
LEMMA AppendInstructionGood ==
  ASSUME Good, Fits(chain), AppendInstruction
  PROVE  Good'
<1> DEFINE win == chain[file][window]
           inst == win.inst
           h == inst[input_i + 1]
           base == BaseLength(chain, file)
           start == Total(chain[file], window - 1)
           e == End(stream.inst, Len(stream.inst))
           more == IF h.type # "CPY" THEN WithBytes(stream, h.type, h.size, stream.length, h.bytes)
                   ELSE IF h.addr < win.cpylen
                   THEN WithCopy(stream, "SOURCE", h.size, win.cpyoff + h.addr, stream.length)
                   ELSE WithCopy(stream, "HERE", h.size, start + h.addr - win.cpylen, stream.length)
<1>0. /\ pc = "append" /\ input_i < Len(inst) /\ input_i' = input_i + 1
      /\ stream' = WholeAppendInst(stream, win, stream.wininfo[window].offset, h)
      /\ UNCHANGED <<chain, file, window, merge_input, tmp, todo, pc>>
  BY DEF AppendInstruction
<1>1. Types /\ Place /\ Tiled /\ Nested /\ Merged /\ stream \in Wholes
  BY DEF Good, Types
<1>2. /\ window \in 1..Len(chain[file]) /\ input_i \in Nat /\ input_i < Len(inst)
      /\ Len(stream.wininfo) = window
      /\ stream.wininfo[window] = [offset |-> start, length |-> Sizes(inst, Len(inst))]
      /\ stream.length = start + Sizes(inst, input_i)
  BY <1>0, <1>1 DEF Place, Types
<1>3. /\ win.cpyoff \in Nat /\ win.cpylen \in Nat /\ inst \in Seq(Hinst) /\ WellFormed(base, win) /\ base \in Nat
      /\ chain[file] \in Seq(Window)
  BY <1>1, <1>2, ChainFacts
<1>4. input_i + 1 \in 1..Len(inst) /\ h \in Hinst
  <2> HIDE DEF inst
  <2>1. input_i + 1 \in 1..Len(inst)
    BY ONLY <1>2, <1>3
  <2> QED
    BY <1>3, <2>1
<1>5. /\ h.type \in {"ADD", "RUN", "CPY"} /\ h.size \in Nat /\ h.addr \in Nat /\ h.bytes \in Seq(Byte)
      /\ h.type = "ADD" => Len(h.bytes) = h.size
      /\ h.type = "RUN" => Len(h.bytes) = 1
  <2> HIDE DEF h
  <2> QED BY <1>4 DEF Hinst
<1>6. /\ h.size > 0 /\ win.cpyoff + win.cpylen <= base
      /\ h.type = "CPY" => /\ h.addr < win.cpylen + Sizes(inst, input_i)
                           /\ h.addr < win.cpylen => h.addr + h.size <= win.cpylen
  <2>1. (input_i + 1) - 1 = input_i
    BY <1>2
  <2> HIDE DEF base
  <2> QED BY <1>3, <1>4, <2>1 DEF WellFormed
<1>7. start \in Nat
  <2>1. window - 1 \in 0..Len(chain[file])
    BY <1>2
  <2> QED
    BY <1>3, <2>1, TotalSteps
<1>8. /\ Sizes(inst, input_i) \in Nat /\ Sizes(inst, input_i + 1) = Sizes(inst, input_i) + h.size
      /\ Sizes(inst, input_i + 1) <= Sizes(inst, Len(inst)) /\ Sizes(inst, Len(inst)) \in Nat
  <2>1. input_i \in 0..Len(inst) /\ input_i + 1 \in 0..Len(inst) /\ Len(inst) \in 0..Len(inst)
    <3> HIDE DEF inst
    <3> QED
      BY ONLY <1>2, <1>3
  <2> HIDE DEF inst
  <2> QED
    BY <1>2, <1>3, <2>1, SizesSteps, SizesGrow
<1>9. stream.length = e /\ e \in Nat /\ Tiles(stream, base)
  BY <1>1, WholeFacts DEF Tiled, Complete
<1>10. stream' = Longer(more, h.size)
  BY <1>0, <1>2 DEF WholeAppendInst
<1> HIDE DEF win, inst, h, base, start, e
<1>11. Follows(more, stream, base, h.size)
  <2>1. CASE h.type # "CPY"
    <3>1. more = WithBytes(stream, h.type, h.size, e, h.bytes)
      BY <1>9, <2>1
    <3>2. h.type \in {"ADD", "RUN"} /\ Len(h.bytes) = IF h.type = "RUN" THEN 1 ELSE h.size
      BY <1>5, <2>1
    <3>3. Follows(WithBytes(stream, h.type, h.size, e, h.bytes), stream, base, h.size)
      BY <1>1, <1>5, <1>6, <1>9, <3>2, WithBytesFollows DEF e
    <3> QED
      BY <3>1, <3>3
  <2>2. CASE h.type = "CPY" /\ h.addr < win.cpylen
    <3> DEFINE a == win.cpyoff + h.addr
    <3>1. more = WithCopy(stream, "SOURCE", h.size, a, e)
      BY <1>9, <2>2
    <3>2. a \in Nat /\ a + h.size <= base
      <4>1. /\ h.addr + h.size <= win.cpylen /\ win.cpyoff + win.cpylen <= base /\ base \in Nat
            /\ win.cpyoff \in Nat /\ win.cpylen \in Nat /\ h.addr \in Nat /\ h.size \in Nat
        BY <1>3, <1>5, <1>6, <2>2
      <4> QED
        BY ONLY <4>1
    <3> HIDE DEF a
    <3>3. Follows(WithCopy(stream, "SOURCE", h.size, a, e), stream, base, h.size)
      <4> DEFINE mode == "SOURCE"
      <4>1. mode \in {"SOURCE", "HERE"} /\ (mode = "SOURCE" => a + h.size <= base) /\ mode # "HERE"
        BY <3>2
      <4> HIDE DEF mode
      <4>2. Follows(WithCopy(stream, mode, h.size, a, e), stream, base, h.size)
        BY <1>1, <1>5, <1>6, <1>9, <3>2, <4>1, WithCopyFollows DEF e
      <4> QED
        BY <4>2 DEF mode
    <3> QED
      BY <3>1, <3>3
  <2>3. CASE h.type = "CPY" /\ ~ (h.addr < win.cpylen)
    <3> DEFINE a == start + h.addr - win.cpylen
    <3>1. more = WithCopy(stream, "HERE", h.size, a, e)
      BY <1>9, <2>3
    <3>2. a \in Nat /\ start <= a /\ a < e /\ e + h.size <= start + Sizes(inst, Len(inst))
      <4>1. win.cpylen <= h.addr /\ h.addr < win.cpylen + Sizes(inst, input_i)
        BY <1>3, <1>5, <1>6, <2>3
      <4>2. Sizes(inst, input_i) + h.size <= Sizes(inst, Len(inst)) /\ e = start + Sizes(inst, input_i)
        BY <1>2, <1>8, <1>9
      <4>3. /\ start \in Nat /\ h.addr \in Nat /\ win.cpylen \in Nat /\ Sizes(inst, input_i) \in Nat
            /\ h.size \in Nat /\ Sizes(inst, Len(inst)) \in Nat
        BY <1>3, <1>5, <1>7, <1>8
      <4> QED
        BY ONLY <4>1, <4>2, <4>3, WithinWindow
    <3>3. \E n \in 1..Len(stream.wininfo) :
            /\ stream.wininfo[n].offset <= a /\ a < e
            /\ e + h.size <= stream.wininfo[n].offset + stream.wininfo[n].length
      <4>1. window \in 1..Len(stream.wininfo)
        BY <1>2
      <4>2. stream.wininfo[window].offset = start /\ stream.wininfo[window].length = Sizes(inst, Len(inst))
        BY <1>2
      <4> HIDE DEF a
      <4> QED
        BY <3>2, <4>1, <4>2
    <3> HIDE DEF a
    <3>4. Follows(WithCopy(stream, "HERE", h.size, a, e), stream, base, h.size)
      <4> DEFINE mode == "HERE"
      <4>1. mode \in {"SOURCE", "HERE"} /\ mode # "SOURCE"
        OBVIOUS
      <4> HIDE DEF mode
      <4>2. Follows(WithCopy(stream, mode, h.size, a, e), stream, base, h.size)
        BY <1>1, <1>5, <1>6, <1>9, <3>2, <3>3, <4>1, WithCopyFollows DEF e
      <4> QED
        BY <4>2 DEF mode
    <3> QED
      BY <3>1, <3>4
  <2> QED
    BY <2>1, <2>2, <2>3
<1> HIDE DEF more
<1>12. /\ stream' \in Wholes /\ Tiles(stream', base) /\ stream'.wininfo = stream.wininfo
       /\ stream'.length = stream.length + h.size /\ End(stream'.inst, Len(stream'.inst)) = e + h.size
  <2>1. /\ more \in Wholes /\ Tiles(more, base) /\ more.wininfo = stream.wininfo /\ more.length = stream.length
        /\ End(more.inst, Len(more.inst)) = e + h.size
    BY <1>11 DEF Follows, e
  <2>2. /\ Longer(more, h.size) \in Wholes /\ Tiles(Longer(more, h.size), base)
        /\ Longer(more, h.size).inst = more.inst /\ Longer(more, h.size).wininfo = more.wininfo
        /\ Longer(more, h.size).length = more.length + h.size
    BY ONLY <1>5, <2>1, LongerFacts
  <2> QED
    BY ONLY <1>10, <2>1, <2>2
<1>13. Types'
  BY <1>0, <1>1, <1>2, <1>12 DEF Types
<1>14. Place'
  <2>1. stream'.length = start + Sizes(inst, input_i + 1)
    BY <1>2, <1>5, <1>7, <1>8, <1>12
  <2>2. input_i + 1 <= Len(inst)
    BY <1>4
  <2>3. file > 1 => merge_input.length = BaseLength(chain, file)
    BY <1>1 DEF Place
  <2> QED
    BY <1>0, <1>1, <1>2, <1>12, <2>1, <2>2, <2>3 DEF Place, start, inst, win
<1>15. Tiled' /\ Nested' /\ Merged'
  <2>1. todo = <<>> /\ todo' = <<>>
    BY <1>0, <1>1 DEF Types
  <2>2. Complete(stream')
    BY <1>9, <1>12 DEF Complete
  <2>3. Nested' /\ Merged'
    BY <1>0, <1>1, <2>1 DEF Nested, Merged
  <2>4. Tiled'
    BY <1>0, <1>1, <1>12, <2>1, <2>2 DEF Tiled, Complete, base
  <2> QED
    BY <2>3, <2>4
<1> QED
  BY <1>13, <1>14, <1>15 DEF Good

\* The window is read: the delta is a window longer.
LEMMA WindowIsReadGood ==
  ASSUME Good, Fits(chain), WindowIsRead
  PROVE  Good'
<1> USE DEF WindowIsRead
<1> DEFINE inst == chain[file][window].inst
<1>1. Types /\ Place /\ Tiled /\ Nested /\ Merged /\ pc = "append" /\ pc' = "read"
  BY DEF Good
<1>2. /\ window \in 1..Len(chain[file]) /\ Len(stream.wininfo) = window
      /\ stream.length = Total(chain[file], window - 1) + Sizes(inst, Len(inst))
  BY <1>1 DEF Place, Types
<1>3. stream.length = Total(chain[file], window)
  <2>1. chain[file] \in Seq(Window)
    BY <1>1, ChainFacts
  <2>2. window - 1 \in 0..Len(chain[file]) /\ window - 1 < Len(chain[file]) /\ (window - 1) + 1 = window
    BY <1>2, <2>1
  <2> HIDE DEF inst
  <2>3. Total(chain[file], window) = Total(chain[file], window - 1) + Sizes(inst, Len(inst))
    BY <2>1, <2>2, TotalSteps DEF inst
  <2> QED
    BY <1>2, <2>3
<1>4. Place'
  BY <1>1, <1>2, <1>3 DEF Place
<1>5. Types'
  BY <1>1 DEF Types
<1>6. Tiled' /\ Nested' /\ Merged'
  BY <1>1 DEF Types, Tiled, Complete, Nested, Merged
<1> QED
  BY <1>4, <1>5, <1>6 DEF Good

\* The first argument is the text below the next delta.
LEMMA FirstArgumentGood ==
  ASSUME Good, Fits(chain), FirstArgument
  PROVE  Good'
<1> USE DEF FirstArgument
<1>1. Types /\ Place /\ Tiled /\ Nested /\ Merged /\ todo = <<>> /\ todo' = <<>> /\ pc = "read" /\ pc' = "read"
  BY DEF Good, Types
<1>2. \A base : EmptyWhole \in Wholes /\ Tiles(EmptyWhole, base) /\ Complete(EmptyWhole)
                /\ EmptyWhole.inst = <<>> /\ EmptyWhole.wininfo = <<>> /\ EmptyWhole.length = 0 /\ EmptyWhole.ret = 0
  <2>1. <<>> \in Seq(Infos)
    OBVIOUS
  <2> QED
    BY <2>1, EmptyFacts
<1>3. chain \in Seq(Seq(Window)) /\ 2 \in 1..Len(chain) /\ chain[2] \in Seq(Window)
  <2>1. chain \in Seq(Seq(Window)) /\ 2 \in 1..Len(chain)
    BY <1>1, ChainFacts
  <2> QED
    BY <2>1
<1>4. Types'
  <2>1. 0 \in 0..Len(chain[2])
    BY <1>3
  <2> QED
    BY <1>1, <1>2, <1>3, <2>1 DEF Types
<1>5. Place'
  <2>1. Total(chain[2], 0) = 0
    <3>1. 0 \in 0..Len(chain[2])
      BY <1>3
    <3> QED
      BY <1>3, <3>1, TotalSteps
  <2>2. stream.length = BaseLength(chain, 2)
    <3>1. BaseLength(chain, 1 + 1) = Total(chain[1], Len(chain[1]))
      BY <1>1, ChainFacts
    <3> QED
      BY <1>1, <3>1 DEF Place
  <2> QED
    BY <1>1, <1>2, <2>1, <2>2 DEF Place
<1>6. Nested' /\ Merged'
  BY <1>1 DEF Nested, Merged
<1>7. Tiled'
  <2>1. BaseLength(chain, 1) = Len(Source)
    BY <1>1, ChainFacts
  <2>2. Tiles(stream, Len(Source)) /\ Complete(stream)
    BY <1>1, <2>1 DEF Tiled
  <2> QED
    BY <1>1, <1>2, <2>2 DEF Tiled, Complete
<1> QED
  BY <1>4, <1>5, <1>6, <1>7 DEF Good

\* The merge begins with the windows of the delta that was read.
LEMMA BeginMergeGood ==
  ASSUME Good, Fits(chain), BeginMerge
  PROVE  Good'
<1> USE DEF BeginMerge
<1>1. /\ Types /\ Place /\ Tiled /\ Nested /\ Merged /\ todo = <<>> /\ todo' = <<>> /\ pc = "read" /\ pc' = "merge"
      /\ stream \in Wholes
  BY DEF Good, Types
<1>2. \A base : tmp' \in Wholes /\ Tiles(tmp', base) /\ Complete(tmp')
                /\ tmp'.inst = <<>> /\ tmp'.wininfo = stream.wininfo /\ tmp'.length = 0 /\ tmp'.ret = 0
  BY <1>1, WholeFacts, EmptyFacts
<1>3. Types'
  BY <1>1, <1>2 DEF Types
<1>4. Place'
  BY <1>1 DEF Place
<1>5. Nested'
  BY <1>1 DEF Nested
<1>6. Merged'
  BY <1>1, <1>2, WholeFacts DEF Merged, End
<1>7. Tiled'
  BY <1>1, <1>2 DEF Tiled, Complete
<1> QED
  BY <1>3, <1>4, <1>5, <1>6, <1>7 DEF Good

\* What is known while a delta is merged, between calls.
LEMMA MergingFacts ==
  ASSUME Good, Fits(chain), pc = "merge"
  PROVE  /\ Types /\ Place /\ Nested /\ Merged /\ Tiled
         /\ stream \in Wholes /\ merge_input \in Wholes /\ tmp \in Wholes
         /\ merge_input.length = BaseLength(chain, file) /\ tmp.wininfo = stream.wininfo
         /\ Contiguous(merge_input.inst) /\ Contiguous(stream.inst)
         /\ Complete(merge_input) /\ Complete(stream) /\ Tiles(tmp, Len(Source)) /\ tmp.ret = 0
         /\ input_i \in Nat /\ input_i <= Len(stream.inst) /\ tmp.length = End(stream.inst, input_i)
         /\ todo = <<>> => Complete(tmp)
         /\ Len(Source) \in Nat
<1>1. Types /\ Place /\ Nested /\ Merged /\ Tiled
  BY DEF Good
<1>2. Len(Source) \in Nat
  BY <1>1, ChainFacts
<1> QED
  BY <1>1, <1>2, TilesContiguous DEF Types, Place, Merged, Tiled

\* The instruction that is merged next begins where the merged delta ends.
LEMMA NextInstruction ==
  ASSUME Good, Fits(chain), pc = "merge", input_i < Len(stream.inst)
  PROVE  LET iinst == stream.inst[input_i + 1]
         IN  /\ input_i + 1 \in 1..Len(stream.inst)
             /\ iinst \in Winsts /\ iinst.position = End(stream.inst, input_i) /\ iinst.size > 0
             /\ Fitting(iinst, merge_input.length, Len(stream.adds), stream.wininfo)
             /\ End(stream.inst, input_i + 1) = iinst.position + iinst.size
             /\ tmp.length = iinst.position
<1>1. /\ stream \in Wholes /\ input_i \in Nat /\ tmp.length = End(stream.inst, input_i)
      /\ merge_input.length = BaseLength(chain, file) /\ Tiles(stream, BaseLength(chain, file))
  BY MergingFacts DEF Tiled
<1>2. input_i + 1 \in 1..Len(stream.inst) /\ (input_i + 1) - 1 = input_i /\ input_i + 1 # 0
  BY <1>1, WholeFacts
<1>3. stream.inst[input_i + 1] \in Winsts
  BY <1>1, <1>2, WholeFacts
<1>4. /\ stream.inst[input_i + 1].position = End(stream.inst, input_i)
      /\ Fitting(stream.inst[input_i + 1], merge_input.length, Len(stream.adds), stream.wininfo)
  BY <1>1, <1>2, TilesMeans
<1>5. End(stream.inst, input_i + 1) = stream.inst[input_i + 1].position + stream.inst[input_i + 1].size
  BY <1>2 DEF End
<1> QED
  BY <1>1, <1>2, <1>3, <1>4, <1>5 DEF Fitting

\* An instruction that is taken over as it is.
LEMMA MergeInstructionGood ==
  ASSUME Good, Fits(chain), MergeInstruction
  PROVE  Good'
<1> USE DEF MergeInstruction
<1> DEFINE iinst == stream.inst[input_i + 1]
           base == Len(Source)
           e == End(tmp.inst, Len(tmp.inst))
           more == IF iinst.type # "CPY"
                   THEN WithBytes(tmp, iinst.type, iinst.size, tmp.length, Bytes(stream, iinst, 0, iinst.size))
                   ELSE [tmp EXCEPT !.inst = Append(@, iinst)]
<1>1. /\ Types /\ Place /\ Tiled /\ Nested /\ Merged /\ pc = "merge" /\ pc' = "merge" /\ todo = <<>> /\ todo' = <<>>
      /\ stream \in Wholes /\ tmp \in Wholes /\ Tiles(tmp, base) /\ tmp.length = e /\ tmp.wininfo = stream.wininfo
      /\ input_i \in Nat /\ input_i < Len(stream.inst)
  BY MergingFacts DEF Complete
<1>2. /\ iinst \in Winsts /\ iinst.position = e /\ iinst.size > 0 /\ iinst.mode # "SOURCE"
      /\ Fitting(iinst, merge_input.length, Len(stream.adds), stream.wininfo)
      /\ End(stream.inst, input_i + 1) = e + iinst.size
      /\ input_i + 1 \in 1..Len(stream.inst)
  BY <1>1, NextInstruction
<1>3. tmp' = Longer(more, iinst.size)
  BY DEF MergeInst
<1> HIDE DEF iinst, base, e
<1>4. iinst.size \in Nat /\ iinst.type \in {"ADD", "RUN", "CPY"} /\ (iinst.type = "CPY" => iinst.mode = "HERE")
  BY <1>2 DEF Winsts
<1>5. Follows(more, tmp, base, iinst.size)
  <2>1. CASE iinst.type # "CPY"
    <3> DEFINE bytes == Bytes(stream, iinst, 0, iinst.size)
    <3>1. iinst.addr + (IF iinst.type = "RUN" THEN 1 ELSE iinst.size) <= Len(stream.adds)
      BY <1>2, <2>1 DEF Fitting
    <3>2. 0 \in Nat /\ 0 + iinst.size <= iinst.size
      BY <1>4
    <3>3. bytes \in Seq(Byte) /\ Len(bytes) = IF iinst.type = "RUN" THEN 1 ELSE iinst.size
      BY <1>1, <1>2, <1>4, <2>1, <3>1, <3>2, BytesAreThere
    <3>4. more = WithBytes(tmp, iinst.type, iinst.size, e, bytes)
      BY <1>1, <2>1
    <3> HIDE DEF bytes
    <3>5. iinst.type \in {"ADD", "RUN"}
      BY <1>4, <2>1
    <3>6. Follows(WithBytes(tmp, iinst.type, iinst.size, e, bytes), tmp, base, iinst.size)
      BY <1>1, <1>2, <1>4, <3>3, <3>5, WithBytesFollows DEF e
    <3> QED
      BY <3>4, <3>6
  <2>2. CASE iinst.type = "CPY"
    <3>1. Fitting(iinst, base, Len(tmp.adds), tmp.wininfo)
      BY <1>1, <1>2, <1>4, <2>2 DEF Fitting
    <3>2. Follows([tmp EXCEPT !.inst = Append(@, iinst)], tmp, base, iinst.size)
      BY <1>1, <1>2, <3>1, CopyFollows DEF e
    <3> QED
      BY <2>2, <3>2
  <2> QED
    BY <2>1, <2>2
<1> HIDE DEF more
<1>6. /\ tmp' \in Wholes /\ Tiles(tmp', base) /\ tmp'.wininfo = tmp.wininfo /\ tmp'.ret = tmp.ret
      /\ tmp'.length = tmp.length + iinst.size /\ End(tmp'.inst, Len(tmp'.inst)) = e + iinst.size
  <2>1. /\ more \in Wholes /\ Tiles(more, base) /\ more.wininfo = tmp.wininfo /\ more.length = tmp.length
        /\ more.ret = tmp.ret /\ End(more.inst, Len(more.inst)) = e + iinst.size
    BY <1>5 DEF Follows, e
  <2>2. /\ Longer(more, iinst.size) \in Wholes /\ Tiles(Longer(more, iinst.size), base)
        /\ Longer(more, iinst.size).inst = more.inst /\ Longer(more, iinst.size).wininfo = more.wininfo
        /\ Longer(more, iinst.size).ret = more.ret
        /\ Longer(more, iinst.size).length = more.length + iinst.size
    BY ONLY <1>4, <2>1, LongerFacts
  <2> QED
    BY ONLY <1>3, <2>1, <2>2
<1>7. Types'
  BY <1>1, <1>6 DEF Types
<1>8. Place' /\ Nested'
  BY <1>1 DEF Place, Nested
<1>9. Merged'
  BY <1>1, <1>2, <1>6 DEF Merged
<1>10. Tiled'
  BY <1>1, <1>6 DEF Tiled, Complete, base
<1> QED
  BY <1>7, <1>8, <1>9, <1>10 DEF Good

\* A call of xd3_merge_source_copy whose copy is in the text finds it.
LEMMA CallFinds ==
  ASSUME Good, Fits(chain), pc = "merge", NEW addr \in Nat, NEW size \in Nat, NEW position \in Nat, size > 0,
         addr + size <= merge_input.length
  PROVE  LET n == MergeFindPosition(merge_input, addr)
         IN  n # 0 /\ Call(addr, size, position, n) \in Calls /\ Grounded(merge_input, Call(addr, size, position, n))
<1> DEFINE n == MergeFindPosition(merge_input, addr)
<1>1. merge_input \in Wholes /\ Contiguous(merge_input.inst) /\ Complete(merge_input)
  BY MergingFacts
<1>2. merge_input.inst \in Seq(Winsts) /\ merge_input.length \in Nat /\ addr < merge_input.length
  BY <1>1, WholeFacts
<1>3. Makes(merge_input.inst, n, addr)
  BY <1>1, <1>2, PositionIsFound
<1> HIDE DEF n
<1>4. n \in Nat /\ n # 0
  BY <1>2, <1>3 DEF Makes
<1>5. Call(addr, size, position, n) \in Calls /\ Grounded(merge_input, Call(addr, size, position, n))
  BY <1>3, <1>4 DEF Call, Calls, Grounded
<1> QED
  BY <1>4, <1>5 DEF n

\* The outermost call begins where the merged delta ends.
LEMMA SourceCopyGood ==
  ASSUME Good, Fits(chain), SourceCopy
  PROVE  Good'
<1> USE DEF SourceCopy
<1> DEFINE iinst == stream.inst[input_i + 1]
           n == MergeFindPosition(merge_input, iinst.addr)
           call == Call(iinst.addr, iinst.size, iinst.position, n)
<1>1. /\ Types /\ Place /\ Tiled /\ Nested /\ Merged /\ pc = "merge" /\ pc' = "merge" /\ todo = <<>>
      /\ tmp.length = End(tmp.inst, Len(tmp.inst))
      /\ input_i \in Nat /\ input_i < Len(stream.inst)
  BY MergingFacts DEF Complete
<1>2. /\ iinst \in Winsts /\ iinst.position = tmp.length /\ iinst.size > 0 /\ iinst.mode = "SOURCE"
      /\ Fitting(iinst, merge_input.length, Len(stream.adds), stream.wininfo)
      /\ End(stream.inst, input_i + 1) = iinst.position + iinst.size
  BY <1>1, NextInstruction
<1>3. MergeSourceCopy(<<>>, iinst.addr, iinst.size, iinst.position)
  OBVIOUS
<1> HIDE DEF iinst
<1>4. iinst.addr \in Nat /\ iinst.size \in Nat /\ iinst.position \in Nat /\ iinst.addr + iinst.size <= merge_input.length
  BY <1>2 DEF Winsts, Fitting
<1>5. n # 0 /\ call \in Calls /\ Grounded(merge_input, call)
  BY <1>1, <1>2, <1>4, CallFinds
<1>6. tmp' = tmp /\ todo' = Append(<<>>, call)
  BY <1>3, <1>5 DEF MergeSourceCopy
<1>7. call.position = iinst.position /\ call.size = iinst.size
  BY DEF Call
<1> HIDE DEF call, n
<1>8. todo' \in Seq(Calls) /\ Len(todo') = 1 /\ todo'[1] = call /\ todo' # <<>>
  BY <1>5, <1>6
<1>9. Types'
  BY <1>1, <1>6, <1>8 DEF Types
<1>10. Place' /\ Merged'
  BY <1>1, <1>6 DEF Place, Merged
<1>11. Nested'
  BY <1>1, <1>2, <1>5, <1>6, <1>7, <1>8 DEF Nested, Grounded
<1>12. Tiled'
  BY <1>1, <1>6, <1>8 DEF Tiled, Complete
<1> QED
  BY <1>9, <1>10, <1>11, <1>12 DEF Good

\* No instruction reaches beyond the end.
LEMMA EndIsLast ==
  ASSUME NEW inst \in Seq(Winsts), Contiguous(inst), NEW k \in 1..Len(inst)
  PROVE  inst[k].position + inst[k].size <= End(inst, Len(inst))
<1>1. Len(inst) \in 1..Len(inst) /\ Len(inst) # 0
  OBVIOUS
<1>2. End(inst, Len(inst)) = inst[Len(inst)].position + inst[Len(inst)].size
  BY <1>1 DEF End
<1>3. CASE k = Len(inst)
  BY <1>2, <1>3, WinstFacts
<1>4. CASE k # Len(inst)
  <2>1. k < Len(inst)
    BY <1>1, <1>4
  <2>2. inst[k].position + inst[k].size <= inst[Len(inst)].position
    BY <1>1, <2>1, InOrder
  <2>3. /\ inst[k].position \in Nat /\ inst[k].size \in Nat
        /\ inst[Len(inst)].position \in Nat /\ inst[Len(inst)].size \in Nat
    BY <1>1, WinstFacts
  <2>4. inst[k].position + inst[k].size <= inst[Len(inst)].position + inst[Len(inst)].size
    BY ONLY <2>2, <2>3
  <2> QED
    BY <1>2, <2>4
<1> QED
  BY <1>3, <1>4

\* The instruction a call is at, and what it takes of it.
Round(iinst, sinst, offset, take, moved) ==
  /\ offset = iinst.addr - sinst.position
  /\ take = IF iinst.size < sinst.size - offset THEN iinst.size ELSE sinst.size - offset
  /\ moved = Call(iinst.addr + take, iinst.size - take, iinst.position + take, iinst.sinst_num + 1)

\* A round takes bytes that are there, at least one; the call goes on at the next instruction.
LEMMA RoundFacts ==
  ASSUME Good, Fits(chain), pc = "merge", NEW iinst \in Calls, Grounded(merge_input, iinst), iinst.size > 0,
         NEW sinst, sinst = merge_input.inst[iinst.sinst_num],
         NEW offset, NEW take, NEW moved, Round(iinst, sinst, offset, take, moved)
  PROVE  /\ sinst \in Winsts /\ Fitting(sinst, Len(Source), Len(merge_input.adds), merge_input.wininfo)
         /\ offset \in Nat /\ take \in Nat /\ take > 0 /\ take <= iinst.size /\ offset + take <= sinst.size
         /\ sinst.position + sinst.size <= merge_input.length
         /\ moved \in Calls /\ Grounded(merge_input, moved)
<1> DEFINE inst == merge_input.inst
           n == iinst.sinst_num
<1>1. /\ merge_input \in Wholes /\ inst \in Seq(Winsts) /\ Contiguous(inst) /\ Complete(merge_input)
      /\ Tiles(merge_input, Len(Source)) /\ merge_input.length \in Nat
  <2>1. merge_input \in Wholes /\ Contiguous(inst) /\ Complete(merge_input) /\ Tiles(merge_input, Len(Source))
    BY MergingFacts DEF Tiled
  <2> QED
    BY <2>1, WholeFacts
<1>2. /\ iinst.addr \in Nat /\ iinst.size \in Nat /\ iinst.position \in Nat /\ n \in Nat
      /\ iinst.addr + iinst.size <= merge_input.length
      /\ n \in 1..Len(inst) /\ sinst.position <= iinst.addr /\ iinst.addr < sinst.position + sinst.size
  BY DEF Calls, Grounded, Makes
<1>3. /\ sinst \in Winsts /\ sinst.position \in Nat /\ sinst.size \in Nat
      /\ Fitting(sinst, Len(Source), Len(merge_input.adds), merge_input.wininfo)
      /\ sinst.position + sinst.size <= merge_input.length
  BY <1>1, <1>2, WinstFacts, TilesMeans, EndIsLast DEF Complete
<1>4. /\ offset \in Nat /\ take \in Nat /\ take > 0 /\ take <= iinst.size /\ offset + take <= sinst.size
      /\ take = iinst.size \/ iinst.addr + take = sinst.position + sinst.size
  <2>1. /\ offset = iinst.addr - sinst.position
        /\ take = IF iinst.size < sinst.size - offset THEN iinst.size ELSE sinst.size - offset
    BY DEF Round
  <2>2. iinst.size > 0
    OBVIOUS
  <2>3. /\ iinst.addr \in Nat /\ iinst.size \in Nat /\ sinst.position \in Nat /\ sinst.size \in Nat
        /\ sinst.position <= iinst.addr /\ iinst.addr < sinst.position + sinst.size
    BY <1>2, <1>3
  <2> QED
    BY ONLY <2>1, <2>2, <2>3
<1>5. moved = Call(iinst.addr + take, iinst.size - take, iinst.position + take, n + 1)
  BY DEF Round
<1> HIDE DEF inst, n
<1>6. /\ moved.addr = iinst.addr + take /\ moved.size = iinst.size - take /\ moved.position = iinst.position + take
      /\ moved.sinst_num = n + 1
  BY <1>5 DEF Call
<1>7. /\ iinst.addr + take \in Nat /\ iinst.size - take \in Nat /\ iinst.position + take \in Nat
      /\ (iinst.addr + take) + (iinst.size - take) <= merge_input.length
      /\ (iinst.position + take) + (iinst.size - take) = iinst.position + iinst.size
      /\ iinst.size - take > 0 => take # iinst.size /\ iinst.addr + take < merge_input.length
  <2>1. /\ iinst.addr \in Nat /\ iinst.size \in Nat /\ iinst.position \in Nat /\ merge_input.length \in Nat
        /\ iinst.addr + iinst.size <= merge_input.length
    BY <1>1, <1>2
  <2>2. take \in Nat /\ take <= iinst.size
    BY <1>4
  <2> QED
    BY ONLY <2>1, <2>2
<1>8. moved \in Calls
  BY <1>2, <1>5, <1>7 DEF Call, Calls
<1>9. moved.size > 0 => Makes(inst, n + 1, moved.addr)
  <2>1. SUFFICES ASSUME moved.size > 0
                 PROVE  Makes(inst, n + 1, moved.addr)
    OBVIOUS
  <2>2. moved.addr = sinst.position + sinst.size /\ moved.addr < merge_input.length
    BY <1>4, <1>6, <1>7, <2>1
  <2>3. sinst = inst[n] /\ End(inst, n) = sinst.position + sinst.size
    BY <1>2 DEF End, inst, n
  <2>4. n # Len(inst)
    BY <1>1, <2>2, <2>3, <1>3 DEF Complete, inst
  <2>5. n + 1 \in 1..Len(inst) /\ (n + 1) - 1 = n
    BY <1>1, <1>2, <2>4
  <2>6. inst[n + 1].position = moved.addr /\ inst[n + 1].size > 0 /\ inst[n + 1].size \in Nat
    BY <1>1, <2>2, <2>3, <2>5, WinstFacts DEF Contiguous
  <2>7. moved.addr \in Nat
    BY <1>6, <1>7
  <2> QED
    BY <2>5, <2>6, <2>7 DEF Makes
<1>10. Grounded(merge_input, moved)
  <2>1. moved.addr + moved.size <= merge_input.length
    BY <1>6, <1>7
  <2>2. moved.size > 0 => Makes(merge_input.inst, moved.sinst_num, moved.addr)
    BY <1>6, <1>9 DEF inst
  <2> QED
    BY <2>1, <2>2 DEF Grounded
<1> QED
  BY <1>3, <1>4, <1>6, <1>7, <1>8, <1>10

\* A piece that is copied in full.
LEMMA PieceFollows ==
  ASSUME NEW w \in Wholes, NEW source \in Wholes, NEW base, Tiles(w, base), NEW sinst \in Winsts,
         Fitting(sinst, base, Len(source.adds), source.wininfo), sinst.mode # "HERE", base \in Nat,
         NEW offset \in Nat, NEW take \in Nat, take > 0, offset + take <= sinst.size
  PROVE  Follows(Piece(w, source, sinst, offset, take, End(w.inst, Len(w.inst))), w, base, take)
<1> DEFINE e == End(w.inst, Len(w.inst))
<1>1. sinst.type \in {"ADD", "RUN", "CPY"} /\ sinst.addr \in Nat /\ sinst.size \in Nat /\ (sinst.type = "CPY" => sinst.mode = "SOURCE")
  BY DEF Winsts
<1>2. CASE sinst.type # "CPY"
  <2> DEFINE bytes == Bytes(source, sinst, offset, take)
  <2>1. sinst.addr + (IF sinst.type = "RUN" THEN 1 ELSE sinst.size) <= Len(source.adds)
    BY <1>2 DEF Fitting
  <2>2. bytes \in Seq(Byte) /\ Len(bytes) = IF sinst.type = "RUN" THEN 1 ELSE take
    BY <1>2, <2>1, BytesAreThere
  <2>3. Piece(w, source, sinst, offset, take, e) = WithBytes(w, sinst.type, take, e, bytes)
    BY <1>2 DEF Piece
  <2>4. sinst.type \in {"ADD", "RUN"}
    BY <1>1, <1>2
  <2> HIDE DEF bytes
  <2>5. Follows(WithBytes(w, sinst.type, take, e, bytes), w, base, take)
    BY <2>2, <2>4, WithBytesFollows
  <2> QED
    BY <2>3, <2>5
<1>3. CASE sinst.type = "CPY"
  <2> DEFINE a == sinst.addr + offset
             mode == sinst.mode
  <2>1. a \in Nat /\ a + take <= base /\ mode \in {"SOURCE", "HERE"} /\ mode # "HERE"
    <3>1. mode = "SOURCE" /\ sinst.addr + sinst.size <= base
      BY <1>1, <1>3 DEF Fitting
    <3>2. /\ sinst.addr \in Nat /\ sinst.size \in Nat /\ base \in Nat
          /\ offset \in Nat /\ take \in Nat /\ offset + take <= sinst.size
      BY <1>1
    <3>3. sinst.addr + sinst.size <= base
      BY <3>1
    <3>4. sinst.addr + offset \in Nat /\ (sinst.addr + offset) + take <= base
      BY ONLY <3>2, <3>3
    <3> QED
      BY <3>1, <3>4
  <2>2. Piece(w, source, sinst, offset, take, e) = WithCopy(w, mode, take, a, e)
    BY <1>3 DEF Piece
  <2> HIDE DEF a, mode
  <2>3. Follows(WithCopy(w, mode, take, a, e), w, base, take)
    BY <2>1, WithCopyFollows
  <2> QED
    BY <2>2, <2>3
<1> QED
  BY <1>2, <1>3

\* A piece is written and the call moves on, or another call begins where it would have written.
LEMMA SourcePieceGood ==
  ASSUME Good, Fits(chain), SourcePiece
  PROVE  Good'
<1> DEFINE top == Len(todo)
           iinst == todo[top]
           sinst == merge_input.inst[iinst.sinst_num]
           offset == iinst.addr - sinst.position
           left == sinst.size - offset
           take == IF iinst.size < left THEN iinst.size ELSE left
           moved == Call(iinst.addr + take, iinst.size - take, iinst.position + take, iinst.sinst_num + 1)
           rest == [todo EXCEPT ![top] = moved]
           base == Len(Source)
           e == End(tmp.inst, Len(tmp.inst))
<1>1. /\ pc = "merge" /\ todo # <<>> /\ todo[top].size > 0
      /\ UNCHANGED <<chain, file, window, stream, merge_input, input_i, pc>>
      /\ IF sinst.mode # "HERE"
         THEN tmp' = Piece(tmp, merge_input, sinst, offset, take, iinst.position) /\ todo' = rest
         ELSE MergeSourceCopy(rest, sinst.addr + offset, take, iinst.position)
  BY DEF SourcePiece
<1>2. Round(iinst, sinst, offset, take, moved)
  BY DEF Round
<1> HIDE DEF left, take, moved, offset, sinst, rest
<1>3. /\ Types /\ Place /\ Tiled /\ Nested /\ Merged /\ pc = "merge" /\ pc' = "merge" /\ todo # <<>>
      /\ todo \in Seq(Calls) /\ tmp \in Wholes /\ merge_input \in Wholes /\ Tiles(tmp, base) /\ base \in Nat
  BY <1>1, MergingFacts DEF Types
<1>4. top = Len(todo) /\ top \in 1..Len(todo) /\ top \in Nat /\ 1 <= top
  BY <1>3
<1>5. iinst \in Calls /\ Grounded(merge_input, iinst) /\ iinst.size > 0 /\ iinst.position = e
  <2>1. iinst \in Calls
    BY <1>3, <1>4
  <2> QED
    BY <1>1, <1>3, <1>4, <2>1 DEF Nested
<1> HIDE DEF top
<1>6. /\ sinst \in Winsts /\ Fitting(sinst, base, Len(merge_input.adds), merge_input.wininfo)
      /\ offset \in Nat /\ take \in Nat /\ take > 0 /\ take <= iinst.size /\ offset + take <= sinst.size
      /\ sinst.position + sinst.size <= merge_input.length
      /\ moved \in Calls /\ Grounded(merge_input, moved)
      /\ moved.position = iinst.position + take /\ moved.position + moved.size = iinst.position + iinst.size
  <2>1. Good /\ Fits(chain) /\ pc = "merge" /\ base = Len(Source) /\ sinst = merge_input.inst[iinst.sinst_num]
    BY <1>3 DEF sinst
  <2>2. iinst \in Calls /\ Grounded(merge_input, iinst) /\ iinst.size > 0
    BY <1>5
  <2> HIDE DEF iinst, base, top, rest, e
  <2>3. /\ sinst \in Winsts /\ Fitting(sinst, Len(Source), Len(merge_input.adds), merge_input.wininfo)
        /\ offset \in Nat /\ take \in Nat /\ take > 0 /\ take <= iinst.size /\ offset + take <= sinst.size
        /\ sinst.position + sinst.size <= merge_input.length
        /\ moved \in Calls /\ Grounded(merge_input, moved)
    BY ONLY <1>2, <2>1, <2>2, RoundFacts
  <2>4. moved.position = iinst.position + take /\ moved.size = iinst.size - take
    BY <1>2 DEF Round, Call
  <2>5. iinst.position \in Nat /\ iinst.size \in Nat /\ take \in Nat
    BY <2>2, <2>3 DEF Calls
  <2>6. moved.position + moved.size = iinst.position + iinst.size
    BY ONLY <2>4, <2>5
  <2> QED
    BY <2>1, <2>3, <2>4, <2>6
<1>7. todo[top] = iinst
  OBVIOUS
<1> HIDE DEF iinst
<1>8. /\ rest \in Seq(Calls) /\ Len(rest) = top /\ rest[top] = moved
      /\ \A j \in 1..top : j # top => rest[j] = todo[j]
  <2>1. todo \in Seq(Calls) /\ moved \in Calls /\ rest = [todo EXCEPT ![top] = moved]
    BY <1>3, <1>6 DEF rest
  <2> QED
    BY ONLY <1>4, <2>1
<1>9. /\ \A j \in 1..top : Grounded(merge_input, rest[j])
      /\ \A j \in 1..(top - 1) : j + 1 # top => rest[j].position = rest[j + 1].position + rest[j + 1].size
      /\ top > 1 => rest[top - 1].position = moved.position + moved.size
      /\ rest[1].position + rest[1].size = End(stream.inst, input_i + 1)
      /\ input_i < Len(stream.inst)
  <2>1. /\ \A j \in 1..top : Grounded(merge_input, todo[j])
        /\ \A j \in 1..(top - 1) : todo[j].position = todo[j + 1].position + todo[j + 1].size
        /\ todo[1].position + todo[1].size = End(stream.inst, input_i + 1)
        /\ input_i < Len(stream.inst)
    BY <1>3, <1>4 DEF Nested
  <2>2. ASSUME NEW j \in 1..top
        PROVE  Grounded(merge_input, rest[j])
    BY <1>6, <1>8, <2>1
  <2>3. ASSUME NEW j \in 1..(top - 1), j + 1 # top
        PROVE  rest[j].position = rest[j + 1].position + rest[j + 1].size
    <3>1. j \in 1..top /\ j + 1 \in 1..top /\ j # top
      BY <1>4
    <3> QED
      BY <1>8, <2>1, <2>3, <3>1
  <2>4. ASSUME top > 1
        PROVE  rest[top - 1].position = moved.position + moved.size
    <3>1. top - 1 \in 1..(top - 1) /\ top - 1 \in 1..top /\ top - 1 # top /\ (top - 1) + 1 = top
      BY <1>4, <2>4
    <3>2. todo[top - 1].position = iinst.position + iinst.size
      BY <1>7, <2>1, <3>1
    <3> QED
      BY <1>6, <1>8, <3>1, <3>2
  <2>5. rest[1].position + rest[1].size = End(stream.inst, input_i + 1)
    <3>1. CASE top = 1
      BY <1>6, <1>7, <1>8, <2>1, <3>1
    <3>2. CASE top # 1
      <4>1. 1 \in 1..top
        BY <1>4
      <4> QED
        BY <1>8, <2>1, <3>2, <4>1
    <3> QED
      BY <3>1, <3>2
  <2> QED
    BY <2>1, <2>2, <2>3, <2>4, <2>5
<1>10. CASE sinst.mode # "HERE"
  <2>1. tmp' = Piece(tmp, merge_input, sinst, offset, take, e) /\ todo' = rest
    BY <1>1, <1>5, <1>10
  <2>2. Follows(tmp', tmp, base, take)
    BY <1>3, <1>6, <1>10, <2>1, PieceFollows
  <2>3. /\ tmp' \in Wholes /\ Tiles(tmp', base) /\ tmp'.wininfo = tmp.wininfo /\ tmp'.length = tmp.length
        /\ tmp'.ret = tmp.ret /\ End(tmp'.inst, Len(tmp'.inst)) = e + take
    BY <2>2 DEF Follows
  <2>4. Len(todo') = top /\ todo' # <<>>
    <3>1. Len(todo') = top
      BY <1>8, <2>1
    <3> QED
      BY <1>4, <3>1
  <2>5. Types'
    BY <1>1, <1>3, <1>8, <2>1, <2>3 DEF Types
  <2>6. Place' /\ Merged'
    BY <1>1, <1>3, <2>3 DEF Place, Merged
  <2>7. Nested'
    <3>1. \A j \in 1..(top - 1) : rest[j].position = rest[j + 1].position + rest[j + 1].size
      <4>1. ASSUME NEW j \in 1..(top - 1), j + 1 = top
            PROVE  j = top - 1 /\ top > 1
        BY <1>4, <4>1
      <4> QED
        BY <1>8, <1>9, <4>1
    <3>2. merge_input' = merge_input
      BY <1>1
    <3>3. rest[top].position = End(tmp'.inst, Len(tmp'.inst))
      BY <1>5, <1>6, <1>8, <2>3
    <3>4. \A j \in 1..top : Grounded(merge_input', todo'[j])
      BY <1>9, <2>1, <3>2
    <3>5. \A j \in 1..(top - 1) : todo'[j].position = todo'[j + 1].position + todo'[j + 1].size
      BY <2>1, <3>1
    <3>6. /\ input_i' < Len(stream'.inst)
          /\ todo'[1].position + todo'[1].size = End(stream'.inst, input_i' + 1)
          /\ todo'[Len(todo')].position = End(tmp'.inst, Len(tmp'.inst))
      BY <1>1, <1>9, <2>1, <2>4, <3>3
    <3> QED
      BY <2>4, <3>4, <3>5, <3>6 DEF Nested
  <2>8. Tiled'
    BY <1>1, <1>3, <2>3, <2>4 DEF Tiled, Complete, base
  <2> QED
    BY <2>5, <2>6, <2>7, <2>8 DEF Good
<1>11. CASE sinst.mode = "HERE"
  <2> DEFINE a == sinst.addr + offset
             n == MergeFindPosition(merge_input, a)
             call == Call(a, take, e, n)
  <2>1. MergeSourceCopy(rest, a, take, e)
    BY <1>1, <1>5, <1>11
  <2>2. a \in Nat /\ a + take <= merge_input.length /\ e \in Nat
    <3>1. sinst.addr < sinst.position
      BY <1>6, <1>11 DEF Fitting
    <3>2. sinst.addr \in Nat /\ sinst.position \in Nat /\ sinst.size \in Nat /\ merge_input.length \in Nat
      BY <1>3, <1>6, WholeFacts DEF Winsts
    <3>3. e \in Nat
      BY <1>3, WholeFacts
    <3>4. /\ offset \in Nat /\ take \in Nat /\ offset + take <= sinst.size
          /\ sinst.position + sinst.size <= merge_input.length
      BY <1>6
    <3>5. sinst.addr + offset \in Nat /\ (sinst.addr + offset) + take <= merge_input.length
      BY ONLY <3>1, <3>2, <3>4
    <3> QED
      BY <3>3, <3>5
  <2> HIDE DEF a, e
  <2>3. n # 0 /\ call \in Calls /\ Grounded(merge_input, call)
    BY <1>1, <1>6, <2>2, CallFinds
  <2>4. tmp' = tmp /\ todo' = Append(rest, call)
    BY <2>1, <2>3 DEF MergeSourceCopy
  <2>5. call.position = e /\ call.size = take
    BY DEF Call
  <2> HIDE DEF call, n
  <2>6. /\ todo' \in Seq(Calls) /\ Len(todo') = top + 1 /\ todo'[top + 1] = call /\ todo' # <<>>
        /\ \A j \in 1..top : todo'[j] = rest[j]
    BY ONLY <1>4, <1>8, <2>3, <2>4
  <2>7. Types'
    BY <1>1, <1>3, <2>4, <2>6 DEF Types
  <2>8. Place' /\ Merged'
    BY <1>1, <1>3, <2>4 DEF Place, Merged
  <2>9. Nested'
    <3>1. merge_input' = merge_input
      BY <1>1
    <3>2. ASSUME NEW j \in 1..(top + 1)
          PROVE  Grounded(merge_input', todo'[j])
      <4>1. j \in 1..top \/ j = top + 1
        BY <1>4
      <4> QED
        BY <1>9, <2>3, <2>6, <3>1, <4>1
    <3>3. ASSUME NEW j \in 1..top
          PROVE  todo'[j].position = todo'[j + 1].position + todo'[j + 1].size
      <4>1. CASE j = top
        BY <1>5, <1>6, <1>8, <2>5, <2>6, <4>1
      <4>2. CASE j # top
        <5>1. j \in 1..(top - 1) /\ j + 1 \in 1..top
          BY <1>4, <4>2
        <5>2. j + 1 = top => j = top - 1 /\ top > 1
          BY <5>1
        <5> QED
          BY <1>8, <1>9, <2>6, <5>1, <5>2
      <4> QED
        BY <4>1, <4>2
    <3>4. 1 \in 1..top /\ (top + 1) - 1 = top
      BY <1>4
    <3>5. /\ input_i' < Len(stream'.inst)
          /\ todo'[1].position + todo'[1].size = End(stream'.inst, input_i' + 1)
          /\ todo'[Len(todo')].position = End(tmp'.inst, Len(tmp'.inst))
      BY <1>1, <1>9, <2>4, <2>5, <2>6, <3>4 DEF e
    <3> QED
      BY <2>6, <3>2, <3>3, <3>4, <3>5 DEF Nested
  <2>10. Tiled'
    BY <1>1, <1>3, <2>4, <2>6 DEF Tiled, Complete
  <2> QED
    BY <2>7, <2>8, <2>9, <2>10 DEF Good
<1> QED
  BY <1>10, <1>11

\* A call returns to where its caller writes next; the outermost has written all of the instruction.
LEMMA SourceReturnGood ==
  ASSUME Good, Fits(chain), SourceReturn
  PROVE  Good'
<1> USE DEF SourceReturn
<1> DEFINE top == Len(todo)
           base == Len(Source)
<1>1. /\ Types /\ Place /\ Tiled /\ Nested /\ Merged /\ pc = "merge" /\ pc' = "merge" /\ todo # <<>>
      /\ todo \in Seq(Calls) /\ tmp \in Wholes /\ Tiles(tmp, base)
      /\ tmp.length = End(stream.inst, input_i) /\ input_i \in Nat
  BY MergingFacts DEF Types
<1>2. top \in Nat /\ top \in 1..Len(todo) /\ 1 \in 1..Len(todo)
  BY <1>1
<1>3. /\ \A j \in 1..top : Grounded(merge_input, todo[j])
      /\ \A j \in 1..(top - 1) : todo[j].position = todo[j + 1].position + todo[j + 1].size
      /\ input_i < Len(stream.inst)
      /\ todo[1].position + todo[1].size = End(stream.inst, input_i + 1)
      /\ todo[top].position = End(tmp.inst, Len(tmp.inst)) /\ todo[top].size = 0 /\ todo[top].position \in Nat
  <2>1. todo[top] \in Calls
    BY <1>1, <1>2
  <2> QED
    BY <1>1, <2>1 DEF Nested, Calls
<1>4. /\ todo' \in Seq(Calls) /\ Len(todo') = top - 1
      /\ \A j \in 1..(top - 1) : todo'[j] = todo[j]
  <2>1. todo' = [j \in 1..(top - 1) |-> todo[j]]
    BY <1>1, <1>2
  <2>2. \A j \in 1..(top - 1) : todo[j] \in Calls
    BY <1>1, <1>2
  <2> DEFINE m == top - 1
             t == todo'
  <2>3. m \in Nat /\ t = [j \in 1..m |-> todo[j]] /\ \A j \in 1..m : todo[j] \in Calls
    BY <1>2, <2>1, <2>2
  <2> HIDE DEF m, t
  <2>4. t \in Seq(Calls) /\ Len(t) = m /\ \A j \in 1..m : t[j] = todo[j]
    BY ONLY <2>3
  <2> QED
    BY <2>4 DEF m, t
<1>5. merge_input' = merge_input
  OBVIOUS
<1> HIDE DEF top
<1>6. CASE top = 1
  <2> DEFINE iinst == stream.inst[input_i + 1]
  <2>1. /\ iinst \in Winsts /\ iinst.position = tmp.length
        /\ End(stream.inst, input_i + 1) = iinst.position + iinst.size
        /\ input_i + 1 \in 1..Len(stream.inst)
    BY <1>1, <1>3, NextInstruction
  <2>2. iinst.size \in Nat
    BY <2>1 DEF Winsts
  <2>3. tmp' = Longer(tmp, iinst.size) /\ input_i' = input_i + 1 /\ todo' = <<>>
    BY <1>4, <1>6 DEF top
  <2> HIDE DEF iinst
  <2>4. /\ tmp' \in Wholes /\ Tiles(tmp', base) /\ tmp'.inst = tmp.inst /\ tmp'.wininfo = tmp.wininfo
        /\ tmp'.ret = tmp.ret /\ tmp'.length = tmp.length + iinst.size
    BY <1>1, <2>2, <2>3, LongerFacts
  <2>5. Types'
    BY <1>1, <1>4, <2>3, <2>4 DEF Types
  <2>6. Place' /\ Nested'
    BY <1>1, <2>3 DEF Place, Nested
  <2>7. Merged'
    BY <1>1, <2>1, <2>3, <2>4 DEF Merged
  <2>8. Complete(tmp')
    BY <1>3, <1>6, <2>1, <2>4 DEF Complete
  <2>9. Tiled'
    BY <1>1, <2>4, <2>8 DEF Tiled, Complete, base
  <2> QED
    BY <2>5, <2>6, <2>7, <2>9 DEF Good
<1>7. CASE top # 1
  <2>1. tmp' = tmp /\ input_i' = input_i
    BY <1>7 DEF top
  <2>2. top - 1 \in 1..(top - 1) /\ (top - 1) + 1 = top /\ 1 \in 1..(top - 1) /\ top - 1 \in 1..top
    <3>1. top \in Nat /\ top >= 1 /\ top # 1
      BY <1>2, <1>7 DEF top
    <3> QED
      BY ONLY <3>1
  <2>3. todo' # <<>>
    BY <1>4, <2>2
  <2>4. Types'
    BY <1>1, <1>4, <2>1 DEF Types
  <2>5. Place' /\ Merged'
    BY <1>1, <2>1 DEF Place, Merged
  <2>6. Nested'
    <3>1. \A j \in 1..(top - 1) : Grounded(merge_input', todo'[j])
      <4>1. \A j \in 1..(top - 1) : j \in 1..top
        BY <1>2
      <4> QED
        BY <1>3, <1>4, <1>5, <4>1
    <3>2. ASSUME NEW j \in 1..((top - 1) - 1)
          PROVE  todo'[j].position = todo'[j + 1].position + todo'[j + 1].size
      <4>1. j \in 1..(top - 1) /\ j + 1 \in 1..(top - 1)
        BY <1>2
      <4> QED
        BY <1>3, <1>4, <4>1
    <3>3. todo'[1].position + todo'[1].size = End(stream'.inst, input_i' + 1)
      BY <1>3, <1>4, <2>1, <2>2
    <3>4. todo'[top - 1].position = End(tmp'.inst, Len(tmp'.inst))
      <4>1. todo[top - 1].position = todo[top].position + todo[top].size
        BY <1>3, <2>2
      <4>2. todo[top - 1].position = End(tmp.inst, Len(tmp.inst))
        BY <1>3, <4>1
      <4> QED
        BY <1>4, <2>1, <2>2, <4>2
    <3>5. input_i' < Len(stream'.inst)
      BY <1>3, <2>1
    <3> QED
      BY <1>4, <3>1, <3>2, <3>3, <3>4, <3>5 DEF Nested
  <2>7. Tiled'
    BY <1>1, <2>1, <2>3 DEF Tiled, Complete
  <2> QED
    BY <2>4, <2>5, <2>6, <2>7 DEF Good
<1> QED
  BY <1>6, <1>7

\* The merge is done: its result is as long as the text that the delta makes.
LEMMA EndMergeGood ==
  ASSUME Good, Fits(chain), EndMerge, pc' \in {"read", "append", "merge"}
  PROVE  Good'
<1> USE DEF EndMerge
<1>1. /\ Types /\ Place /\ Tiled /\ Nested /\ Merged /\ pc = "merge" /\ tmp.ret = 0 /\ todo = <<>> /\ todo' = <<>>
      /\ tmp \in Wholes /\ Tiles(tmp, Len(Source)) /\ Complete(tmp)
      /\ input_i = Len(stream.inst) /\ tmp.length = End(stream.inst, input_i)
  <2>1. pc = "merge"
    OBVIOUS
  <2> QED
    BY <2>1, MergingFacts
<1>2. /\ file < Len(chain) /\ pc' = "read" /\ merge_input' = tmp /\ stream' = EmptyWhole
      /\ file' = file + 1 /\ window' = 0 /\ tmp' = tmp /\ chain' = chain /\ input_i' = input_i
  BY <1>1
<1>3. \A base : EmptyWhole \in Wholes /\ Tiles(EmptyWhole, base) /\ Complete(EmptyWhole)
                /\ EmptyWhole.inst = <<>> /\ EmptyWhole.wininfo = <<>> /\ EmptyWhole.length = 0 /\ EmptyWhole.ret = 0
  <2>1. <<>> \in Seq(Infos)
    OBVIOUS
  <2> QED
    BY <2>1, EmptyFacts
<1>4. chain \in Seq(Seq(Window)) /\ file + 1 \in 1..Len(chain) /\ chain[file + 1] \in Seq(Window) /\ file + 1 > 1
  <2>1. chain \in Seq(Seq(Window)) /\ file + 1 \in 1..Len(chain) /\ file + 1 > 1
    BY <1>1, <1>2, ChainFacts DEF Types
  <2> QED
    BY <2>1
<1>5. tmp.length = BaseLength(chain, file + 1)
  <2>1. stream.length = Total(chain[file], window) /\ window = Len(chain[file]) /\ Complete(stream)
    BY <1>1 DEF Place, Tiled
  <2>2. BaseLength(chain, file + 1) = Total(chain[file], Len(chain[file]))
    BY <1>1, ChainFacts
  <2> QED
    BY <1>1, <2>1, <2>2 DEF Complete
<1>6. 0 \in 0..Len(chain[file + 1]) /\ Total(chain[file + 1], 0) = 0
  <2>1. 0 \in 0..Len(chain[file + 1])
    BY <1>4
  <2> QED
    BY <1>4, <2>1, TotalSteps
<1>7. Types'
  BY <1>1, <1>2, <1>3, <1>4, <1>6 DEF Types
<1>8. Place'
  BY <1>2, <1>3, <1>4, <1>5, <1>6 DEF Place
<1>9. Nested' /\ Merged'
  BY <1>1, <1>2 DEF Nested, Merged
<1>10. Tiled'
  BY <1>1, <1>2, <1>3 DEF Tiled, Complete
<1> QED
  BY <1>7, <1>8, <1>9, <1>10 DEF Good

-----------------------------------------------------------------------------
(* The first theorem. *)

\* The invariant holds at every step.
LEMMA Inductive ==
  Spec => []IInv
<1>1. Init => IInv
  BY InitGood DEF IInv, Good
<1>2. IInv /\ [Next]_vars => IInv'
  <2>1. SUFFICES ASSUME IInv, [Next]_vars, pc' \in {"read", "append", "merge"}, Fits(chain)'
                 PROVE  Good'
    BY DEF IInv, Good
  <2>2. chain' = chain /\ Fits(chain)
    <3>1. chain' = chain
      BY <2>1 DEF Next, vars, ReadWindow, AppendInstruction, WindowIsRead, FirstArgument, BeginMerge,
                  MergeInstruction, SourceCopy, SourcePiece, SourceReturn, EndMerge, NoArguments, BeginWindow,
                  OutputInstruction, EndWindow, Finish, Ended
    <3> QED
      BY <2>1, <3>1
  <2>3. ASSUME pc \in {"read", "append", "merge"}
        PROVE  Good
    BY <2>1, <2>2, <2>3 DEF IInv, Good
  <2>4. CASE ReadWindow
    BY <2>2, <2>3, <2>4, ReadWindowGood DEF ReadWindow
  <2>5. CASE AppendInstruction
    BY <2>2, <2>3, <2>5, AppendInstructionGood DEF AppendInstruction
  <2>6. CASE WindowIsRead
    BY <2>2, <2>3, <2>6, WindowIsReadGood DEF WindowIsRead
  <2>7. CASE FirstArgument
    BY <2>2, <2>3, <2>7, FirstArgumentGood DEF FirstArgument
  <2>8. CASE BeginMerge
    BY <2>2, <2>3, <2>8, BeginMergeGood DEF BeginMerge
  <2>9. CASE MergeInstruction
    BY <2>2, <2>3, <2>9, MergeInstructionGood DEF MergeInstruction
  <2>10. CASE SourceCopy
    BY <2>2, <2>3, <2>10, SourceCopyGood DEF SourceCopy
  <2>11. CASE SourcePiece
    BY <2>2, <2>3, <2>11, SourcePieceGood DEF SourcePiece
  <2>12. CASE SourceReturn
    BY <2>2, <2>3, <2>12, SourceReturnGood DEF SourceReturn
  <2>13. CASE EndMerge
    BY <2>1, <2>2, <2>3, <2>13, EndMergeGood DEF EndMerge
  <2>14. CASE NoArguments \/ BeginWindow \/ OutputInstruction \/ EndWindow \/ Finish \/ Ended
    BY <2>1, <2>14 DEF NoArguments, BeginWindow, OutputInstruction, EndWindow, Finish, Ended, vars
  <2>15. CASE UNCHANGED vars
    <3>1. Good
      BY <2>1, <2>3, <2>15 DEF vars
    <3> QED
      BY <2>15, <3>1 DEF vars, Good, Types, Place, Nested, Grounded, Merged, Tiled, Complete, Tiles
  <2> QED
    BY <2>1, <2>4, <2>5, <2>6, <2>7, <2>8, <2>9, <2>10, <2>11, <2>12, <2>13, <2>14, <2>15 DEF Next
<1> QED
  BY <1>1, <1>2, PTL DEF Spec

\* While deltas are read and merged, every list is without gaps and copies only from what there
\* is, the assertions of xd3_merge_source_copy hold, and deltas that belong together are never
\* refused.
THEOREM ListsTile == Spec => []InstructionsTile
<1>1. IInv => InstructionsTile
  <2>1. SUFFICES ASSUME IInv, Fits(chain), pc \in {"read", "append", "merge"}
                 PROVE  /\ Tiles(merge_input, Len(Source)) /\ Complete(merge_input)
                        /\ Tiles(tmp, Len(Source)) /\ (todo = <<>> => Complete(tmp))
                        /\ Tiles(stream, BaseLength(chain, file)) /\ Complete(stream)
                        /\ AssertsHold /\ tmp.ret = 0
    BY DEF InstructionsTile
  <2>2. Good
    BY <2>1 DEF IInv, Good
  <2>3. ASSUME pc = "merge", input_i < Len(stream.inst)
        PROVE  tmp.length = stream.inst[input_i + 1].position
    BY <2>1, <2>2, <2>3, NextInstruction
  <2>4. ASSUME todo # <<>>, todo[Len(todo)].size > 0
        PROVE  Makes(merge_input.inst, todo[Len(todo)].sinst_num, todo[Len(todo)].addr)
    <3>1. Len(todo) \in 1..Len(todo)
      BY <2>2, <2>4 DEF Good, Types
    <3> QED
      BY <2>2, <2>4, <3>1 DEF Good, Nested, Grounded
  <2>5. AssertsHold
    <3>1. merge_input.inst \in Seq(Winsts)
      BY <2>2, WholeFacts DEF Good, Types
    <3> QED
      BY <2>3, <2>4, <3>1 DEF AssertsHold, Makes
  <2> QED
    BY <2>2, <2>5 DEF Good, Tiled
<1> QED
  BY <1>1, Inductive, PTL

-----------------------------------------------------------------------------
(* What a delta makes, from its instructions one by one, whatever the functions it is defined by. *)

-----------------------------------------------------------------------------
(* What a delta makes: the bytes of an instruction. *)

\* f is computed from b on, each value from the one before.
IsComputed(f, S, n, b, F) == f \in [0..n -> S] /\ f[0] = b /\ \A k \in 1..n : f[k] = F[<<k, f[k - 1]>>]

\* There is such a function.
LEMMA Recursion ==
  ASSUME NEW S, NEW n \in Nat, NEW b \in S, NEW F \in [Nat \X S -> S]
  PROVE  \E f : IsComputed(f, S, n, b, F)
<1> DEFINE T == {m \in Nat : \E f \in [0..m -> S] : f[0] = b /\ \A k \in 1..m : f[k] = F[<<k, f[k - 1]>>]}
<1>1. 0 \in T
  <2> DEFINE f == [i \in 0..0 |-> b]
  <2>1. f \in [0..0 -> S] /\ f[0] = b
    OBVIOUS
  <2>2. 1..0 = {}
    OBVIOUS
  <2> HIDE DEF f
  <2>3. \A k \in 1..0 : f[k] = F[<<k, f[k - 1]>>]
    BY <2>2
  <2> QED
    BY <2>1, <2>3
<1>2. ASSUME NEW m \in Nat, m \in T
      PROVE  m + 1 \in T
  <2>1. PICK f \in [0..m -> S] : f[0] = b /\ \A k \in 1..m : f[k] = F[<<k, f[k - 1]>>]
    BY <1>2
  <2>2. m \in 0..m /\ f[m] \in S /\ <<m + 1, f[m]>> \in Nat \X S
    BY <2>1
  <2> DEFINE y == F[<<m + 1, f[m]>>]
             g == [k \in 0..(m + 1) |-> IF k = m + 1 THEN y ELSE f[k]]
  <2>3. y \in S
    BY <2>2
  <2>4. g \in [0..(m + 1) -> S]
    <3> HIDE DEF y
    <3> QED BY <2>1, <2>3
  <2>5. g[0] = b
    <3>1. 0 \in 0..(m + 1) /\ 0 # m + 1
      OBVIOUS
    <3> QED
      BY <2>1, <3>1
  <2>6. ASSUME NEW k \in 1..(m + 1)
        PROVE  g[k] = F[<<k, g[k - 1]>>]
    <3>1. CASE k = m + 1
      <4>1. k \in 0..(m + 1) /\ k - 1 = m /\ m \in 0..(m + 1) /\ m # m + 1
        BY <3>1
      <4> QED
        BY <3>1, <4>1
    <3>2. CASE k # m + 1
      <4>1. k \in 1..m /\ k \in 0..(m + 1) /\ k - 1 \in 0..(m + 1) /\ k - 1 # m + 1
        BY <3>2
      <4>2. g[k] = f[k] /\ g[k - 1] = f[k - 1]
        BY <3>2, <4>1
      <4> QED
        BY <2>1, <4>1, <4>2
    <3> QED
      BY <3>1, <3>2
  <2> HIDE DEF g
  <2> QED
    BY <2>4, <2>5, <2>6
<1> HIDE DEF T
<1>3. \A m \in Nat : m \in T
  BY <1>1, <1>2, NatInduct
<1> QED
  BY <1>3 DEF T, IsComputed

\* The bytes a copy writes, those it reads of its own among them.
IsCopied(f, bytes, addr, size) ==
  f = [k \in 1..size |-> IF addr + k <= Len(bytes) THEN bytes[addr + k] ELSE f[addr + k - Len(bytes)]]

\* There are such bytes.
LEMMA CopiedExists ==
  ASSUME NEW bytes \in Seq(Byte), NEW addr \in Nat, addr < Len(bytes), NEW size \in Nat
  PROVE  \E f \in [1..size -> Byte] : IsCopied(f, bytes, addr, size)
<1> DEFINE n == Len(bytes)
           G(f, k) == IF addr + k <= n THEN bytes[addr + k] ELSE f[addr + k - n]
           T == {m \in Nat : \E f \in [1..m -> Byte] : \A k \in 1..m : f[k] = G(f, k)}
<1>0. n \in Nat /\ addr < n /\ \A k \in 1..n : bytes[k] \in Byte
  OBVIOUS
<1> HIDE DEF n
<1>1. 0 \in T
  <2> DEFINE f == [k \in 1..0 |-> 0]
  <2>1. f \in [1..0 -> Byte] /\ \A k \in 1..0 : f[k] = G(f, k)
    OBVIOUS
  <2> HIDE DEF f, G
  <2> QED BY <2>1
<1>2. ASSUME NEW m \in Nat, m \in T
      PROVE  m + 1 \in T
  <2>1. PICK f \in [1..m -> Byte] : \A k \in 1..m : f[k] = G(f, k)
    BY <1>2
  <2> DEFINE y == G(f, m + 1)
             g == [k \in 1..(m + 1) |-> IF k = m + 1 THEN y ELSE f[k]]
  <2>2. y \in Byte
    <3>1. addr + (m + 1) <= n => addr + (m + 1) \in 1..n
      BY <1>0
    <3>2. ~ (addr + (m + 1) <= n) => addr + (m + 1) - n \in 1..m
      BY <1>0
    <3>3. addr + (m + 1) <= n => bytes[addr + (m + 1)] \in Byte
      BY <1>0, <3>1
    <3>4. ~ (addr + (m + 1) <= n) => f[addr + (m + 1) - n] \in Byte
      BY <2>1, <3>2
    <3> QED
      BY <3>3, <3>4
  <2>3. g \in [1..(m + 1) -> Byte]
    <3> HIDE DEF y
    <3> QED BY <2>1, <2>2
  <2>4. ASSUME NEW k \in 1..(m + 1)
        PROVE  g[k] = G(g, k)
    <3>1. addr + k \in Nat /\ (addr + k <= n \/ (addr + k - n \in 1..m /\ addr + k - n \in 1..(m + 1) /\ addr + k - n # m + 1))
      BY <1>0
    <3>2. ~ (addr + k <= n) => g[addr + k - n] = f[addr + k - n]
      <4> HIDE DEF y
      <4> QED BY <3>1
    <3>3. G(g, k) = G(f, k)
      BY <3>2
    <3>4. CASE k = m + 1
      BY <3>3, <3>4
    <3>5. CASE k # m + 1
      <4>1. k \in 1..m
        BY <3>5
      <4>2. g[k] = f[k]
        BY <3>5
      <4> QED
        BY <2>1, <3>3, <4>1, <4>2
    <3> QED
      BY <3>4, <3>5
  <2> HIDE DEF g, G
  <2> QED
    BY <2>3, <2>4
<1> HIDE DEF T
<1>3. \A m \in Nat : m \in T
  BY <1>1, <1>2, NatInduct
<1>4. PICK f \in [1..size -> Byte] : \A k \in 1..size : f[k] = G(f, k)
  BY <1>3 DEF T
<1>5. f = [k \in 1..size |-> G(f, k)]
  <2> HIDE DEF G
  <2> QED BY <1>4
<1> QED
  BY <1>4, <1>5 DEF IsCopied, n

\* An instruction at the n'th byte of t says what follows.
Yields(t, n, i) ==
  \A j \in 1..i.size :
    t[n + j] = IF i.type = "ADD" THEN i.bytes[j] ELSE IF i.type = "RUN" THEN i.bytes[1] ELSE t[i.addr + j]

\* What follows two sequences joined.
LEMMA JoinedBytes ==
  ASSUME NEW s \in Seq(Byte), NEW t \in Seq(Byte)
  PROVE  /\ s \o t \in Seq(Byte) /\ Len(s \o t) = Len(s) + Len(t) /\ Len(s) \in Nat /\ Len(t) \in Nat
         /\ \A k \in 1..Len(s) : (s \o t)[k] = s[k]
         /\ \A k \in 1..Len(t) : (s \o t)[Len(s) + k] = t[k]
<1>1. s \o t \in Seq(Byte) /\ Len(s \o t) = Len(s) + Len(t) /\ Len(s) \in Nat /\ Len(t) \in Nat
  BY ConcatProperties
<1>2. \A k \in 1..(Len(s) + Len(t)) : (s \o t)[k] = IF k <= Len(s) THEN s[k] ELSE t[k - Len(s)]
  BY ConcatProperties
<1>3. ASSUME NEW k \in 1..Len(s)
      PROVE  (s \o t)[k] = s[k]
  BY <1>1, <1>2, <1>3
<1>4. ASSUME NEW k \in 1..Len(t)
      PROVE  (s \o t)[Len(s) + k] = t[k]
  <2>1. Len(s) + k \in 1..(Len(s) + Len(t)) /\ ~ (Len(s) + k <= Len(s)) /\ (Len(s) + k) - Len(s) = k
    BY <1>1, <1>4
  <2> QED
    BY <1>2, <2>1
<1> QED
  BY <1>1, <1>3, <1>4

\* The parts of an instruction.
LEMMA HinstFacts ==
  ASSUME NEW i \in Hinst
  PROVE  /\ i.type \in {"ADD", "RUN", "CPY"} /\ i.size \in Nat /\ i.addr \in Nat /\ i.bytes \in Seq(Byte)
         /\ i.type = "ADD" => Len(i.bytes) = i.size
         /\ i.type = "RUN" => Len(i.bytes) = 1
  BY DEF Hinst

\* An instruction is done.
LEMMA GrownFacts ==
  ASSUME NEW bytes \in Seq(Byte), NEW i \in Hinst, i.type = "CPY" => i.addr < Len(bytes)
  PROVE  /\ Grown(bytes, i) \in Seq(Byte) /\ Len(Grown(bytes, i)) = Len(bytes) + i.size
         /\ \A k \in 1..Len(bytes) : Grown(bytes, i)[k] = bytes[k]
         /\ Yields(Grown(bytes, i), Len(bytes), i)
<1> DEFINE copied == CHOOSE f : IsCopied(f, bytes, i.addr, i.size)
           more == IF i.type = "ADD" THEN i.bytes
                   ELSE IF i.type = "RUN" THEN [k \in 1..i.size |-> i.bytes[1]]
                   ELSE copied
           n == Len(bytes)
<1>1. Grown(bytes, i) = bytes \o more
  BY DEF Grown, IsCopied
<1>2. /\ i.type \in {"ADD", "RUN", "CPY"} /\ i.size \in Nat /\ i.addr \in Nat /\ i.bytes \in Seq(Byte)
      /\ i.type = "ADD" => Len(i.bytes) = i.size
      /\ i.type = "RUN" => Len(i.bytes) = 1
  BY HinstFacts
<1>3. i.type = "CPY" => IsCopied(copied, bytes, i.addr, i.size) /\ copied \in [1..i.size -> Byte]
  <2>1. SUFFICES ASSUME i.type = "CPY"
                 PROVE  IsCopied(copied, bytes, i.addr, i.size) /\ copied \in [1..i.size -> Byte]
    OBVIOUS
  <2>2. PICK f \in [1..i.size -> Byte] : IsCopied(f, bytes, i.addr, i.size)
    BY <1>2, <2>1, CopiedExists
  <2>3. IsCopied(copied, bytes, i.addr, i.size)
    BY <2>2
  <2> DEFINE c == copied
  <2> HIDE DEF copied
  <2>4. c \in [1..i.size -> Byte]
    <3> DEFINE T == {m \in Nat : \A k \in 1..i.size : k <= m => c[k] \in Byte}
               G(g, k) == IF i.addr + k <= n THEN bytes[i.addr + k] ELSE g[i.addr + k - n]
    <3>1. \A k \in 1..i.size : c[k] = G(c, k)
      BY <2>3 DEF IsCopied
    <3>2. n \in Nat /\ i.addr < n /\ \A k \in 1..n : bytes[k] \in Byte
      BY <2>1
    <3> HIDE DEF n, c
    <3>3. 0 \in T
      OBVIOUS
    <3>4. ASSUME NEW m \in Nat, m \in T
          PROVE  m + 1 \in T
      <4>1. ASSUME NEW k \in 1..i.size, k = m + 1
            PROVE  c[k] \in Byte
        <5>1. i.addr + k <= n => i.addr + k \in 1..n
          BY <1>2, <3>2
        <5>2. ~ (i.addr + k <= n) => i.addr + k - n \in 1..i.size /\ i.addr + k - n <= m
          BY <1>2, <3>2, <4>1
        <5>3. i.addr + k <= n => G(c, k) \in Byte
          BY <3>2, <5>1
        <5>4. ~ (i.addr + k <= n) => G(c, k) \in Byte
          BY <3>4, <5>2
        <5> QED
          BY <3>1, <5>3, <5>4
      <4>2. ASSUME NEW k \in 1..i.size, k <= m + 1
            PROVE  c[k] \in Byte
        <5>1. k = m + 1 \/ k <= m
          BY <1>2, <4>2
        <5> QED
          BY <3>4, <4>1, <5>1
      <4> QED
        BY <4>2
    <3> HIDE DEF T
    <3>5. \A m \in Nat : m \in T
      BY <3>3, <3>4, NatInduct
    <3>6. \A k \in 1..i.size : c[k] \in Byte
      <4>1. i.size \in T /\ \A k \in 1..i.size : k <= i.size
        BY <1>2, <3>5
      <4> QED
        BY <4>1 DEF T
    <3>7. c = [k \in 1..i.size |-> G(c, k)]
      BY <2>3 DEF IsCopied, c, n
    <3> HIDE DEF G
    <3> QED
      BY <3>6, <3>7
  <2> QED
    BY <2>3, <2>4
<1> HIDE DEF copied
<1>4. more \in Seq(Byte) /\ Len(more) = i.size
  <2>1. CASE i.type = "ADD"
    BY <1>2, <2>1
  <2>2. CASE i.type = "RUN"
    <3>1. i.bytes[1] \in Byte
      BY <1>2, <2>2
    <3>2. more = [k \in 1..i.size |-> i.bytes[1]]
      BY <2>2
    <3> DEFINE y == i.bytes[1]
    <3> HIDE DEF y, more
    <3>3. more \in [1..i.size -> Byte]
      BY <3>1, <3>2 DEF y
    <3> QED
      BY <1>2, <3>3
  <2>3. CASE i.type = "CPY"
    <3>1. more = copied
      BY <2>3
    <3> QED
      BY <1>2, <1>3, <2>3, <3>1
  <2> QED
    BY <1>2, <2>1, <2>2, <2>3
<1> DEFINE g == bytes \o more
<1>5. /\ g \in Seq(Byte) /\ Len(g) = n + i.size /\ n \in Nat
      /\ \A k \in 1..n : g[k] = bytes[k]
      /\ \A k \in 1..i.size : g[n + k] = more[k]
  <2> HIDE DEF more
  <2> QED BY <1>4, JoinedBytes
<1> HIDE DEF g
<1>6. Yields(g, n, i)
  <2>1. SUFFICES ASSUME NEW j \in 1..i.size
                 PROVE  more[j] = IF i.type = "ADD" THEN i.bytes[j] ELSE IF i.type = "RUN" THEN i.bytes[1] ELSE g[i.addr + j]
    BY <1>5 DEF Yields
  <2>2. CASE i.type = "CPY"
    <3>1. more = copied /\ copied[j] = IF i.addr + j <= n THEN bytes[i.addr + j] ELSE copied[i.addr + j - n]
      BY <1>3, <2>2 DEF IsCopied
    <3>2. CASE i.addr + j <= n
      <4>1. i.addr + j \in 1..n
        BY <1>2, <1>5, <3>2
      <4>2. g[i.addr + j] = bytes[i.addr + j]
        BY <1>5, <4>1
      <4> QED
        BY <2>2, <3>1, <3>2, <4>2
    <3>3. CASE ~ (i.addr + j <= n)
      <4>1. i.addr + j - n \in 1..i.size /\ n + (i.addr + j - n) = i.addr + j
        BY <1>2, <1>5, <2>2, <3>3
      <4>2. g[n + (i.addr + j - n)] = more[i.addr + j - n]
        BY <1>5, <4>1
      <4> QED
        BY <2>2, <3>1, <3>3, <4>1, <4>2
    <3> QED
      BY <3>2, <3>3
  <2>3. CASE i.type = "ADD"
    BY <2>3
  <2>4. CASE i.type = "RUN"
    BY <2>4
  <2> QED
    BY <1>2, <2>2, <2>3, <2>4
<1> QED
  BY <1>1, <1>5, <1>6 DEF g

\* What an instruction says of a longer sequence.
LEMMA YieldsPrefix ==
  ASSUME NEW s, NEW t, NEW i \in Hinst, NEW n \in Nat, NEW m \in Nat, n + i.size <= m,
         i.type = "CPY" => i.addr < n, \A k \in 1..m : s[k] = t[k], Yields(s, n, i)
  PROVE  Yields(t, n, i)
<1>1. SUFFICES ASSUME NEW j \in 1..i.size
               PROVE  t[n + j] = IF i.type = "ADD" THEN i.bytes[j] ELSE IF i.type = "RUN" THEN i.bytes[1]
                                 ELSE t[i.addr + j]
  BY DEF Yields
<1>2. i.type \in {"ADD", "RUN", "CPY"} /\ i.size \in Nat /\ i.addr \in Nat
  BY HinstFacts
<1>3. n + j \in 1..m /\ (i.type = "CPY" => i.addr + j \in 1..m)
  BY <1>2
<1>4. s[n + j] = IF i.type = "ADD" THEN i.bytes[j] ELSE IF i.type = "RUN" THEN i.bytes[1] ELSE s[i.addr + j]
  BY DEF Yields
<1>5. t[n + j] = s[n + j] /\ (i.type = "CPY" => t[i.addr + j] = s[i.addr + j])
  BY <1>3
<1> QED
  BY <1>2, <1>4, <1>5

\* Only what the instruction does is what it says.
LEMMA GrownIs ==
  ASSUME NEW bytes \in Seq(Byte), NEW i \in Hinst, i.type = "CPY" => i.addr < Len(bytes),
         NEW t \in Seq(Byte), Len(t) = Len(bytes) + i.size, \A k \in 1..Len(bytes) : t[k] = bytes[k],
         Yields(t, Len(bytes), i)
  PROVE  t = Grown(bytes, i)
<1> DEFINE g == Grown(bytes, i)
           n == Len(bytes)
           T == {m \in Nat : \A k \in 1..Len(t) : k <= m => t[k] = g[k]}
<1>1. /\ g \in Seq(Byte) /\ Len(g) = n + i.size /\ \A k \in 1..n : g[k] = bytes[k]
      /\ Yields(g, n, i)
  BY GrownFacts
<1>2. i.type \in {"ADD", "RUN", "CPY"} /\ i.size \in Nat /\ i.addr \in Nat /\ n \in Nat /\ Len(t) = n + i.size
      /\ (i.type = "CPY" => i.addr < n)
  BY HinstFacts
<1> HIDE DEF g, n
<1>3. 0 \in T
  OBVIOUS
<1>4. ASSUME NEW m \in Nat, m \in T
      PROVE  m + 1 \in T
  <2>1. ASSUME NEW k \in 1..Len(t), k = m + 1
        PROVE  t[k] = g[k]
    <3>1. CASE k <= n
      <4>1. k \in 1..n
        BY <1>2, <3>1
      <4> QED
        BY <1>1, <4>1 DEF n
    <3>2. CASE ~ (k <= n)
      <4> DEFINE j == k - n
      <4>0. k \in Nat /\ n \in Nat /\ m \in Nat /\ k <= n + i.size /\ ~ (k <= n) /\ k = m + 1 /\ i.size \in Nat /\ i.addr \in Nat
        BY <1>2, <2>1, <3>2
      <4>1. j \in 1..i.size /\ n + j = k /\ (i.type = "CPY" => i.addr + j \in 1..Len(t) /\ i.addr + j <= m)
        <5>1. j \in Nat /\ 1 <= j /\ j <= i.size /\ n + j = k
          BY ONLY <4>0
        <5>2. i.addr < n => i.addr + j \in Nat /\ 1 <= i.addr + j /\ i.addr + j <= m /\ i.addr + j <= n + i.size
          BY ONLY <4>0, <5>1
        <5> HIDE DEF j
        <5> QED
          BY <1>2, <5>1, <5>2, SMTT(30)
      <4> HIDE DEF j
      <4>2. t[n + j] = IF i.type = "ADD" THEN i.bytes[j] ELSE IF i.type = "RUN" THEN i.bytes[1] ELSE t[i.addr + j]
        BY <4>1 DEF Yields, n
      <4>3. g[n + j] = IF i.type = "ADD" THEN i.bytes[j] ELSE IF i.type = "RUN" THEN i.bytes[1] ELSE g[i.addr + j]
        BY <1>1, <4>1 DEF Yields
      <4>4. i.type = "CPY" => t[i.addr + j] = g[i.addr + j]
        BY <1>4, <4>1
      <4> QED
        BY <1>2, <4>1, <4>2, <4>3, <4>4
    <3> QED
      BY <3>1, <3>2
  <2>2. ASSUME NEW k \in 1..Len(t), k <= m + 1
        PROVE  t[k] = g[k]
    <3>1. k = m + 1 \/ k <= m
      BY <2>2
    <3> QED
      BY <1>4, <2>1, <3>1
  <2> QED
    BY <2>2
<1> HIDE DEF T
<1>5. \A m \in Nat : m \in T
  BY <1>3, <1>4, NatInduct
<1>6. \A k \in 1..Len(t) : t[k] = g[k]
  <2>1. Len(t) \in T /\ \A k \in 1..Len(t) : k <= Len(t)
    BY <1>5
  <2> QED
    BY <2>1 DEF T
<1>7. Len(t) = Len(g)
  BY <1>1, <1>2
<1> QED
  BY <1>1, <1>6, <1>7 DEF g

-----------------------------------------------------------------------------
(* What a delta makes: the bytes of a window. *)

\* s is the address space of the window, as far as its first m instructions fill it.
IsSpace(s, source, win, m) ==
  /\ s \in Seq(Byte) /\ Len(s) = win.cpylen + Sizes(win.inst, m)
  /\ \A k \in 1..win.cpylen : s[k] = source[win.cpyoff + k]
  /\ \A k \in 1..m : Yields(s, win.cpylen + Sizes(win.inst, k - 1), win.inst[k])

\* The parts of a window, and where its instructions are.
LEMMA WinFacts ==
  ASSUME NEW source \in Seq(Byte), NEW win \in Window, WellFormed(Len(source), win)
  PROVE  /\ win.inst \in Seq(Hinst) /\ win.cpyoff \in Nat /\ win.cpylen \in Nat /\ Len(win.inst) \in Nat
         /\ Len(source) \in Nat /\ win.cpyoff + win.cpylen <= Len(source)
         /\ \A k \in 1..Len(win.inst) :
              /\ win.inst[k] \in Hinst /\ k - 1 \in 0..Len(win.inst) /\ k \in 0..Len(win.inst)
              /\ win.inst[k].size \in Nat /\ win.inst[k].size > 0
              /\ Sizes(win.inst, k) = Sizes(win.inst, k - 1) + win.inst[k].size
              /\ win.inst[k].type = "CPY" =>
                   /\ win.inst[k].addr < win.cpylen + Sizes(win.inst, k - 1)
                   /\ win.inst[k].addr < win.cpylen => win.inst[k].addr + win.inst[k].size <= win.cpylen
         /\ \A k \in 0..Len(win.inst) : Sizes(win.inst, k) \in Nat
         /\ Sizes(win.inst, 0) = 0
<1>1. win.inst \in Seq(Hinst) /\ win.cpyoff \in Nat /\ win.cpylen \in Nat
  BY DEF Window
<1>2. Len(win.inst) \in Nat /\ Len(source) \in Nat
  BY <1>1
<1>3. win.cpyoff + win.cpylen <= Len(source)
  BY DEF WellFormed
<1>4. \A k \in 0..Len(win.inst) : Sizes(win.inst, k) \in Nat
  BY <1>1, SizesSteps
<1>5. Sizes(win.inst, 0) = 0
  <2>1. 0 \in 0..Len(win.inst)
    BY <1>2
  <2> QED
    BY <1>1, <2>1, SizesSteps
<1>6. ASSUME NEW k \in 1..Len(win.inst)
      PROVE  /\ win.inst[k] \in Hinst /\ k - 1 \in 0..Len(win.inst) /\ k \in 0..Len(win.inst)
             /\ win.inst[k].size \in Nat /\ win.inst[k].size > 0
             /\ Sizes(win.inst, k) = Sizes(win.inst, k - 1) + win.inst[k].size
             /\ win.inst[k].type = "CPY" =>
                  /\ win.inst[k].addr < win.cpylen + Sizes(win.inst, k - 1)
                  /\ win.inst[k].addr < win.cpylen => win.inst[k].addr + win.inst[k].size <= win.cpylen
  <2>1. win.inst[k] \in Hinst
    BY <1>1
  <2>2. k - 1 \in 0..Len(win.inst) /\ k \in 0..Len(win.inst) /\ k - 1 < Len(win.inst) /\ (k - 1) + 1 = k
    BY <1>2
  <2>3. Sizes(win.inst, k) = Sizes(win.inst, k - 1) + win.inst[k].size
    <3> DEFINE l == k - 1
    <3>1. l \in 0..Len(win.inst) /\ l < Len(win.inst) /\ l + 1 = k
      BY <2>2
    <3> HIDE DEF l
    <3>2. Sizes(win.inst, l + 1) = Sizes(win.inst, l) + win.inst[l + 1].size
      BY <1>1, <3>1, SizesSteps
    <3> QED
      BY <3>1, <3>2 DEF l
  <2>4. win.inst[k].size \in Nat
    BY <2>1, HinstFacts
  <2> QED
    BY <2>1, <2>2, <2>3, <2>4 DEF WellFormed
<1> QED
  BY <1>1, <1>2, <1>3, <1>4, <1>5, <1>6

\* A part of a sequence.
LEMMA PartOf ==
  ASSUME NEW S, NEW s \in Seq(S), NEW a \in Nat, NEW b \in Nat, a + b <= Len(s)
  PROVE  /\ SubSeq(s, a + 1, a + b) \in Seq(S) /\ Len(SubSeq(s, a + 1, a + b)) = b
         /\ \A k \in 1..b : SubSeq(s, a + 1, a + b)[k] = s[a + k]
<1>1. Len(s) \in Nat
  OBVIOUS
<1>2. SubSeq(s, a + 1, a + b) = [k \in 1..((a + b) - (a + 1) + 1) |-> s[(a + 1) + k - 1]]
  OBVIOUS
<1>3. (a + b) - (a + 1) + 1 = b
  OBVIOUS
<1>4. ASSUME NEW k \in 1..b
      PROVE  (a + 1) + k - 1 = a + k /\ a + k \in 1..Len(s)
  BY <1>1
<1>5. SubSeq(s, a + 1, a + b) = [k \in 1..b |-> s[a + k]]
  BY <1>2, <1>3, <1>4
<1>6. \A k \in 1..b : s[a + k] \in S
  BY <1>4
<1> DEFINE u == SubSeq(s, a + 1, a + b)
<1>7. u = [k \in 1..b |-> s[a + k]]
  BY <1>5
<1> HIDE DEF u
<1>8. u \in Seq(S) /\ Len(u) = b
  BY <1>6, <1>7
<1> QED
  BY <1>7, <1>8 DEF u

\* The part of the source is there when no instruction is done.
LEMMA SpaceBegins ==
  ASSUME NEW source \in Seq(Byte), NEW win \in Window, WellFormed(Len(source), win)
  PROVE  IsSpace(SubSeq(source, win.cpyoff + 1, win.cpyoff + win.cpylen), source, win, 0)
<1>1. /\ win.cpyoff \in Nat /\ win.cpylen \in Nat /\ win.cpyoff + win.cpylen <= Len(source)
      /\ Sizes(win.inst, 0) = 0
  BY WinFacts
<1> DEFINE s == SubSeq(source, win.cpyoff + 1, win.cpyoff + win.cpylen)
<1>2. s \in Seq(Byte) /\ Len(s) = win.cpylen /\ \A k \in 1..win.cpylen : s[k] = source[win.cpyoff + k]
  BY <1>1, PartOf
<1> HIDE DEF s
<1>3. IsSpace(s, source, win, 0)
  BY <1>1, <1>2 DEF IsSpace
<1> QED
  BY <1>3 DEF s

\* One instruction more.
LEMMA SpaceGrows ==
  ASSUME NEW source \in Seq(Byte), NEW win \in Window, WellFormed(Len(source), win),
         NEW m \in Nat, m + 1 <= Len(win.inst), NEW s, IsSpace(s, source, win, m)
  PROVE  /\ win.inst[m + 1].type = "CPY" => win.inst[m + 1].addr < Len(s)
         /\ IsSpace(Grown(s, win.inst[m + 1]), source, win, m + 1)
<1> DEFINE i == win.inst[m + 1]
           g == Grown(s, i)
           Z(k) == Sizes(win.inst, k)
           c == win.cpylen
<1>1. /\ win.inst \in Seq(Hinst) /\ c \in Nat /\ Len(win.inst) \in Nat
      /\ \A k \in 1..Len(win.inst) :
           /\ win.inst[k] \in Hinst /\ k - 1 \in 0..Len(win.inst) /\ k \in 0..Len(win.inst)
           /\ win.inst[k].size \in Nat
           /\ Z(k) = Z(k - 1) + win.inst[k].size
           /\ win.inst[k].type = "CPY" => win.inst[k].addr < c + Z(k - 1)
      /\ \A k \in 0..Len(win.inst) : Z(k) \in Nat
  BY WinFacts
<1>2. m + 1 \in 1..Len(win.inst) /\ (m + 1) - 1 = m /\ m \in 0..Len(win.inst) /\ m + 1 \in 0..Len(win.inst)
  BY <1>1
<1>3. /\ s \in Seq(Byte) /\ Len(s) = c + Z(m)
      /\ \A k \in 1..c : s[k] = source[win.cpyoff + k]
      /\ \A k \in 1..m : Yields(s, c + Z(k - 1), win.inst[k])
  BY DEF IsSpace
<1> HIDE DEF Z, c
<1>4. i \in Hinst /\ i.size \in Nat /\ (i.type = "CPY" => i.addr < Len(s)) /\ Z(m + 1) = Z(m) + i.size
  BY <1>1, <1>2, <1>3
<1> HIDE DEF i
<1>5. /\ g \in Seq(Byte) /\ Len(g) = Len(s) + i.size /\ \A k \in 1..Len(s) : g[k] = s[k]
      /\ Yields(g, Len(s), i)
  BY <1>3, <1>4, GrownFacts
<1> HIDE DEF g
<1>6. Z(m) \in Nat /\ Len(s) \in Nat /\ Z(m + 1) \in Nat
  BY <1>1, <1>2, <1>3
<1>7. Len(g) = c + Z(m + 1)
  <2>1. Len(g) = (c + Z(m)) + i.size /\ Z(m + 1) = Z(m) + i.size
    BY <1>3, <1>4, <1>5
  <2> QED
    BY ONLY <1>1, <1>4, <1>6, <2>1
<1>8. \A k \in 1..c : g[k] = source[win.cpyoff + k]
  <2>1. ASSUME NEW k \in 1..c
        PROVE  k \in 1..Len(s)
    <3>1. Len(s) = c + Z(m) /\ c \in Nat
      BY <1>1, <1>3
    <3> QED
      BY ONLY <1>6, <2>1, <3>1
  <2> QED
    BY <1>3, <1>5, <2>1
<1>9. ASSUME NEW k \in 1..(m + 1)
      PROVE  Yields(g, c + Z(k - 1), win.inst[k])
  <2>1. CASE k = m + 1
    BY <1>2, <1>3, <1>5, <2>1 DEF i
  <2>2. CASE k # m + 1
    <3>1. k \in 1..m /\ k \in 1..Len(win.inst)
      BY <1>2, <2>2
    <3>2. Yields(s, c + Z(k - 1), win.inst[k])
      BY <1>3, <3>1
    <3>3. Z(k) <= Z(m)
      <4> DEFINE T == {d \in Nat : k + d <= Len(win.inst) => Z(k) <= Z(k + d)}
      <4>1. 0 \in T
        <5>1. k + 0 = k /\ Z(k) \in Nat
          BY <1>1, <3>1
        <5> QED
          BY <5>1
      <4>2. ASSUME NEW d \in Nat, d \in T
            PROVE  d + 1 \in T
        <5>1. SUFFICES ASSUME k + (d + 1) <= Len(win.inst)
                       PROVE  Z(k) <= Z(k + (d + 1))
          OBVIOUS
        <5>2. k + (d + 1) \in 1..Len(win.inst) /\ (k + (d + 1)) - 1 = k + d /\ k + d <= Len(win.inst) /\ k + d \in 0..Len(win.inst)
          BY <1>1, <3>1, <5>1
        <5>3. Z(k + (d + 1)) = Z(k + d) + win.inst[k + (d + 1)].size /\ win.inst[k + (d + 1)].size \in Nat
          BY <1>1, <5>2
        <5>4. Z(k) <= Z(k + d) /\ Z(k) \in Nat /\ Z(k + d) \in Nat
          BY <1>1, <3>1, <4>2, <5>2
        <5> QED
          BY ONLY <5>3, <5>4
      <4> HIDE DEF T
      <4>3. \A d \in Nat : d \in T
        BY <4>1, <4>2, NatInduct
      <4>4. m - k \in Nat /\ k + (m - k) = m /\ m <= Len(win.inst)
        BY <1>2, <3>1
      <4>5. m - k \in T
        BY <4>3, <4>4
      <4> DEFINE d == m - k
      <4>6. d \in T /\ k + d = m
        BY <4>4, <4>5
      <4> HIDE DEF d
      <4> QED
        BY <4>4, <4>6 DEF T
    <3> DEFINE n == c + Z(k - 1)
    <3>4. n \in Nat /\ n + win.inst[k].size <= Len(s) /\ win.inst[k] \in Hinst
          /\ (win.inst[k].type = "CPY" => win.inst[k].addr < n)
      <4>1. /\ Z(k) = Z(k - 1) + win.inst[k].size /\ Z(k - 1) \in Nat /\ win.inst[k].size \in Nat /\ c \in Nat
            /\ win.inst[k] \in Hinst /\ (win.inst[k].type = "CPY" => win.inst[k].addr < c + Z(k - 1))
            /\ Len(s) = c + Z(m)
        BY <1>1, <1>3, <3>1
      <4>2. c + Z(k - 1) \in Nat /\ (c + Z(k - 1)) + win.inst[k].size <= Len(s)
        BY ONLY <1>6, <3>3, <4>1, SMTT(30)
      <4> QED
        BY <4>1, <4>2
    <3>5. Yields(s, n, win.inst[k])
      BY <3>2
    <3> HIDE DEF n
    <3>6. \A q \in 1..Len(s) : s[q] = g[q]
      BY <1>5
    <3>7. Yields(g, n, win.inst[k])
      BY <1>6, <3>4, <3>5, <3>6, YieldsPrefix
    <3> QED
      BY <3>7 DEF n
  <2> QED
    BY <2>1, <2>2
<1>10. IsSpace(g, source, win, m + 1)
  BY <1>5, <1>7, <1>8, <1>9 DEF IsSpace, Z, c
<1> QED
  BY <1>4, <1>10 DEF g, i

\* The function that does the instructions.
IsGrowth(f, source, win) ==
  f = [n \in 0..Len(win.inst) |-> IF n = 0 THEN SubSeq(source, win.cpyoff + 1, win.cpyoff + win.cpylen)
                                  ELSE Grown(f[n - 1], win.inst[n])]

\* There is one.
LEMMA GrowthExists ==
  ASSUME NEW source \in Seq(Byte), NEW win \in Window, WellFormed(Len(source), win)
  PROVE  \E f : IsGrowth(f, source, win)
<1> DEFINE N == Len(win.inst)
           S == Seq(Byte)
           b == SubSeq(source, win.cpyoff + 1, win.cpyoff + win.cpylen)
           F == [p \in Nat \X S |-> IF Grown(p[2], win.inst[p[1]]) \in S THEN Grown(p[2], win.inst[p[1]]) ELSE <<>>]
<1>0. N \in Nat /\ <<>> \in S
  BY WinFacts
<1>1. IsSpace(b, source, win, 0)
  BY SpaceBegins
<1>2. b \in S
  BY <1>1 DEF IsSpace
<1>3. F \in [Nat \X S -> S]
  <2> DEFINE V(p) == IF Grown(p[2], win.inst[p[1]]) \in S THEN Grown(p[2], win.inst[p[1]]) ELSE <<>>
  <2>1. \A p \in Nat \X S : V(p) \in S
    <3> HIDE DEF S
    <3> QED BY <1>0
  <2>2. F = [p \in Nat \X S |-> V(p)]
    OBVIOUS
  <2> HIDE DEF V, F, S
  <2> QED BY <2>1, <2>2
<1>4. ASSUME NEW k \in Nat, NEW s \in S
      PROVE  Grown(s, win.inst[k]) \in S => F[<<k, s>>] = Grown(s, win.inst[k])
  <2>1. <<k, s>> \in Nat \X S /\ <<k, s>>[1] = k /\ <<k, s>>[2] = s
    OBVIOUS
  <2> HIDE DEF S
  <2> QED BY <2>1
<1> HIDE DEF F, b, N
<1>4a. PICK f : IsComputed(f, S, N, b, F)
  <2> HIDE DEF S
  <2> QED BY <1>0, <1>2, <1>3, Recursion
<1>5. f \in [0..N -> S] /\ f[0] = b /\ \A k \in 1..N : f[k] = F[<<k, f[k - 1]>>]
  BY <1>4a DEF IsComputed
<1> DEFINE T == {m \in Nat : m <= N => /\ IsSpace(f[m], source, win, m)
                                       /\ m > 0 => f[m] = Grown(f[m - 1], win.inst[m])}
<1>6. 0 \in T
  <2>1. IsSpace(f[0], source, win, 0) /\ ~ (0 > 0)
    BY <1>1, <1>5
  <2> QED
    BY <2>1
<1>7. ASSUME NEW m \in Nat, m \in T
      PROVE  m + 1 \in T
  <2>1. SUFFICES ASSUME m + 1 <= N
                 PROVE  IsSpace(f[m + 1], source, win, m + 1) /\ f[m + 1] = Grown(f[m], win.inst[m + 1])
    <3>1. (m + 1) - 1 = m
      OBVIOUS
    <3> QED
      BY <2>1, <3>1
  <2>2. m + 1 \in 1..N /\ (m + 1) - 1 = m /\ m <= N
    BY <1>0, <2>1
  <2>3. IsSpace(f[m], source, win, m)
    BY <1>7, <2>2
  <2>4. IsSpace(Grown(f[m], win.inst[m + 1]), source, win, m + 1)
    BY <2>1, <2>3, SpaceGrows DEF N
  <2>5. Grown(f[m], win.inst[m + 1]) \in S /\ f[m] \in S
    BY <2>3, <2>4 DEF IsSpace
  <2>6. f[m + 1] = F[<<m + 1, f[m]>>]
    BY <1>5, <2>2
  <2>7. f[m + 1] = Grown(f[m], win.inst[m + 1])
    BY <1>4, <2>5, <2>6
  <2> QED
    BY <2>4, <2>7
<1> HIDE DEF T
<1>8. \A m \in Nat : m \in T
  BY <1>6, <1>7, NatInduct
<1> DEFINE G(n) == IF n = 0 THEN b ELSE Grown(f[n - 1], win.inst[n])
<1>9. ASSUME NEW k \in 0..N
      PROVE  f[k] = G(k)
  <2>1. CASE k = 0
    BY <1>5, <2>1
  <2>2. CASE k # 0
    <3>1. k \in T /\ k <= N /\ k > 0
      BY <1>0, <1>8, <2>2
    <3> QED
      BY <2>2, <3>1 DEF T
  <2> QED
    BY <2>1, <2>2
<1> HIDE DEF G
<1>10. f = [n \in 0..N |-> G(n)]
  BY <1>5, <1>9
<1> QED
  BY <1>10 DEF IsGrowth, G, N, b

\* A window's address space is the one that obeys its instructions.
LEMMA SpaceFacts ==
  ASSUME NEW source \in Seq(Byte), NEW win \in Window, WellFormed(Len(source), win)
  PROVE  /\ IsSpace(Space(source, win), source, win, Len(win.inst))
         /\ \A s : IsSpace(s, source, win, Len(win.inst)) => s = Space(source, win)
<1> DEFINE f == CHOOSE f : IsGrowth(f, source, win)
           N == Len(win.inst)
           b == SubSeq(source, win.cpyoff + 1, win.cpyoff + win.cpylen)
<1>1. Space(source, win) = f[N]
  BY DEF Space, IsGrowth
<1>2. IsGrowth(f, source, win)
  BY GrowthExists
<1> HIDE DEF f
<1>3. /\ N \in Nat
      /\ \A k \in 0..N : f[k] = IF k = 0 THEN b ELSE Grown(f[k - 1], win.inst[k])
  BY <1>2, WinFacts DEF IsGrowth
<1> HIDE DEF N
<1> DEFINE T == {m \in Nat : m <= N => IsSpace(f[m], source, win, m)}
<1>4. 0 \in T
  <2>1. 0 \in 0..N
    BY <1>3
  <2> QED
    BY <1>3, <2>1, SpaceBegins
<1>5. ASSUME NEW m \in Nat, m \in T
      PROVE  m + 1 \in T
  <2>1. SUFFICES ASSUME m + 1 <= N
                 PROVE  IsSpace(f[m + 1], source, win, m + 1)
    OBVIOUS
  <2>2. m + 1 \in 0..N /\ m + 1 # 0 /\ (m + 1) - 1 = m /\ m <= N
    BY <1>3, <2>1
  <2>3. f[m + 1] = Grown(f[m], win.inst[m + 1])
    BY <1>3, <2>2
  <2>4. IsSpace(Grown(f[m], win.inst[m + 1]), source, win, m + 1)
    BY <1>5, <2>1, <2>2, SpaceGrows DEF N
  <2> QED
    BY <2>3, <2>4
<1> HIDE DEF T
<1>6. \A m \in Nat : m \in T
  BY <1>4, <1>5, NatInduct
<1>7. \A m \in 0..N : IsSpace(f[m], source, win, m)
  <2>1. ASSUME NEW m \in 0..N
        PROVE  m \in T /\ m <= N
    BY <1>3, <1>6
  <2> QED
    BY <2>1 DEF T
<1>8. ASSUME NEW s, IsSpace(s, source, win, N)
      PROVE  s = f[N]
  <2> DEFINE Z(k) == Sizes(win.inst, k)
             c == win.cpylen
  <2>1. /\ s \in Seq(Byte) /\ Len(s) = c + Z(N) /\ \A k \in 1..c : s[k] = source[win.cpyoff + k]
        /\ \A k \in 1..N : Yields(s, c + Z(k - 1), win.inst[k])
    BY <1>8 DEF IsSpace
  <2>2. /\ win.inst \in Seq(Hinst) /\ c \in Nat
        /\ \A k \in 1..N : /\ win.inst[k] \in Hinst /\ win.inst[k].size \in Nat
                           /\ Z(k) = Z(k - 1) + win.inst[k].size
                           /\ win.inst[k].type = "CPY" => win.inst[k].addr < c + Z(k - 1)
        /\ \A k \in 0..N : Z(k) \in Nat
        /\ Z(0) = 0
    BY WinFacts DEF N
  <2>3. \A k \in 0..N : Z(k) <= Z(N)
    BY <2>2, SizesGrow DEF N
  <2>4. \A m \in 0..N : /\ f[m] \in Seq(Byte) /\ Len(f[m]) = c + Z(m)
                        /\ \A k \in 1..c : f[m][k] = source[win.cpyoff + k]
    BY <1>7 DEF IsSpace
  <2> HIDE DEF Z, c
  <2> DEFINE U == {m \in Nat : m <= N => \A q \in 1..(c + Z(m)) : s[q] = f[m][q]}
  <2>5. 0 \in U
    <3>1. 0 \in 0..N /\ c + Z(0) = c
      BY <1>3, <2>2
    <3> QED
      BY <2>1, <2>4, <3>1
  <2>6. ASSUME NEW m \in Nat, m \in U
        PROVE  m + 1 \in U
    <3>1. SUFFICES ASSUME m + 1 <= N
                   PROVE  \A q \in 1..(c + Z(m + 1)) : s[q] = f[m + 1][q]
      OBVIOUS
    <3>2. m + 1 \in 0..N /\ m + 1 \in 1..N /\ m \in 0..N /\ m + 1 # 0 /\ (m + 1) - 1 = m /\ m <= N
      BY <1>3, <3>1
    <3> DEFINE i == win.inst[m + 1]
               l == c + Z(m)
               e == c + Z(m + 1)
               t == SubSeq(s, 0 + 1, 0 + e)
    <3>3. i \in Hinst /\ i.size \in Nat /\ Z(m + 1) = Z(m) + i.size /\ (i.type = "CPY" => i.addr < l)
      BY <2>2, <3>2
    <3>4. l \in Nat /\ e \in Nat /\ e = l + i.size /\ e <= Len(s) /\ l <= e
      <4>1. Z(m) \in Nat /\ Z(m + 1) \in Nat /\ Z(m + 1) <= Z(N) /\ Len(s) = c + Z(N) /\ c \in Nat /\ Z(N) \in Nat
        <5>1. N \in 0..N
          BY <1>3
        <5> QED
          BY <2>1, <2>2, <2>3, <3>2, <5>1
      <4> DEFINE z == i.size
                 x == Z(m)
                 y == Z(m + 1)
                 w == Z(N)
      <4>2. /\ z \in Nat /\ x \in Nat /\ y \in Nat /\ w \in Nat /\ y = x + z /\ y <= w /\ c \in Nat
            /\ Len(s) = c + w
        BY <3>3, <4>1
      <4> HIDE DEF x, y, z, w, i
      <4>3. c + x \in Nat /\ c + y \in Nat /\ c + y = (c + x) + z /\ c + y <= Len(s) /\ c + x <= c + y
        BY ONLY <4>2
      <4> QED
        BY <4>3 DEF e, l, x, y, z
    <3> HIDE DEF i, l, e
    <3>5. t \in Seq(Byte) /\ Len(t) = e /\ \A q \in 1..e : t[q] = s[q]
      <4>1. /\ 0 \in Nat /\ 0 + e <= Len(s) /\ \A q \in 1..e : 0 + q = q
        BY <3>4
      <4>2. \A q \in 1..e : t[q] = s[0 + q]
        BY <2>1, <3>4, <4>1, PartOf
      <4>3. t \in Seq(Byte) /\ Len(t) = e
        BY <2>1, <3>4, <4>1, PartOf
      <4> QED
        BY <4>1, <4>2, <4>3
    <3> HIDE DEF t
    <3>6. Yields(t, l, i)
      <4>1. Yields(s, l, i)
        BY <2>1, <3>2 DEF l, i
      <4>2. \A q \in 1..e : s[q] = t[q]
        BY <3>5
      <4>3. l + i.size <= e
        BY <3>4
      <4> QED
        BY <3>3, <3>4, <4>1, <4>2, <4>3, YieldsPrefix
    <3>7. f[m] \in Seq(Byte) /\ Len(f[m]) = l
      BY <2>4, <3>2 DEF l
    <3>8. \A q \in 1..l : t[q] = f[m][q]
      <4>1. \A q \in 1..l : s[q] = f[m][q]
        BY <2>6, <3>2 DEF l
      <4>2. \A q \in 1..l : q \in 1..e
        BY <3>4
      <4> QED
        BY <3>5, <4>1, <4>2
    <3>9. t = Grown(f[m], i)
      BY <3>3, <3>4, <3>5, <3>6, <3>7, <3>8, GrownIs
    <3>10. f[m + 1] = Grown(f[m], i)
      BY <1>3, <3>2 DEF i
    <3> QED
      BY <3>5, <3>9, <3>10 DEF e
  <2> HIDE DEF U
  <2>7. \A m \in Nat : m \in U
    BY <2>5, <2>6, NatInduct
  <2>8. N \in U /\ N <= N /\ N \in 0..N
    BY <1>3, <2>7
  <2>9. \A q \in 1..(c + Z(N)) : s[q] = f[N][q]
    BY <2>8 DEF U
  <2>10. f[N] \in Seq(Byte) /\ Len(f[N]) = Len(s)
    BY <2>1, <2>4, <2>8
  <2> QED
    BY <2>1, <2>9, <2>10
<1>9. N \in 0..N
  BY <1>3
<1> QED
  BY <1>1, <1>7, <1>8, <1>9 DEF N

-----------------------------------------------------------------------------
(* What a delta makes: the text. *)

\* f joins the pieces one after the other.
IsJoin(f, p, n) == f = [k \in 0..n |-> IF k = 0 THEN <<>> ELSE f[k - 1] \o p[k]]

\* There is such a function.
LEMMA JoinExists ==
  ASSUME NEW X, NEW n \in Nat, NEW p, \A k \in 1..n : p[k] \in Seq(X)
  PROVE  \E f : IsJoin(f, p, n)
<1> DEFINE S == Seq(X)
           V(q) == IF q[2] \o p[q[1]] \in S THEN q[2] \o p[q[1]] ELSE <<>>
           F == [q \in Nat \X S |-> V(q)]
           b == <<>>
<1>1. b \in S
  OBVIOUS
<1>2. ASSUME NEW s \in S, NEW k \in 1..n
      PROVE  s \o p[k] \in S
  BY ConcatProperties
<1>3. F \in [Nat \X S -> S]
  <2>1. \A q \in Nat \X S : V(q) \in S
    <3> HIDE DEF S
    <3> QED BY <1>1
  <2> HIDE DEF V, S
  <2> QED BY <2>1
<1>4. ASSUME NEW s \in S, NEW k \in 1..n
      PROVE  F[<<k, s>>] = s \o p[k]
  <2>1. <<k, s>> \in Nat \X S /\ <<k, s>>[1] = k /\ <<k, s>>[2] = s
    OBVIOUS
  <2>2. F[<<k, s>>] = V(<<k, s>>)
    <3> HIDE DEF V, S
    <3> QED BY <2>1
  <2> HIDE DEF S
  <2> QED BY <1>2, <2>1, <2>2
<1> HIDE DEF S, F, b
<1>5. PICK f : IsComputed(f, S, n, b, F)
  BY <1>1, <1>3, Recursion
<1>6. f \in [0..n -> S] /\ f[0] = b /\ \A k \in 1..n : f[k] = F[<<k, f[k - 1]>>]
  BY <1>5 DEF IsComputed
<1>7. ASSUME NEW k \in 0..n
      PROVE  f[k] = IF k = 0 THEN <<>> ELSE f[k - 1] \o p[k]
  <2>1. CASE k = 0
    BY <1>6, <2>1 DEF b
  <2>2. CASE k # 0
    <3>1. k \in 1..n /\ k - 1 \in 0..n
      BY <2>2
    <3>2. f[k - 1] \in S
      BY <1>6, <3>1
    <3> QED
      BY <1>4, <1>6, <2>2, <3>1, <3>2
  <2> QED
    BY <2>1, <2>2
<1> DEFINE G(k) == IF k = 0 THEN <<>> ELSE f[k - 1] \o p[k]
<1>8. \A k \in 0..n : f[k] = G(k)
  BY <1>7
<1> HIDE DEF G
<1>9. f = [k \in 0..n |-> G(k)]
  BY <1>6, <1>8
<1> QED
  BY <1>9 DEF IsJoin, G

\* Its values.
LEMMA JoinFacts ==
  ASSUME NEW X, NEW n \in Nat, NEW p, \A k \in 1..n : p[k] \in Seq(X), NEW f, IsJoin(f, p, n)
  PROVE  /\ f[0] = <<>> /\ \A k \in 0..n : f[k] \in Seq(X)
         /\ \A k \in 1..n : f[k] = f[k - 1] \o p[k]
<1> DEFINE S == Seq(X)
           T == {m \in Nat : m <= n => f[m] \in S}
<1>0. \A k \in 0..n : f[k] = IF k = 0 THEN <<>> ELSE f[k - 1] \o p[k]
  BY DEF IsJoin
<1>1. f[0] = <<>> /\ \A k \in 1..n : f[k] = f[k - 1] \o p[k]
  <2>1. 0 \in 0..n /\ \A k \in 1..n : k \in 0..n /\ k # 0
    OBVIOUS
  <2> QED
    BY <1>0, <2>1
<1>2. 0 \in T
  <2>1. <<>> \in S
    OBVIOUS
  <2> HIDE DEF S
  <2> QED
    BY <1>1, <2>1
<1>3. ASSUME NEW m \in Nat, m \in T
      PROVE  m + 1 \in T
  <2>1. SUFFICES ASSUME m + 1 <= n
                 PROVE  f[m + 1] \in S
    OBVIOUS
  <2>2. m + 1 \in 1..n /\ (m + 1) - 1 = m /\ m <= n
    BY <2>1
  <2>3. f[m] \in S /\ p[m + 1] \in S /\ f[m + 1] = f[m] \o p[m + 1]
    BY <1>1, <1>3, <2>2
  <2> QED
    BY <2>3, ConcatProperties
<1> HIDE DEF T
<1>4. \A m \in Nat : m \in T
  BY <1>2, <1>3, NatInduct
<1>5. ASSUME NEW k \in 0..n
      PROVE  f[k] \in S
  <2>1. k \in T /\ k <= n
    BY <1>4
  <2> QED
    BY <2>1 DEF T
<1> QED
  BY <1>1, <1>5

\* The bytes of a window.
LEMMA ProducedFacts ==
  ASSUME NEW source \in Seq(Byte), NEW win \in Window, WellFormed(Len(source), win)
  PROVE  /\ Produced(source, win) \in Seq(Byte)
         /\ Len(Produced(source, win)) = Sizes(win.inst, Len(win.inst))
         /\ \A r \in 1..Sizes(win.inst, Len(win.inst)) : Produced(source, win)[r] = Space(source, win)[win.cpylen + r]
<1> DEFINE s == Space(source, win)
           c == win.cpylen
           z == Sizes(win.inst, Len(win.inst))
<1>1. s \in Seq(Byte) /\ Len(s) = c + z
  BY SpaceFacts DEF IsSpace
<1>2. c \in Nat /\ z \in Nat
  <2>1. Len(win.inst) \in 0..Len(win.inst)
    BY WinFacts
  <2> QED
    BY <2>1, WinFacts
<1>3. Produced(source, win) = SubSeq(s, c + 1, c + z)
  BY DEF Produced
<1> HIDE DEF s, c, z
<1>4. c + z <= Len(s)
  BY <1>1, <1>2
<1>5. /\ SubSeq(s, c + 1, c + z) \in Seq(Byte) /\ Len(SubSeq(s, c + 1, c + z)) = z
      /\ \A k \in 1..z : SubSeq(s, c + 1, c + z)[k] = s[c + k]
  BY <1>1, <1>2, <1>4, PartOf
<1> QED
  BY <1>3, <1>5 DEF s, c, z

\* The windows of a delta against source.
FitsText(source, delta) ==
  source \in Seq(Byte) /\ delta \in Seq(Window) /\ \A n \in 1..Len(delta) : WellFormed(Len(source), delta[n])

\* How many bytes the n'th window makes.
WinSize(delta, n) == Sizes(delta[n].inst, Len(delta[n].inst))

\* Where the windows are.
LEMMA TotalFacts ==
  ASSUME NEW source, NEW delta, FitsText(source, delta)
  PROVE  /\ Len(delta) \in Nat /\ Total(delta, 0) = 0 /\ \A n \in 0..Len(delta) : Total(delta, n) \in Nat
         /\ \A n \in 1..Len(delta) : /\ WinSize(delta, n) \in Nat
                                     /\ Total(delta, n) = Total(delta, n - 1) + WinSize(delta, n)
<1>1. delta \in Seq(Window) /\ Len(delta) \in Nat
  BY DEF FitsText
<1>2. \A n \in 0..Len(delta) : Total(delta, n) \in Nat
  BY <1>1, TotalSteps
<1>3. Total(delta, 0) = 0
  <2>1. 0 \in 0..Len(delta)
    BY <1>1
  <2> QED
    BY <1>1, <2>1, TotalSteps
<1>4. ASSUME NEW n \in 1..Len(delta)
      PROVE  WinSize(delta, n) \in Nat /\ Total(delta, n) = Total(delta, n - 1) + WinSize(delta, n)
  <2> DEFINE l == n - 1
  <2>1. l \in 0..Len(delta) /\ l < Len(delta) /\ l + 1 = n
    BY <1>1
  <2> HIDE DEF l
  <2>2. Total(delta, l + 1) = Total(delta, l) + WinSize(delta, l + 1)
    BY <1>1, <2>1, TotalSteps DEF WinSize
  <2>3. delta[n] \in Window
    BY <1>1
  <2>4. delta[n].inst \in Seq(Hinst)
    BY <2>3 DEF Window
  <2>5. Len(delta[n].inst) \in 0..Len(delta[n].inst)
    BY <2>4
  <2>6. WinSize(delta, n) \in Nat
    BY <2>4, <2>5, SizesSteps DEF WinSize
  <2> QED
    BY <2>1, <2>2, <2>6 DEF l
<1> QED
  BY <1>1, <1>2, <1>3, <1>4

\* The function that makes the text.
IsText(f, source, delta) ==
  f = [n \in 0..Len(delta) |-> IF n = 0 THEN <<>> ELSE f[n - 1] \o Produced(source, delta[n])]

\* There is one.
LEMMA TextExists ==
  ASSUME NEW source, NEW delta, FitsText(source, delta)
  PROVE  \E f : IsText(f, source, delta)
<1> DEFINE n == Len(delta)
           p == [k \in 1..n |-> Produced(source, delta[k])]
<1>1. n \in Nat
  BY DEF FitsText
<1>2. ASSUME NEW k \in 1..n
      PROVE  p[k] \in Seq(Byte)
  <2>1. delta[k] \in Window /\ WellFormed(Len(source), delta[k]) /\ source \in Seq(Byte)
    BY DEF FitsText
  <2>2. Produced(source, delta[k]) \in Seq(Byte)
    BY <2>1, ProducedFacts
  <2> QED
    BY <2>2
<1>3. \A k \in 1..n : p[k] = Produced(source, delta[k])
  OBVIOUS
<1> HIDE DEF p, n
<1>4. PICK f : IsJoin(f, p, n)
  BY <1>1, <1>2, JoinExists
<1> DEFINE G(k) == IF k = 0 THEN <<>> ELSE f[k - 1] \o Produced(source, delta[k])
<1>5. ASSUME NEW k \in 0..n
      PROVE  f[k] = G(k)
  <2>1. f[k] = IF k = 0 THEN <<>> ELSE f[k - 1] \o p[k]
    BY <1>4 DEF IsJoin
  <2>2. k # 0 => k \in 1..n
    BY <1>1
  <2> QED
    BY <1>3, <2>1, <2>2
<1>6. f = [k \in 0..n |-> f[k]]
  BY <1>4 DEF IsJoin
<1> HIDE DEF G
<1>7. f = [k \in 0..n |-> G(k)]
  BY <1>5, <1>6
<1> QED
  BY <1>7 DEF IsText, G, n

\* What the delta makes: the windows' bytes, one after the other.
LEMMA DecodedFacts ==
  ASSUME NEW source, NEW delta, FitsText(source, delta)
  PROVE  /\ Decoded(source, delta) \in Seq(Byte) /\ Len(Decoded(source, delta)) = Total(delta, Len(delta))
         /\ \A n \in 1..Len(delta) : \A r \in 1..WinSize(delta, n) :
              Decoded(source, delta)[Total(delta, n - 1) + r] = Produced(source, delta[n])[r]
         /\ \A t \in Seq(Byte) :
              /\ Len(t) = Total(delta, Len(delta))
              /\ \A n \in 1..Len(delta) : \A r \in 1..WinSize(delta, n) :
                   t[Total(delta, n - 1) + r] = Produced(source, delta[n])[r]
              => t = Decoded(source, delta)
<1> DEFINE f == CHOOSE f : IsText(f, source, delta)
           N == Len(delta)
           Z(n) == WinSize(delta, n)
           E(n) == Total(delta, n)
           P(n) == Produced(source, delta[n])
<1>1. Decoded(source, delta) = f[N]
  BY DEF Decoded, IsText
<1>2. IsText(f, source, delta)
  BY TextExists
<1> HIDE DEF f
<1>3. \A k \in 0..N : f[k] = IF k = 0 THEN <<>> ELSE f[k - 1] \o P(k)
  BY <1>2 DEF IsText
<1>4. /\ N \in Nat /\ E(0) = 0 /\ \A n \in 0..N : E(n) \in Nat
      /\ \A n \in 1..N : Z(n) \in Nat /\ E(n) = E(n - 1) + Z(n)
  BY TotalFacts
<1>5. ASSUME NEW n \in 1..N
      PROVE  P(n) \in Seq(Byte) /\ Len(P(n)) = Z(n)
  <2>1. delta[n] \in Window /\ WellFormed(Len(source), delta[n]) /\ source \in Seq(Byte)
    BY DEF FitsText
  <2> QED
    BY <2>1, ProducedFacts DEF WinSize
<1> HIDE DEF N, Z, E, P
<1> DEFINE Upto(m) == /\ f[m] \in Seq(Byte) /\ Len(f[m]) = E(m)
                      /\ \A n \in 1..m : E(n) <= E(m) /\ \A r \in 1..Z(n) : f[m][E(n - 1) + r] = P(n)[r]
           T == {m \in Nat : m <= N => Upto(m)}
<1>6. 0 \in T
  <2>1. f[0] = <<>>
    BY <1>3, <1>4
  <2>2. 1..0 = {}
    OBVIOUS
  <2>3. f[0] \in Seq(Byte) /\ Len(f[0]) = E(0)
    BY <1>4, <2>1
  <2> QED
    BY <2>2, <2>3
<1>7. ASSUME NEW m \in Nat, m \in T
      PROVE  m + 1 \in T
  <2>1. SUFFICES ASSUME m + 1 <= N
                 PROVE  Upto(m + 1)
    OBVIOUS
  <2>2. m + 1 \in 0..N /\ m + 1 \in 1..N /\ (m + 1) - 1 = m /\ m <= N /\ m + 1 # 0 /\ m \in 0..N
    BY <1>4, <2>1
  <2>3. f[m + 1] = f[m] \o P(m + 1)
    BY <1>3, <2>2
  <2>4. /\ f[m] \in Seq(Byte) /\ Len(f[m]) = E(m)
        /\ \A n \in 1..m : E(n) <= E(m) /\ \A r \in 1..Z(n) : f[m][E(n - 1) + r] = P(n)[r]
    BY <1>7, <2>2
  <2>5. P(m + 1) \in Seq(Byte) /\ Len(P(m + 1)) = Z(m + 1) /\ E(m + 1) = E(m) + Z(m + 1)
        /\ E(m) \in Nat /\ Z(m + 1) \in Nat /\ E(m + 1) \in Nat
    BY <1>4, <1>5, <2>2
  <2> DEFINE g == f[m]
             h == f[m + 1]
             p == P(m + 1)
  <2>6. /\ h \in Seq(Byte) /\ Len(h) = E(m) + Z(m + 1)
        /\ \A k \in 1..E(m) : h[k] = g[k]
        /\ \A k \in 1..Z(m + 1) : h[E(m) + k] = p[k]
    <3>1. g \in Seq(Byte) /\ p \in Seq(Byte) /\ h = g \o p /\ Len(g) = E(m) /\ Len(p) = Z(m + 1)
      BY <2>3, <2>4, <2>5
    <3> HIDE DEF g, h, p
    <3>2. /\ g \o p \in Seq(Byte) /\ Len(g \o p) = Len(g) + Len(p)
          /\ \A k \in 1..Len(g) : (g \o p)[k] = g[k]
          /\ \A k \in 1..Len(p) : (g \o p)[Len(g) + k] = p[k]
      BY <3>1, JoinedBytes
    <3> QED
      BY ONLY <3>1, <3>2
  <2>7. ASSUME NEW n \in 1..(m + 1)
        PROVE  E(n) <= E(m + 1) /\ \A r \in 1..Z(n) : h[E(n - 1) + r] = P(n)[r]
    <3>1. CASE n = m + 1
      BY <2>2, <2>5, <2>6, <3>1
    <3>2. CASE n # m + 1
      <4>1. n \in 1..m /\ n \in 0..N /\ n - 1 \in 0..N /\ n \in 1..N
        BY <1>4, <2>2, <3>2
      <4>2. E(n) <= E(m) /\ \A r \in 1..Z(n) : g[E(n - 1) + r] = P(n)[r]
        BY <2>4, <4>1
      <4>3. E(n) \in Nat /\ E(n - 1) \in Nat /\ Z(n) \in Nat /\ E(n) = E(n - 1) + Z(n)
        BY <1>4, <4>1
      <4>4. E(n) <= E(m + 1)
        BY ONLY <2>5, <4>2, <4>3
      <4>5. \A r \in 1..Z(n) : E(n - 1) + r \in 1..E(m)
        BY ONLY <2>5, <4>2, <4>3, SMTT(30)
      <4> QED
        BY <2>6, <4>2, <4>4, <4>5
    <3> QED
      BY <3>1, <3>2
  <2>8. Len(h) = E(m + 1)
    BY <2>5, <2>6
  <2> QED
    BY <2>6, <2>7, <2>8
<1> HIDE DEF T
<1>8. \A m \in Nat : m \in T
  BY <1>6, <1>7, NatInduct
<1>9. \A m \in 0..N : Upto(m)
  <2>1. ASSUME NEW m \in 0..N
        PROVE  m \in T /\ m <= N
    BY <1>4, <1>8
  <2> QED
    BY <2>1 DEF T
<1>10. Upto(N)
  BY <1>4, <1>9
<1>11. ASSUME NEW t \in Seq(Byte), Len(t) = E(N), \A n \in 1..N : \A r \in 1..Z(n) : t[E(n - 1) + r] = P(n)[r]
       PROVE  t = f[N]
  <2> DEFINE U == {m \in Nat : m <= N => \A q \in 1..E(m) : t[q] = f[N][q]}
  <2>1. 0 \in U
    BY <1>4
  <2>2. ASSUME NEW m \in Nat, m \in U
        PROVE  m + 1 \in U
    <3>1. SUFFICES ASSUME m + 1 <= N, NEW q \in 1..E(m + 1)
                   PROVE  t[q] = f[N][q]
      OBVIOUS
    <3>2. m + 1 \in 1..N /\ (m + 1) - 1 = m /\ m <= N /\ m \in 0..N /\ m + 1 \in 0..N
      BY <1>4, <3>1
    <3>3. E(m) \in Nat /\ E(m + 1) \in Nat /\ Z(m + 1) \in Nat /\ E(m + 1) = E(m) + Z(m + 1)
      BY <1>4, <3>2
    <3>4. CASE q <= E(m)
      <4>1. q \in 1..E(m)
        BY <3>3, <3>4
      <4> QED
        BY <2>2, <3>2, <4>1
    <3>5. CASE ~ (q <= E(m))
      <4> DEFINE r == q - E(m)
      <4>1. r \in 1..Z(m + 1) /\ E(m) + r = q
        BY <3>3, <3>5
      <4> HIDE DEF r
      <4>2. t[E(m) + r] = P(m + 1)[r]
        BY <1>11, <3>2, <4>1
      <4>3. f[N][E(m) + r] = P(m + 1)[r]
        BY <1>10, <3>2, <4>1
      <4> QED
        BY <4>1, <4>2, <4>3
    <3> QED
      BY <3>4, <3>5
  <2> HIDE DEF U
  <2>3. \A m \in Nat : m \in U
    BY <2>1, <2>2, NatInduct
  <2>4. N \in U
    BY <1>4, <2>3
  <2>5. \A q \in 1..E(N) : t[q] = f[N][q]
    BY <1>4, <2>4 DEF U
  <2>6. f[N] \in Seq(Byte) /\ Len(f[N]) = E(N)
    BY <1>10
  <2> QED
    BY <1>11, <2>5, <2>6
<1> QED
  BY <1>1, <1>10, <1>11 DEF N, Z, E, P

-----------------------------------------------------------------------------
(* What a delta makes: the bytes of an instruction in the text. *)

\* The k'th instruction of a window that begins after start bytes of t.
InstructionTells(t, source, win, start, k) ==
  LET i == win.inst[k]
  IN  \A j \in 1..i.size :
        t[start + Sizes(win.inst, k - 1) + j] =
          IF i.type = "ADD" THEN i.bytes[j]
          ELSE IF i.type = "RUN" THEN i.bytes[1]
          ELSE IF i.addr < win.cpylen THEN source[win.cpyoff + i.addr + j]
          ELSE t[start + i.addr - win.cpylen + j]

\* Every instruction of a delta is somewhere in its text.
LEMMA DeltaTells ==
  ASSUME NEW source, NEW delta, FitsText(source, delta), NEW n \in 1..Len(delta), NEW k \in 1..Len(delta[n].inst)
  PROVE  InstructionTells(Decoded(source, delta), source, delta[n], Total(delta, n - 1), k)
<1> DEFINE win == delta[n]
           i == win.inst[k]
           start == Total(delta, n - 1)
           t == Decoded(source, delta)
           s == Space(source, win)
           c == win.cpylen
           q == Sizes(win.inst, k - 1)
           z == Sizes(win.inst, Len(win.inst))
<1>0. SUFFICES ASSUME NEW j \in 1..i.size
               PROVE  t[start + q + j] =
                        IF i.type = "ADD" THEN i.bytes[j]
                        ELSE IF i.type = "RUN" THEN i.bytes[1]
                        ELSE IF i.addr < c THEN source[win.cpyoff + i.addr + j]
                        ELSE t[start + i.addr - c + j]
  BY DEF InstructionTells
<1>1. source \in Seq(Byte) /\ win \in Window /\ WellFormed(Len(source), win)
  BY DEF FitsText
<1>2. \A r \in 1..z : t[start + r] = s[c + r]
  <2>1. \A r \in 1..z : t[start + r] = Produced(source, win)[r]
    BY DecodedFacts DEF WinSize
  <2> QED
    BY <1>1, <2>1, ProducedFacts
<1>3. /\ \A r \in 1..c : s[r] = source[win.cpyoff + r]
      /\ Yields(s, c + q, i)
  <2>1. IsSpace(s, source, win, Len(win.inst))
    BY <1>1, SpaceFacts
  <2> HIDE DEF s
  <2> QED
    BY <2>1 DEF IsSpace
<1>4. /\ win.inst \in Seq(Hinst) /\ c \in Nat /\ win.cpyoff \in Nat /\ Len(win.inst) \in Nat
      /\ i \in Hinst /\ q \in Nat /\ z \in Nat /\ Sizes(win.inst, k) = q + i.size
      /\ i.type = "CPY" => /\ i.addr < c + q
                           /\ i.addr < c => i.addr + i.size <= c
  <2>1. Len(win.inst) \in 0..Len(win.inst) /\ k - 1 \in 0..Len(win.inst)
    BY <1>1, WinFacts
  <2> QED
    BY <1>1, <2>1, WinFacts
<1>5. Sizes(win.inst, k) <= z
  <2>1. k \in 0..Len(win.inst)
    BY <1>4
  <2> QED
    BY <1>4, <2>1, SizesGrow
<1>6. start \in Nat
  <2>1. n - 1 \in 0..Len(delta)
    BY TotalFacts
  <2> QED
    BY <2>1, TotalFacts
<1>7. i.type \in {"ADD", "RUN", "CPY"} /\ i.size \in Nat /\ i.addr \in Nat /\ j \in 1..i.size
  BY <1>4, HinstFacts
<1>8. t[start + (q + j)] = s[c + (q + j)]
  <2>1. q + j \in 1..z
    BY <1>4, <1>5, <1>7, SMTT(30)
  <2> QED
    BY <1>2, <2>1
<1>9. s[(c + q) + j] = IF i.type = "ADD" THEN i.bytes[j] ELSE IF i.type = "RUN" THEN i.bytes[1] ELSE s[i.addr + j]
  BY <1>3, <1>7 DEF Yields
<1>10. ASSUME i.type = "CPY", i.addr < c
       PROVE  s[i.addr + j] = source[win.cpyoff + i.addr + j]
  <2>1. i.addr + j \in 1..c /\ win.cpyoff + (i.addr + j) = win.cpyoff + i.addr + j
    <3> DEFINE a == i.addr
               l == i.size
               o == win.cpyoff
    <3>1. a \in Nat /\ l \in Nat /\ o \in Nat /\ c \in Nat /\ j \in 1..l /\ a + l <= c
      BY <1>4, <1>7, <1>10
    <3> HIDE DEF a, l, o, c
    <3>2. a + j \in 1..c /\ o + (a + j) = o + a + j
      BY ONLY <3>1
    <3> QED
      BY <3>2 DEF a, o
  <2> QED
    BY <1>3, <2>1
<1>11. ASSUME i.type = "CPY", ~ (i.addr < c)
       PROVE  s[i.addr + j] = t[start + i.addr - c + j]
  <2> DEFINE r == i.addr - c + j
  <2>1. r \in 1..z /\ c + r = i.addr + j /\ start + r = start + i.addr - c + j
    <3> DEFINE a == i.addr
               l == i.size
    <3>1. /\ c \in Nat /\ a \in Nat /\ q \in Nat /\ z \in Nat /\ l \in Nat /\ start \in Nat /\ j \in 1..l
          /\ q + l <= z /\ a < c + q /\ ~ (a < c)
      BY <1>4, <1>5, <1>6, <1>7, <1>11
    <3> HIDE DEF a, l, c, q, z, start
    <3>2. a - c + j \in 1..z /\ c + (a - c + j) = a + j /\ start + (a - c + j) = start + a - c + j
      <4>1. a - c + j \in Int /\ c + (a - c + j) = a + j
        BY ONLY <3>1
      <4>2. start + (a - c + j) = start + a - c + j
        BY ONLY <3>1
      <4>3. 1 <= a - c + j /\ a - c + j <= z
        BY ONLY <3>1
      <4> QED
        BY ONLY <3>1, <4>1, <4>2, <4>3
    <3> QED
      BY <3>2 DEF a
  <2> HIDE DEF r
  <2> QED
    BY <1>2, <2>1
<1>12. start + q + j = start + (q + j) /\ c + (q + j) = (c + q) + j
  BY <1>4, <1>6, <1>7, SMTT(30)
<1> QED
  BY <1>7, <1>8, <1>9, <1>10, <1>11, <1>12

\* The function that makes the texts.
IsTexts(f, c) == f = [n \in 0..Len(c) |-> IF n = 0 THEN Source ELSE Decoded(f[n - 1], c[n])]

\* There is one; every delta fits the text it is against.
LEMMA TextsFacts ==
  ASSUME NEW c \in Chains, Fits(c)
  PROVE  /\ c \in Seq(Seq(Window)) /\ Len(c) \in Nat /\ Texts(c)[0] = Source
         /\ \A k \in 0..Len(c) : Texts(c)[k] \in Seq(Byte)
         /\ \A k \in 1..Len(c) : /\ FitsText(Texts(c)[k - 1], c[k])
                                 /\ Texts(c)[k] = Decoded(Texts(c)[k - 1], c[k])
                                 /\ Len(Texts(c)[k - 1]) = BaseLength(c, k)
<1> DEFINE N == Len(c)
           S == Seq(Byte)
           V(q) == IF Decoded(q[2], c[q[1]]) \in S THEN Decoded(q[2], c[q[1]]) ELSE <<>>
           F == [q \in Nat \X S |-> V(q)]
<1>1. c \in Seq(Seq(Window)) /\ N \in Nat /\ Source \in S /\ \A k \in 1..N : c[k] \in Seq(Window)
  BY ChainsAssumption
<1>2. F \in [Nat \X S -> S]
  <2>1. <<>> \in S
    OBVIOUS
  <2>2. \A q \in Nat \X S : V(q) \in S
    <3> HIDE DEF S
    <3> QED BY <2>1
  <2> HIDE DEF V, S
  <2> QED BY <2>2
<1>3. ASSUME NEW k \in 1..N, NEW s \in S, Decoded(s, c[k]) \in S
      PROVE  F[<<k, s>>] = Decoded(s, c[k])
  <2>1. <<k, s>> \in Nat \X S /\ <<k, s>>[1] = k /\ <<k, s>>[2] = s
    OBVIOUS
  <2>2. F[<<k, s>>] = V(<<k, s>>)
    <3> HIDE DEF V, S
    <3> QED BY <2>1
  <2> HIDE DEF S
  <2> QED BY <1>3, <2>1, <2>2
\* A text of the right length is what the delta is against.
<1>4. ASSUME NEW k \in 1..N, NEW s \in S, Len(s) = BaseLength(c, k)
      PROVE  FitsText(s, c[k]) /\ Decoded(s, c[k]) \in S /\ Len(Decoded(s, c[k])) = BaseLength(c, k + 1)
  <2>1. FitsText(s, c[k])
    BY <1>1, <1>4 DEF FitsText, Fits
  <2>2. Decoded(s, c[k]) \in S /\ Len(Decoded(s, c[k])) = Total(c[k], Len(c[k]))
    BY <2>1, DecodedFacts
  <2>3. k + 1 # 1 /\ (k + 1) - 1 = k
    OBVIOUS
  <2> QED
    BY <2>1, <2>2, <2>3 DEF BaseLength
<1>5. Len(Source) = BaseLength(c, 1)
  BY DEF BaseLength
<1>6. ASSUME NEW f, f[0] = Source, \A k \in 1..N : f[k - 1] \in S /\ Decoded(f[k - 1], c[k]) \in S => f[k] = Decoded(f[k - 1], c[k])
      PROVE  \A m \in Nat : m <= N => /\ f[m] \in S /\ Len(f[m]) = BaseLength(c, m + 1)
                                      /\ m > 0 => /\ FitsText(f[m - 1], c[m]) /\ f[m] = Decoded(f[m - 1], c[m])
                                                  /\ Len(f[m - 1]) = BaseLength(c, m)
  <2> DEFINE T == {m \in Nat : m <= N => /\ f[m] \in S /\ Len(f[m]) = BaseLength(c, m + 1)
                                         /\ m > 0 => /\ FitsText(f[m - 1], c[m]) /\ f[m] = Decoded(f[m - 1], c[m])
                                                     /\ Len(f[m - 1]) = BaseLength(c, m)}
  <2>1. 0 \in T
    <3>1. 0 + 1 = 1 /\ ~ (0 > 0)
      OBVIOUS
    <3> QED
      BY <1>1, <1>5, <1>6, <3>1
  <2>2. ASSUME NEW m \in Nat, m \in T
        PROVE  m + 1 \in T
    <3>1. SUFFICES ASSUME m + 1 <= N
                   PROVE  /\ f[m + 1] \in S /\ Len(f[m + 1]) = BaseLength(c, (m + 1) + 1)
                          /\ FitsText(f[m], c[m + 1]) /\ f[m + 1] = Decoded(f[m], c[m + 1])
                          /\ Len(f[m]) = BaseLength(c, m + 1)
      <4>1. (m + 1) - 1 = m
        OBVIOUS
      <4> QED
        BY <3>1, <4>1
    <3>2. m + 1 \in 1..N /\ (m + 1) - 1 = m /\ m <= N
      BY <1>1, <3>1
    <3>3. f[m] \in S /\ Len(f[m]) = BaseLength(c, m + 1)
      BY <2>2, <3>2
    <3>4. /\ FitsText(f[m], c[m + 1]) /\ Decoded(f[m], c[m + 1]) \in S
          /\ Len(Decoded(f[m], c[m + 1])) = BaseLength(c, (m + 1) + 1)
      BY <1>4, <3>2, <3>3
    <3>5. f[m + 1] = Decoded(f[m], c[m + 1])
      BY <1>6, <3>2, <3>3, <3>4
    <3> QED
      BY <3>3, <3>4, <3>5
  <2> HIDE DEF T
  <2>3. \A m \in Nat : m \in T
    BY <2>1, <2>2, NatInduct
  <2> QED
    BY <2>3 DEF T
<1>7. \E f : IsTexts(f, c)
  <2>1. PICK f : IsComputed(f, S, N, Source, F)
    <3> HIDE DEF S, F, N
    <3> QED BY <1>1, <1>2, Recursion
  <2>2. f \in [0..N -> S] /\ f[0] = Source /\ \A k \in 1..N : f[k] = F[<<k, f[k - 1]>>]
    BY <2>1 DEF IsComputed
  <2>3. \A k \in 1..N : f[k - 1] \in S /\ Decoded(f[k - 1], c[k]) \in S => f[k] = Decoded(f[k - 1], c[k])
    BY <1>3, <2>2
  <2>4. \A m \in Nat : m <= N => (m > 0 => f[m] = Decoded(f[m - 1], c[m]))
    <3> HIDE DEF S, F, N
    <3> QED BY <1>6, <2>2, <2>3
  <2> DEFINE G(n) == IF n = 0 THEN Source ELSE Decoded(f[n - 1], c[n])
  <2>5. ASSUME NEW k \in 0..N
        PROVE  f[k] = G(k)
    <3>1. k \in Nat /\ k <= N /\ (k # 0 => k > 0)
      BY <1>1
    <3> QED
      BY <2>2, <2>4, <3>1
  <2> HIDE DEF G
  <2>6. f = [n \in 0..N |-> G(n)]
    BY <2>2, <2>5
  <2> QED
    BY <2>6 DEF IsTexts, G
<1> DEFINE f == CHOOSE f : IsTexts(f, c)
<1>8. Texts(c) = f
  BY DEF Texts, IsTexts
<1>9. IsTexts(f, c)
  BY <1>7
<1> HIDE DEF f
<1>10. \A k \in 0..N : f[k] = IF k = 0 THEN Source ELSE Decoded(f[k - 1], c[k])
  BY <1>9 DEF IsTexts
<1>11. f[0] = Source /\ \A k \in 1..N : f[k] = Decoded(f[k - 1], c[k])
  <2>1. 0 \in 0..N /\ \A k \in 1..N : k \in 0..N /\ k # 0
    BY <1>1
  <2> QED
    BY <1>10, <2>1
<1> HIDE DEF S, N
<1>12. \A m \in Nat : m <= N => /\ f[m] \in S /\ Len(f[m]) = BaseLength(c, m + 1)
                                /\ m > 0 => /\ FitsText(f[m - 1], c[m]) /\ f[m] = Decoded(f[m - 1], c[m])
                                            /\ Len(f[m - 1]) = BaseLength(c, m)
  BY <1>6, <1>11
<1>13. \A k \in 0..N : k \in Nat /\ k <= N
  BY <1>1
<1>14. \A k \in 1..N : k \in Nat /\ k <= N /\ k > 0
  BY <1>1
<1> QED
  BY <1>1, <1>8, <1>11, <1>12, <1>13, <1>14 DEF S, N

-----------------------------------------------------------------------------
(* What the instructions say of the text. *)

\* The j'th byte of an instruction in a list: of those the list adds, of the text the list
\* copies from, or of the text it makes.
Made(i, adds, base, text, j) ==
  IF i.type = "ADD" THEN adds[i.addr + j]
  ELSE IF i.type = "RUN" THEN adds[i.addr + 1]
  ELSE IF i.mode = "SOURCE" THEN base[i.addr + j]
  ELSE text[i.addr + j]

Says(i, adds, base, text) == \A j \in 1..i.size : text[i.position + j] = Made(i, adds, base, text, j)

Tells(w, base, text) == \A k \in 1..Len(w.inst) : Says(w.inst[k], w.adds, base, text)

\* No instruction crosses the end of a window.
Inside(position, size, wininfo) ==
  \E n \in 1..Len(wininfo) : /\ wininfo[n].offset <= position
                             /\ position + size <= wininfo[n].offset + wininfo[n].length

Windowed(inst, wininfo) == \A k \in 1..Len(inst) : Inside(inst[k].position, inst[k].size, wininfo)

\* The windows are those of the delta.
WindowsOf(delta, wininfo) ==
  \A n \in 1..Len(wininfo) :
    wininfo[n] = [offset |-> Total(delta, n - 1), length |-> Sizes(delta[n].inst, Len(delta[n].inst))]

\* What a call copies is right where it will be written.
CallTold(call, below, text, wininfo) ==
  /\ \A j \in 1..call.size : text[call.position + j] = below[call.addr + j]
  /\ call.size > 0 => Inside(call.position, call.size, wininfo)

\* The lists tell the texts.
Told ==
  LET below == Texts(chain)[file - 1]
      text == Texts(chain)[file]
  IN  /\ file > 1 => Tells(merge_input, Source, below)
      /\ Tells(stream, below, text) /\ Windowed(stream.inst, stream.wininfo)
      /\ WindowsOf(chain[file], stream.wininfo)
      /\ pc = "merge" => Tells(tmp, Source, text) /\ Windowed(tmp.inst, tmp.wininfo)
      /\ \A m \in 1..Len(todo) : CallTold(todo[m], below, text, stream.wininfo)

Final == chain[Len(chain)]
FinalText == Texts(chain)[Len(chain)]

\* The list that is written.
Ready ==
  /\ chain \in Chains /\ file \in 1..Len(chain)
  /\ stream \in Wholes /\ Tiles(stream, Len(Source)) /\ Complete(stream) /\ stream.length = Len(FinalText)
  /\ Tells(stream, Source, FinalText) /\ Windowed(stream.inst, stream.wininfo)
  /\ Len(stream.wininfo) = Len(Final) /\ WindowsOf(Final, stream.wininfo)

Buffereds == [type : {"RUN", "CPY"}, pos : Nat, size : Nat, addr : Nat, is_source : BOOLEAN, byte : Seq(Byte)]

Recs == [on : BOOLEAN, inst_pos : Nat, output_pos : Nat, num : Nat, start : Nat, pos : Nat, size : Nat,
         srcset : BOOLEAN, srcmin : Nat, srcmax : Nat, used : Seq(Buffereds), bdata : Seq(Byte)]

\* How far the list is written.
Placed ==
  /\ rec \in Recs /\ out \in Seq(Window)
  /\ rec.inst_pos <= Len(stream.inst) /\ rec.output_pos = End(stream.inst, rec.inst_pos)
  /\ rec.num <= Len(Final) /\ Len(out) = (IF rec.on THEN rec.num - 1 ELSE rec.num)
  /\ ~rec.on => rec.output_pos = Total(Final, rec.num)
  /\ rec.on => /\ rec.num > 0 /\ rec.start = Total(Final, rec.num - 1)
               /\ rec.size = Sizes(Final[rec.num].inst, Len(Final[rec.num].inst))
               /\ rec.pos <= rec.size /\ rec.output_pos = rec.start + rec.pos
               /\ rec.size <= Len(rec.bdata)

\* Where a buffered instruction ends.
Off(used, k) == IF k = 0 THEN 0 ELSE used[k].pos + used[k].size

\* The k'th gap between buffered instructions ends where the next begins.
GapEnd(r, k) == IF k < Len(r.used) THEN r.used[k + 1].pos ELSE r.pos

\* A buffered instruction says the text of the window, as do the bytes between them.
UsedTold(u, r, text) ==
  /\ u.size > 0 /\ u.pos + u.size <= r.pos
  /\ u.type = "RUN" => Len(u.byte) = 1 /\ \A j \in 1..u.size : text[r.start + u.pos + j] = u.byte[1]
  /\ (u.type = "CPY" /\ u.is_source) =>
       /\ r.srcset /\ r.srcmin <= u.addr /\ u.addr + u.size <= r.srcmax
       /\ \A j \in 1..u.size : text[r.start + u.pos + j] = Source[u.addr + j]
  /\ (u.type = "CPY" /\ ~u.is_source) =>
       /\ u.addr < u.pos
       /\ \A j \in 1..u.size : text[r.start + u.pos + j] = text[r.start + u.addr + j]

WindowTold(r, text) ==
  /\ r.srcset => r.srcmin <= r.srcmax /\ r.srcmax <= Len(Source)
  /\ \A k \in 1..Len(r.used) : UsedTold(r.used[k], r, text)
  /\ \A k \in 0..Len(r.used) :
       /\ Off(r.used, k) <= GapEnd(r, k)
       /\ \A p \in 1..r.pos : Off(r.used, k) < p /\ p <= GapEnd(r, k) => r.bdata[p] = text[r.start + p]

\* A window that was written is well formed and makes the part of the text that it should.
OutTold(win, n, text) ==
  /\ win \in Window /\ WellFormed(Len(Source), win)
  /\ Produced(Source, win) = SubSeq(text, Total(Final, n - 1) + 1, Total(Final, n))

Written ==
  /\ Ready /\ Placed
  /\ rec.on => WindowTold(rec, FinalText)
  /\ \A n \in 1..Len(out) : OutTold(out[n], n, FinalText)

\* What holds at every step, of deltas that fit.
TextInv ==
  Fits(chain) =>
    /\ pc \in {"read", "append", "merge"} => Told /\ rec = NoWindow /\ out = <<>>
    /\ pc = "output" => Written
    /\ pc = "done" => /\ Decoded(Source, out) = FinalText
                      /\ \A n \in 1..Len(out) : WellFormed(Len(Source), out[n])
    /\ pc \in {"read", "append", "merge", "output", "done"}

-----------------------------------------------------------------------------
(* Each step of reading and merging tells the texts. *)

-----------------------------------------------------------------------------
(* The lists tell the texts while deltas are read. *)

\* v is a list that tells the text, of the windows of w.
TellsLike(v, w, base, text) ==
  v \in Wholes /\ v.wininfo = w.wininfo /\ Tells(v, base, text) /\ Windowed(v.inst, v.wininfo)

\* A list is an instruction longer.
LEMMA TellsMore ==
  ASSUME NEW w \in Wholes, NEW v \in Wholes, NEW i \in Winsts, NEW n, Tiles(w, n), NEW base, NEW text,
         v.inst = Append(w.inst, i), Len(w.adds) <= Len(v.adds), \A a \in 1..Len(w.adds) : v.adds[a] = w.adds[a],
         Tells(w, base, text), Windowed(w.inst, w.wininfo),
         Says(i, v.adds, base, text), Inside(i.position, i.size, w.wininfo)
  PROVE  Tells(v, base, text) /\ Windowed(v.inst, w.wininfo)
<1>1. Len(w.inst) \in Nat /\ w.inst \in Seq(Winsts) /\ Len(w.adds) \in Nat
  BY WholeFacts
<1>2. Len(v.inst) = Len(w.inst) + 1 /\ v.inst[Len(w.inst) + 1] = i /\ \A k \in 1..Len(w.inst) : v.inst[k] = w.inst[k]
  BY <1>1
<1>3. ASSUME NEW k \in 1..Len(w.inst)
      PROVE  Says(w.inst[k], v.adds, base, text)
  <2> DEFINE u == w.inst[k]
  <2>1. Says(u, w.adds, base, text) /\ Fitting(u, n, Len(w.adds), w.wininfo)
    BY TilesMeans DEF Tells
  <2>2. u \in Winsts
    BY <1>1
  <2>3. u.type \in {"ADD", "RUN", "CPY"} /\ u.addr \in Nat /\ u.size \in Nat
    BY <2>2 DEF Winsts
  <2> HIDE DEF u
  <2>4. ASSUME NEW j \in 1..u.size
        PROVE  Made(u, v.adds, base, text, j) = Made(u, w.adds, base, text, j)
    <3>1. u.type = "ADD" => u.addr + j \in 1..Len(w.adds)
      BY <1>1, <2>1, <2>3 DEF Fitting
    <3>2. u.type = "RUN" => u.addr + 1 \in 1..Len(w.adds)
      BY <1>1, <2>1, <2>3 DEF Fitting
    <3> QED
      BY <3>1, <3>2 DEF Made
  <2>5. Says(u, v.adds, base, text)
    BY <2>1, <2>4 DEF Says
  <2> QED
    BY <2>5 DEF u
<1>4. \A k \in 1..Len(v.inst) : k \in 1..Len(w.inst) \/ k = Len(w.inst) + 1
  BY <1>1, <1>2
<1>5. Tells(v, base, text)
  BY <1>2, <1>3, <1>4 DEF Tells
<1>6. Windowed(v.inst, w.wininfo)
  BY <1>2, <1>4 DEF Windowed
<1> QED
  BY <1>5, <1>6

\* It is an instruction longer that brings its bytes.
LEMMA TellsBytes ==
  ASSUME NEW w \in Wholes, NEW n, Tiles(w, n), NEW base, NEW text, Tells(w, base, text), Windowed(w.inst, w.wininfo),
         NEW type \in {"ADD", "RUN"}, NEW size \in Nat, NEW position \in Nat,
         NEW bytes \in Seq(Byte), Len(bytes) = IF type = "RUN" THEN 1 ELSE size,
         \A j \in 1..size : text[position + j] = IF type = "RUN" THEN bytes[1] ELSE bytes[j],
         Inside(position, size, w.wininfo)
  PROVE  TellsLike(WithBytes(w, type, size, position, bytes), w, base, text)
<1> DEFINE i == Winst(type, "NONE", size, Len(w.adds), position)
           v == WithBytes(w, type, size, position, bytes)
<1>1. Len(w.adds) \in Nat /\ w.adds \in Seq(Byte) /\ w.inst \in Seq(Winsts)
  BY WholeFacts
<1>2. i \in Winsts
  BY <1>1 DEF Winst, Winsts
<1>3. i.position = position /\ i.size = size /\ i.addr = Len(w.adds) /\ i.type = type /\ i.mode = "NONE"
  BY DEF Winst
<1>4. v = [w EXCEPT !.inst = Append(@, i), !.adds = @ \o bytes]
  BY DEF WithBytes
<1> HIDE DEF i, v
<1>5. v.inst = Append(w.inst, i) /\ v.adds = w.adds \o bytes /\ v.wininfo = w.wininfo
  BY <1>4 DEF Wholes
<1>6. /\ v.adds \in Seq(Byte) /\ Len(v.adds) = Len(w.adds) + Len(bytes) /\ Len(bytes) \in Nat
      /\ \A k \in 1..Len(w.adds) : v.adds[k] = w.adds[k]
      /\ \A k \in 1..Len(bytes) : v.adds[Len(w.adds) + k] = bytes[k]
  <2> DEFINE a == w.adds
             b == v.adds
  <2>1. a \in Seq(Byte) /\ b = a \o bytes
    BY <1>1, <1>5
  <2> HIDE DEF a, b
  <2>2. /\ a \o bytes \in Seq(Byte) /\ Len(a \o bytes) = Len(a) + Len(bytes) /\ Len(bytes) \in Nat
        /\ \A k \in 1..Len(a) : (a \o bytes)[k] = a[k]
        /\ \A k \in 1..Len(bytes) : (a \o bytes)[Len(a) + k] = bytes[k]
    BY <2>1, JoinedBytes
  <2>3. /\ b \in Seq(Byte) /\ Len(b) = Len(a) + Len(bytes) /\ Len(bytes) \in Nat
        /\ \A k \in 1..Len(a) : b[k] = a[k]
        /\ \A k \in 1..Len(bytes) : b[Len(a) + k] = bytes[k]
    BY ONLY <2>1, <2>2
  <2> QED
    BY <2>3 DEF a, b
<1>7. v \in Wholes
  <2>1. Append(w.inst, i) \in Seq(Winsts) /\ w.adds \o bytes \in Seq(Byte)
    BY <1>1, <1>2, <1>5, <1>6
  <2> QED
    BY <1>4, <2>1 DEF Wholes
<1>8. Says(i, v.adds, base, text)
  <2>1. SUFFICES ASSUME NEW j \in 1..size
                 PROVE  text[position + j] = Made(i, v.adds, base, text, j)
    BY <1>3 DEF Says
  <2>2. CASE type = "RUN"
    <3>1. 1 \in 1..Len(bytes)
      BY <2>2
    <3>2. v.adds[Len(w.adds) + 1] = bytes[1]
      BY <1>6, <3>1
    <3> QED
      BY <1>3, <2>2, <3>2 DEF Made
  <2>3. CASE type # "RUN"
    <3>1. j \in 1..Len(bytes) /\ type = "ADD"
      BY <2>3
    <3>2. v.adds[Len(w.adds) + j] = bytes[j]
      BY <1>6, <3>1
    <3> QED
      BY <1>3, <2>3, <3>1, <3>2 DEF Made
  <2> QED
    BY <2>2, <2>3
<1>9. Len(w.adds) <= Len(v.adds)
  BY ONLY <1>1, <1>6
<1>10. Inside(i.position, i.size, w.wininfo)
  BY <1>3
<1>11. Tells(v, base, text) /\ Windowed(v.inst, w.wininfo)
  BY <1>2, <1>5, <1>6, <1>7, <1>8, <1>9, <1>10, TellsMore
<1> QED
  BY <1>5, <1>7, <1>11 DEF v, TellsLike

\* It is a copy longer.
LEMMA TellsCopy ==
  ASSUME NEW w \in Wholes, NEW n, Tiles(w, n), NEW base, NEW text, Tells(w, base, text), Windowed(w.inst, w.wininfo),
         NEW mode \in {"SOURCE", "HERE"}, NEW size \in Nat, NEW addr \in Nat, NEW position \in Nat,
         \A j \in 1..size : text[position + j] = IF mode = "SOURCE" THEN base[addr + j] ELSE text[addr + j],
         Inside(position, size, w.wininfo)
  PROVE  TellsLike(WithCopy(w, mode, size, addr, position), w, base, text)
<1> DEFINE i == Winst("CPY", mode, size, addr, position)
           v == WithCopy(w, mode, size, addr, position)
<1>1. w.adds \in Seq(Byte) /\ Len(w.adds) \in Nat /\ w.inst \in Seq(Winsts)
  BY WholeFacts
<1>2. i \in Winsts
  BY DEF Winst, Winsts
<1>3. i.position = position /\ i.size = size /\ i.addr = addr /\ i.type = "CPY" /\ i.mode = mode
  BY DEF Winst
<1>4. v = [w EXCEPT !.inst = Append(@, i)]
  BY DEF WithCopy
<1> HIDE DEF i, v
<1>5. v.inst = Append(w.inst, i) /\ v.adds = w.adds /\ v.wininfo = w.wininfo
  BY <1>4 DEF Wholes
<1>6. v \in Wholes
  <2>1. Append(w.inst, i) \in Seq(Winsts)
    BY <1>1, <1>2
  <2> QED
    BY <1>4, <2>1 DEF Wholes
<1>7. Says(i, v.adds, base, text)
  BY <1>3 DEF Says, Made
<1>8. Len(w.adds) <= Len(v.adds) /\ (\A a \in 1..Len(w.adds) : v.adds[a] = w.adds[a])
      /\ Inside(i.position, i.size, w.wininfo)
  BY <1>1, <1>3, <1>5
<1>9. Tells(v, base, text) /\ Windowed(v.inst, w.wininfo)
  BY <1>2, <1>5, <1>6, <1>7, <1>8, TellsMore
<1> QED
  BY <1>5, <1>6, <1>9 DEF v, TellsLike

\* A list without instructions.
LEMMA TellsNothing ==
  ASSUME NEW w, w.inst = <<>>, NEW base, NEW text
  PROVE  Tells(w, base, text) /\ Windowed(w.inst, w.wininfo)
<1>1. 1..Len(w.inst) = {}
  <2>1. Len(<<>>) = 0
    OBVIOUS
  <2> QED
    BY <2>1
<1> QED
  BY <1>1 DEF Tells, Windowed

\* Only the length changes.
LEMMA TellsLonger ==
  ASSUME NEW v, NEW w, NEW size \in Nat, NEW base, NEW text, TellsLike(v, w, base, text)
  PROVE  TellsLike(Longer(v, size), w, base, text)
<1>1. v \in Wholes /\ v.wininfo = w.wininfo /\ Tells(v, base, text) /\ Windowed(v.inst, v.wininfo)
  BY DEF TellsLike
<1>2. Longer(v, size).inst = v.inst /\ Longer(v, size).adds = v.adds /\ Longer(v, size).wininfo = v.wininfo
  BY <1>1 DEF Longer, Wholes
<1>3. Longer(v, size) \in Wholes
  <2>1. v.length + size \in Nat
    BY <1>1, WholeFacts
  <2> DEFINE l == v.length + size
  <2>2. Longer(v, size) = [v EXCEPT !.length = l]
    BY DEF Longer
  <2> HIDE DEF l
  <2>3. l \in Nat
    BY <2>1 DEF l
  <2> QED
    BY <1>1, <2>2, <2>3 DEF Wholes
<1>4. Tells(Longer(v, size), base, text)
  BY <1>1, <1>2 DEF Tells
<1> QED
  BY <1>1, <1>2, <1>3, <1>4 DEF TellsLike

\* What is known of the texts.
LEMMA ToldFacts ==
  ASSUME Good, Fits(chain)
  PROVE  /\ chain \in Chains /\ file \in 1..Len(chain) /\ file - 1 \in 0..Len(chain) /\ file \in 0..Len(chain)
         /\ Texts(chain)[0] = Source
         /\ FitsText(Texts(chain)[file - 1], chain[file])
         /\ Texts(chain)[file] = Decoded(Texts(chain)[file - 1], chain[file])
         /\ Len(Texts(chain)[file - 1]) = BaseLength(chain, file)
<1>1. chain \in Chains /\ file \in 1..Len(chain)
  BY DEF Good, Types
<1>2. Len(chain) \in Nat
  BY <1>1, TextsFacts
<1> QED
  BY <1>1, <1>2, TextsFacts

\* A window begins where the list ends.
LEMMA ReadWindowTold ==
  ASSUME Good, Fits(chain), Told, ReadWindow
  PROVE  Told'
<1> USE DEF ReadWindow
<1> DEFINE win == chain[file][window + 1]
           below == Texts(chain)[file - 1]
           text == Texts(chain)[file]
           info == [offset |-> stream.length, length |-> Sizes(win.inst, Len(win.inst))]
<1>1. Types /\ Place /\ stream \in Wholes /\ window \in Nat /\ todo = <<>>
  BY DEF Good, Types
<1>2. Len(stream.wininfo) = window /\ stream.length = Total(chain[file], window)
  BY <1>1 DEF Place
<1>3. stream' = [stream EXCEPT !.wininfo = Append(@, info)]
  BY DEF WholeAppendWindow
<1>4. info = [offset |-> Total(chain[file], window), length |-> Sizes(win.inst, Len(win.inst))]
  BY <1>2
<1> HIDE DEF info
<1>5. stream'.inst = stream.inst /\ stream'.adds = stream.adds /\ stream'.wininfo = Append(stream.wininfo, info)
  BY <1>1, <1>3 DEF Wholes
<1>6. /\ Len(stream'.wininfo) = window + 1 /\ stream'.wininfo[window + 1] = info
      /\ \A n \in 1..window : stream'.wininfo[n] = stream.wininfo[n]
  <2>1. stream.wininfo \in Seq(Infos)
    BY <1>1, WholeFacts
  <2> QED
    BY <1>2, <1>5, <2>1
<1>7. Tells(stream', below, text)
  BY <1>5 DEF Told, Tells
<1>8. Windowed(stream'.inst, stream'.wininfo)
  <2>1. \A k \in 1..Len(stream.inst) : Inside(stream.inst[k].position, stream.inst[k].size, stream.wininfo)
    BY DEF Told, Windowed
  <2>2. \A n \in 1..window : n \in 1..(window + 1)
    BY <1>1
  <2>3. ASSUME NEW p, NEW z, Inside(p, z, stream.wininfo)
        PROVE  Inside(p, z, stream'.wininfo)
    BY <1>2, <1>6, <2>2, <2>3 DEF Inside
  <2> QED
    BY <1>5, <2>1, <2>3 DEF Windowed
<1>9. WindowsOf(chain[file], stream'.wininfo)
  <2>1. WindowsOf(chain[file], stream.wininfo)
    BY DEF Told
  <2>2. ASSUME NEW n \in 1..(window + 1)
        PROVE  stream'.wininfo[n] = [offset |-> Total(chain[file], n - 1),
                                     length |-> Sizes(chain[file][n].inst, Len(chain[file][n].inst))]
    <3>1. CASE n = window + 1
      <4>1. n - 1 = window
        BY <1>1, <3>1
      <4> QED
        BY <1>4, <1>6, <3>1, <4>1
    <3>2. CASE n # window + 1
      <4>1. n \in 1..window
        BY <1>1, <3>2
      <4> QED
        BY <1>2, <1>6, <2>1, <4>1 DEF WindowsOf
    <3> QED
      BY <3>1, <3>2
  <2> QED
    BY <1>6, <2>2 DEF WindowsOf
<1>10. todo' = <<>> /\ pc' = "append" /\ file' = file /\ chain' = chain /\ merge_input' = merge_input
  BY <1>1
<1> HIDE DEF win, ReadWindow
<1> QED
  BY <1>7, <1>8, <1>9, <1>10 DEF Told

\* The instruction that is read says what its delta makes there.
LEMMA AppendInstructionTold ==
  ASSUME Good, Fits(chain), Told, AppendInstruction
  PROVE  Told'
<1> DEFINE delta == chain[file]
           win == delta[window]
           inst == win.inst
           h == inst[input_i + 1]
           base == BaseLength(chain, file)
           below == Texts(chain)[file - 1]
           text == Texts(chain)[file]
           start == Total(delta, window - 1)
           q == Sizes(inst, input_i)
           e == stream.length
           more == IF h.type # "CPY" THEN WithBytes(stream, h.type, h.size, e, h.bytes)
                   ELSE IF h.addr < win.cpylen
                   THEN WithCopy(stream, "SOURCE", h.size, win.cpyoff + h.addr, e)
                   ELSE WithCopy(stream, "HERE", h.size, start + h.addr - win.cpylen, e)
<1>0. /\ pc = "append" /\ input_i < Len(inst)
      /\ stream' = WholeAppendInst(stream, win, stream.wininfo[window].offset, h)
      /\ UNCHANGED <<chain, file, merge_input, tmp, todo, pc>>
  BY DEF AppendInstruction
<1>1. Types /\ Place /\ Tiled /\ stream \in Wholes /\ todo = <<>>
  BY <1>0 DEF Good, Types
<1>2. /\ window \in 1..Len(delta) /\ input_i \in Nat /\ input_i < Len(inst) /\ Len(stream.wininfo) = window
      /\ stream.wininfo[window] = [offset |-> start, length |-> Sizes(inst, Len(inst))]
      /\ e = start + q
  BY <1>0, <1>1 DEF Place, Types
<1>3. /\ FitsText(below, delta) /\ text = Decoded(below, delta) /\ win \in Window /\ WellFormed(Len(below), win)
      /\ below \in Seq(Byte)
  <2>1. FitsText(below, delta) /\ text = Decoded(below, delta)
    BY ToldFacts
  <2> HIDE DEF delta, below, text
  <2>2. win \in Window /\ WellFormed(Len(below), win) /\ below \in Seq(Byte)
    BY <1>2, <2>1 DEF FitsText
  <2> QED
    BY <2>1, <2>2
<1>4. /\ inst \in Seq(Hinst) /\ win.cpyoff \in Nat /\ win.cpylen \in Nat /\ Len(inst) \in Nat
  BY <1>3, WinFacts
<1>5. input_i + 1 \in 1..Len(inst) /\ (input_i + 1) - 1 = input_i /\ input_i \in 0..Len(inst)
      /\ Len(inst) \in 0..Len(inst) /\ input_i + 1 \in 0..Len(inst)
  <2> HIDE DEF inst
  <2> QED BY ONLY <1>2, <1>4
<1> DEFINE z == Sizes(inst, Len(inst))
<1>6. /\ h \in Hinst /\ q \in Nat /\ z \in Nat /\ Sizes(inst, input_i + 1) = q + h.size
      /\ Sizes(inst, input_i + 1) <= z
      /\ h.type = "CPY" => h.addr < win.cpylen + q
  <2>1. \A k \in 1..Len(inst) :
          /\ inst[k] \in Hinst
          /\ Sizes(inst, k) = Sizes(inst, k - 1) + inst[k].size
          /\ inst[k].type = "CPY" => inst[k].addr < win.cpylen + Sizes(inst, k - 1)
    BY <1>3, WinFacts
  <2>2. \A k \in 0..Len(inst) : Sizes(inst, k) \in Nat
    BY <1>3, WinFacts
  <2>3. Sizes(inst, input_i + 1) <= z
    BY <1>4, <1>5, SizesGrow
  <2> HIDE DEF inst
  <2> QED
    BY <1>5, <2>1, <2>2, <2>3
<1>7. /\ h.type \in {"ADD", "RUN", "CPY"} /\ h.size \in Nat /\ h.addr \in Nat /\ h.bytes \in Seq(Byte)
      /\ h.type = "ADD" => Len(h.bytes) = h.size
      /\ h.type = "RUN" => Len(h.bytes) = 1
  BY <1>6, HinstFacts
<1>8. start \in Nat /\ e \in Nat
  <2>1. window - 1 \in 0..Len(delta)
    BY <1>2
  <2>2. start \in Nat
    BY <1>3, <2>1, TotalFacts
  <2> QED
    BY <1>1, <2>2, WholeFacts
<1>9. ASSUME NEW j \in 1..h.size
      PROVE  text[e + j] = IF h.type = "ADD" THEN h.bytes[j]
                           ELSE IF h.type = "RUN" THEN h.bytes[1]
                           ELSE IF h.addr < win.cpylen THEN below[win.cpyoff + h.addr + j]
                           ELSE text[start + h.addr - win.cpylen + j]
  <2>1. InstructionTells(Decoded(below, delta), below, delta[window], Total(delta, window - 1), input_i + 1)
    <3> HIDE DEF below, delta, text
    <3> QED
      BY <1>2, <1>3, <1>5, DeltaTells
  <2>2. InstructionTells(text, below, win, start, input_i + 1)
    BY <1>3, <2>1
  <2>3. text[start + Sizes(inst, (input_i + 1) - 1) + j] =
               IF h.type = "ADD" THEN h.bytes[j]
               ELSE IF h.type = "RUN" THEN h.bytes[1]
               ELSE IF h.addr < win.cpylen THEN below[win.cpyoff + h.addr + j]
               ELSE text[start + h.addr - win.cpylen + j]
    <3> HIDE DEF win, text, start, below
    <3> QED
      BY <2>2 DEF InstructionTells
  <2> QED
    BY <1>2, <1>5, <2>3
<1>10. Inside(e, h.size, stream.wininfo)
  <2>1. window \in 1..Len(stream.wininfo)
    BY <1>2
  <2>2. stream.wininfo[window].offset = start /\ stream.wininfo[window].length = z
    BY <1>2
  <2>3. start <= e /\ e + h.size <= start + z
    <3> DEFINE s == h.size
               y == Sizes(inst, input_i + 1)
    <3>1. start \in Nat /\ q \in Nat /\ z \in Nat /\ s \in Nat /\ e = start + q /\ y = q + s /\ y <= z
      BY <1>2, <1>6, <1>7, <1>8
    <3> HIDE DEF s, y, start, q, z, e
    <3>2. start <= e /\ e + s <= start + z
      BY ONLY <3>1
    <3> QED
      BY <3>2 DEF s
  <2> HIDE DEF start, z, e
  <2> QED
    BY <2>1, <2>2, <2>3 DEF Inside
<1>11. stream' = Longer(more, h.size)
  BY <1>0, <1>2 DEF WholeAppendInst
<1>12. Tiles(stream, base) /\ Tells(stream, below, text) /\ Windowed(stream.inst, stream.wininfo)
  BY <1>1 DEF Told, Tiled
<1> HIDE DEF delta, win, inst, h, base, below, text, start, q, e, z
<1>13. TellsLike(more, stream, below, text)
  <2>1. CASE h.type # "CPY"
    <3>1. more = WithBytes(stream, h.type, h.size, e, h.bytes)
      BY <2>1
    <3>2. h.type \in {"ADD", "RUN"} /\ Len(h.bytes) = IF h.type = "RUN" THEN 1 ELSE h.size
      BY <1>7, <2>1
    <3>3. \A j \in 1..h.size : text[e + j] = IF h.type = "RUN" THEN h.bytes[1] ELSE h.bytes[j]
      BY <1>7, <1>9, <2>1
    <3> DEFINE v == WithBytes(stream, h.type, h.size, e, h.bytes)
    <3>4. TellsLike(v, stream, below, text)
      BY <1>1, <1>7, <1>8, <1>10, <1>12, <3>2, <3>3, TellsBytes
    <3> QED
      BY <3>1, <3>4
  <2>2. CASE h.type = "CPY" /\ h.addr < win.cpylen
    <3> DEFINE mode == "SOURCE"
               a == win.cpyoff + h.addr
               v == WithCopy(stream, mode, h.size, a, e)
    <3>1. mode \in {"SOURCE", "HERE"} /\ a \in Nat
      BY <1>4, <1>7
    <3>2. more = v
      BY <2>2
    <3>3. \A j \in 1..h.size : text[e + j] = IF mode = "SOURCE" THEN below[a + j] ELSE text[a + j]
      BY <1>9, <2>2
    <3> HIDE DEF mode, a
    <3>4. TellsLike(v, stream, below, text)
      BY <1>1, <1>7, <1>8, <1>10, <1>12, <3>1, <3>3, TellsCopy
    <3> QED
      BY <3>2, <3>4
  <2>3. CASE h.type = "CPY" /\ ~ (h.addr < win.cpylen)
    <3> DEFINE mode == "HERE"
               a == start + h.addr - win.cpylen
               v == WithCopy(stream, mode, h.size, a, e)
    <3>1. mode \in {"SOURCE", "HERE"} /\ a \in Nat
      BY <1>4, <1>7, <1>8, <2>3
    <3>2. more = v
      BY <2>3
    <3>3. \A j \in 1..h.size : text[e + j] = IF mode = "SOURCE" THEN below[a + j] ELSE text[a + j]
      BY <1>9, <2>3
    <3> HIDE DEF mode, a
    <3>4. TellsLike(v, stream, below, text)
      BY <1>1, <1>7, <1>8, <1>10, <1>12, <3>1, <3>3, TellsCopy
    <3> QED
      BY <3>2, <3>4
  <2> QED
    BY <2>1, <2>2, <2>3
<1> HIDE DEF more
<1>14. /\ Tells(stream', below, text) /\ Windowed(stream'.inst, stream'.wininfo) /\ stream'.wininfo = stream.wininfo
  <2>1. TellsLike(Longer(more, h.size), stream, below, text)
    BY <1>7, <1>13, TellsLonger
  <2> QED
    BY <1>11, <2>1 DEF TellsLike
<1> QED
  BY <1>0, <1>1, <1>14 DEF Told, below, text

\* The window is read.
LEMMA WindowIsReadTold ==
  ASSUME Good, Fits(chain), Told, WindowIsRead
  PROVE  Told'
<1>1. /\ pc' = "read" /\ chain' = chain /\ file' = file /\ stream' = stream /\ merge_input' = merge_input /\ todo' = todo
      /\ pc = "append"
  BY DEF WindowIsRead
<1> QED
  BY <1>1 DEF Told

\* The first argument tells the text below the second.
LEMMA FirstArgumentTold ==
  ASSUME Good, Fits(chain), Told, FirstArgument
  PROVE  Told'
<1>1. /\ pc = "read" /\ pc' = "read" /\ chain' = chain /\ file = 1 /\ file' = 2 /\ stream' = EmptyWhole
      /\ merge_input' = stream /\ todo' = todo /\ todo = <<>>
  BY DEF FirstArgument, Good, Types
<1>2. Texts(chain)[0] = Source /\ 2 - 1 = 1 /\ 1 - 1 = 0
  BY ToldFacts
<1>3. Tells(stream, Source, Texts(chain)[1])
  BY <1>1, <1>2 DEF Told
<1>4. EmptyWhole.inst = <<>> /\ EmptyWhole.wininfo = <<>>
  BY DEF EmptyWhole
<1>5. Tells(EmptyWhole, Texts(chain)[1], Texts(chain)[2]) /\ Windowed(EmptyWhole.inst, EmptyWhole.wininfo)
  BY <1>4, TellsNothing
<1>6. WindowsOf(chain[2], EmptyWhole.wininfo)
  <2>1. 1..Len(<<>>) = {}
    OBVIOUS
  <2> QED
    BY <1>4, <2>1 DEF WindowsOf
<1>7. todo' = <<>> /\ Len(<<>>) = 0 /\ 1..0 = {}
  BY <1>1
<1> QED
  BY <1>1, <1>2, <1>3, <1>5, <1>6, <1>7 DEF Told

\* Nothing is merged yet.
LEMMA BeginMergeTold ==
  ASSUME Good, Fits(chain), Told, BeginMerge
  PROVE  Told'
<1>1. /\ pc' = "merge" /\ chain' = chain /\ file' = file /\ stream' = stream /\ merge_input' = merge_input /\ todo' = todo
      /\ tmp' = [EmptyWhole EXCEPT !.wininfo = stream.wininfo]
  BY DEF BeginMerge
<1>2. tmp'.inst = <<>>
  BY <1>1 DEF EmptyWhole
<1>3. Tells(tmp', Source, Texts(chain)[file]) /\ Windowed(tmp'.inst, tmp'.wininfo)
  BY <1>2, TellsNothing
<1> QED
  BY <1>1, <1>3 DEF Told

-----------------------------------------------------------------------------
(* The lists tell the texts while deltas are merged. *)

\* The bytes of a piece of an instruction.
LEMMA BytesAre ==
  ASSUME NEW w \in Wholes, NEW i \in Winsts, i.type # "CPY",
         i.addr + (IF i.type = "RUN" THEN 1 ELSE i.size) <= Len(w.adds),
         NEW offset \in Nat, NEW size \in Nat, offset + size <= i.size
  PROVE  /\ i.type = "RUN" => Bytes(w, i, offset, size)[1] = w.adds[i.addr + 1]
         /\ i.type # "RUN" => \A j \in 1..size : Bytes(w, i, offset, size)[j] = w.adds[i.addr + offset + j]
<1>1. w.adds \in Seq(Byte) /\ Len(w.adds) \in Nat /\ i.addr \in Nat /\ i.size \in Nat
  BY WholeFacts DEF Winsts
<1>2. CASE i.type = "RUN"
  BY <1>2 DEF Bytes
<1>3. CASE i.type # "RUN"
  <2> DEFINE a == i.addr + offset
             s == w.adds
  <2>1. a \in Nat /\ a + size <= Len(s)
    <3> DEFINE x == i.addr
               y == i.size
    <3>1. x \in Nat /\ y \in Nat /\ Len(s) \in Nat /\ x + y <= Len(s) /\ offset \in Nat /\ size \in Nat /\ offset + size <= y
      BY <1>1, <1>3
    <3> HIDE DEF x, y, s
    <3>2. x + offset \in Nat /\ (x + offset) + size <= Len(s)
      BY ONLY <3>1
    <3> QED
      BY <3>2 DEF x
  <2>2. Bytes(w, i, offset, size) = SubSeq(s, a + 1, a + size)
    BY <1>3 DEF Bytes
  <2>3. s \in Seq(Byte)
    BY <1>1
  <2>4. \A j \in 1..size : a + j = i.addr + offset + j
    BY <1>1
  <2> HIDE DEF a, s
  <2>5. \A j \in 1..size : SubSeq(s, a + 1, a + size)[j] = s[a + j]
    BY <2>1, <2>3, PartOf
  <2> QED
    BY <1>3, <2>2, <2>4, <2>5 DEF s, a
<1> QED
  BY <1>2, <1>3

\* The instruction that is taken over says the same of the merged delta.
LEMMA MergeInstructionTold ==
  ASSUME Good, Fits(chain), Told, MergeInstruction
  PROVE  Told'
<1> DEFINE iinst == stream.inst[input_i + 1]
           below == Texts(chain)[file - 1]
           text == Texts(chain)[file]
           more == IF iinst.type # "CPY"
                   THEN WithBytes(tmp, iinst.type, iinst.size, tmp.length, Bytes(stream, iinst, 0, iinst.size))
                   ELSE [tmp EXCEPT !.inst = Append(@, iinst)]
<1>0. /\ pc = "merge" /\ todo = <<>> /\ input_i < Len(stream.inst) /\ iinst.mode # "SOURCE"
      /\ tmp' = MergeInst(tmp, stream, iinst)
      /\ UNCHANGED <<chain, file, window, stream, merge_input, todo, rec, out, pc>>
  BY DEF MergeInstruction
<1>1. /\ stream \in Wholes /\ tmp \in Wholes /\ Tiles(tmp, Len(Source)) /\ tmp.wininfo = stream.wininfo
  BY <1>0, MergingFacts
<1>2. /\ iinst \in Winsts /\ iinst.position = tmp.length
      /\ Fitting(iinst, merge_input.length, Len(stream.adds), stream.wininfo)
      /\ input_i + 1 \in 1..Len(stream.inst)
  BY <1>0, NextInstruction
<1>3. Tells(stream, below, text) /\ Windowed(stream.inst, stream.wininfo) /\ Tells(tmp, Source, text) /\ Windowed(tmp.inst, tmp.wininfo)
  BY <1>0 DEF Told
<1>4. Says(iinst, stream.adds, below, text) /\ Inside(iinst.position, iinst.size, tmp.wininfo)
  BY <1>1, <1>2, <1>3 DEF Tells, Windowed
<1>5. tmp' = Longer(more, iinst.size)
  BY <1>0 DEF MergeInst
<1> HIDE DEF iinst, below, text
<1>6. /\ iinst.size \in Nat /\ iinst.addr \in Nat /\ iinst.position \in Nat
      /\ iinst.type \in {"ADD", "RUN", "CPY"} /\ (iinst.type = "CPY" => iinst.mode = "HERE")
  BY <1>0, <1>2 DEF Winsts
<1>7. TellsLike(more, tmp, Source, text)
  <2>1. CASE iinst.type # "CPY"
    <3> DEFINE bytes == Bytes(stream, iinst, 0, iinst.size)
    <3>1. iinst.addr + (IF iinst.type = "RUN" THEN 1 ELSE iinst.size) <= Len(stream.adds)
      BY <1>2, <2>1 DEF Fitting
    <3>2. 0 \in Nat /\ 0 + iinst.size <= iinst.size /\ iinst.addr + 0 = iinst.addr
      BY <1>6
    <3>3. bytes \in Seq(Byte) /\ Len(bytes) = IF iinst.type = "RUN" THEN 1 ELSE iinst.size
      <4>1. stream \in Wholes /\ iinst \in Winsts
        BY <1>1, <1>2
      <4> QED
        BY ONLY <1>6, <2>1, <3>1, <3>2, <4>1, BytesAreThere, ZenonT(30)
    <3>4. /\ iinst.type = "RUN" => bytes[1] = stream.adds[iinst.addr + 1]
          /\ iinst.type # "RUN" => \A j \in 1..iinst.size : bytes[j] = stream.adds[iinst.addr + 0 + j]
      BY <1>1, <1>2, <1>6, <2>1, <3>1, <3>2, BytesAre
    <3>5. more = WithBytes(tmp, iinst.type, iinst.size, iinst.position, bytes)
      BY <1>2, <2>1
    <3>6. \A j \in 1..iinst.size : text[iinst.position + j] = IF iinst.type = "RUN" THEN bytes[1] ELSE bytes[j]
      BY <1>4, <1>6, <2>1, <3>2, <3>4 DEF Says, Made
    <3>7. iinst.type \in {"ADD", "RUN"}
      BY <1>6, <2>1
    <3> HIDE DEF bytes, more
    <3>8. TellsLike(WithBytes(tmp, iinst.type, iinst.size, iinst.position, bytes), tmp, Source, text)
      BY <1>1, <1>3, <1>4, <1>6, <3>3, <3>6, <3>7, TellsBytes
    <3> QED
      BY <3>5, <3>8
  <2>2. CASE iinst.type = "CPY"
    <3>1. more = [tmp EXCEPT !.inst = Append(@, iinst)]
      BY <2>2
    <3> HIDE DEF more
    <3>2. tmp.inst \in Seq(Winsts) /\ tmp.adds \in Seq(Byte)
      BY <1>1, WholeFacts
    <3>3. more.inst = Append(tmp.inst, iinst) /\ more.adds = tmp.adds /\ more.wininfo = tmp.wininfo /\ more \in Wholes
      <4>1. Append(tmp.inst, iinst) \in Seq(Winsts)
        BY <1>2, <3>2
      <4> QED
        BY <1>1, <3>1, <4>1 DEF Wholes
    <3>4. Says(iinst, more.adds, Source, text)
      BY <1>4, <1>6, <2>2 DEF Says, Made
    <3>5. Len(tmp.adds) <= Len(more.adds) /\ \A a \in 1..Len(tmp.adds) : more.adds[a] = tmp.adds[a]
      BY <3>2, <3>3
    <3>6. Tells(more, Source, text) /\ Windowed(more.inst, tmp.wininfo)
      BY <1>1, <1>2, <1>3, <1>4, <3>3, <3>4, <3>5, TellsMore
    <3> QED
      BY <3>3, <3>6 DEF TellsLike
  <2> QED
    BY <2>1, <2>2
<1> HIDE DEF more
<1>8. TellsLike(tmp', tmp, Source, text)
  BY <1>5, <1>6, <1>7, TellsLonger
<1> QED
  BY <1>0, <1>8 DEF Told, TellsLike, text

\* A call of xd3_merge_source_copy is added, or all return.
LEMMA CallsTold ==
  ASSUME NEW calls, NEW call, NEW below, NEW text, NEW wininfo, calls \in Seq(Calls), call \in Calls,
         \A m \in 1..Len(calls) : CallTold(calls[m], below, text, wininfo), CallTold(call, below, text, wininfo)
  PROVE  \A m \in 1..Len(Append(calls, call)) : CallTold(Append(calls, call)[m], below, text, wininfo)
<1>1. Len(calls) \in Nat /\ Len(Append(calls, call)) = Len(calls) + 1 /\ Append(calls, call)[Len(calls) + 1] = call
      /\ \A m \in 1..Len(calls) : Append(calls, call)[m] = calls[m]
  OBVIOUS
<1>2. \A m \in 1..(Len(calls) + 1) : m \in 1..Len(calls) \/ m = Len(calls) + 1
  BY <1>1
<1> QED
  BY <1>1, <1>2

\* What the instruction copies is what the call copies.
LEMMA SourceCopyTold ==
  ASSUME Good, Fits(chain), Told, SourceCopy
  PROVE  Told'
<1> DEFINE iinst == stream.inst[input_i + 1]
           n == MergeFindPosition(merge_input, iinst.addr)
           call == Call(iinst.addr, iinst.size, iinst.position, n)
           below == Texts(chain)[file - 1]
           text == Texts(chain)[file]
<1>0. /\ pc = "merge" /\ todo = <<>> /\ input_i < Len(stream.inst) /\ iinst.mode = "SOURCE"
      /\ MergeSourceCopy(<<>>, iinst.addr, iinst.size, iinst.position)
      /\ UNCHANGED <<chain, file, window, stream, merge_input, input_i, rec, out, pc>>
  BY DEF SourceCopy
<1>1. /\ iinst \in Winsts /\ iinst.size > 0
      /\ Fitting(iinst, merge_input.length, Len(stream.adds), stream.wininfo)
      /\ input_i + 1 \in 1..Len(stream.inst)
  BY <1>0, NextInstruction
<1>2. Says(iinst, stream.adds, below, text) /\ Inside(iinst.position, iinst.size, stream.wininfo)
  BY <1>1 DEF Told, Tells, Windowed
<1> HIDE DEF iinst, below, text
<1>3. /\ iinst.addr \in Nat /\ iinst.size \in Nat /\ iinst.position \in Nat /\ iinst.addr + iinst.size <= merge_input.length
      /\ iinst.type = "CPY"
  BY <1>0, <1>1 DEF Winsts, Fitting
<1>4. n # 0 /\ call \in Calls
  BY <1>0, <1>1, <1>3, CallFinds
<1>5. tmp' = tmp /\ todo' = Append(<<>>, call)
  BY <1>0, <1>4 DEF MergeSourceCopy
<1>6. call.addr = iinst.addr /\ call.size = iinst.size /\ call.position = iinst.position
  BY DEF Call
<1> HIDE DEF n, call
<1>7. CallTold(call, below, text, stream.wininfo)
  BY <1>0, <1>2, <1>3, <1>6 DEF CallTold, Says, Made
<1>8. \A m \in 1..Len(todo') : CallTold(todo'[m], below, text, stream.wininfo)
  <2>1. <<>> \in Seq(Calls) /\ 1..Len(<<>>) = {}
    OBVIOUS
  <2> QED
    BY <1>4, <1>5, <1>7, <2>1, CallsTold
<1> QED
  BY <1>0, <1>5, <1>8 DEF Told, below, text

\* A part of a range is inside the window.
LEMMA InsidePart ==
  ASSUME NEW wininfo \in Seq(Infos), NEW a \in Nat, NEW s \in Nat, NEW b \in Nat, NEW t \in Nat,
         a <= b, b + t <= a + s, Inside(a, s, wininfo)
  PROVE  Inside(b, t, wininfo)
<1>1. PICK n \in 1..Len(wininfo) : wininfo[n].offset <= a /\ a + s <= wininfo[n].offset + wininfo[n].length
  BY DEF Inside
<1>2. wininfo[n] \in Infos
  OBVIOUS
<1>3. wininfo[n].offset \in Nat /\ wininfo[n].length \in Nat
  BY <1>2 DEF Infos
<1> DEFINE o == wininfo[n].offset
           l == wininfo[n].length
<1>4. o \in Nat /\ l \in Nat /\ o <= a /\ a + s <= o + l
  BY <1>1, <1>3
<1> HIDE DEF o, l
<1>5. o <= b /\ b + t <= o + l
  BY <1>4
<1> QED
  BY <1>5 DEF Inside, o, l

\* A call returns.
LEMMA SourceReturnTold ==
  ASSUME Good, Fits(chain), Told, SourceReturn
  PROVE  Told'
<1> DEFINE below == Texts(chain)[file - 1]
           text == Texts(chain)[file]
           iinst == stream.inst[input_i + 1]
<1>1. /\ pc = "merge" /\ todo # <<>> /\ todo' = SubSeq(todo, 1, Len(todo) - 1)
      /\ IF Len(todo) = 1 THEN tmp' = Longer(tmp, iinst.size) ELSE tmp' = tmp
      /\ UNCHANGED <<chain, file, window, stream, merge_input, rec, out, pc>>
  BY DEF SourceReturn
<1>2. todo \in Seq(Calls) /\ tmp \in Wholes /\ input_i < Len(stream.inst)
  BY <1>1 DEF Good, Types, Nested
<1>3. iinst \in Winsts
  BY <1>1, <1>2, NextInstruction
<1>4. iinst.size \in Nat
  BY <1>3 DEF Winsts
<1>5. TellsLike(tmp, tmp, Source, text)
  BY <1>1, <1>2 DEF Told, TellsLike
<1> HIDE DEF iinst, text, below
<1>6. TellsLike(tmp', tmp, Source, text)
  BY <1>1, <1>4, <1>5, TellsLonger
<1>7. \A m \in 1..Len(todo') : CallTold(todo'[m], below, text, stream.wininfo)
  <2> DEFINE k == Len(todo) - 1
  <2>1. k \in Nat /\ 0 + k <= Len(todo) /\ \A m \in 1..k : m \in 1..Len(todo) /\ 0 + m = m
    BY <1>1, <1>2
  <2>2. todo' = SubSeq(todo, 0 + 1, 0 + k)
    BY <1>1, <2>1
  <2> HIDE DEF k
  <2>3. /\ Len(SubSeq(todo, 0 + 1, 0 + k)) = k
        /\ \A m \in 1..k : SubSeq(todo, 0 + 1, 0 + k)[m] = todo[0 + m]
    BY <1>2, <2>1, PartOf
  <2>4. \A m \in 1..Len(todo) : CallTold(todo[m], below, text, stream.wininfo)
    BY DEF Told, below, text
  <2> QED
    BY <2>1, <2>2, <2>3, <2>4
<1> QED
  BY <1>1, <1>6, <1>7 DEF Told, TellsLike, below, text

\* A piece that is written says what the call copies.
LEMMA PieceTells ==
  ASSUME NEW w \in Wholes, NEW source \in Wholes, Tiles(w, Len(Source)), NEW below, NEW text,
         Tells(w, Source, text), Windowed(w.inst, w.wininfo), NEW sinst \in Winsts,
         Fitting(sinst, Len(Source), Len(source.adds), source.wininfo), sinst.mode # "HERE",
         NEW offset \in Nat, NEW take \in Nat, offset + take <= sinst.size, NEW position \in Nat,
         Inside(position, take, w.wininfo),
         \A j \in 1..take : text[position + j] = Made(sinst, source.adds, Source, below, offset + j)
  PROVE  TellsLike(Piece(w, source, sinst, offset, take, position), w, Source, text)
<1>1. sinst.type \in {"ADD", "RUN", "CPY"} /\ sinst.addr \in Nat /\ sinst.size \in Nat /\ (sinst.type = "CPY" => sinst.mode = "SOURCE")
  BY DEF Winsts
<1>2. CASE sinst.type # "CPY"
  <2> DEFINE bytes == Bytes(source, sinst, offset, take)
  <2>1. sinst.addr + (IF sinst.type = "RUN" THEN 1 ELSE sinst.size) <= Len(source.adds)
    BY <1>2 DEF Fitting
  <2>2. bytes \in Seq(Byte) /\ Len(bytes) = IF sinst.type = "RUN" THEN 1 ELSE take
    BY ONLY <1>1, <1>2, <2>1, source \in Wholes, sinst \in Winsts, offset \in Nat, take \in Nat, offset + take <= sinst.size, BytesAreThere
  <2>3. /\ sinst.type = "RUN" => bytes[1] = source.adds[sinst.addr + 1]
        /\ sinst.type # "RUN" => \A j \in 1..take : bytes[j] = source.adds[sinst.addr + offset + j]
    BY <1>2, <2>1, BytesAre
  <2>4. Piece(w, source, sinst, offset, take, position) = WithBytes(w, sinst.type, take, position, bytes)
    BY <1>2 DEF Piece
  <2>5. sinst.type \in {"ADD", "RUN"}
    BY <1>1, <1>2
  <2> HIDE DEF bytes
  <2>6. \A j \in 1..take : sinst.addr + (offset + j) = sinst.addr + offset + j
    BY <1>1
  <2>7. \A j \in 1..take : text[position + j] = IF sinst.type = "RUN" THEN bytes[1] ELSE bytes[j]
    BY <1>2, <2>3, <2>5, <2>6 DEF Made
  <2>8. TellsLike(WithBytes(w, sinst.type, take, position, bytes), w, Source, text)
    BY <2>2, <2>5, <2>7, TellsBytes
  <2> QED
    BY <2>4, <2>8
<1>3. CASE sinst.type = "CPY"
  <2> DEFINE a == sinst.addr + offset
             mode == "SOURCE"
  <2>1. a \in Nat /\ mode \in {"SOURCE", "HERE"}
    BY <1>1
  <2>2. Piece(w, source, sinst, offset, take, position) = WithCopy(w, mode, take, a, position)
    BY <1>1, <1>3 DEF Piece
  <2>3. \A j \in 1..take : sinst.addr + (offset + j) = a + j
    BY <1>1
  <2>4. \A j \in 1..take : text[position + j] = IF mode = "SOURCE" THEN Source[a + j] ELSE text[a + j]
    BY <1>1, <1>3, <2>3 DEF Made
  <2> HIDE DEF a, mode
  <2>5. TellsLike(WithCopy(w, mode, take, a, position), w, Source, text)
    BY <2>1, <2>4, TellsCopy
  <2> QED
    BY <2>2, <2>5
<1> QED
  BY <1>2, <1>3

\* A round of a call, told.
RoundTells(iinst, sinst, offset, take, moved, below, text) ==
  /\ \A j \in 1..take : text[iinst.position + j] = Made(sinst, merge_input.adds, Source, below, offset + j)
  /\ Inside(iinst.position, take, stream.wininfo)
  /\ CallTold(moved, below, text, stream.wininfo)

\* What a call copies is what the instruction it is at made.
LEMMA RoundTold ==
  ASSUME Good, Fits(chain), Told, pc = "merge", NEW iinst \in Calls, Grounded(merge_input, iinst), iinst.size > 0,
         CallTold(iinst, Texts(chain)[file - 1], Texts(chain)[file], stream.wininfo),
         NEW sinst, sinst = merge_input.inst[iinst.sinst_num],
         NEW offset, NEW take, NEW moved, Round(iinst, sinst, offset, take, moved)
  PROVE  RoundTells(iinst, sinst, offset, take, moved, Texts(chain)[file - 1], Texts(chain)[file])
<1> DEFINE below == Texts(chain)[file - 1]
           text == Texts(chain)[file]
<1>1. /\ sinst \in Winsts /\ offset \in Nat /\ take \in Nat /\ take > 0 /\ take <= iinst.size /\ offset + take <= sinst.size
  BY RoundFacts
<1>2. /\ iinst.addr \in Nat /\ iinst.size \in Nat /\ iinst.position \in Nat /\ sinst.position \in Nat /\ sinst.size \in Nat
  BY <1>1 DEF Calls, Winsts
<1>3. iinst.sinst_num \in 1..Len(merge_input.inst) /\ sinst.position <= iinst.addr
  BY DEF Grounded, Makes
<1>4. Says(sinst, merge_input.adds, Source, below)
  <2>1. file > 1
    BY DEF Good, Place
  <2> QED
    BY <1>3, <2>1 DEF Told, Tells
<1>5. /\ offset = iinst.addr - sinst.position
      /\ moved.addr = iinst.addr + take /\ moved.size = iinst.size - take /\ moved.position = iinst.position + take
  BY DEF Round, Call
<1>6. /\ \A j \in 1..iinst.size : text[iinst.position + j] = below[iinst.addr + j]
      /\ Inside(iinst.position, iinst.size, stream.wininfo)
  BY DEF CallTold
<1> DEFINE p == iinst.position
           a == iinst.addr
           s == iinst.size
           o == sinst.position
           z == sinst.size
<1>7. /\ p \in Nat /\ a \in Nat /\ s \in Nat /\ o \in Nat /\ z \in Nat /\ take \in Nat /\ offset \in Nat
      /\ take <= s /\ offset + take <= z /\ offset = a - o /\ o <= a
      /\ moved.addr = a + take /\ moved.size = s - take /\ moved.position = p + take
      /\ \A j \in 1..s : text[p + j] = below[a + j]
      /\ \A j \in 1..z : below[o + j] = Made(sinst, merge_input.adds, Source, below, j)
      /\ Inside(p, s, stream.wininfo)
  BY <1>1, <1>2, <1>3, <1>4, <1>5, <1>6 DEF Says
<1>8. stream.wininfo \in Seq(Infos)
  <2>1. stream \in Wholes
    BY DEF Good, Types
  <2> QED
    BY <2>1, WholeFacts
<1> HIDE DEF below, text, p, a, s, o, z
<1>9. ASSUME NEW j \in 1..take
      PROVE  text[p + j] = Made(sinst, merge_input.adds, Source, below, offset + j)
  <2>1. j \in 1..s /\ offset + j \in 1..z /\ o + (offset + j) = a + j
    BY <1>7
  <2> QED
    BY <1>7, <2>1
<1>10. Inside(p, take, stream.wininfo)
  <2>1. p <= p /\ p + take <= p + s
    BY <1>7
  <2> QED
    BY <1>7, <1>8, <2>1, InsidePart
<1>11. CallTold(moved, below, text, stream.wininfo)
  <2> DEFINE b == p + take
             r == s - take
  <2>1. b \in Nat /\ r \in Nat /\ p <= b /\ b + r <= p + s
    BY <1>7
  <2>2. moved.position = b /\ moved.size = r
    BY <1>7
  <2>3. ASSUME NEW j \in 1..r
        PROVE  text[b + j] = below[moved.addr + j]
    <3>1. take + j \in 1..s /\ p + (take + j) = b + j /\ a + (take + j) = moved.addr + j
      BY <1>7
    <3> QED
      BY <1>7, <3>1
  <2> HIDE DEF b, r
  <2>4. Inside(b, r, stream.wininfo)
    BY <1>7, <1>8, <2>1, InsidePart
  <2> QED
    BY <2>2, <2>3, <2>4 DEF CallTold
<1> QED
  BY <1>9, <1>10, <1>11 DEF below, text, p, RoundTells

\* A piece is written or looked up in turn.
LEMMA SourcePieceTold ==
  ASSUME Good, Fits(chain), Told, SourcePiece
  PROVE  Told'
<1> DEFINE top == Len(todo)
           iinst == todo[top]
           sinst == merge_input.inst[iinst.sinst_num]
           offset == iinst.addr - sinst.position
           left == sinst.size - offset
           take == IF iinst.size < left THEN iinst.size ELSE left
           moved == Call(iinst.addr + take, iinst.size - take, iinst.position + take, iinst.sinst_num + 1)
           rest == [todo EXCEPT ![top] = moved]
           below == Texts(chain)[file - 1]
           text == Texts(chain)[file]
<1>1. /\ pc = "merge" /\ todo # <<>> /\ todo[top].size > 0
      /\ UNCHANGED <<chain, file, window, stream, merge_input, input_i, pc>>
      /\ IF sinst.mode # "HERE"
         THEN tmp' = Piece(tmp, merge_input, sinst, offset, take, iinst.position) /\ todo' = rest
         ELSE MergeSourceCopy(rest, sinst.addr + offset, take, iinst.position)
  BY DEF SourcePiece
<1>2. Round(iinst, sinst, offset, take, moved)
  BY DEF Round
<1> HIDE DEF left, take, moved, offset, sinst, rest
<1>3. /\ todo \in Seq(Calls) /\ tmp \in Wholes /\ merge_input \in Wholes /\ Tiles(tmp, Len(Source))
      /\ tmp.wininfo = stream.wininfo /\ Nested
  BY <1>1, MergingFacts DEF Types
<1>4. top = Len(todo) /\ top \in 1..Len(todo) /\ top \in Nat
  BY <1>1, <1>3
<1>5. \A m \in 1..top : CallTold(todo[m], below, text, stream.wininfo)
  BY DEF Told
<1>6. iinst \in Calls /\ Grounded(merge_input, iinst) /\ iinst.size > 0 /\ CallTold(iinst, below, text, stream.wininfo)
  BY <1>1, <1>3, <1>4, <1>5 DEF Nested
<1>7. Tells(tmp, Source, text) /\ Windowed(tmp.inst, tmp.wininfo)
  BY <1>1 DEF Told
<1> HIDE DEF iinst, top
<1>8. sinst = merge_input.inst[iinst.sinst_num]
  BY DEF sinst
<1>9. /\ sinst \in Winsts /\ Fitting(sinst, Len(Source), Len(merge_input.adds), merge_input.wininfo)
      /\ offset \in Nat /\ take \in Nat /\ take > 0 /\ offset + take <= sinst.size
      /\ moved \in Calls
  BY <1>1, <1>2, <1>6, <1>8, RoundFacts
<1>10. /\ \A j \in 1..take : text[iinst.position + j] = Made(sinst, merge_input.adds, Source, below, offset + j)
       /\ Inside(iinst.position, take, stream.wininfo)
       /\ CallTold(moved, below, text, stream.wininfo)
  <2>1. iinst.size > 0 /\ CallTold(iinst, Texts(chain)[file - 1], Texts(chain)[file], stream.wininfo)
    BY <1>6
  <2>2. RoundTells(iinst, sinst, offset, take, moved, Texts(chain)[file - 1], Texts(chain)[file])
    BY <1>1, <1>2, <1>6, <1>8, <2>1, RoundTold
  <2> QED
    BY <2>2 DEF RoundTells
<1> HIDE DEF below, text
<1>11. rest \in Seq(Calls) /\ Len(rest) = top /\ \A m \in 1..top : CallTold(rest[m], below, text, stream.wininfo)
  <2>1. todo \in Seq(Calls) /\ moved \in Calls /\ rest = [todo EXCEPT ![top] = moved]
    BY <1>3, <1>9 DEF rest
  <2>2. rest \in Seq(Calls) /\ Len(rest) = top /\ rest[top] = moved /\ \A j \in 1..top : j # top => rest[j] = todo[j]
    BY ONLY <1>4, <2>1
  <2> QED
    BY <1>5, <1>10, <2>2
<1>12. iinst.position \in Nat
  BY <1>6 DEF Calls
<1>13. CASE sinst.mode # "HERE"
  <2>1. tmp' = Piece(tmp, merge_input, sinst, offset, take, iinst.position) /\ todo' = rest
    BY <1>1, <1>13
  <2>2. TellsLike(tmp', tmp, Source, text)
    <3>1. Inside(iinst.position, take, tmp.wininfo)
      BY <1>3, <1>10
    <3>2. TellsLike(Piece(tmp, merge_input, sinst, offset, take, iinst.position), tmp, Source, text)
      BY <1>3, <1>7, <1>9, <1>10, <1>12, <1>13, <3>1, PieceTells
    <3> QED
      BY <2>1, <3>2
  <2> QED
    BY <1>1, <1>11, <2>1, <2>2 DEF Told, TellsLike, below, text
<1>14. CASE sinst.mode = "HERE"
  <2> DEFINE a == sinst.addr + offset
             n == MergeFindPosition(merge_input, a)
             call == Call(a, take, iinst.position, n)
  <2>1. MergeSourceCopy(rest, a, take, iinst.position)
    BY <1>1, <1>14
  <2>2. sinst.addr \in Nat /\ sinst.size \in Nat /\ sinst.type = "CPY" /\ a \in Nat
    BY <1>9, <1>14 DEF Winsts
  <2>3. a + take <= merge_input.length
    <3>1. sinst.addr < sinst.position /\ sinst.position + sinst.size <= merge_input.length
      BY <1>1, <1>2, <1>6, <1>8, <1>9, <1>14, RoundFacts DEF Fitting
    <3>2. sinst.position \in Nat /\ merge_input.length \in Nat
      BY <1>3, <1>9, WholeFacts DEF Winsts
    <3> DEFINE x == sinst.addr
               y == sinst.position
               z == sinst.size
               l == merge_input.length
    <3>3. x \in Nat /\ y \in Nat /\ z \in Nat /\ l \in Nat /\ x < y /\ y + z <= l /\ offset \in Nat /\ take \in Nat /\ offset + take <= z
      BY <1>9, <2>2, <3>1, <3>2
    <3> HIDE DEF x, y, z, l
    <3>4. (x + offset) + take <= l
      BY ONLY <3>3
    <3> QED
      BY <3>4 DEF x, l
  <2>4. \A j \in 1..take : sinst.addr + (offset + j) = a + j
    BY <1>9, <2>2
  <2> HIDE DEF a
  <2>5. n # 0 /\ call \in Calls
    BY <1>1, <1>9, <1>12, <2>2, <2>3, CallFinds
  <2>6. tmp' = tmp /\ todo' = Append(rest, call)
    BY <2>1, <2>5 DEF MergeSourceCopy
  <2>7. call.position = iinst.position /\ call.size = take /\ call.addr = a
    BY DEF Call
  <2> HIDE DEF call, n
  <2>8. CallTold(call, below, text, stream.wininfo)
    BY <1>10, <1>14, <2>2, <2>4, <2>7 DEF CallTold, Made
  <2>9. \A m \in 1..Len(todo') : CallTold(todo'[m], below, text, stream.wininfo)
    <3>1. \A m \in 1..Len(rest) : CallTold(rest[m], below, text, stream.wininfo)
      BY <1>11
    <3> QED
      BY <1>11, <2>5, <2>6, <2>8, <3>1, CallsTold
  <2> QED
    BY <1>1, <1>7, <2>6, <2>9 DEF Told, below, text
<1> QED
  BY <1>13, <1>14

\* The merged delta tells the text below the next.
LEMMA EndMergeTold ==
  ASSUME Good, Fits(chain), Told, EndMerge, file < Len(chain)
  PROVE  Told'
<1>1. /\ pc = "merge" /\ tmp.ret = 0 /\ todo = <<>> /\ todo' = todo /\ chain' = chain
      /\ pc' = "read" /\ file' = file + 1 /\ merge_input' = tmp /\ stream' = EmptyWhole
  <2>1. pc = "merge"
    BY DEF EndMerge
  <2>2. tmp.ret = 0
    BY <2>1, MergingFacts
  <2> QED
    BY <2>1, <2>2 DEF EndMerge
<1>2. file \in 1..Len(chain) /\ file \in Nat /\ (file + 1) - 1 = file
  BY ToldFacts
<1>3. Tells(tmp, Source, Texts(chain)[file])
  BY <1>1 DEF Told
<1>4. EmptyWhole.inst = <<>> /\ EmptyWhole.wininfo = <<>>
  BY DEF EmptyWhole
<1>5. Tells(EmptyWhole, Texts(chain)[file], Texts(chain)[file + 1]) /\ Windowed(EmptyWhole.inst, EmptyWhole.wininfo)
  BY <1>4, TellsNothing
<1>6. WindowsOf(chain[file + 1], EmptyWhole.wininfo)
  <2>1. 1..Len(<<>>) = {}
    OBVIOUS
  <2> QED
    BY <1>4, <2>1 DEF WindowsOf
<1>7. todo' = <<>> /\ Len(<<>>) = 0 /\ 1..0 = {}
  BY <1>1
<1> QED
  BY <1>1, <1>2, <1>3, <1>5, <1>6, <1>7 DEF Told

\* Nothing is read yet.
LEMMA InitTold ==
  ASSUME Init, Fits(chain)
  PROVE  Told
<1>1. pc = "read" /\ file = 1 /\ stream = EmptyWhole /\ todo = <<>>
  BY DEF Init
<1>2. EmptyWhole.inst = <<>> /\ EmptyWhole.wininfo = <<>>
  BY DEF EmptyWhole
<1>3. Tells(stream, Texts(chain)[file - 1], Texts(chain)[file]) /\ Windowed(stream.inst, stream.wininfo)
  BY <1>1, <1>2, TellsNothing
<1>4. 1..Len(<<>>) = {}
  OBVIOUS
<1>5. WindowsOf(chain[file], stream.wininfo)
  BY <1>1, <1>2, <1>4 DEF WindowsOf
<1> QED
  BY <1>1, <1>3, <1>4, <1>5 DEF Told

-----------------------------------------------------------------------------
(* Each step of writing the merged delta keeps to the text. *)

\* The last text, and the windows it is written in.
LEMMA FinalFacts ==
  ASSUME NEW c \in Chains, Fits(c)
  PROVE  LET n == Len(c)
         IN  /\ n \in 1..Len(c) /\ c[n] # <<>> /\ Source \in Seq(Byte)
             /\ FitsText(Texts(c)[n - 1], c[n])
             /\ Texts(c)[n] \in Seq(Byte) /\ Len(Texts(c)[n]) = Total(c[n], Len(c[n]))
<1> DEFINE n == Len(c)
<1>1. c \in Seq(Seq(Window)) /\ c # <<>> /\ c[n] # <<>> /\ Source \in Seq(Byte)
  BY ChainsAssumption
<1>2. n \in Nat /\ n \in 1..Len(c) /\ n \in 0..Len(c)
  BY <1>1
<1>3. /\ FitsText(Texts(c)[n - 1], c[n]) /\ Texts(c)[n] = Decoded(Texts(c)[n - 1], c[n])
      /\ Texts(c)[n] \in Seq(Byte)
  BY <1>2, TextsFacts
<1>4. Len(Decoded(Texts(c)[n - 1], c[n])) = Total(c[n], Len(c[n]))
  BY <1>3, DecodedFacts
<1> QED
  BY <1>1, <1>2, <1>3, <1>4

\* Nothing is written yet.
LEMMA NoWindowFacts ==
  /\ NoWindow \in Recs /\ NoWindow.inst_pos = 0 /\ NoWindow.output_pos = 0 /\ NoWindow.num = 0 /\ ~NoWindow.on
<1>1. <<>> \in Seq(Buffereds) /\ <<>> \in Seq(Byte)
  OBVIOUS
<1> QED
  BY <1>1 DEF NoWindow, Recs

\* The merged delta tells the last text.
LEMMA EndMergeWritten ==
  ASSUME Good, Fits(chain), Told, rec = NoWindow, out = <<>>, EndMerge, file = Len(chain)
  PROVE  pc' = "output" /\ Written'
<1>1. /\ pc = "merge" /\ tmp.ret = 0 /\ todo = <<>> /\ input_i = Len(stream.inst)
      /\ pc' = "output" /\ stream' = tmp
      /\ UNCHANGED <<chain, file, rec, out>>
  <2>1. pc = "merge"
    BY DEF EndMerge
  <2>2. tmp.ret = 0
    BY <2>1, MergingFacts
  <2>3. file \in Nat /\ ~(file < Len(chain))
    BY ToldFacts
  <2> QED
    BY <2>1, <2>2, <2>3 DEF EndMerge
<1>2. /\ tmp \in Wholes /\ Tiles(tmp, Len(Source)) /\ Complete(tmp) /\ Complete(stream)
      /\ tmp.length = End(stream.inst, Len(stream.inst)) /\ tmp.wininfo = stream.wininfo
  BY <1>1, MergingFacts
<1>3. /\ Tells(tmp, Source, Texts(chain)[file]) /\ Windowed(tmp.inst, tmp.wininfo)
      /\ WindowsOf(chain[file], stream.wininfo)
  BY <1>1 DEF Told
<1>4. /\ stream.length = Total(chain[file], window) /\ window = Len(chain[file]) /\ Len(stream.wininfo) = window
  BY <1>1 DEF Good, Place
<1>5. chain \in Chains /\ file \in 1..Len(chain) /\ Len(Texts(chain)[file]) = Total(chain[file], Len(chain[file]))
      /\ FitsText(Texts(chain)[file - 1], chain[file])
  BY ToldFacts, FinalFacts
<1>6. tmp.length = Len(Texts(chain)[file])
  BY <1>2, <1>4, <1>5 DEF Complete
<1>7. Ready'
  BY <1>1, <1>2, <1>3, <1>4, <1>5, <1>6 DEF Ready, Final, FinalText
<1>8. Total(Final, 0) = 0 /\ Len(Final) \in Nat
  BY <1>5, TotalFacts DEF Final
<1>9. Placed'
  <2>1. rec' = NoWindow /\ out' = <<>> /\ Final' = Final /\ stream'.inst \in Seq(Winsts)
    BY <1>1, <1>2, WholeFacts DEF Final
  <2>2. End(stream'.inst, 0) = 0 /\ Len(stream'.inst) \in Nat
    BY <2>1 DEF End
  <2> QED
    BY <1>8, <2>1, <2>2, NoWindowFacts DEF Placed
<1> QED
  BY <1>1, <1>7, <1>9, NoWindowFacts DEF Written

\* A single delta tells its text.
LEMMA NoArgumentsWritten ==
  ASSUME Good, Fits(chain), Told, rec = NoWindow, out = <<>>, NoArguments
  PROVE  pc' = "output" /\ Written'
<1>1. /\ pc = "read" /\ window = Len(chain[file]) /\ Len(chain) = 1 /\ pc' = "output"
      /\ UNCHANGED <<chain, file, stream, rec, out>>
  BY DEF NoArguments
<1>2. chain \in Chains /\ file \in 1..Len(chain) /\ file = 1
  BY <1>1, ToldFacts
<1>3. /\ Len(Texts(chain)[file]) = Total(chain[file], Len(chain[file]))
      /\ FitsText(Texts(chain)[file - 1], chain[file]) /\ Texts(chain)[file - 1] = Source
  BY <1>1, <1>2, ToldFacts, FinalFacts
<1>4. stream \in Wholes /\ Tiles(stream, Len(Source)) /\ Complete(stream)
  BY <1>2 DEF Good, Types, Tiled, BaseLength
<1>5. /\ Tells(stream, Source, Texts(chain)[file]) /\ Windowed(stream.inst, stream.wininfo)
      /\ WindowsOf(chain[file], stream.wininfo)
  BY <1>3 DEF Told
<1>6. /\ stream.length = Total(chain[file], window) /\ Len(stream.wininfo) = window
  BY <1>1 DEF Good, Place
<1>7. Ready'
  BY <1>1, <1>2, <1>3, <1>4, <1>5, <1>6 DEF Ready, Final, FinalText
<1>8. Total(Final, 0) = 0 /\ Len(Final) \in Nat
  BY <1>1, <1>2, <1>3, TotalFacts DEF Final
<1>9. Placed'
  <2>1. rec' = NoWindow /\ out' = <<>> /\ Final' = Final /\ stream'.inst \in Seq(Winsts)
    BY <1>1, <1>4, WholeFacts DEF Final
  <2>2. End(stream'.inst, 0) = 0 /\ Len(stream'.inst) \in Nat
    BY <2>1 DEF End
  <2> QED
    BY <1>8, <2>1, <2>2, NoWindowFacts DEF Placed
<1> QED
  BY <1>1, <1>7, <1>9, NoWindowFacts DEF Written

\* The windows of a delta follow each other.
LEMMA TotalGrows ==
  ASSUME NEW source, NEW delta, FitsText(source, delta), NEW a \in 0..Len(delta), NEW b \in 0..Len(delta), a <= b
  PROVE  Total(delta, a) <= Total(delta, b)
<1> DEFINE T == {d \in Nat : a + d <= Len(delta) => Total(delta, a) <= Total(delta, a + d)}
<1>1. /\ Len(delta) \in Nat /\ \A n \in 0..Len(delta) : Total(delta, n) \in Nat
      /\ \A n \in 1..Len(delta) : /\ WinSize(delta, n) \in Nat
                                  /\ Total(delta, n) = Total(delta, n - 1) + WinSize(delta, n)
  BY TotalFacts
<1>2. 0 \in T
  BY <1>1
<1>3. ASSUME NEW d \in Nat, d \in T
      PROVE  d + 1 \in T
  <2>1. CASE a + (d + 1) <= Len(delta)
    <3>1. a + d <= Len(delta) /\ a + d \in 0..Len(delta) /\ a + (d + 1) \in 1..Len(delta) /\ (a + (d + 1)) - 1 = a + d
      BY <1>1, <2>1
    <3>2. Total(delta, a) <= Total(delta, a + d) /\ a \in 0..Len(delta)
      BY <1>3, <3>1
    <3>3. Total(delta, a + (d + 1)) = Total(delta, a + d) + WinSize(delta, a + (d + 1)) /\ WinSize(delta, a + (d + 1)) \in Nat
      BY <1>1, <3>1
    <3>4. Total(delta, a) \in Nat /\ Total(delta, a + d) \in Nat
      BY <1>1, <3>1
    <3> QED
      BY <3>2, <3>3, <3>4
  <2> QED
    BY <2>1
<1>4. \A d \in Nat : d \in T
  <2> HIDE DEF T
  <2> QED
    BY <1>2, <1>3, NatInduct
<1>5. b - a \in Nat /\ a + (b - a) = b /\ b <= Len(delta)
  BY <1>1
<1>6. (b - a) \in T
  BY <1>4, <1>5
<1> QED
  BY <1>5, <1>6

\* What is to be written, and in which windows.
LEMMA WritingFacts ==
  ASSUME Ready, Fits(chain)
  PROVE  /\ stream.inst \in Seq(Winsts) /\ Contiguous(stream.inst) /\ Len(stream.inst) \in Nat
         /\ FinalText \in Seq(Byte) /\ Final # <<>> /\ Final \in Seq(Window) /\ Source \in Seq(Byte)
         /\ End(stream.inst, Len(stream.inst)) = Total(Final, Len(Final))
         /\ Len(FinalText) = Total(Final, Len(Final))
         /\ \E source : FitsText(source, Final)
         /\ Len(Final) \in Nat /\ Total(Final, 0) = 0 /\ \A n \in 0..Len(Final) : Total(Final, n) \in Nat
         /\ \A n \in 1..Len(Final) : /\ WinSize(Final, n) \in Nat
                                     /\ Total(Final, n) = Total(Final, n - 1) + WinSize(Final, n)
         /\ \A a, b \in 0..Len(Final) : a <= b => Total(Final, a) <= Total(Final, b)
         /\ \A n \in 1..Len(Final) : stream.wininfo[n] = [offset |-> Total(Final, n - 1), length |-> WinSize(Final, n)]
<1>1. chain \in Chains /\ stream \in Wholes /\ Tiles(stream, Len(Source)) /\ Complete(stream) /\ stream.length = Len(FinalText)
  BY DEF Ready
<1>2. stream.inst \in Seq(Winsts) /\ Contiguous(stream.inst) /\ Len(stream.inst) \in Nat
  BY <1>1, WholeFacts, TilesContiguous
<1>3. /\ Final # <<>> /\ FinalText \in Seq(Byte) /\ Len(FinalText) = Total(Final, Len(Final)) /\ Source \in Seq(Byte)
      /\ FitsText(Texts(chain)[Len(chain) - 1], Final)
  BY <1>1, FinalFacts DEF Final, FinalText
<1>4. End(stream.inst, Len(stream.inst)) = Total(Final, Len(Final))
  BY <1>1, <1>3 DEF Complete
<1>5. \A n \in 1..Len(Final) : stream.wininfo[n] = [offset |-> Total(Final, n - 1), length |-> WinSize(Final, n)]
  BY DEF Ready, WindowsOf, WinSize
<1>6. \A a, b \in 0..Len(Final) : a <= b => Total(Final, a) <= Total(Final, b)
  BY <1>3, TotalGrows
<1>7. Final \in Seq(Window)
  BY <1>3 DEF FitsText
<1>8. /\ Len(Final) \in Nat /\ Total(Final, 0) = 0 /\ \A n \in 0..Len(Final) : Total(Final, n) \in Nat
      /\ \A n \in 1..Len(Final) : /\ WinSize(Final, n) \in Nat
                                  /\ Total(Final, n) = Total(Final, n - 1) + WinSize(Final, n)
  BY <1>3, TotalFacts
<1>9. \E source : FitsText(source, Final)
  BY <1>3
<1> QED
  BY <1>2, <1>3, <1>4, <1>5, <1>6, <1>7, <1>8, <1>9

\* What is written of a window.
LEMMA RecFacts ==
  ASSUME NEW r \in Recs
  PROVE  /\ r.on \in BOOLEAN /\ r.inst_pos \in Nat /\ r.output_pos \in Nat /\ r.num \in Nat /\ r.start \in Nat
         /\ r.pos \in Nat /\ r.size \in Nat /\ r.srcset \in BOOLEAN /\ r.srcmin \in Nat /\ r.srcmax \in Nat
         /\ r.used \in Seq(Buffereds) /\ r.bdata \in Seq(Byte) /\ Len(r.used) \in Nat /\ Len(r.bdata) \in Nat
         /\ \A k \in 1..Len(r.used) : /\ r.used[k] \in Buffereds
                                      /\ r.used[k].pos \in Nat /\ r.used[k].size \in Nat /\ r.used[k].addr \in Nat
                                      /\ r.used[k].is_source \in BOOLEAN /\ r.used[k].byte \in Seq(Byte)
                                      /\ r.used[k].type \in {"RUN", "CPY"}
         /\ \A k \in 0..Len(r.used) : Off(r.used, k) \in Nat
<1>1. r.used \in Seq(Buffereds) /\ r.bdata \in Seq(Byte)
  BY DEF Recs
<1>2. \A k \in 1..Len(r.used) : r.used[k] \in Buffereds
  BY <1>1
<1>3. \A k \in 1..Len(r.used) : /\ r.used[k] \in Buffereds
                                /\ r.used[k].pos \in Nat /\ r.used[k].size \in Nat /\ r.used[k].addr \in Nat
                                /\ r.used[k].is_source \in BOOLEAN /\ r.used[k].byte \in Seq(Byte)
                                /\ r.used[k].type \in {"RUN", "CPY"}
  BY <1>2 DEF Buffereds
<1>4. ASSUME NEW k \in 0..Len(r.used)
      PROVE  Off(r.used, k) \in Nat
  <2>1. CASE k = 0
    BY <2>1 DEF Off
  <2>2. CASE k # 0
    <3>1. k \in 1..Len(r.used)
      BY <1>1, <2>2
    <3> QED
      BY <1>3, <2>2, <3>1 DEF Off
  <2> QED
    BY <2>1, <2>2
<1>5. /\ r.on \in BOOLEAN /\ r.inst_pos \in Nat /\ r.output_pos \in Nat /\ r.num \in Nat /\ r.start \in Nat
      /\ r.pos \in Nat /\ r.size \in Nat /\ r.srcset \in BOOLEAN /\ r.srcmin \in Nat /\ r.srcmax \in Nat
  BY DEF Recs
<1>6. Len(r.used) \in Nat /\ Len(r.bdata) \in Nat
  BY <1>1
<1> QED
  BY <1>1, <1>3, <1>4, <1>5, <1>6

\* There is always a window for what is left, and it begins where the one before it ended.
LEMMA BeginWindowWritten ==
  ASSUME Written, Fits(chain), pc = "output", BeginWindow
  PROVE  pc' = "output" /\ Written'
<1> DEFINE num == rec.num
           info == stream.wininfo[num + 1]
           bdata == IF Len(rec.bdata) < info.length THEN [k \in 1..info.length |-> 0] ELSE rec.bdata
<1>1. Ready /\ Placed
  BY DEF Written
<1>2. /\ ~rec.on /\ (rec.inst_pos < Len(stream.inst) \/ out = <<>>)
      /\ UNCHANGED <<chain, file, window, stream, merge_input, tmp, input_i, todo, out>>
      /\ IF rec.output_pos # info.offset THEN pc' = "failed" /\ UNCHANGED rec
         ELSE /\ rec' = [rec EXCEPT !.on = TRUE, !.num = @ + 1, !.start = rec.output_pos, !.pos = 0,
                                    !.size = info.length, !.srcset = FALSE, !.srcmin = 0, !.srcmax = 0,
                                    !.used = <<>>,
                                    !.bdata = IF Len(@) < info.length THEN [k \in 1..info.length |-> 0] ELSE @]
              /\ UNCHANGED pc
  BY DEF BeginWindow
<1>3. /\ rec \in Recs /\ out \in Seq(Window) /\ rec.inst_pos <= Len(stream.inst) /\ rec.output_pos = End(stream.inst, rec.inst_pos)
      /\ num <= Len(Final) /\ Len(out) = num /\ rec.output_pos = Total(Final, num)
  BY <1>1, <1>2 DEF Placed
<1>4. num \in Nat /\ rec.output_pos \in Nat /\ rec.inst_pos \in Nat /\ rec.bdata \in Seq(Byte) /\ Len(rec.bdata) \in Nat
  BY <1>3, RecFacts
<1>5. num < Len(Final)
  <2>1. CASE out = <<>>
    BY <1>1, <1>3, <1>4, <2>1, WritingFacts
  <2>2. CASE rec.inst_pos < Len(stream.inst)
    <3> DEFINE k == rec.inst_pos + 1
               inst == stream.inst
    <3>1. inst \in Seq(Winsts) /\ Contiguous(inst) /\ Len(inst) \in Nat /\ End(inst, Len(inst)) = Total(Final, Len(Final)) /\ Len(Final) \in Nat
      BY <1>1, WritingFacts
    <3>2. k \in 1..Len(inst) /\ k - 1 = rec.inst_pos
      BY <1>4, <2>2, <3>1
    <3>3. inst[k].position + inst[k].size <= End(inst, Len(inst))
      BY <3>1, <3>2, EndIsLast
    <3>4. inst[k].position = rec.output_pos /\ inst[k].size > 0 /\ inst[k].size \in Nat
      BY <1>3, <3>1, <3>2, WinstFacts DEF Contiguous
    <3>5. Total(Final, num) # Total(Final, Len(Final))
      <4> DEFINE o == rec.output_pos
                 s == inst[k].size
                 e == End(inst, Len(inst))
      <4>1. o \in Nat /\ s \in Nat /\ s > 0 /\ o + s <= e /\ e \in Nat /\ o = Total(Final, num) /\ e = Total(Final, Len(Final))
        BY <1>3, <1>4, <3>1, <3>3, <3>4, WinstFacts, SMTT(30)
      <4> HIDE DEF o, s, e
      <4>2. o # e
        BY ONLY <4>1
      <4> QED
        BY <4>1, <4>2
    <3> QED
      BY <1>3, <1>4, <3>1, <3>5
  <2> QED
    BY <1>2, <2>1, <2>2
<1>6. /\ num + 1 \in 1..Len(Final) /\ (num + 1) - 1 = num
      /\ info = [offset |-> Total(Final, num), length |-> WinSize(Final, num + 1)] /\ WinSize(Final, num + 1) \in Nat
  <2>1. num + 1 \in 1..Len(Final) /\ (num + 1) - 1 = num
    BY <1>1, <1>4, <1>5, WritingFacts, SMTT(30)
  <2> QED
    BY <1>1, <2>1, WritingFacts
<1>7. info.offset = rec.output_pos /\ info.length = WinSize(Final, num + 1) /\ info.length \in Nat
  BY <1>3, <1>6
<1>8. bdata \in Seq(Byte) /\ info.length <= Len(bdata)
  <2>1. [k \in 1..info.length |-> 0] \in Seq(Byte) /\ Len([k \in 1..info.length |-> 0]) = info.length
    <3>1. 0 \in Byte
      BY DEF Byte
    <3> QED
      BY <1>7, <3>1
  <2> QED
    BY <1>4, <1>7, <2>1
<1>9. pc' = "output" /\ rec' = [rec EXCEPT !.on = TRUE, !.num = num + 1, !.start = rec.output_pos, !.pos = 0,
                                    !.size = info.length, !.srcset = FALSE, !.srcmin = 0, !.srcmax = 0,
                                    !.used = <<>>, !.bdata = bdata]
  BY <1>2, <1>3, <1>7
<1> HIDE DEF bdata, num, info
<1>10. /\ rec' \in Recs /\ rec'.on = TRUE /\ rec'.inst_pos = rec.inst_pos /\ rec'.output_pos = rec.output_pos
       /\ rec'.num = num + 1 /\ rec'.start = rec.output_pos /\ rec'.pos = 0 /\ rec'.size = info.length
       /\ rec'.srcset = FALSE /\ rec'.used = <<>> /\ rec'.bdata = bdata
  <2> DEFINE n == num + 1
             o == rec.output_pos
             l == info.length
  <2>1. /\ rec \in Recs /\ n \in Nat /\ o \in Nat /\ l \in Nat /\ bdata \in Seq(Byte) /\ <<>> \in Seq(Buffereds)
        /\ rec' = [rec EXCEPT !.on = TRUE, !.num = n, !.start = o, !.pos = 0, !.size = l, !.srcset = FALSE,
                              !.srcmin = 0, !.srcmax = 0, !.used = <<>>, !.bdata = bdata]
    BY <1>3, <1>4, <1>7, <1>8, <1>9
  <2> HIDE DEF n, o, l
  <2>2. rec' \in Recs
    BY ONLY <2>1 DEF Recs
  <2>3. /\ rec'.on = TRUE /\ rec'.inst_pos = rec.inst_pos /\ rec'.output_pos = rec.output_pos
        /\ rec'.num = n /\ rec'.start = o /\ rec'.pos = 0 /\ rec'.size = l
        /\ rec'.srcset = FALSE /\ rec'.used = <<>> /\ rec'.bdata = bdata
    BY ONLY <2>1 DEF Recs
  <2> QED
    BY <2>2, <2>3 DEF n, o, l
<1>11. Final' = Final /\ FinalText' = FinalText
  BY <1>2 DEF Final, FinalText
<1>12. Placed'
  <2>1. /\ num + 1 <= Len(Final) /\ num + 1 > 0 /\ (num + 1) - 1 = num /\ 0 <= info.length
        /\ rec.output_pos = rec.output_pos + 0
    BY <1>4, <1>6, <1>7
  <2>2. rec'.start = Total(Final, num) /\ rec'.size = Sizes(Final[num + 1].inst, Len(Final[num + 1].inst))
    BY <1>3, <1>7, <1>10 DEF WinSize
  <2>3. /\ rec' \in Recs /\ out' \in Seq(Window)
        /\ rec'.inst_pos <= Len(stream'.inst) /\ rec'.output_pos = End(stream'.inst, rec'.inst_pos)
        /\ rec'.num <= Len(Final) /\ Len(out') = rec'.num - 1
    BY <1>2, <1>3, <1>10, <2>1
  <2>4. /\ rec'.num > 0 /\ rec'.start = Total(Final, rec'.num - 1)
        /\ rec'.size = Sizes(Final[rec'.num].inst, Len(Final[rec'.num].inst))
    BY <1>10, <2>1, <2>2
  <2>5. /\ rec'.pos <= rec'.size /\ rec'.output_pos = rec'.start + rec'.pos /\ rec'.size <= Len(rec'.bdata)
    BY <1>8, <1>10, <2>1
  <2>6. rec'.on = TRUE
    BY <1>10
  <2> QED
    BY <1>11, <2>3, <2>4, <2>5, <2>6 DEF Placed
<1>13. WindowTold(rec, FinalText)'
  <2>1. Len(rec'.used) = 0 /\ Off(rec'.used, 0) = 0 /\ GapEnd(rec', 0) = 0 /\ 1..0 = {} /\ 0..0 = {0}
    BY <1>10 DEF Off, GapEnd
  <2> QED
    BY <1>10, <2>1 DEF WindowTold
<1>14. Ready'
  BY <1>1, <1>2, <1>11 DEF Ready
<1>15. (\A n \in 1..Len(out) : OutTold(out[n], n, FinalText))'
  BY <1>2, <1>11 DEF Written, OutTold
<1> QED
  BY <1>9, <1>10, <1>11, <1>12, <1>13, <1>14, <1>15 DEF Written

\* What is said of the window so far stays said as it grows.
LEMMA UsedStays ==
  ASSUME NEW r \in Recs, NEW s \in Recs, NEW text, NEW u \in Buffereds, UsedTold(u, r, text),
         s.start = r.start, r.pos <= s.pos,
         r.srcset => s.srcset /\ s.srcmin <= r.srcmin /\ r.srcmax <= s.srcmax
  PROVE  UsedTold(u, s, text)
<1>1. /\ u.pos \in Nat /\ u.size \in Nat /\ u.addr \in Nat /\ r.pos \in Nat /\ s.pos \in Nat
      /\ r.srcmin \in Nat /\ r.srcmax \in Nat /\ s.srcmin \in Nat /\ s.srcmax \in Nat
  BY RecFacts DEF Buffereds
<1>2. u.size > 0 /\ u.pos + u.size <= s.pos
  BY <1>1 DEF UsedTold
<1>3. u.type = "RUN" => Len(u.byte) = 1 /\ \A j \in 1..u.size : text[s.start + u.pos + j] = u.byte[1]
  BY DEF UsedTold
<1>4. (u.type = "CPY" /\ u.is_source) =>
        /\ s.srcset /\ s.srcmin <= u.addr /\ u.addr + u.size <= s.srcmax
        /\ \A j \in 1..u.size : text[s.start + u.pos + j] = Source[u.addr + j]
  BY <1>1 DEF UsedTold
<1>5. (u.type = "CPY" /\ ~u.is_source) =>
        /\ u.addr < u.pos
        /\ \A j \in 1..u.size : text[s.start + u.pos + j] = text[s.start + u.addr + j]
  BY DEF UsedTold
<1> QED
  BY <1>2, <1>3, <1>4, <1>5 DEF UsedTold

\* Another instruction is buffered.
LEMMA BufferedTold ==
  ASSUME NEW r \in Recs, NEW s \in Recs, NEW text, WindowTold(r, text), NEW take \in Nat, NEW u \in Buffereds,
         s.used = Append(r.used, u), u.pos = r.pos, u.size = take, s.bdata = r.bdata,
         s.start = r.start, s.pos = r.pos + take,
         r.srcset => s.srcset /\ s.srcmin <= r.srcmin /\ r.srcmax <= s.srcmax,
         s.srcset => s.srcmin <= s.srcmax /\ s.srcmax <= Len(Source),
         UsedTold(u, s, text)
  PROVE  WindowTold(s, text)
<1> DEFINE n == Len(r.used)
<1>1. /\ r.used \in Seq(Buffereds) /\ s.used \in Seq(Buffereds) /\ n \in Nat /\ r.pos \in Nat /\ s.pos \in Nat /\ r.pos <= s.pos
      /\ \A k \in 1..n : r.used[k] \in Buffereds /\ r.used[k].pos \in Nat /\ r.used[k].size \in Nat
  <2>1. r.used \in Seq(Buffereds) /\ n \in Nat /\ r.pos \in Nat
    BY RecFacts
  <2>2. s.used \in Seq(Buffereds) /\ s.pos \in Nat
    BY RecFacts
  <2>3. \A k \in 1..n : r.used[k] \in Buffereds /\ r.used[k].pos \in Nat /\ r.used[k].size \in Nat
    BY RecFacts
  <2> QED
    BY <2>1, <2>2, <2>3
<1>2. Len(s.used) = n + 1 /\ s.used[n + 1] = u /\ \A k \in 1..n : s.used[k] = r.used[k]
  BY <1>1
<1>3. ASSUME NEW k \in 1..Len(s.used)
      PROVE  UsedTold(s.used[k], s, text)
  <2>1. CASE k = n + 1
    BY <1>2, <2>1
  <2>2. CASE k # n + 1
    <3>1. k \in 1..n
      BY <1>1, <1>2, <2>2
    <3>2. UsedTold(r.used[k], r, text)
      BY <3>1 DEF WindowTold
    <3> QED
      BY <1>1, <1>2, <3>1, <3>2, UsedStays
  <2> QED
    BY <2>1, <2>2
<1>4. ASSUME NEW k \in 0..Len(s.used)
      PROVE  /\ Off(s.used, k) <= GapEnd(s, k)
             /\ \A p \in 1..s.pos : Off(s.used, k) < p /\ p <= GapEnd(s, k) => s.bdata[p] = text[s.start + p]
  <2>1. CASE k = n + 1
    <3>1. Off(s.used, k) = r.pos + take /\ GapEnd(s, k) = s.pos
      BY <1>1, <1>2, <2>1 DEF Off, GapEnd
    <3> QED
      BY <1>1, <3>1
  <2>2. CASE k # n + 1
    <3>1. k \in 0..n
      BY <1>1, <1>2, <2>2
    <3>2. Off(s.used, k) = Off(r.used, k)
      BY <1>1, <1>2, <3>1 DEF Off
    <3>3. GapEnd(s, k) = GapEnd(r, k) /\ GapEnd(r, k) \in Nat /\ GapEnd(r, k) <= r.pos
      <4>1. CASE k = n
        <5>1. k < Len(s.used) /\ s.used[k + 1] = u /\ ~(k < n)
          BY <1>1, <1>2, <4>1
        <5> QED
          BY <1>1, <5>1 DEF GapEnd
      <4>2. CASE k # n
        <5>1. k + 1 \in 1..n /\ k < n /\ k < Len(s.used)
          BY <1>1, <1>2, <3>1, <4>2
        <5>2. UsedTold(r.used[k + 1], r, text)
          BY <5>1 DEF WindowTold
        <5>3. r.used[k + 1].pos <= r.pos
          <6>1. r.used[k + 1].pos + r.used[k + 1].size <= r.pos
            BY <5>2 DEF UsedTold
          <6> QED
            BY <1>1, <5>1, <6>1
        <5> QED
          BY <1>1, <1>2, <5>1, <5>3 DEF GapEnd
      <4> QED
        BY <4>1, <4>2
    <3>4. /\ Off(r.used, k) <= GapEnd(r, k)
          /\ \A p \in 1..r.pos : Off(r.used, k) < p /\ p <= GapEnd(r, k) => r.bdata[p] = text[r.start + p]
      BY <3>1 DEF WindowTold
    <3>5. \A p \in 1..s.pos : p <= GapEnd(r, k) => p \in 1..r.pos
      BY <1>1, <3>3
    <3> QED
      BY <3>2, <3>3, <3>4, <3>5
  <2> QED
    BY <2>1, <2>2
<1> QED
  BY <1>3, <1>4 DEF WindowTold

\* The bytes of an ADD are put into the window.
LEMMA InputTold ==
  ASSUME NEW r \in Recs, NEW s \in Recs, NEW text, WindowTold(r, text), NEW take \in Nat,
         s.used = r.used, s.start = r.start, s.pos = r.pos + take,
         s.srcset = r.srcset, s.srcmin = r.srcmin, s.srcmax = r.srcmax,
         \A p \in 1..r.pos : s.bdata[p] = r.bdata[p],
         \A j \in 1..take : s.bdata[r.pos + j] = text[r.start + (r.pos + j)]
  PROVE  WindowTold(s, text)
<1> DEFINE n == Len(r.used)
<1>1. /\ r.used \in Seq(Buffereds) /\ n \in Nat /\ r.pos \in Nat /\ s.pos \in Nat /\ r.pos <= s.pos
      /\ \A k \in 1..n : r.used[k] \in Buffereds /\ r.used[k].pos \in Nat /\ r.used[k].size \in Nat
      /\ \A k \in 0..n : Off(r.used, k) \in Nat /\ r.srcmin \in Nat /\ r.srcmax \in Nat
  BY RecFacts
<1>2. \A k \in 1..n : UsedTold(s.used[k], s, text)
  <2>1. \A k \in 1..n : UsedTold(r.used[k], r, text)
    BY DEF WindowTold
  <2>2. r.srcset => s.srcset /\ s.srcmin <= r.srcmin /\ r.srcmax <= s.srcmax
    BY RecFacts
  <2> QED
    BY <1>1, <2>1, <2>2, UsedStays
<1>3. ASSUME NEW k \in 0..n
      PROVE  /\ Off(s.used, k) <= GapEnd(s, k)
             /\ \A p \in 1..s.pos : Off(s.used, k) < p /\ p <= GapEnd(s, k) => s.bdata[p] = text[s.start + p]
  <2>1. /\ Off(r.used, k) <= GapEnd(r, k)
        /\ \A p \in 1..r.pos : Off(r.used, k) < p /\ p <= GapEnd(r, k) => r.bdata[p] = text[r.start + p]
    BY DEF WindowTold
  <2>2. CASE k = n
    <3>1. GapEnd(r, k) = r.pos /\ GapEnd(s, k) = s.pos
      BY <1>1, <2>2 DEF GapEnd
    <3>2. ASSUME NEW p \in 1..s.pos, Off(r.used, k) < p
          PROVE  s.bdata[p] = text[s.start + p]
      <4>1. CASE p <= r.pos
        <5>1. p \in 1..r.pos
          BY <1>1, <4>1
        <5> QED
          BY <2>1, <3>1, <3>2, <4>1, <5>1
      <4>2. CASE ~(p <= r.pos)
        <5>1. p - r.pos \in 1..take /\ r.pos + (p - r.pos) = p
          BY <1>1, <4>2, SMTT(30)
        <5> QED
          BY <5>1
      <4> QED
        BY <4>1, <4>2
    <3>3. Off(r.used, k) <= s.pos
      BY <1>1, <2>1, <3>1
    <3> QED
      BY <3>1, <3>2, <3>3
  <2>3. CASE k # n
    <3>1. k + 1 \in 1..n /\ k < n
      BY <1>1, <2>3
    <3>2. GapEnd(r, k) = r.used[k + 1].pos /\ GapEnd(s, k) = r.used[k + 1].pos
      BY <3>1 DEF GapEnd
    <3>3. r.used[k + 1].pos + r.used[k + 1].size <= r.pos
      BY <3>1 DEF WindowTold, UsedTold
    <3>4. r.used[k + 1].pos <= r.pos /\ r.used[k + 1].pos \in Nat
      <4>1. r.used[k + 1].pos \in Nat /\ r.used[k + 1].size \in Nat /\ r.pos \in Nat
        BY <1>1, <3>1
      <4> QED
        BY <3>3, <4>1
    <3>5. \A p \in 1..s.pos : p <= r.used[k + 1].pos => p \in 1..r.pos
      BY <1>1, <3>4, SMTT(30)
    <3> QED
      BY <2>1, <3>2, <3>5
  <2> QED
    BY <2>2, <2>3
<1>4. s.srcset => s.srcmin <= s.srcmax /\ s.srcmax <= Len(Source)
  BY DEF WindowTold
<1> QED
  BY <1>2, <1>3, <1>4 DEF WindowTold

\* Only one window holds an instruction.
LEMMA OneWindow ==
  ASSUME Ready, Fits(chain), NEW n \in 1..Len(Final), NEW m \in 1..Len(Final), NEW x \in Nat, NEW s \in Nat, s > 0,
         Total(Final, n - 1) <= x, x + s <= Total(Final, n), Total(Final, m - 1) <= x, x < Total(Final, m)
  PROVE  n = m
<1>1. /\ Len(Final) \in Nat /\ \A k \in 0..Len(Final) : Total(Final, k) \in Nat
      /\ \A a, b \in 0..Len(Final) : a <= b => Total(Final, a) <= Total(Final, b)
  BY WritingFacts
<1>2. n - 1 \in 0..Len(Final) /\ m - 1 \in 0..Len(Final) /\ n \in 0..Len(Final) /\ m \in 0..Len(Final) /\ n \in Nat /\ m \in Nat
  BY <1>1
<1> DEFINE a == Total(Final, n - 1)
           b == Total(Final, n)
           c == Total(Final, m - 1)
           d == Total(Final, m)
<1>3. /\ a \in Nat /\ b \in Nat /\ c \in Nat /\ d \in Nat /\ a <= x /\ x + s <= b /\ c <= x /\ x < d
      /\ (n <= m - 1 => b <= c) /\ (m <= n - 1 => d <= a)
  BY <1>1, <1>2
<1> HIDE DEF a, b, c, d
<1>4. ~(n <= m - 1) /\ ~(m <= n - 1)
  BY ONLY <1>3, x \in Nat, s \in Nat, s > 0
<1> QED
  BY <1>2, <1>4

\* An instruction that is written whole, in the window it is in.
FitsWindow(i) ==
  /\ i \in Winsts /\ i.size > 0 /\ i.position = rec.start + rec.pos /\ rec.pos + i.size <= rec.size
  /\ i.type # "CPY" => i.addr + (IF i.type = "RUN" THEN 1 ELSE i.size) <= Len(stream.adds)
  /\ i.mode = "SOURCE" => i.addr + i.size <= Len(Source)
  /\ i.mode = "HERE" => rec.start <= i.addr /\ i.addr < i.position
  /\ Says(i, stream.adds, Source, FinalText)

\* The next instruction fits into the window.
LEMMA NextFits ==
  ASSUME Ready, Fits(chain), Placed, rec.on, rec.pos < rec.size, rec.inst_pos < Len(stream.inst)
  PROVE  FitsWindow(stream.inst[rec.inst_pos + 1])
<1> DEFINE k == rec.inst_pos + 1
           i == stream.inst[k]
           num == rec.num
           wininfo == stream.wininfo
<1>1. /\ stream.inst \in Seq(Winsts) /\ Len(stream.inst) \in Nat /\ Len(Final) \in Nat
      /\ \A n \in 0..Len(Final) : Total(Final, n) \in Nat
      /\ \A n \in 1..Len(Final) : /\ WinSize(Final, n) \in Nat
                                  /\ Total(Final, n) = Total(Final, n - 1) + WinSize(Final, n)
      /\ \A n \in 1..Len(Final) : wininfo[n] = [offset |-> Total(Final, n - 1), length |-> WinSize(Final, n)]
  BY WritingFacts
<1>2. /\ rec \in Recs /\ rec.output_pos = End(stream.inst, rec.inst_pos) /\ num > 0 /\ num <= Len(Final)
      /\ rec.start = Total(Final, num - 1) /\ rec.size = WinSize(Final, num) /\ rec.output_pos = rec.start + rec.pos
  BY DEF Placed, WinSize
<1>3. rec.inst_pos \in Nat /\ num \in Nat /\ rec.start \in Nat /\ rec.pos \in Nat /\ rec.size \in Nat
  BY <1>2, RecFacts
<1>4. k \in 1..Len(stream.inst) /\ k - 1 = rec.inst_pos /\ num \in 1..Len(Final)
  <2>1. k \in 1..Len(stream.inst) /\ k - 1 = rec.inst_pos
    BY ONLY <1>1, <1>3, rec.inst_pos < Len(stream.inst)
  <2>2. num \in 1..Len(Final)
    BY ONLY <1>1, <1>2, <1>3
  <2> QED
    BY <2>1, <2>2
<1>5. \A n \in 1..Len(Final) : wininfo[n].offset = Total(Final, n - 1) /\ wininfo[n].offset + wininfo[n].length = Total(Final, n)
  <2> TAKE n \in 1..Len(Final)
  <2>1. wininfo[n] = [offset |-> Total(Final, n - 1), length |-> WinSize(Final, n)]
    BY <1>1
  <2>2. wininfo[n].offset = Total(Final, n - 1) /\ wininfo[n].length = WinSize(Final, n)
    BY <2>1
  <2> QED
    BY <1>1, <2>2
<1>6. /\ i \in Winsts /\ i.position = End(stream.inst, rec.inst_pos) /\ Fitting(i, Len(Source), Len(stream.adds), wininfo)
  <2>1. Tiles(stream, Len(Source))
    BY DEF Ready
  <2>2. i.position = End(stream.inst, k - 1) /\ Fitting(i, Len(Source), Len(stream.adds), wininfo)
    BY <1>4, <2>1, TilesMeans
  <2>3. i \in Winsts
    BY <1>1, <1>4
  <2> QED
    BY <1>4, <2>2, <2>3
<1>7. i.position = rec.start + rec.pos /\ i.size > 0 /\ i.size \in Nat /\ i.position \in Nat /\ i.addr \in Nat
  BY <1>2, <1>6 DEF Fitting, Winsts
<1>8. Says(i, stream.adds, Source, FinalText)
  BY <1>4 DEF Ready, Tells
<1>9. Total(Final, num - 1) <= i.position /\ i.position < Total(Final, num)
  <2> DEFINE t == Total(Final, num - 1)
             u == Total(Final, num)
  <2>1. t = rec.start /\ u = t + rec.size
    BY <1>1, <1>2, <1>4
  <2> HIDE DEF t, u
  <2>2. t <= i.position /\ i.position < u
    BY <1>3, <1>7, <2>1
  <2> QED
    BY <2>2 DEF t, u
<1>10. rec.pos + i.size <= rec.size
  <2>1. PICK n \in 1..Len(wininfo) : /\ wininfo[n].offset <= i.position
                                     /\ i.position + i.size <= wininfo[n].offset + wininfo[n].length
    BY <1>4 DEF Ready, Windowed, Inside
  <2>2. n \in 1..Len(Final)
    BY <2>1 DEF Ready
  <2>3. Total(Final, n - 1) <= i.position /\ i.position + i.size <= Total(Final, n)
    BY <1>5, <2>1, <2>2
  <2>4. n = num
    BY <1>4, <1>7, <1>9, <2>2, <2>3, OneWindow
  <2>5. i.position + i.size <= rec.start + rec.size
    BY <1>1, <1>2, <1>4, <2>3, <2>4
  <2> DEFINE s == i.size
             x == i.position
  <2>6. s \in Nat /\ x = rec.start + rec.pos /\ x + s <= rec.start + rec.size
    BY <1>7, <2>5
  <2> HIDE DEF s, x
  <2>7. rec.pos + s <= rec.size
    BY <1>3, <2>6
  <2> QED
    BY <2>7 DEF s
<1>11. ASSUME i.mode = "HERE"
       PROVE  rec.start <= i.addr /\ i.addr < i.position
  <2>1. PICK n \in 1..Len(wininfo) : /\ wininfo[n].offset <= i.addr /\ i.addr < i.position
                                     /\ i.position + i.size <= wininfo[n].offset + wininfo[n].length
    BY <1>6, <1>11 DEF Fitting
  <2>2. n \in 1..Len(Final)
    BY <2>1 DEF Ready
  <2>3. n - 1 \in 0..Len(Final)
    BY <1>1, <2>2
  <2>4. Total(Final, n - 1) <= i.addr /\ i.position + i.size <= Total(Final, n) /\ Total(Final, n - 1) \in Nat
    BY <1>1, <1>5, <2>1, <2>2, <2>3
  <2>5. Total(Final, n - 1) <= i.position
    <3> DEFINE t == Total(Final, n - 1)
    <3>1. t \in Nat /\ t <= i.addr /\ i.addr < i.position /\ i.addr \in Nat /\ i.position \in Nat
      BY <1>7, <2>1, <2>4
    <3> HIDE DEF t
    <3>2. t <= i.position
      BY <3>1
    <3> QED
      BY <3>2 DEF t
  <2>6. n = num
    BY <1>4, <1>7, <1>9, <2>2, <2>4, <2>5, OneWindow
  <2> QED
    BY <1>2, <2>1, <2>4, <2>6
<1> QED
  BY <1>6, <1>7, <1>8, <1>10, <1>11 DEF FitsWindow, Fitting

\* The window has grown by an instruction.
Onward(r, take) == [r EXCEPT !.pos = @ + take, !.output_pos = @ + take, !.inst_pos = @ + 1]

LEMMA OnwardFacts ==
  ASSUME NEW r \in Recs, NEW take \in Nat
  PROVE  LET s == Onward(r, take)
         IN  /\ s \in Recs /\ s.on = r.on /\ s.inst_pos = r.inst_pos + 1 /\ s.output_pos = r.output_pos + take
             /\ s.num = r.num /\ s.start = r.start /\ s.pos = r.pos + take /\ s.size = r.size
             /\ s.srcset = r.srcset /\ s.srcmin = r.srcmin /\ s.srcmax = r.srcmax
             /\ s.used = r.used /\ s.bdata = r.bdata
<1> DEFINE a == r.pos + take
           b == r.output_pos + take
           c == r.inst_pos + 1
           s == [r EXCEPT !.pos = a, !.output_pos = b, !.inst_pos = c]
<1>1. a \in Nat /\ b \in Nat /\ c \in Nat
  BY RecFacts
<1>2. Onward(r, take) = s
  BY DEF Onward, Recs
<1> HIDE DEF a, b, c
<1>3. /\ s \in Recs /\ s.on = r.on /\ s.inst_pos = c /\ s.output_pos = b
      /\ s.num = r.num /\ s.start = r.start /\ s.pos = a /\ s.size = r.size
      /\ s.srcset = r.srcset /\ s.srcmin = r.srcmin /\ s.srcmax = r.srcmax
      /\ s.used = r.used /\ s.bdata = r.bdata
  BY <1>1 DEF Recs
<1> HIDE DEF s
<1> QED
  BY <1>2, <1>3 DEF a, b, c

\* The next instruction is part of the window now.
Advanced(s, r, take) ==
  /\ s \in Recs /\ s.on = r.on /\ s.inst_pos = r.inst_pos + 1 /\ s.output_pos = r.output_pos + take
  /\ s.num = r.num /\ s.start = r.start /\ s.pos = r.pos + take /\ s.size = r.size
  /\ Len(s.bdata) = Len(r.bdata) /\ WindowTold(s, FinalText)

\* r is the window r0, except that its source part may be larger.
Widened(r, r0) ==
  /\ r \in Recs
  /\ r.on = r0.on /\ r.inst_pos = r0.inst_pos /\ r.output_pos = r0.output_pos /\ r.num = r0.num
  /\ r.start = r0.start /\ r.pos = r0.pos /\ r.size = r0.size /\ r.used = r0.used /\ r.bdata = r0.bdata
  /\ r0.srcset => r.srcset /\ r.srcmin <= r0.srcmin /\ r0.srcmax <= r.srcmax
  /\ r.srcset => r.srcmin <= r.srcmax /\ r.srcmax <= Len(Source)

\* An instruction that is to be buffered says what comes next of the text.
UsedNext(u, r, text) ==
  /\ u.pos = r.pos /\ u.size > 0
  /\ u.type = "RUN" => Len(u.byte) = 1 /\ \A j \in 1..u.size : text[r.start + u.pos + j] = u.byte[1]
  /\ (u.type = "CPY" /\ u.is_source) =>
       /\ r.srcset /\ r.srcmin <= u.addr /\ u.addr + u.size <= r.srcmax
       /\ \A j \in 1..u.size : text[r.start + u.pos + j] = Source[u.addr + j]
  /\ (u.type = "CPY" /\ ~u.is_source) =>
       /\ u.addr < u.pos
       /\ \A j \in 1..u.size : text[r.start + u.pos + j] = text[r.start + u.addr + j]

\* It becomes part of the window.
LEMMA BufferedAdvances ==
  ASSUME NEW r0 \in Recs, WindowTold(r0, FinalText), NEW r, Widened(r, r0), NEW u \in Buffereds, UsedNext(u, r, FinalText)
  PROVE  Advanced(Onward([r EXCEPT !.used = Append(@, u)], u.size), r0, u.size)
<1> DEFINE v == Append(r.used, u)
           q == [r EXCEPT !.used = v]
           s == Onward(q, u.size)
           size == u.size
           text == FinalText
<1>0. /\ r \in Recs
      /\ r.on = r0.on /\ r.inst_pos = r0.inst_pos /\ r.output_pos = r0.output_pos /\ r.num = r0.num
      /\ r.start = r0.start /\ r.pos = r0.pos /\ r.size = r0.size /\ r.used = r0.used /\ r.bdata = r0.bdata
      /\ r0.srcset => r.srcset /\ r.srcmin <= r0.srcmin /\ r0.srcmax <= r.srcmax
      /\ r.srcset => r.srcmin <= r.srcmax /\ r.srcmax <= Len(Source)
  BY DEF Widened
<1>1. v \in Seq(Buffereds) /\ size \in Nat
  <2>1. r.used \in Seq(Buffereds)
    BY <1>0, RecFacts
  <2> QED
    BY <2>1 DEF Buffereds
<1>2. [r EXCEPT !.used = Append(@, u)] = q
  BY <1>0 DEF Recs
<1> HIDE DEF v
<1>3. /\ q \in Recs /\ q.on = r.on /\ q.inst_pos = r.inst_pos /\ q.output_pos = r.output_pos /\ q.num = r.num
      /\ q.start = r.start /\ q.pos = r.pos /\ q.size = r.size /\ q.used = v /\ q.bdata = r.bdata
      /\ q.srcset = r.srcset /\ q.srcmin = r.srcmin /\ q.srcmax = r.srcmax
  BY <1>0, <1>1 DEF Recs
<1> HIDE DEF q
<1>4. /\ s \in Recs /\ s.on = q.on /\ s.inst_pos = q.inst_pos + 1 /\ s.output_pos = q.output_pos + size
      /\ s.num = q.num /\ s.start = q.start /\ s.pos = q.pos + size /\ s.size = q.size
      /\ s.srcset = q.srcset /\ s.srcmin = q.srcmin /\ s.srcmax = q.srcmax
      /\ s.used = q.used /\ s.bdata = q.bdata
  BY <1>1, <1>3, OnwardFacts
<1> HIDE DEF s
<1>5. UsedTold(u, s, text)
  <2>1. u.pos + u.size <= s.pos
    <3>1. u.pos \in Nat /\ u.size \in Nat /\ s.pos = u.pos + u.size
      BY <1>1, <1>3, <1>4 DEF Buffereds, UsedNext
    <3> QED
      BY <3>1
  <2> QED
    BY <1>3, <1>4, <2>1 DEF UsedTold, UsedNext
<1> HIDE DEF text
<1>6. WindowTold(s, text)
  <2>1. /\ s.used = Append(r0.used, u) /\ u.pos = r0.pos /\ u.size = size /\ s.bdata = r0.bdata
        /\ s.start = r0.start /\ s.pos = r0.pos + size
        /\ r0.srcset => s.srcset /\ s.srcmin <= r0.srcmin /\ r0.srcmax <= s.srcmax
        /\ s.srcset => s.srcmin <= s.srcmax /\ s.srcmax <= Len(Source)
    BY <1>0, <1>3, <1>4 DEF v, UsedNext
  <2>2. WindowTold(r0, text)
    BY DEF text
  <2> HIDE DEF size
  <2> QED
    BY <1>1, <1>4, <1>5, <2>1, <2>2, BufferedTold
<1> QED
  BY <1>0, <1>2, <1>3, <1>4, <1>6 DEF Advanced, text, s

\* An ADD's bytes are in the window's input.
LEMMA InputAdvances ==
  ASSUME NEW r \in Recs, WindowTold(r, FinalText), NEW take \in Nat, NEW bytes \in Seq(Byte), Len(bytes) = take,
         r.pos + take <= Len(r.bdata), \A j \in 1..take : FinalText[r.start + r.pos + j] = bytes[j]
  PROVE  Advanced(Onward(Input(r, bytes), take), r, take)
<1> DEFINE n == Len(r.bdata)
           b == [k \in 1..n |-> IF k \in (r.pos + 1)..(r.pos + take) THEN bytes[k - r.pos] ELSE r.bdata[k]]
           q == [r EXCEPT !.bdata = b]
           s == Onward(q, take)
           text == FinalText
<1>1. n \in Nat /\ r.pos \in Nat /\ r.bdata \in Seq(Byte) /\ r.start \in Nat
  BY RecFacts
<1>2. b \in Seq(Byte) /\ Len(b) = n
  <2>1. \A k \in 1..n : k \in (r.pos + 1)..(r.pos + take) => k - r.pos \in 1..take
    BY <1>1
  <2>2. \A k \in 1..n : b[k] \in Byte
    BY <1>1, <2>1
  <2>3. b \in [1..n -> Byte]
    BY <2>2
  <2> HIDE DEF b
  <2> QED
    BY <1>1, <2>3, SMTT(30)
<1>3. \A p \in 1..r.pos : b[p] = r.bdata[p]
  BY <1>1
<1>4. \A j \in 1..take : b[r.pos + j] = text[r.start + (r.pos + j)]
  <2> TAKE j \in 1..take
  <2>1. r.pos + j \in 1..n /\ r.pos + j \in (r.pos + 1)..(r.pos + take) /\ (r.pos + j) - r.pos = j
    BY <1>1, SMTT(30)
  <2>2. b[r.pos + j] = bytes[j]
    BY <2>1
  <2>3. r.start + r.pos + j = r.start + (r.pos + j)
    BY <1>1
  <2> QED
    BY <2>2, <2>3
<1>5. Input(r, bytes) = q
  BY DEF Input, Recs
<1> HIDE DEF b
<1>6. /\ q \in Recs /\ q.on = r.on /\ q.inst_pos = r.inst_pos /\ q.output_pos = r.output_pos /\ q.num = r.num
      /\ q.start = r.start /\ q.pos = r.pos /\ q.size = r.size /\ q.used = r.used /\ q.bdata = b
      /\ q.srcset = r.srcset /\ q.srcmin = r.srcmin /\ q.srcmax = r.srcmax
  BY <1>2 DEF Recs
<1> HIDE DEF q
<1>7. /\ s \in Recs /\ s.on = q.on /\ s.inst_pos = q.inst_pos + 1 /\ s.output_pos = q.output_pos + take
      /\ s.num = q.num /\ s.start = q.start /\ s.pos = q.pos + take /\ s.size = q.size
      /\ s.srcset = q.srcset /\ s.srcmin = q.srcmin /\ s.srcmax = q.srcmax
      /\ s.used = q.used /\ s.bdata = q.bdata
  BY <1>6, OnwardFacts
<1> HIDE DEF s, text
<1>8. WindowTold(s, text)
  <2>1. /\ s.used = r.used /\ s.start = r.start /\ s.pos = r.pos + take
        /\ s.srcset = r.srcset /\ s.srcmin = r.srcmin /\ s.srcmax = r.srcmax
        /\ \A p \in 1..r.pos : s.bdata[p] = r.bdata[p]
        /\ \A j \in 1..take : s.bdata[r.pos + j] = text[r.start + (r.pos + j)]
    BY <1>3, <1>4, <1>6, <1>7
  <2>2. WindowTold(r, text)
    BY DEF text
  <2> QED
    BY <1>7, <2>1, <2>2, InputTold
<1> QED
  BY <1>2, <1>5, <1>6, <1>7, <1>8 DEF Advanced, text, s

\* The source part of a window with one more copy from the source.
LEMMA NeedsFacts ==
  ASSUME NEW r \in Recs, NEW addr \in Nat, NEW take \in Nat, addr + take <= Len(Source), Len(Source) \in Nat,
         r.srcset => r.srcmin <= r.srcmax /\ r.srcmax <= Len(Source)
  PROVE  LET q == Needs(r, addr, take)
         IN  /\ q \in Recs
             /\ q.on = r.on /\ q.inst_pos = r.inst_pos /\ q.output_pos = r.output_pos /\ q.num = r.num
             /\ q.start = r.start /\ q.pos = r.pos /\ q.size = r.size /\ q.used = r.used /\ q.bdata = r.bdata
             /\ q.srcset /\ q.srcmin <= addr /\ addr + take <= q.srcmax
             /\ q.srcmin <= q.srcmax /\ q.srcmax <= Len(Source)
             /\ r.srcset => q.srcmin <= r.srcmin /\ r.srcmax <= q.srcmax
<1> DEFINE end == addr + take
           lo == IF ~r.srcset THEN addr ELSE IF addr < r.srcmin THEN addr ELSE r.srcmin
           hi == IF ~r.srcset THEN end ELSE IF end > r.srcmax THEN end ELSE r.srcmax
           q == [r EXCEPT !.srcset = TRUE, !.srcmin = lo, !.srcmax = hi]
<1>1. r.srcset \in BOOLEAN /\ r.srcmin \in Nat /\ r.srcmax \in Nat /\ end \in Nat /\ addr <= end
  BY RecFacts
<1>2. /\ lo \in Nat /\ hi \in Nat /\ lo <= addr /\ end <= hi /\ lo <= hi /\ hi <= Len(Source)
      /\ r.srcset => lo <= r.srcmin /\ r.srcmax <= hi
  BY <1>1
<1>3. Needs(r, addr, take) = q
  <2>1. CASE r.srcset
    <3>1. q = [r EXCEPT !.srcmin = lo, !.srcmax = hi]
      BY <2>1 DEF Recs
    <3> QED
      BY <2>1, <3>1 DEF Needs, Recs
  <2>2. CASE ~r.srcset
    BY <2>2 DEF Needs, Recs
  <2> QED
    BY <2>1, <2>2
<1> HIDE DEF lo, hi
<1>4. /\ q \in Recs
      /\ q.on = r.on /\ q.inst_pos = r.inst_pos /\ q.output_pos = r.output_pos /\ q.num = r.num
      /\ q.start = r.start /\ q.pos = r.pos /\ q.size = r.size /\ q.used = r.used /\ q.bdata = r.bdata
      /\ q.srcset = TRUE /\ q.srcmin = lo /\ q.srcmax = hi
  BY <1>2 DEF Recs
<1> HIDE DEF q
<1> QED
  BY <1>2, <1>3, <1>4

\* Each kind of instruction says of the window what it says of the text.
LEMMA EncodeInstAdvances ==
  ASSUME Ready, Placed, Fits(chain), rec.on, WindowTold(rec, FinalText), NEW i, FitsWindow(i)
  PROVE  Advanced(Onward(EncodeInst(rec, stream, i, i.size), i.size), rec, i.size)
<1> DEFINE size == i.size
           bytes == Bytes(stream, i, 0, size)
<1>1. /\ rec \in Recs /\ stream \in Wholes /\ i \in Winsts /\ i.size > 0 /\ i.position = rec.start + rec.pos
      /\ rec.pos + i.size <= rec.size /\ rec.size <= Len(rec.bdata)
      /\ Says(i, stream.adds, Source, FinalText)
  BY DEF Ready, Placed, FitsWindow
<1>2. /\ rec.pos \in Nat /\ rec.start \in Nat /\ rec.size \in Nat /\ Len(rec.bdata) \in Nat
      /\ rec.srcmin \in Nat /\ rec.srcmax \in Nat /\ rec.srcset \in BOOLEAN
  BY <1>1, RecFacts
<1>3. /\ i.type \in {"ADD", "RUN", "CPY"} /\ size \in Nat /\ i.addr \in Nat /\ i.position \in Nat
      /\ (i.type = "CPY" <=> i.mode \in {"SOURCE", "HERE"})
  BY <1>1 DEF Winsts
<1>4. \A j \in 1..size : FinalText[rec.start + rec.pos + j] = Made(i, stream.adds, Source, FinalText, j)
  BY <1>1 DEF Says
<1>5. Len(Source) \in Nat /\ (rec.srcset => rec.srcmin <= rec.srcmax /\ rec.srcmax <= Len(Source))
  BY ChainsAssumption DEF WindowTold
<1>6. ASSUME i.type # "CPY"
      PROVE  /\ bytes \in Seq(Byte) /\ Len(bytes) = (IF i.type = "RUN" THEN 1 ELSE size)
             /\ i.type = "RUN" => bytes[1] = stream.adds[i.addr + 1]
             /\ i.type # "RUN" => \A j \in 1..size : bytes[j] = stream.adds[i.addr + j]
  <2>1. i.addr + (IF i.type = "RUN" THEN 1 ELSE i.size) <= Len(stream.adds)
    BY <1>6 DEF FitsWindow
  <2>2. 0 \in Nat /\ size \in Nat /\ 0 + size <= i.size /\ \A j \in 1..size : i.addr + 0 + j = i.addr + j
    BY <1>3
  <2>3. bytes \in Seq(Byte) /\ Len(bytes) = (IF i.type = "RUN" THEN 1 ELSE size)
    BY <1>1, <1>6, <2>1, <2>2, BytesAreThere
  <2>4. /\ i.type = "RUN" => bytes[1] = stream.adds[i.addr + 1]
        /\ i.type # "RUN" => \A j \in 1..size : bytes[j] = stream.adds[i.addr + 0 + j]
    BY <1>1, <1>6, <2>1, <2>2, BytesAre
  <2> HIDE DEF bytes
  <2> QED
    BY <2>2, <2>3, <2>4
<1> HIDE DEF bytes
<1>7. CASE i.type = "RUN"
  <2> DEFINE u == [type |-> "RUN", pos |-> rec.pos, size |-> i.size, addr |-> 0, is_source |-> FALSE, byte |-> bytes]
  <2>1. EncodeInst(rec, stream, i, i.size) = [rec EXCEPT !.used = Append(@, u)]
    BY <1>7 DEF EncodeInst, Buffered, bytes
  <2>2. u \in Buffereds
    BY <1>2, <1>3, <1>6, <1>7 DEF Buffereds
  <2>3. \A j \in 1..u.size : FinalText[rec.start + u.pos + j] = u.byte[1]
    BY <1>4, <1>6, <1>7 DEF Made
  <2>4. /\ u.pos = rec.pos /\ u.size = i.size /\ u.type = "RUN" /\ Len(u.byte) = 1
    BY <1>6, <1>7
  <2> HIDE DEF u
  <2>6. UsedNext(u, rec, FinalText)
    BY <1>1, <2>3, <2>4 DEF UsedNext
  <2>7. Widened(rec, rec)
    BY <1>1, <1>2, <1>5 DEF Widened
  <2>5. Advanced(Onward([rec EXCEPT !.used = Append(@, u)], u.size), rec, u.size)
    BY <1>1, <2>2, <2>6, <2>7, BufferedAdvances
  <2> QED
    BY <2>1, <2>4, <2>5
<1>8. CASE i.type = "ADD"
  <2>1. EncodeInst(rec, stream, i, i.size) = Input(rec, bytes)
    BY <1>8 DEF EncodeInst, bytes
  <2>2. \A j \in 1..size : FinalText[rec.start + rec.pos + j] = bytes[j]
    BY <1>4, <1>6, <1>8 DEF Made
  <2>3. bytes \in Seq(Byte) /\ Len(bytes) = size /\ size \in Nat
    BY <1>3, <1>6, <1>8
  <2>4. rec.pos + size <= Len(rec.bdata)
    <3>1. rec.pos + size <= rec.size
      BY <1>1
    <3> HIDE DEF size
    <3> QED
      BY <1>1, <1>2, <2>3, <3>1
  <2> HIDE DEF size
  <2>5. Advanced(Onward(Input(rec, bytes), size), rec, size)
    BY <1>1, <2>2, <2>3, <2>4, InputAdvances
  <2> QED
    BY <2>1, <2>5 DEF size
<1>9. CASE i.type = "CPY" /\ i.mode = "SOURCE"
  <2> DEFINE r == Needs(rec, i.addr, i.size)
             u == [type |-> "CPY", pos |-> r.pos, size |-> i.size, addr |-> i.addr, is_source |-> TRUE, byte |-> <<>>]
  <2>1. EncodeInst(rec, stream, i, i.size) = [r EXCEPT !.used = Append(@, u)]
    BY <1>9 DEF EncodeInst, Buffered
  <2>2. i.addr + i.size <= Len(Source)
    BY <1>9 DEF FitsWindow
  <2>3. /\ r \in Recs
        /\ r.on = rec.on /\ r.inst_pos = rec.inst_pos /\ r.output_pos = rec.output_pos /\ r.num = rec.num
        /\ r.start = rec.start /\ r.pos = rec.pos /\ r.size = rec.size /\ r.used = rec.used /\ r.bdata = rec.bdata
        /\ r.srcset /\ r.srcmin <= i.addr /\ i.addr + i.size <= r.srcmax
        /\ r.srcmin <= r.srcmax /\ r.srcmax <= Len(Source)
        /\ rec.srcset => r.srcmin <= rec.srcmin /\ rec.srcmax <= r.srcmax
    BY <1>1, <1>3, <1>5, <2>2, NeedsFacts
  <2> HIDE DEF r
  <2>4. u \in Buffereds
    <3>1. <<>> \in Seq(Byte)
      OBVIOUS
    <3> QED
      BY <1>2, <1>3, <2>3, <3>1 DEF Buffereds
  <2>5. \A j \in 1..i.size : FinalText[r.start + r.pos + j] = Source[i.addr + j]
    BY <1>4, <1>9, <2>3 DEF Made
  <2>6. u.pos = r.pos /\ u.size = i.size /\ u.type = "CPY" /\ u.is_source = TRUE /\ u.addr = i.addr
    OBVIOUS
  <2> HIDE DEF u
  <2>7. UsedNext(u, r, FinalText)
    BY <1>1, <2>3, <2>5, <2>6 DEF UsedNext
  <2>8. Widened(r, rec)
    BY <2>3 DEF Widened
  <2>9. Advanced(Onward([r EXCEPT !.used = Append(@, u)], u.size), rec, u.size)
    BY <1>1, <2>4, <2>7, <2>8, BufferedAdvances
  <2> QED
    BY <2>1, <2>6, <2>9
<1>10. CASE i.type = "CPY" /\ i.mode = "HERE"
  <2> DEFINE a == i.addr - rec.start
             u == [type |-> "CPY", pos |-> rec.pos, size |-> i.size, addr |-> a, is_source |-> FALSE, byte |-> <<>>]
  <2>1. EncodeInst(rec, stream, i, i.size) = [rec EXCEPT !.used = Append(@, u)]
    BY <1>10 DEF EncodeInst, Buffered
  <2>2. rec.start <= i.addr /\ i.addr < i.position
    BY <1>10 DEF FitsWindow
  <2>3. a \in Nat /\ a < rec.pos /\ rec.start + a = i.addr
    BY <1>1, <1>2, <1>3, <2>2
  <2>4. u \in Buffereds
    <3>1. <<>> \in Seq(Byte)
      OBVIOUS
    <3> QED
      BY <1>2, <1>3, <2>3, <3>1 DEF Buffereds
  <2>5. \A j \in 1..i.size : FinalText[rec.start + rec.pos + j] = FinalText[rec.start + a + j]
    BY <1>4, <1>10, <2>3 DEF Made
  <2>6. u.pos = rec.pos /\ u.size = i.size /\ u.type = "CPY" /\ u.is_source = FALSE /\ u.addr = a
    OBVIOUS
  <2> HIDE DEF u, a
  <2>7. UsedNext(u, rec, FinalText)
    BY <1>1, <2>3, <2>5, <2>6 DEF UsedNext
  <2>8. Widened(rec, rec)
    BY <1>1, <1>2, <1>5 DEF Widened
  <2>9. Advanced(Onward([rec EXCEPT !.used = Append(@, u)], u.size), rec, u.size)
    BY <1>1, <2>4, <2>7, <2>8, BufferedAdvances
  <2> QED
    BY <2>1, <2>6, <2>9
<1> QED
  BY <1>3, <1>7, <1>8, <1>9, <1>10

\* The next instruction is written whole: no window of the merged delta splits one.
LEMMA OutputInstructionWritten ==
  ASSUME Written, Fits(chain), pc = "output", OutputInstruction
  PROVE  pc' = "output" /\ Written'
<1> DEFINE k == rec.inst_pos + 1
           i == stream.inst[k]
           take == IF i.size < rec.size - rec.pos THEN i.size ELSE rec.size - rec.pos
           after == EncodeInst(rec, stream, i, take)
<1>1. Ready /\ Placed
  BY DEF Written
<1>2. /\ rec.on /\ rec.pos < rec.size /\ rec.inst_pos < Len(stream.inst)
      /\ UNCHANGED <<chain, file, window, merge_input, tmp, input_i, todo, out, pc>>
      /\ rec' = [after EXCEPT !.pos = @ + take, !.output_pos = @ + take,
                              !.inst_pos = IF take = i.size THEN @ + 1 ELSE @]
      /\ stream' = IF take = i.size THEN stream
                   ELSE [stream EXCEPT !.inst[k].size = @ - take,
                                       !.inst[k].addr = IF i.type # "RUN" THEN @ + take ELSE @]
  BY DEF OutputInstruction
<1>3. WindowTold(rec, FinalText)
  BY <1>2 DEF Written
<1>4. FitsWindow(i)
  BY <1>1, <1>2, NextFits
<1>5. take = i.size
  <2>1. i.size \in Nat /\ rec.pos \in Nat /\ rec.size \in Nat /\ rec.pos + i.size <= rec.size
    BY <1>1, <1>4, RecFacts DEF FitsWindow, Winsts, Placed
  <2> QED
    BY <2>1
<1>6. stream' = stream /\ rec' = Onward(EncodeInst(rec, stream, i, i.size), i.size)
  BY <1>2, <1>5 DEF Onward
<1>7. Advanced(Onward(EncodeInst(rec, stream, i, i.size), i.size), rec, i.size)
  BY <1>1, <1>2, <1>3, <1>4, EncodeInstAdvances
<1> DEFINE size == i.size
<1>8. /\ rec' \in Recs /\ rec'.on = rec.on /\ rec'.inst_pos = rec.inst_pos + 1 /\ rec'.output_pos = rec.output_pos + size
      /\ rec'.num = rec.num /\ rec'.start = rec.start /\ rec'.pos = rec.pos + size /\ rec'.size = rec.size
      /\ Len(rec'.bdata) = Len(rec.bdata) /\ WindowTold(rec', FinalText)
  BY <1>6, <1>7 DEF Advanced
<1>9. Final' = Final /\ FinalText' = FinalText
  BY <1>2 DEF Final, FinalText
<1>10. Ready'
  BY <1>1, <1>2, <1>6, <1>9 DEF Ready
<1>11. size \in Nat /\ i.position = rec.start + rec.pos /\ rec.pos + size <= rec.size
  BY <1>4 DEF FitsWindow, Winsts
<1>12. rec.pos \in Nat /\ rec.size \in Nat /\ rec.start \in Nat /\ rec.output_pos \in Nat /\ rec.inst_pos \in Nat
  BY <1>1, RecFacts DEF Placed
<1>13. rec.output_pos = rec.start + rec.pos /\ Len(stream.inst) \in Nat
  BY <1>1, <1>2, WritingFacts DEF Placed
<1>14. rec.inst_pos + 1 <= Len(stream.inst) /\ End(stream.inst, rec.inst_pos + 1) = rec.output_pos + size
  BY <1>2, <1>11, <1>12, <1>13, SMTT(30) DEF End
<1> HIDE DEF size, i, k, take, after
<1>15. rec.output_pos + size = rec.start + (rec.pos + size)
  BY <1>11, <1>12, <1>13
<1>16. Placed'
  BY <1>1, <1>2, <1>6, <1>8, <1>9, <1>11, <1>14, <1>15 DEF Placed
<1>17. WindowTold(rec, FinalText)'
  BY <1>8, <1>9 DEF WindowTold
<1>18. (\A n \in 1..Len(out) : OutTold(out[n], n, FinalText))'
  BY <1>2, <1>9 DEF Written, OutTold
<1> QED
  BY <1>2, <1>8, <1>10, <1>16, <1>17, <1>18 DEF Written

-----------------------------------------------------------------------------
(* What a window is encoded as makes its part of the text. *)

\* The source part of a window.
SrcLen(r) == IF r.srcset THEN r.srcmax - r.srcmin ELSE 0
SrcOff(r) == IF r.srcset THEN r.srcmin ELSE 0

\* An instruction of the window that is written, where the at'th byte of the window has been made.
EncodedInst(i, at, r, text) ==
  /\ i \in Hinst /\ i.size > 0
  /\ i.type = "CPY" => i.addr < SrcLen(r) + at /\ (i.addr < SrcLen(r) => i.addr + i.size <= SrcLen(r))
  /\ \A j \in 1..i.size :
       text[r.start + at + j] =
         IF i.type = "ADD" THEN i.bytes[j]
         ELSE IF i.type = "RUN" THEN i.bytes[1]
         ELSE IF i.addr < SrcLen(r) THEN Source[SrcOff(r) + i.addr + j]
         ELSE text[r.start + i.addr - SrcLen(r) + j]

\* The instructions that make the first bytes of the window.
EncodedTo(q, e, r, text) ==
  /\ q \in Seq(Hinst) /\ Sizes(q, Len(q)) = e
  /\ \A k \in 1..Len(q) : EncodedInst(q[k], Sizes(q, k - 1), r, text)

LEMMA SizesAppend ==
  ASSUME NEW q \in Seq(Hinst), NEW i \in Hinst
  PROVE  /\ \A k \in 0..Len(q) : Sizes(Append(q, i), k) = Sizes(q, k)
         /\ Sizes(Append(q, i), Len(q) + 1) = Sizes(q, Len(q)) + i.size
<1> DEFINE p == Append(q, i)
           n == Len(q)
           T == {k \in Nat : k <= n => Sizes(p, k) = Sizes(q, k)}
<1>1. p \in Seq(Hinst) /\ Len(p) = n + 1 /\ n \in Nat /\ p[n + 1] = i /\ \A k \in 1..n : p[k] = q[k]
  OBVIOUS
<1> HIDE DEF p
<1>2. 0 \in T
  <2>1. 0 \in 0..Len(p) /\ 0 \in 0..Len(q)
    BY <1>1
  <2>2. Sizes(p, 0) = 0 /\ Sizes(q, 0) = 0
    BY <1>1, <2>1, SizesSteps
  <2> QED
    BY <2>2
<1>3. ASSUME NEW k \in Nat, k \in T
      PROVE  k + 1 \in T
  <2>1. CASE k + 1 <= n
    <3>1. k \in 0..Len(q) /\ k \in 0..Len(p) /\ k < Len(q) /\ k < Len(p) /\ k + 1 \in 1..n /\ k <= n
      BY <1>1, <2>1
    <3>2. Sizes(q, k + 1) = Sizes(q, k) + q[k + 1].size
      BY <3>1, SizesSteps
    <3>3. Sizes(p, k + 1) = Sizes(p, k) + p[k + 1].size
      BY <1>1, <3>1, SizesSteps
    <3>4. p[k + 1] = q[k + 1] /\ Sizes(p, k) = Sizes(q, k)
      BY <1>1, <1>3, <3>1
    <3> QED
      BY <3>2, <3>3, <3>4
  <2> QED
    BY <2>1
<1>4. \A k \in Nat : k \in T
  <2> HIDE DEF T
  <2> QED
    BY <1>2, <1>3, NatInduct
<1>5. \A k \in 0..n : Sizes(p, k) = Sizes(q, k)
  BY <1>1, <1>4
<1>6. Sizes(p, n + 1) = Sizes(q, n) + i.size
  <2>1. n \in 0..Len(p) /\ n < Len(p) /\ n \in 0..n
    BY <1>1
  <2>2. Sizes(p, n + 1) = Sizes(p, n) + p[n + 1].size
    BY <1>1, <2>1, SizesSteps
  <2> QED
    BY <1>1, <1>5, <2>1, <2>2
<1> QED
  BY <1>5, <1>6 DEF p

\* One more instruction.
LEMMA EncodedMore ==
  ASSUME NEW q, NEW e, NEW r, NEW text, EncodedTo(q, e, r, text), NEW i, EncodedInst(i, e, r, text)
  PROVE  EncodedTo(Append(q, i), e + i.size, r, text)
<1> DEFINE p == Append(q, i)
           n == Len(q)
<1>1. q \in Seq(Hinst) /\ i \in Hinst /\ Sizes(q, n) = e
  BY DEF EncodedTo, EncodedInst
<1>2. p \in Seq(Hinst) /\ Len(p) = n + 1 /\ n \in Nat /\ p[n + 1] = i /\ \A k \in 1..n : p[k] = q[k]
  BY <1>1
<1>3. (\A k \in 0..n : Sizes(p, k) = Sizes(q, k)) /\ Sizes(p, n + 1) = e + i.size
  BY <1>1, SizesAppend
<1> HIDE DEF p
<1>4. ASSUME NEW k \in 1..Len(p)
      PROVE  EncodedInst(p[k], Sizes(p, k - 1), r, text)
  <2>1. CASE k = n + 1
    <3>1. k - 1 = n /\ n \in 0..n
      BY <1>2, <2>1
    <3> QED
      BY <1>1, <1>2, <1>3, <2>1, <3>1
  <2>2. CASE k # n + 1
    <3>1. k \in 1..n /\ k - 1 \in 0..n
      BY <1>2, <2>2
    <3> QED
      BY <1>2, <1>3, <3>1 DEF EncodedTo
  <2> QED
    BY <2>1, <2>2
<1>5. EncodedTo(p, e + i.size, r, text)
  BY <1>2, <1>3, <1>4 DEF EncodedTo
<1> QED
  BY <1>5 DEF p

\* The ADD between two buffered instructions says what is in the window's input.
LEMMA GapEncoded ==
  ASSUME NEW r \in Recs, NEW off \in Nat, NEW pos \in Nat, off <= pos, pos <= Len(r.bdata), NEW text, NEW q,
         \A p \in 1..pos : off < p => r.bdata[p] = text[r.start + p],
         EncodedTo(q, off, r, text)
  PROVE  Gap(r, off, pos) \in Seq(Hinst) /\ EncodedTo(q \o Gap(r, off, pos), pos, r, text)
<1>1. q \in Seq(Hinst) /\ r.bdata \in Seq(Byte) /\ r.start \in Nat /\ Len(r.bdata) \in Nat
  BY RecFacts DEF EncodedTo
<1>2. CASE ~(pos > off)
  <2>1. Gap(r, off, pos) = <<>> /\ pos = off
    BY <1>2 DEF Gap
  <2>2. q \o <<>> = q /\ <<>> \in Seq(Hinst)
    BY <1>1
  <2> QED
    BY <2>1, <2>2
<1>3. CASE pos > off
  <2> DEFINE size == pos - off
             bytes == SubSeq(r.bdata, off + 1, pos)
             i == [type |-> "ADD", size |-> size, addr |-> 0, bytes |-> bytes]
  <2>1. size \in Nat /\ size > 0 /\ off + size = pos /\ off + size <= Len(r.bdata)
    BY <1>1, <1>3
  <2>2. bytes \in Seq(Byte) /\ Len(bytes) = size /\ \A j \in 1..size : bytes[j] = r.bdata[off + j]
    <3>1. /\ SubSeq(r.bdata, off + 1, off + size) \in Seq(Byte) /\ Len(SubSeq(r.bdata, off + 1, off + size)) = size
          /\ \A j \in 1..size : SubSeq(r.bdata, off + 1, off + size)[j] = r.bdata[off + j]
      BY <1>1, <2>1, PartOf
    <3> QED
      BY <2>1, <3>1
  <2>3. Gap(r, off, pos) = <<i>>
    BY <1>3 DEF Gap
  <2> HIDE DEF size, bytes
  <2>4. i \in Hinst
    BY <2>1, <2>2 DEF Hinst
  <2>5. i.size = size /\ i.type = "ADD" /\ i.bytes = bytes
    OBVIOUS
  <2> HIDE DEF i
  <2>6. ASSUME NEW j \in 1..size
        PROVE  text[r.start + off + j] = bytes[j]
    <3>1. off + j \in 1..pos /\ off < off + j /\ r.start + off + j = r.start + (off + j)
      BY <1>1, <2>1
    <3> QED
      BY <2>2, <3>1
  <2>7. EncodedInst(i, off, r, text)
    BY <2>1, <2>4, <2>5, <2>6 DEF EncodedInst
  <2>8. EncodedTo(Append(q, i), off + i.size, r, text)
    BY <2>7, EncodedMore
  <2>9. q \o <<i>> = Append(q, i) /\ <<i>> \in Seq(Hinst)
    BY <1>1, <2>4
  <2> QED
    BY <2>1, <2>3, <2>5, <2>8, <2>9
<1> QED
  BY <1>2, <1>3

\* A buffered instruction as it is written.
Recoded(u, r) ==
  [type |-> u.type, size |-> u.size,
   addr |-> IF u.type = "CPY" THEN (IF u.is_source THEN u.addr - r.srcmin ELSE u.addr + SrcLen(r)) ELSE 0,
   bytes |-> u.byte]

LEMMA RecodedTells ==
  ASSUME NEW r \in Recs, NEW text, NEW u \in Buffereds, UsedTold(u, r, text), r.srcset => r.srcmin <= r.srcmax
  PROVE  Recoded(u, r) \in Hinst /\ EncodedInst(Recoded(u, r), u.pos, r, text)
<1> DEFINE i == Recoded(u, r)
           len == SrcLen(r)
           a == IF u.type = "CPY" THEN (IF u.is_source THEN u.addr - r.srcmin ELSE u.addr + len) ELSE 0
<1>1. /\ u.type \in {"RUN", "CPY"} /\ u.pos \in Nat /\ u.size \in Nat /\ u.addr \in Nat /\ u.is_source \in BOOLEAN
      /\ u.byte \in Seq(Byte)
  BY DEF Buffereds
<1>2. /\ r.start \in Nat /\ r.srcset \in BOOLEAN /\ r.srcmin \in Nat /\ r.srcmax \in Nat
  BY RecFacts
<1>3. len \in Nat /\ (r.srcset => SrcOff(r) = r.srcmin /\ len = r.srcmax - r.srcmin)
  BY <1>2 DEF SrcLen, SrcOff
<1>4. i = [type |-> u.type, size |-> u.size, addr |-> a, bytes |-> u.byte]
  BY DEF Recoded
<1>5. u.size > 0
  BY DEF UsedTold
<1> HIDE DEF i, len
<1>6. CASE u.type = "RUN"
  <2>1. a = 0 /\ Len(u.byte) = 1 /\ \A j \in 1..u.size : text[r.start + u.pos + j] = u.byte[1]
    BY <1>6 DEF UsedTold
  <2> HIDE DEF a
  <2>2. i \in Hinst
    BY <1>1, <1>4, <1>6, <2>1 DEF Hinst
  <2>3. i.type = "RUN" /\ i.size = u.size /\ i.bytes = u.byte
    BY <1>4, <1>6
  <2>4. EncodedInst(i, u.pos, r, text)
    BY <1>5, <2>1, <2>2, <2>3 DEF EncodedInst
  <2> QED
    BY <2>2, <2>4 DEF i
<1>7. CASE u.type = "CPY" /\ u.is_source
  <2>1. /\ r.srcset /\ r.srcmin <= u.addr /\ u.addr + u.size <= r.srcmax
        /\ \A j \in 1..u.size : text[r.start + u.pos + j] = Source[u.addr + j]
    BY <1>7 DEF UsedTold
  <2>2. a = u.addr - r.srcmin
    BY <1>7
  <2> HIDE DEF a
  <2> DEFINE off == SrcOff(r)
             x == u.addr
             s == u.size
             hi == r.srcmax
  <2>3. /\ off \in Nat /\ x \in Nat /\ s \in Nat /\ hi \in Nat /\ s > 0 /\ off <= x /\ x + s <= hi /\ len = hi - off /\ a = x - off
    BY <1>1, <1>2, <1>3, <1>5, <2>1, <2>2
  <2> HIDE DEF off, x, s, hi
  <2>4. a \in Nat /\ a < len /\ a + s <= len /\ \A j \in 1..s : off + a + j = x + j
    BY ONLY <2>3
  <2>5. i \in Hinst
    BY <1>1, <1>4, <1>7, <2>4 DEF Hinst
  <2>6. i.type = "CPY" /\ i.size = u.size /\ i.addr = a
    BY <1>4, <1>7
  <2>7. \A j \in 1..u.size : text[r.start + u.pos + j] = Source[off + a + j]
    BY <2>1, <2>4 DEF x, s
  <2>8. a < len + u.pos /\ a + u.size <= len
    <3>1. a < len + u.pos
      BY <1>1, <1>3, <2>4
    <3> QED
      BY <2>4, <3>1 DEF s
  <2>9. EncodedInst(i, u.pos, r, text)
    BY <1>5, <2>4, <2>5, <2>6, <2>7, <2>8 DEF EncodedInst, len, off
  <2> QED
    BY <2>5, <2>9 DEF i
<1>8. CASE u.type = "CPY" /\ ~u.is_source
  <2>1. /\ u.addr < u.pos
        /\ \A j \in 1..u.size : text[r.start + u.pos + j] = text[r.start + u.addr + j]
    BY <1>8 DEF UsedTold
  <2>2. a = u.addr + len
    BY <1>8
  <2> HIDE DEF a
  <2> DEFINE x == u.addr
             s == u.size
             p == u.pos
             st == r.start
  <2>3. x \in Nat /\ s \in Nat /\ p \in Nat /\ st \in Nat /\ len \in Nat /\ x < p /\ a = x + len
    BY <1>1, <1>2, <1>3, <2>1, <2>2
  <2> HIDE DEF x, s, p, st
  <2>4. a \in Nat /\ a < len + p /\ ~(a < len) /\ \A j \in 1..s : st + a - len + j = st + x + j
    BY ONLY <2>3
  <2>5. i \in Hinst
    BY <1>1, <1>4, <1>8, <2>4 DEF Hinst
  <2>6. i.type = "CPY" /\ i.size = u.size /\ i.addr = a
    BY <1>4, <1>8
  <2>7. \A j \in 1..u.size : text[r.start + u.pos + j] = text[r.start + a - len + j]
    BY <2>1, <2>4 DEF x, s, st
  <2>8. EncodedInst(i, u.pos, r, text)
    BY <1>5, <2>4, <2>5, <2>6, <2>7 DEF EncodedInst, len, p
  <2> QED
    BY <2>5, <2>8 DEF i
<1> QED
  BY <1>1, <1>6, <1>7, <1>8

\* The k'th buffered instruction, with the ADD before it.
One(r, k) == Gap(r, Off(r.used, k - 1), r.used[k].pos) \o <<Recoded(r.used[k], r)>>

\* What the whole window is written as.
IsEncoded(enc, r) ==
  enc = [k \in 0..Len(r.used) |-> IF k = 0 THEN <<>> ELSE enc[k - 1] \o One(r, k)]

LEMMA EncodeWindowIs ==
  ASSUME NEW r \in Recs
  PROVE  EncodeWindow(r) =
           LET enc == CHOOSE f : IsEncoded(f, r)
           IN  [cpyoff |-> SrcOff(r), cpylen |-> SrcLen(r),
                inst |-> enc[Len(r.used)] \o Gap(r, Off(r.used, Len(r.used)), r.pos)]
BY DEF EncodeWindow, IsEncoded, One, Recoded, SrcLen, SrcOff, Off

\* One step of it.
LEMMA OneEncodes ==
  ASSUME NEW r \in Recs, NEW text, WindowTold(r, text), r.pos <= Len(r.bdata), NEW k \in 1..Len(r.used), NEW q,
         EncodedTo(q, Off(r.used, k - 1), r, text)
  PROVE  EncodedTo(q \o One(r, k), Off(r.used, k), r, text)
<1> DEFINE off == Off(r.used, k - 1)
           u == r.used[k]
           gap == Gap(r, off, u.pos)
           i == Recoded(u, r)
<1>1. /\ u \in Buffereds /\ u.pos \in Nat /\ u.size \in Nat /\ r.pos \in Nat /\ Len(r.bdata) \in Nat /\ Len(r.used) \in Nat
      /\ \A j \in 0..Len(r.used) : Off(r.used, j) \in Nat
  BY RecFacts
<1>2. k - 1 \in 0..Len(r.used) /\ off \in Nat /\ k - 1 < Len(r.used) /\ (k - 1) + 1 = k /\ k # 0
  BY <1>1
<1>3. UsedTold(u, r, text) /\ (r.srcset => r.srcmin <= r.srcmax)
  BY DEF WindowTold
<1>4. u.pos <= r.pos
  <2>1. u.pos + u.size <= r.pos
    BY <1>3 DEF UsedTold
  <2> QED
    BY <1>1, <2>1
<1>5. GapEnd(r, k - 1) = u.pos
  BY <1>2 DEF GapEnd
<1>6. off <= u.pos /\ \A p \in 1..r.pos : off < p /\ p <= u.pos => r.bdata[p] = text[r.start + p]
  BY <1>2, <1>5 DEF WindowTold
<1>7. u.pos <= Len(r.bdata) /\ \A p \in 1..u.pos : off < p => r.bdata[p] = text[r.start + p]
  <2>1. \A p \in 1..u.pos : p \in 1..r.pos /\ p <= u.pos
    BY <1>1, <1>4
  <2>2. u.pos <= Len(r.bdata)
    BY <1>1, <1>4
  <2> QED
    BY <1>6, <2>1, <2>2
<1>8. i \in Hinst /\ EncodedInst(i, u.pos, r, text)
  BY <1>1, <1>3, RecodedTells
<1> HIDE DEF u, i
<1>9. gap \in Seq(Hinst) /\ EncodedTo(q \o gap, u.pos, r, text)
  BY <1>1, <1>2, <1>6, <1>7, GapEncoded
<1>10. EncodedTo(Append(q \o gap, i), u.pos + i.size, r, text)
  BY <1>8, <1>9, EncodedMore
<1>11. i.size = u.size /\ Off(r.used, k) = u.pos + u.size
  BY <1>2 DEF i, u, Recoded, Off
<1>12. q \o One(r, k) = Append(q \o gap, i)
  <2>1. One(r, k) = gap \o <<i>>
    BY DEF One, i, u
  <2>2. q \in Seq(Hinst)
    BY DEF EncodedTo
  <2> HIDE DEF gap
  <2>3. q \o (gap \o <<i>>) = Append(q \o gap, i)
    BY <1>8, <1>9, <2>2
  <2> QED
    BY <2>1, <2>3
<1> QED
  BY <1>10, <1>11, <1>12

\* An ADD between two buffered instructions, or none.
LEMMA GapType ==
  ASSUME NEW r \in Recs, NEW off \in Nat, NEW pos \in Nat, pos <= Len(r.bdata)
  PROVE  Gap(r, off, pos) \in Seq(Hinst)
<1>1. r.bdata \in Seq(Byte) /\ Len(r.bdata) \in Nat
  BY RecFacts
<1>2. CASE ~(pos > off)
  BY <1>2 DEF Gap
<1>3. CASE pos > off
  <2> DEFINE size == pos - off
             bytes == SubSeq(r.bdata, off + 1, pos)
             i == [type |-> "ADD", size |-> size, addr |-> 0, bytes |-> bytes]
  <2>1. size \in Nat /\ off + size = pos /\ off + size <= Len(r.bdata)
    BY <1>1, <1>3
  <2>2. Gap(r, off, pos) = <<i>>
    BY <1>3 DEF Gap
  <2>3. bytes = SubSeq(r.bdata, off + 1, off + size)
    BY <2>1
  <2> HIDE DEF size, bytes
  <2>4. bytes \in Seq(Byte) /\ Len(bytes) = size
    BY <1>1, <2>1, <2>3, PartOf
  <2>5. i \in Hinst
    BY <2>1, <2>4 DEF Hinst
  <2> HIDE DEF i
  <2> QED
    BY <2>2, <2>5
<1> QED
  BY <1>2, <1>3

\* All of it is written.
LEMMA EncodeWindowEncodes ==
  ASSUME NEW r \in Recs, NEW text, WindowTold(r, text), r.pos <= Len(r.bdata)
  PROVE  \E q : /\ EncodeWindow(r) = [cpyoff |-> SrcOff(r), cpylen |-> SrcLen(r), inst |-> q]
                /\ EncodedTo(q, r.pos, r, text)
<1> DEFINE n == Len(r.used)
           p == [k \in 1..n |-> One(r, k)]
           enc == CHOOSE f : IsEncoded(f, r)
           q == enc[n] \o Gap(r, Off(r.used, n), r.pos)
<1>1. /\ n \in Nat /\ r.pos \in Nat /\ Len(r.bdata) \in Nat /\ \A k \in 0..n : Off(r.used, k) \in Nat
      /\ \A k \in 1..n : r.used[k] \in Buffereds /\ r.used[k].pos \in Nat /\ r.used[k].size \in Nat
  BY RecFacts
<1>2. ASSUME NEW k \in 1..n
      PROVE  p[k] \in Seq(Hinst)
  <2> DEFINE off == Off(r.used, k - 1)
             u == r.used[k]
  <2>1. k - 1 \in 0..n /\ off \in Nat /\ u \in Buffereds /\ u.pos \in Nat /\ r.bdata \in Seq(Byte)
    BY <1>1, RecFacts
  <2>2. UsedTold(u, r, text) /\ (r.srcset => r.srcmin <= r.srcmax) /\ u.pos <= r.pos
    <3>1. UsedTold(u, r, text) /\ (r.srcset => r.srcmin <= r.srcmax)
      BY DEF WindowTold
    <3>2. u.pos + u.size <= r.pos
      BY <3>1 DEF UsedTold
    <3> QED
      BY <1>1, <3>1, <3>2
  <2>3. Recoded(u, r) \in Hinst
    BY <2>1, <2>2, RecodedTells
  <2>4. Gap(r, off, u.pos) \in Seq(Hinst)
    <3>1. u.pos <= Len(r.bdata)
      BY <1>1, <2>1, <2>2
    <3> QED
      BY <2>1, <3>1, GapType
  <2>5. One(r, k) = Gap(r, off, u.pos) \o <<Recoded(u, r)>>
    BY DEF One
  <2>6. One(r, k) \in Seq(Hinst)
    BY <2>3, <2>4, <2>5
  <2> QED
    BY <2>6
<1>3. \A f : IsEncoded(f, r) <=> IsJoin(f, p, n)
  <2> TAKE f
  <2>1. [k \in 0..n |-> IF k = 0 THEN <<>> ELSE f[k - 1] \o One(r, k)] = [k \in 0..n |-> IF k = 0 THEN <<>> ELSE f[k - 1] \o p[k]]
    <3>1. \A k \in 0..n : k # 0 => p[k] = One(r, k)
      BY <1>1
    <3> HIDE DEF p
    <3> QED
      BY <3>1
  <2> QED
    BY <2>1 DEF IsEncoded, IsJoin
<1> HIDE DEF p
<1>4. \E f : IsEncoded(f, r)
  BY <1>1, <1>2, <1>3, JoinExists
<1>5. IsJoin(enc, p, n)
  <2>1. IsEncoded(enc, r)
    BY <1>4
  <2> QED
    BY <1>3, <2>1
<1>6. IsEncoded(enc, r)
  BY <1>3, <1>5
<1>7. EncodeWindow(r) = [cpyoff |-> SrcOff(r), cpylen |-> SrcLen(r), inst |-> q]
  BY EncodeWindowIs
<1> HIDE DEF enc
<1>8. /\ enc[0] = <<>> /\ \A k \in 1..n : enc[k] = enc[k - 1] \o p[k]
  <2>1. enc = [k \in 0..n |-> IF k = 0 THEN <<>> ELSE enc[k - 1] \o p[k]]
    BY <1>5 DEF IsJoin
  <2>2. 0 \in 0..n /\ \A k \in 1..n : k \in 0..n /\ k # 0
    BY <1>1
  <2> HIDE DEF n
  <2> QED
    BY <2>1, <2>2
<1>9. \A k \in 1..n : enc[k] = enc[k - 1] \o One(r, k)
  BY <1>8 DEF p
<1> DEFINE T == {k \in Nat : k <= n => EncodedTo(enc[k], Off(r.used, k), r, text)}
<1>10. 0 \in T
  <2>1. <<>> \in Seq(Hinst) /\ Len(<<>>) = 0 /\ 1..0 = {}
    OBVIOUS
  <2>2. 0 \in 0..Len(<<>>)
    BY <2>1
  <2>3. Sizes(<<>>, 0) = 0
    BY <2>1, <2>2, SizesSteps
  <2>4. EncodedTo(<<>>, 0, r, text)
    BY <2>1, <2>3 DEF EncodedTo
  <2>5. Off(r.used, 0) = 0
    BY DEF Off
  <2> QED
    BY <1>8, <2>4, <2>5
<1>11. ASSUME NEW k \in Nat, k \in T
       PROVE  k + 1 \in T
  <2>1. CASE k + 1 <= n
    <3> DEFINE m == k + 1
    <3>1. m \in 1..n /\ m - 1 = k /\ k <= n
      BY <1>1, <2>1
    <3>2. EncodedTo(enc[m - 1], Off(r.used, m - 1), r, text)
      BY <1>11, <3>1
    <3> HIDE DEF m
    <3>3. EncodedTo(enc[m - 1] \o One(r, m), Off(r.used, m), r, text)
      BY <3>1, <3>2, OneEncodes
    <3>4. EncodedTo(enc[m], Off(r.used, m), r, text)
      BY <1>9, <3>1, <3>3
    <3> QED
      BY <3>4 DEF m
  <2> QED
    BY <2>1
<1>12. n \in T
  <2>1. \A k \in Nat : k \in T
    <3> HIDE DEF T
    <3> QED
      BY <1>10, <1>11, NatInduct
  <2> QED
    BY <1>1, <2>1
<1>13. EncodedTo(enc[n], Off(r.used, n), r, text)
  BY <1>1, <1>12
<1>14. EncodedTo(q, r.pos, r, text)
  <2> DEFINE off == Off(r.used, n)
  <2>1. n \in 0..n /\ off \in Nat
    BY <1>1
  <2>2. GapEnd(r, n) = r.pos
    BY <1>1 DEF GapEnd
  <2>3. off <= r.pos /\ \A x \in 1..r.pos : off < x /\ x <= r.pos => r.bdata[x] = text[r.start + x]
    BY <2>1, <2>2 DEF WindowTold
  <2>4. \A x \in 1..r.pos : off < x => r.bdata[x] = text[r.start + x]
    BY <1>1, <2>3
  <2> QED
    BY <1>1, <1>13, <2>1, <2>3, <2>4, GapEncoded
<1> QED
  BY <1>7, <1>14

\* The window that is written makes its part of the text.
WindowMakes(win, r, text) ==
  /\ win \in Window /\ WellFormed(Len(Source), win)
  /\ Produced(Source, win) = SubSeq(text, r.start + 1, r.start + r.pos)

LEMMA EncodeWindowMakes ==
  ASSUME NEW r \in Recs, NEW text \in Seq(Byte), WindowTold(r, text), r.pos <= Len(r.bdata), r.start + r.pos <= Len(text)
  PROVE  WindowMakes(EncodeWindow(r), r, text)
<1> DEFINE win == EncodeWindow(r)
           off == SrcOff(r)
           len == SrcLen(r)
<1>1. PICK q : win = [cpyoff |-> off, cpylen |-> len, inst |-> q] /\ EncodedTo(q, r.pos, r, text)
  BY EncodeWindowEncodes
<1>2. /\ r.start \in Nat /\ r.pos \in Nat /\ r.srcset \in BOOLEAN /\ r.srcmin \in Nat /\ r.srcmax \in Nat
      /\ Source \in Seq(Byte) /\ Len(Source) \in Nat /\ Len(text) \in Nat
  BY RecFacts, ChainsAssumption
<1>3. off \in Nat /\ len \in Nat /\ off + len <= Len(Source)
  <2>1. r.srcset => r.srcmin <= r.srcmax /\ r.srcmax <= Len(Source)
    BY DEF WindowTold
  <2>2. CASE r.srcset
    BY <1>2, <2>1, <2>2 DEF SrcOff, SrcLen
  <2>3. CASE ~r.srcset
    BY <1>2, <2>3 DEF SrcOff, SrcLen
  <2> QED
    BY <2>2, <2>3
<1> HIDE DEF win, off, len
<1>4. win.cpyoff = off /\ win.cpylen = len /\ win.inst = q
  BY <1>1
<1>5. /\ q \in Seq(Hinst) /\ Len(q) \in Nat /\ Sizes(q, Len(q)) = r.pos
      /\ \A k \in 1..Len(q) : EncodedInst(q[k], Sizes(q, k - 1), r, text)
  BY <1>1 DEF EncodedTo
<1>6. win \in Window
  BY <1>1, <1>3, <1>5 DEF Window
<1>7. ASSUME NEW k \in 1..Len(q)
      PROVE  /\ q[k] \in Hinst /\ q[k].size > 0
             /\ q[k].type = "CPY" => /\ q[k].addr < len + Sizes(q, k - 1)
                                     /\ q[k].addr < len => q[k].addr + q[k].size <= len
             /\ \A j \in 1..q[k].size :
                  text[r.start + Sizes(q, k - 1) + j] =
                    IF q[k].type = "ADD" THEN q[k].bytes[j]
                    ELSE IF q[k].type = "RUN" THEN q[k].bytes[1]
                    ELSE IF q[k].addr < len THEN Source[off + q[k].addr + j]
                    ELSE text[r.start + q[k].addr - len + j]
  <2>1. EncodedInst(q[k], Sizes(q, k - 1), r, text)
    BY <1>5
  <2> QED
    BY <2>1 DEF EncodedInst, len, off
<1>8. WellFormed(Len(Source), win)
  BY <1>3, <1>4, <1>7 DEF WellFormed
<1> DEFINE s == SubSeq(Source, off + 1, off + len)
           t == SubSeq(text, r.start + 1, r.start + r.pos)
           st == s \o t
<1>9. s \in Seq(Byte) /\ Len(s) = len /\ \A k \in 1..len : s[k] = Source[off + k]
  BY <1>2, <1>3, PartOf
<1>10. t \in Seq(Byte) /\ Len(t) = r.pos /\ \A k \in 1..r.pos : t[k] = text[r.start + k]
  <2> DEFINE a == r.start
             b == r.pos
  <2>1. a \in Nat /\ b \in Nat /\ a + b <= Len(text)
    BY <1>2
  <2> HIDE DEF a, b
  <2>2. /\ SubSeq(text, a + 1, a + b) \in Seq(Byte) /\ Len(SubSeq(text, a + 1, a + b)) = b
        /\ \A k \in 1..b : SubSeq(text, a + 1, a + b)[k] = text[a + k]
    BY <2>1, PartOf
  <2> QED
    BY <2>2 DEF a, b
<1> HIDE DEF s, t
<1>11. /\ st \in Seq(Byte) /\ Len(st) = len + r.pos
       /\ \A k \in 1..len : st[k] = s[k]
       /\ \A k \in 1..r.pos : st[len + k] = t[k]
  <2>1. /\ st \in Seq(Byte) /\ Len(st) = Len(s) + Len(t)
        /\ \A k \in 1..Len(s) : st[k] = s[k]
        /\ \A k \in 1..Len(t) : st[Len(s) + k] = t[k]
    BY <1>9, <1>10, JoinedBytes
  <2> HIDE DEF st
  <2> QED
    BY <1>9, <1>10, <2>1
<1> HIDE DEF st
<1>12. \A k \in 0..Len(q) : Sizes(q, k) \in Nat /\ Sizes(q, k) <= r.pos
  BY <1>5, SizesSteps, SizesGrow
<1>13. ASSUME NEW k \in 1..Len(q)
       PROVE  Yields(st, len + Sizes(q, k - 1), q[k])
  <2> DEFINE i == q[k]
             at == Sizes(q, k - 1)
             n == len + at
             size == i.size
             addr == i.addr
  <2>1. k - 1 \in 0..Len(q) /\ k \in 0..Len(q) /\ k - 1 < Len(q) /\ (k - 1) + 1 = k
    BY <1>5
  <2>2. i \in Hinst /\ size \in Nat /\ addr \in Nat
    BY <1>7, HinstFacts
  <2>3. at \in Nat /\ Sizes(q, k) \in Nat /\ Sizes(q, k) <= r.pos /\ Sizes(q, k) = at + size
    <3>1. Sizes(q, (k - 1) + 1) = at + size
      BY <1>5, <2>1, SizesSteps
    <3> QED
      BY <1>12, <2>1, <3>1
  <2>4. at + size <= r.pos
    BY <2>3
  <2>5. /\ i.type = "CPY" => addr < len + at /\ (addr < len => addr + size <= len)
        /\ \A j \in 1..size :
             text[r.start + at + j] =
               IF i.type = "ADD" THEN i.bytes[j]
               ELSE IF i.type = "RUN" THEN i.bytes[1]
               ELSE IF addr < len THEN Source[off + addr + j]
               ELSE text[r.start + addr - len + j]
    BY <1>7
  <2>6. i.type \in {"ADD", "RUN", "CPY"}
    BY <2>2, HinstFacts
  <2> HIDE DEF i, at, size, addr
  <2>7. ASSUME NEW j \in 1..size
        PROVE  st[n + j] = IF i.type = "ADD" THEN i.bytes[j] ELSE IF i.type = "RUN" THEN i.bytes[1] ELSE st[addr + j]
    <3>1. at + j \in 1..r.pos /\ n + j = len + (at + j) /\ r.start + (at + j) = r.start + at + j
      BY <1>2, <1>3, <2>2, <2>3, <2>4, SMTT(30)
    <3>2. st[n + j] = text[r.start + at + j]
      BY <1>10, <1>11, <3>1
    <3>3. CASE i.type # "CPY"
      BY <2>5, <2>6, <3>2, <3>3
    <3>4. CASE i.type = "CPY" /\ addr < len
      <4>1. addr + j \in 1..len /\ off + (addr + j) = off + addr + j
        BY <1>3, <2>2, <2>5, <3>4
      <4> QED
        BY <1>9, <1>11, <2>5, <3>2, <3>4, <4>1
    <3>5. CASE i.type = "CPY" /\ ~(addr < len)
      <4> DEFINE b == addr - len
      <4>1. b \in Nat /\ b < at /\ addr = len + b
        BY <1>3, <2>2, <2>3, <2>5, <3>5, SMTT(30)
      <4> HIDE DEF b
      <4>2. b + j \in 1..r.pos /\ len + (b + j) = addr + j /\ r.start + (b + j) = r.start + addr - len + j
        BY <1>2, <1>3, <2>2, <2>3, <2>4, <4>1, SMTT(30)
      <4> QED
        BY <1>10, <1>11, <2>5, <3>2, <3>5, <4>2
    <3> QED
      BY <2>6, <3>3, <3>4, <3>5
  <2> QED
    BY <2>7 DEF Yields, i, size, addr, at
<1>14. IsSpace(st, Source, win, Len(win.inst))
  BY <1>4, <1>5, <1>9, <1>11, <1>13 DEF IsSpace
<1>15. st = Space(Source, win)
  BY <1>2, <1>6, <1>8, <1>14, SpaceFacts
<1>16. /\ Produced(Source, win) \in Seq(Byte) /\ Len(Produced(Source, win)) = r.pos
       /\ \A x \in 1..r.pos : Produced(Source, win)[x] = st[len + x]
  BY <1>2, <1>4, <1>5, <1>6, <1>8, <1>15, ProducedFacts
<1>17. Produced(Source, win) = t
  <2> DEFINE made == Produced(Source, win)
             n == r.pos
  <2>1. /\ made \in Seq(Byte) /\ t \in Seq(Byte) /\ Len(made) = n /\ Len(t) = n /\ n \in Nat
        /\ \A x \in 1..n : made[x] = t[x]
    BY <1>2, <1>10, <1>11, <1>16
  <2> HIDE DEF made, n
  <2>2. made = t
    BY ONLY <2>1
  <2> QED
    BY <2>2 DEF made
<1> QED
  BY <1>6, <1>8, <1>17 DEF WindowMakes, t, win

-----------------------------------------------------------------------------
(* The merged delta decodes. *)

\* A window that ends is full.
LEMMA EndWindowWritten ==
  ASSUME Written, Fits(chain), pc = "output", EndWindow
  PROVE  pc' = "output" /\ Written'
<1> DEFINE num == rec.num
           win == EncodeWindow(rec)
<1>1. Ready /\ Placed
  BY DEF Written
<1>2. /\ rec.on /\ (rec.pos = rec.size \/ rec.inst_pos = Len(stream.inst))
      /\ out' = Append(out, win) /\ rec' = [rec EXCEPT !.on = FALSE]
      /\ UNCHANGED <<chain, file, window, stream, merge_input, tmp, input_i, todo, pc>>
  BY DEF EndWindow
<1>3. /\ rec \in Recs /\ out \in Seq(Window) /\ rec.inst_pos <= Len(stream.inst) /\ rec.output_pos = End(stream.inst, rec.inst_pos)
      /\ num <= Len(Final) /\ Len(out) = num - 1 /\ num > 0 /\ rec.start = Total(Final, num - 1)
      /\ rec.size = WinSize(Final, num) /\ rec.pos <= rec.size /\ rec.output_pos = rec.start + rec.pos
      /\ rec.size <= Len(rec.bdata)
  BY <1>1, <1>2 DEF Placed, WinSize
<1>4. /\ num \in Nat /\ rec.start \in Nat /\ rec.pos \in Nat /\ rec.size \in Nat /\ rec.output_pos \in Nat
      /\ rec.inst_pos \in Nat /\ Len(rec.bdata) \in Nat
  BY <1>3, RecFacts
<1>5. /\ Len(Final) \in Nat /\ Len(stream.inst) \in Nat /\ FinalText \in Seq(Byte)
      /\ End(stream.inst, Len(stream.inst)) = Total(Final, Len(Final)) /\ Len(FinalText) = Total(Final, Len(Final))
      /\ \A n \in 0..Len(Final) : Total(Final, n) \in Nat
      /\ \A n \in 1..Len(Final) : /\ WinSize(Final, n) \in Nat
                                  /\ Total(Final, n) = Total(Final, n - 1) + WinSize(Final, n)
      /\ \A a, b \in 0..Len(Final) : a <= b => Total(Final, a) <= Total(Final, b)
  BY <1>1, WritingFacts
<1>6. num \in 1..Len(Final) /\ num \in 0..Len(Final) /\ Len(Final) \in 0..Len(Final)
  BY <1>3, <1>4, <1>5
<1>7. Total(Final, num) = rec.start + rec.size /\ Total(Final, num) <= Total(Final, Len(Final))
  <2>1. Total(Final, num) <= Total(Final, Len(Final))
    BY <1>3, <1>5, <1>6
  <2> QED
    BY <1>3, <1>5, <1>6, <2>1
<1>8. rec.pos = rec.size
  <2>1. CASE rec.inst_pos = Len(stream.inst)
    <3>1. rec.output_pos = Total(Final, Len(Final))
      BY <1>3, <1>5, <2>1
    <3>2. rec.start + rec.size <= rec.start + rec.pos
      BY <1>3, <1>7, <3>1
    <3> QED
      BY <1>3, <1>4, <3>2
  <2> QED
    BY <1>2, <2>1
<1>9. rec.start + rec.pos = Total(Final, num) /\ rec.start + rec.pos <= Len(FinalText) /\ rec.pos <= Len(rec.bdata)
  BY <1>3, <1>5, <1>7, <1>8
<1>10. WindowTold(rec, FinalText)
  BY <1>2 DEF Written
<1>11. WindowMakes(win, rec, FinalText)
  BY <1>3, <1>5, <1>9, <1>10, EncodeWindowMakes
<1> HIDE DEF win
<1>12. OutTold(win, num, FinalText)
  BY <1>3, <1>9, <1>11 DEF OutTold, WindowMakes
<1>13. Final' = Final /\ FinalText' = FinalText
  BY <1>2 DEF Final, FinalText
<1>14. Ready'
  BY <1>1, <1>2, <1>13 DEF Ready
<1>15. /\ rec' \in Recs /\ rec'.on = FALSE /\ rec'.inst_pos = rec.inst_pos /\ rec'.output_pos = rec.output_pos
       /\ rec'.num = num
  BY <1>2, <1>3 DEF Recs
<1>16. out' \in Seq(Window) /\ Len(out') = num /\ out'[num] = win /\ \A n \in 1..(num - 1) : out'[n] = out[n]
  <2>1. win \in Window
    BY <1>11 DEF WindowMakes
  <2>2. Len(out) + 1 = num /\ Len(out) = num - 1
    BY <1>3, <1>4
  <2> QED
    BY <1>2, <1>3, <2>1, <2>2
<1> HIDE DEF num
<1>17. Placed'
  <2>1. rec'.output_pos = Total(Final, num)
    BY <1>3, <1>9, <1>15
  <2> QED
    BY <1>2, <1>3, <1>13, <1>15, <1>16, <2>1 DEF Placed
<1>18. (\A n \in 1..Len(out) : OutTold(out[n], n, FinalText))'
  <2>1. \A n \in 1..Len(out') : OutTold(out'[n], n, FinalText)
    <3> TAKE n \in 1..Len(out')
    <3>1. CASE n = num
      BY <1>12, <1>16, <3>1
    <3>2. CASE n # num
      <4>1. n \in 1..(num - 1) /\ n \in 1..Len(out)
        BY <1>3, <1>4, <1>16, <3>2
      <4>2. OutTold(out[n], n, FinalText)
        BY <4>1 DEF Written
      <4> QED
        BY <1>16, <4>1, <4>2
    <3> QED
      BY <3>1, <3>2
  <2> QED
    BY <1>13, <2>1 DEF OutTold
<1> QED
  BY <1>2, <1>14, <1>15, <1>17, <1>18 DEF Written

\* What is written makes as much as the last delta.
LEMMA OutTotals ==
  ASSUME Written, Fits(chain), ~rec.on
  PROVE  /\ FitsText(Source, out) /\ Len(out) <= Len(Final)
         /\ \A n \in 0..Len(out) : Total(out, n) = Total(Final, n)
         /\ \A n \in 1..Len(out) : /\ WinSize(out, n) = WinSize(Final, n)
                                   /\ \A r \in 1..WinSize(out, n) :
                                        FinalText[Total(out, n - 1) + r] = Produced(Source, out[n])[r]
<1>1. Ready /\ Placed /\ \A n \in 1..Len(out) : OutTold(out[n], n, FinalText)
  BY DEF Written
<1>2. rec \in Recs /\ out \in Seq(Window) /\ Len(out) = rec.num /\ rec.num <= Len(Final) /\ Len(out) \in Nat
  BY <1>1, RecFacts DEF Placed
<1>3. /\ Len(Final) \in Nat /\ FinalText \in Seq(Byte) /\ Source \in Seq(Byte) /\ Len(FinalText) = Total(Final, Len(Final))
      /\ Total(Final, 0) = 0
      /\ \A n \in 0..Len(Final) : Total(Final, n) \in Nat
      /\ \A n \in 1..Len(Final) : /\ WinSize(Final, n) \in Nat
                                  /\ Total(Final, n) = Total(Final, n - 1) + WinSize(Final, n)
      /\ \A a, b \in 0..Len(Final) : a <= b => Total(Final, a) <= Total(Final, b)
  BY <1>1, WritingFacts
<1>4. FitsText(Source, out)
  BY <1>1, <1>2, <1>3 DEF FitsText, OutTold
<1>5. ASSUME NEW n \in 1..Len(out)
      PROVE  /\ WinSize(out, n) = WinSize(Final, n)
             /\ \A r \in 1..WinSize(out, n) : FinalText[Total(Final, n - 1) + r] = Produced(Source, out[n])[r]
  <2> DEFINE a == Total(Final, n - 1)
             s == WinSize(Final, n)
  <2>1. n \in 1..Len(Final) /\ n - 1 \in 0..Len(Final) /\ n \in 0..Len(Final) /\ Len(Final) \in 0..Len(Final) /\ n <= Len(Final)
    BY <1>2, <1>3
  <2>2. a \in Nat /\ s \in Nat /\ Total(Final, n) = a + s
    BY <1>3, <2>1
  <2>3. a + s <= Len(FinalText)
    <3>1. Total(Final, n) <= Total(Final, Len(Final))
      BY <1>3, <2>1
    <3> QED
      BY <1>3, <2>2, <3>1
  <2>4. OutTold(out[n], n, FinalText)
    BY <1>1
  <2>5. /\ out[n] \in Window /\ WellFormed(Len(Source), out[n])
        /\ Produced(Source, out[n]) = SubSeq(FinalText, a + 1, a + s)
    BY <2>2, <2>4 DEF OutTold
  <2> HIDE DEF a, s
  <2>6. /\ Len(SubSeq(FinalText, a + 1, a + s)) = s
        /\ \A k \in 1..s : SubSeq(FinalText, a + 1, a + s)[k] = FinalText[a + k]
    BY <1>3, <2>2, <2>3, PartOf
  <2>7. Len(Produced(Source, out[n])) = WinSize(out, n)
    BY <1>3, <2>5, ProducedFacts DEF WinSize
  <2>8. WinSize(out, n) = s
    BY <2>5, <2>6, <2>7
  <2> QED
    BY <2>5, <2>6, <2>8 DEF a, s
<1> DEFINE T == {n \in Nat : n <= Len(out) => Total(out, n) = Total(Final, n)}
<1>6. Total(out, 0) = 0 /\ \A n \in 1..Len(out) : Total(out, n) = Total(out, n - 1) + WinSize(out, n)
  BY <1>4, TotalFacts
<1>7. 0 \in T
  BY <1>3, <1>6
<1>8. ASSUME NEW n \in Nat, n \in T
      PROVE  n + 1 \in T
  <2>1. CASE n + 1 <= Len(out)
    <3> DEFINE m == n + 1
    <3>1. m \in 1..Len(out) /\ m \in 1..Len(Final) /\ m - 1 = n /\ n <= Len(out)
      BY <1>2, <1>3, <2>1
    <3>2. Total(out, m - 1) = Total(Final, m - 1)
      BY <1>8, <3>1
    <3> HIDE DEF m
    <3>3. Total(out, m) = Total(Final, m)
      BY <1>3, <1>5, <1>6, <3>1, <3>2
    <3> QED
      BY <3>3 DEF m
  <2> QED
    BY <2>1
<1>9. \A n \in Nat : n \in T
  <2> HIDE DEF T
  <2> QED
    BY <1>7, <1>8, NatInduct
<1>10. \A n \in 0..Len(out) : Total(out, n) = Total(Final, n)
  BY <1>2, <1>9
<1>11. \A n \in 1..Len(out) : n - 1 \in 0..Len(out)
  BY <1>2
<1> QED
  BY <1>2, <1>4, <1>5, <1>10, <1>11

\* When all is written, it makes the last text.
LEMMA FinishDecodes ==
  ASSUME Written, Fits(chain), pc = "output", Finish
  PROVE  Decoded(Source, out) = FinalText /\ \A n \in 1..Len(out) : WellFormed(Len(Source), out[n])
<1>1. Ready /\ Placed /\ ~rec.on /\ rec.inst_pos = Len(stream.inst)
  BY DEF Written, Finish
<1>2. /\ FitsText(Source, out) /\ Len(out) <= Len(Final)
      /\ \A n \in 0..Len(out) : Total(out, n) = Total(Final, n)
      /\ \A n \in 1..Len(out) : \A r \in 1..WinSize(out, n) :
           FinalText[Total(out, n - 1) + r] = Produced(Source, out[n])[r]
  BY <1>1, OutTotals
<1>3. /\ FinalText \in Seq(Byte) /\ Len(FinalText) = Total(Final, Len(Final))
      /\ End(stream.inst, Len(stream.inst)) = Total(Final, Len(Final))
  BY <1>1, WritingFacts
<1>4. rec.output_pos = Total(Final, rec.num) /\ rec.output_pos = End(stream.inst, rec.inst_pos) /\ Len(out) = rec.num
  BY <1>1 DEF Placed
<1>5. Len(out) \in 0..Len(out)
  BY <1>2 DEF FitsText
<1>6. Len(FinalText) = Total(out, Len(out))
  BY <1>1, <1>2, <1>3, <1>4, <1>5
<1>7. FinalText = Decoded(Source, out)
  BY <1>2, <1>3, <1>6, DecodedFacts
<1> QED
  BY <1>2, <1>7 DEF FitsText

Reading == pc \in {"read", "append", "merge"}

\* Whatever the step, what it tells stays true.
LEMMA TextStep ==
  ASSUME IInv, TextInv, [Next]_vars
  PROVE  TextInv'
<1> SUFFICES ASSUME Fits(chain)'
             PROVE  (/\ Reading => Told /\ rec = NoWindow /\ out = <<>>
                     /\ pc = "output" => Written
                     /\ pc = "done" => /\ Decoded(Source, out) = FinalText
                                       /\ \A n \in 1..Len(out) : WellFormed(Len(Source), out[n])
                     /\ pc \in {"read", "append", "merge", "output", "done"})'
  BY DEF TextInv, Reading
<1>1. chain' = chain
  BY DEF Next, vars, ReadWindow, AppendInstruction, WindowIsRead, FirstArgument, BeginMerge, MergeInstruction,
         SourceCopy, SourcePiece, SourceReturn, EndMerge, NoArguments, BeginWindow, OutputInstruction, EndWindow,
         Finish, Ended
<1>2. Fits(chain)
  BY <1>1 DEF Fits
<1>3. Reading => Good /\ Told /\ rec = NoWindow /\ out = <<>>
  BY <1>2 DEF IInv, TextInv, Good, Reading
<1>4. pc = "output" => Written
  BY <1>2 DEF TextInv
<1>5. pc \in {"read", "append", "merge", "output", "done"}
  BY <1>2 DEF TextInv
<1>6. CASE ReadWindow
  <2>1. pc = "read" /\ pc' = "append" /\ rec' = rec /\ out' = out
    BY <1>6 DEF ReadWindow
  <2>2. Told'
    BY <1>2, <1>3, <1>6, <2>1, ReadWindowTold DEF Reading
  <2> QED
    BY <1>3, <2>1, <2>2 DEF Reading
<1>7. CASE AppendInstruction
  <2>1. pc = "append" /\ pc' = "append" /\ rec' = rec /\ out' = out
    BY <1>7 DEF AppendInstruction
  <2>2. Told'
    BY <1>2, <1>3, <1>7, <2>1, AppendInstructionTold DEF Reading
  <2> QED
    BY <1>3, <2>1, <2>2 DEF Reading
<1>8. CASE WindowIsRead
  <2>1. pc = "append" /\ pc' = "read" /\ rec' = rec /\ out' = out
    BY <1>8 DEF WindowIsRead
  <2>2. Told'
    BY <1>2, <1>3, <1>8, <2>1, WindowIsReadTold DEF Reading
  <2> QED
    BY <1>3, <2>1, <2>2 DEF Reading
<1>9. CASE FirstArgument
  <2>1. pc = "read" /\ pc' = "read" /\ rec' = rec /\ out' = out
    BY <1>9 DEF FirstArgument
  <2>2. Told'
    BY <1>2, <1>3, <1>9, <2>1, FirstArgumentTold DEF Reading
  <2> QED
    BY <1>3, <2>1, <2>2 DEF Reading
<1>10. CASE BeginMerge
  <2>1. pc = "read" /\ pc' = "merge" /\ rec' = rec /\ out' = out
    BY <1>10 DEF BeginMerge
  <2>2. Told'
    BY <1>2, <1>3, <1>10, <2>1, BeginMergeTold DEF Reading
  <2> QED
    BY <1>3, <2>1, <2>2 DEF Reading
<1>11. CASE MergeInstruction
  <2>1. pc = "merge" /\ pc' = "merge" /\ rec' = rec /\ out' = out
    BY <1>11 DEF MergeInstruction
  <2>2. Told'
    BY <1>2, <1>3, <1>11, <2>1, MergeInstructionTold DEF Reading
  <2> QED
    BY <1>3, <2>1, <2>2 DEF Reading
<1>12. CASE SourceCopy
  <2>1. pc = "merge" /\ pc' = "merge" /\ rec' = rec /\ out' = out
    BY <1>12 DEF SourceCopy
  <2>2. Told'
    BY <1>2, <1>3, <1>12, <2>1, SourceCopyTold DEF Reading
  <2> QED
    BY <1>3, <2>1, <2>2 DEF Reading
<1>13. CASE SourcePiece
  <2>1. pc = "merge" /\ pc' = "merge" /\ rec' = rec /\ out' = out
    BY <1>13 DEF SourcePiece
  <2>2. Told'
    BY <1>2, <1>3, <1>13, <2>1, SourcePieceTold DEF Reading
  <2> QED
    BY <1>3, <2>1, <2>2 DEF Reading
<1>14. CASE SourceReturn
  <2>1. pc = "merge" /\ pc' = "merge" /\ rec' = rec /\ out' = out
    BY <1>14 DEF SourceReturn
  <2>2. Told'
    BY <1>2, <1>3, <1>14, <2>1, SourceReturnTold DEF Reading
  <2> QED
    BY <1>3, <2>1, <2>2 DEF Reading
<1>15. CASE EndMerge
  <2>1. pc = "merge" /\ rec' = rec /\ out' = out
    BY <1>15 DEF EndMerge
  <2>2. Good /\ Told /\ rec = NoWindow /\ out = <<>>
    BY <1>3, <2>1 DEF Reading
  <2>3. CASE file < Len(chain)
    <3>1. pc' = "read"
      <4>1. tmp.ret = 0
        BY <1>2, <2>1, <2>2, MergingFacts
      <4> QED
        BY <1>15, <2>3, <4>1 DEF EndMerge
    <3>2. Told'
      BY <1>2, <1>15, <2>2, <2>3, EndMergeTold
    <3> QED
      BY <2>1, <2>2, <3>1, <3>2 DEF Reading
  <2>4. CASE ~(file < Len(chain))
    <3>1. file = Len(chain)
      <4>1. file \in 1..Len(chain) /\ chain \in Chains
        BY <1>2, <2>2, ToldFacts
      <4>2. Len(chain) \in Nat
        BY <1>2, <4>1, TextsFacts
      <4> QED
        BY <2>4, <4>1, <4>2
    <3>2. pc' = "output" /\ Written'
      BY <1>2, <1>15, <2>2, <3>1, EndMergeWritten
    <3> QED
      BY <3>2 DEF Reading
  <2> QED
    BY <2>3, <2>4
<1>16. CASE NoArguments
  <2>1. pc = "read"
    BY <1>16 DEF NoArguments
  <2>2. pc' = "output" /\ Written'
    BY <1>2, <1>3, <1>16, <2>1, NoArgumentsWritten DEF Reading
  <2> QED
    BY <2>2 DEF Reading
<1>17. CASE BeginWindow
  <2>1. pc = "output"
    BY <1>17 DEF BeginWindow
  <2>2. pc' = "output" /\ Written'
    BY <1>2, <1>4, <1>17, <2>1, BeginWindowWritten
  <2> QED
    BY <2>2 DEF Reading
<1>18. CASE OutputInstruction
  <2>1. pc = "output"
    BY <1>18 DEF OutputInstruction
  <2>2. pc' = "output" /\ Written'
    BY <1>2, <1>4, <1>18, <2>1, OutputInstructionWritten
  <2> QED
    BY <2>2 DEF Reading
<1>19. CASE EndWindow
  <2>1. pc = "output"
    BY <1>19 DEF EndWindow
  <2>2. pc' = "output" /\ Written'
    BY <1>2, <1>4, <1>19, <2>1, EndWindowWritten
  <2> QED
    BY <2>2 DEF Reading
<1>20. CASE Finish
  <2>1. pc = "output" /\ pc' = "done" /\ out' = out
    BY <1>20 DEF Finish
  <2>2. Decoded(Source, out) = FinalText /\ \A n \in 1..Len(out) : WellFormed(Len(Source), out[n])
    BY <1>2, <1>4, <1>20, <2>1, FinishDecodes
  <2>3. FinalText' = FinalText
    BY <1>1 DEF FinalText
  <2> QED
    BY <2>1, <2>2, <2>3 DEF Reading
<1>21. CASE UNCHANGED vars
  <2>1. /\ UNCHANGED <<chain, file, window, stream, merge_input, tmp, input_i, todo, rec, out, pc>>
    BY <1>21 DEF vars
  <2>2. pc = "done" => /\ Decoded(Source, out) = FinalText
                       /\ \A n \in 1..Len(out) : WellFormed(Len(Source), out[n])
    BY <1>2 DEF TextInv
  <2>3. Reading' = Reading /\ FinalText' = FinalText /\ Final' = Final
    BY <2>1 DEF Reading, FinalText, Final
  <2>4. Told' <=> Told
    BY <2>1 DEF Told
  <2>5. Written' <=> Written
    <3>1. Ready' <=> Ready
      BY <2>1, <2>3 DEF Ready
    <3>2. Placed' <=> Placed
      BY <2>1, <2>3 DEF Placed
    <3>3. WindowTold(rec, FinalText)' <=> WindowTold(rec, FinalText)
      BY <2>1, <2>3 DEF WindowTold
    <3>4. (\A n \in 1..Len(out) : OutTold(out[n], n, FinalText))' <=> (\A n \in 1..Len(out) : OutTold(out[n], n, FinalText))
      BY <2>1, <2>3 DEF OutTold
    <3> QED
      BY <2>1, <3>1, <3>2, <3>3, <3>4 DEF Written
  <2> QED
    BY <1>3, <1>4, <1>5, <2>1, <2>2, <2>3, <2>4, <2>5
<1>22. CASE Ended
  BY <1>21, <1>22 DEF Ended
<1> QED
  BY <1>6, <1>7, <1>8, <1>9, <1>10, <1>11, <1>12, <1>13, <1>14, <1>15, <1>16, <1>17, <1>18, <1>19, <1>20, <1>21, <1>22
  DEF Next

\* What the command writes decodes: applied to the first source, the merged delta yields what the
\* deltas of the chain yield one after the other, and no chain whose deltas belong together is
\* refused (MergedDeltaDecodes), for every chain and every source.
THEOREM MergedDecodes == Spec => []MergedDeltaDecodes
<1>1. Init => TextInv
  <2> SUFFICES ASSUME Init, Fits(chain)
               PROVE  /\ pc \in {"read", "append", "merge"} => Told /\ rec = NoWindow /\ out = <<>>
                      /\ pc = "output" => Written
                      /\ pc = "done" => /\ Decoded(Source, out) = FinalText
                                        /\ \A n \in 1..Len(out) : WellFormed(Len(Source), out[n])
                      /\ pc \in {"read", "append", "merge", "output", "done"}
    BY DEF TextInv
  <2>1. Told
    BY InitTold
  <2> QED
    BY <2>1 DEF Init
<1>2. IInv /\ TextInv /\ [Next]_vars => TextInv'
  BY TextStep
<1>3. TextInv => MergedDeltaDecodes
  <2> SUFFICES ASSUME TextInv, Fits(chain)
               PROVE  /\ pc # "failed"
                      /\ \A k \in 1..Len(out) : WellFormed(Len(Source), out[k])
                      /\ pc = "done" => Decoded(Source, out) = Texts(chain)[Len(chain)]
    BY DEF MergedDeltaDecodes
  <2>1. pc \in {"read", "append", "merge", "output", "done"}
    BY DEF TextInv
  <2>2. CASE pc \in {"read", "append", "merge"}
    <3>1. 1..Len(<<>>) = {}
      OBVIOUS
    <3> QED
      BY <2>2, <3>1 DEF TextInv
  <2>3. CASE pc = "output"
    BY <2>3 DEF TextInv, Written, OutTold
  <2>4. CASE pc = "done"
    BY <2>4 DEF TextInv, FinalText
  <2> QED
    BY <2>1, <2>2, <2>3, <2>4
<1> QED
  BY <1>1, <1>2, <1>3, Inductive, PTL DEF Spec
=============================================================================
