------------------------------ MODULE CodeTable ------------------------------
(***************************************************************************)
(* The instruction code table of RFC 3284: each of its 256 codes names one *)
(* instruction or a pair of them.  xd3_build_code_table lays the table out *)
(* for the decoder from its description; xd3_choose_instruction computes   *)
(* the encoder's codes from hard-coded numbers, never looking at it.       *)
(***************************************************************************)
EXTENDS Integers, Sequences, SequencesExt

NOOP == 0
ADD == 1
RUN == 2
CPY == 3        \* a copy of mode m has type CPY + m

MIN_MATCH == 4

\* __rfc3284_code_table_desc
Desc ==
  [add_sizes |-> 17, near_modes |-> 4, same_modes |-> 3, cpy_sizes |-> 15,
   addcopy_add_max |-> 4, addcopy_near_cpy_max |-> 6, addcopy_same_cpy_max |-> 4,
   copyadd_add_max |-> 1, copyadd_near_cpy_max |-> 4, copyadd_same_cpy_max |-> 4]

Pair(t1, s1, t2, s2) == [type1 |-> t1, size1 |-> s1, type2 |-> t2, size2 |-> s2]
Single(t, s) == Pair(t, s, NOOP, 0)

CopyModes == 2 + Desc.near_modes + Desc.same_modes

\* The largest copy of mode m in a pair.
CopyMax(m, near, same) == IF m < 2 + Desc.near_modes THEN near ELSE same

Copies(m) ==
  <<Single(CPY + m, 0)>> \o [i \in 1..Desc.cpy_sizes |-> Single(CPY + m, MIN_MATCH + i - 1)]

AddCopies(m) ==
  LET max == CopyMax(m, Desc.addcopy_near_cpy_max, Desc.addcopy_same_cpy_max)
  IN  FlattenSeq([a \in 1..Desc.addcopy_add_max |->
        [c \in 1..(max - MIN_MATCH + 1) |-> Pair(ADD, a, CPY + m, MIN_MATCH + c - 1)]])

CopyAdds(m) ==
  LET max == CopyMax(m, Desc.copyadd_near_cpy_max, Desc.copyadd_same_cpy_max)
  IN  FlattenSeq([c \in 1..(max - MIN_MATCH + 1) |->
        [a \in 1..Desc.copyadd_add_max |-> Pair(CPY + m, MIN_MATCH + c - 1, ADD, a)]])

\* xd3_build_code_table
Table ==
  LET PerMode(Entries(_)) == FlattenSeq([m \in 1..CopyModes |-> Entries(m - 1)])
  IN  <<Single(RUN, 0), Single(ADD, 0)>>
      \o [i \in 1..Desc.add_sizes |-> Single(ADD, i)]
      \o PerMode(Copies) \o PerMode(AddCopies) \o PerMode(CopyAdds)

\* The entry of a code.
Entry(code) == Table[code + 1]

-----------------------------------------------------------------------------
\* xd3_choose_instruction: the code of inst by itself.
Code1(inst) ==
  IF inst.type = RUN THEN 0
  ELSE IF inst.type = ADD THEN 1 + (IF inst.size <= 17 THEN inst.size ELSE 0)
  ELSE 19 + 16 * (inst.type - CPY) + (IF inst.size \in 4..18 THEN inst.size - 3 ELSE 0)

\* xd3_choose_instruction: the code of prev and inst together; 0 if there is none.
Code2(prev, inst) ==
  LET mode == inst.type - CPY
  IN  CASE inst.type = ADD /\ inst.size = 1 /\ prev.size = 4 /\ prev.type >= CPY ->
             247 + (prev.type - CPY)
        [] inst.type >= CPY /\ inst.size \in 4..6 /\ mode <= 5 /\ prev.type = ADD /\ prev.size <= 4 ->
             163 + 12 * mode + 3 * (prev.size - 1) + (inst.size - 4)
        [] inst.type >= CPY /\ inst.size = 4 /\ mode >= 6 /\ prev.type = ADD /\ prev.size <= 4 ->
             235 + 4 * (mode - 6) + (prev.size - 1)
        [] OTHER -> 0
=============================================================================
