------------------------------ MODULE MCMerge ------------------------------
(***************************************************************************)
(* Chains for Merge: all pairs of deltas of two small windows of at most   *)
(* two instructions, and some chains of one and of three.  Each byte a     *)
(* delta adds occurs nowhere else, so that a byte out of place shows.      *)
(***************************************************************************)
EXTENDS Merge, FiniteSets

MCSource == <<1, 2, 3>>

\* The instructions for s bytes at position pos of a window, byte b being its first new one.
Insts(cpylen, pos, s, b) ==
  {[type |-> "ADD", size |-> s, addr |-> 0, bytes |-> [k \in 1..s |-> b + pos + k]]}
  \cup (IF s > 1 THEN {[type |-> "RUN", size |-> s, addr |-> 0, bytes |-> <<b + pos>>]} ELSE {})
  \cup {[type |-> "CPY", size |-> s, addr |-> a, bytes |-> <<>>] :
          a \in {x \in 0..(cpylen + pos - 1) : x < cpylen => x + s <= cpylen}}

\* The windows of n bytes over a part of the source.
Win(n, seg, b) ==
  {[cpyoff |-> seg[1], cpylen |-> seg[2], inst |-> i] :
     i \in {<<x>> : x \in Insts(seg[2], 0, n, b)}
           \cup UNION {{<<x, y>> : x \in Insts(seg[2], 0, m, b), y \in Insts(seg[2], m, n - m, b)} : m \in 1..(n - 1)}}

Deltas(first, second) == {<<x, y>> : x \in first, y \in second}

\* Deltas against the source of three bytes, and against texts of five and four.
Early == Deltas(Win(3, <<1, 2>>, 10), {w \in Win(2, <<0, 1>>, 20) : w.inst[1].type = "CPY"})
Late == Deltas(Win(3, <<1, 4>>, 30), Win(1, <<4, 1>>, 40))
Later == Deltas(Win(2, <<0, 4>>, 50), {[cpyoff |-> 0, cpylen |-> 0, inst |-> <<>>]})

\* Those with a copy from their own window that overlaps what it writes.
Overlapping(ds) ==
  {d \in ds : \E k \in 1..2 : \E n \in 2..Len(d[k].inst) :
     LET here == d[k].cpylen + Sizes(d[k].inst, n - 1)
     IN  d[k].inst[n].type = "CPY" /\ d[k].inst[n].addr >= d[k].cpylen
         /\ d[k].inst[n].addr + d[k].inst[n].size > here}

\* A delta against something else: it copies from behind the text.
Stranger ==
  <<[cpyoff |-> 5, cpylen |-> 2, inst |-> <<[type |-> "CPY", size |-> 2, addr |-> 0, bytes |-> <<>>]>>]>>

Nothing == <<[cpyoff |-> 0, cpylen |-> 0, inst |-> <<>>]>>

MCChains ==
  {<<x>> : x \in Early} \cup {<<x, y>> : x \in Early, y \in Late}
  \cup {<<x, y, z>> : x \in Overlapping(Early), y \in Overlapping(Late), z \in Later}
  \cup {<<x, Stranger>> : x \in Early}
  \cup {<<Nothing>>, <<Nothing, Nothing>>}
=============================================================================
