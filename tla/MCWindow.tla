------------------------------ MODULE MCWindow ------------------------------
(***************************************************************************)
(* Texts for WindowCodec: all short words of two letters without a source, *)
(* and pieces of a source of three blocks put together, across the end of  *)
(* a window, with runs between them.                                       *)
(***************************************************************************)
EXTENDS WindowCodec

MCSource == <<0,1,2,0,1,2,1,3, 1,1,2,3,0,2,1,3, 2,0,1,3>>

\* A source in which longer and longer matches of 1..8 overlap.
Stairs == <<1,2,3,4,0,2,3,4,5,6,0,3,4,5,6,7,8,0,5,6,7,8>>

Words(n) == UNION {[1..k -> {0, 1}] : k \in 0..n}
Pieces(s, least, most) ==
  {SubSeq(s, p[1], p[2]) : p \in {q \in (1..Len(s)) \X (1..Len(s)) : q[2] - q[1] + 1 \in least..most}}

Input(t, s, known) ==
  [text |-> t, has_src |-> TRUE, source |-> s, eof_known |-> known]

Steps == {<<0,3,4,5>>, <<3,4,5,6,7,8>>, <<5,6,7,8>>}

MCInputs ==
  {[text |-> t, has_src |-> FALSE, source |-> <<>>, eof_known |-> FALSE] : t \in Words(7)}
  \cup {Input(x \o y \o z, MCSource, known) :
          x \in Pieces(MCSource, 7, 7), y \in {<<>>, [i \in 1..7 |-> 1]},
          z \in Pieces(MCSource, 4, 5), known \in BOOLEAN}
  \cup {Input(FlattenSeq(f) \o <<6,0,3,4,5>>, Stairs, FALSE) : f \in [1..6 -> Steps]}
  \cup {Input(x, SubSeq(MCSource, 1, n), FALSE) : x \in Pieces(MCSource, 0, 20), n \in {0, 3, 8}}

\* The greedy matcher and the lazy one.
MCMatchers ==
  {[llook |-> 4, lstep |-> 2, schain |-> 2, slchain |-> 1, maxlazy |-> 6, long_enough |-> 7],
   [llook |-> 5, lstep |-> 3, schain |-> 1, slchain |-> 1, maxlazy |-> 0, long_enough |-> 6]}

\* No copy is too far for its length.
MCFar == [n \in {} |-> 0]

\* A source of more blocks than are cached, and a text that goes forward and back in it.
FarInputs ==
  LET piece(from, to) == SubSeq(MCSource, from, to)
  IN  {Input(<<3>> \o piece(1, 7) \o y \o piece(17, 20) \o z, MCSource, FALSE) :
         y \in {<<2,3,3,3>>, <<3,2,3,2>>, <<2,2,3,3>>}, z \in Pieces(MCSource, 4, 8)}
=============================================================================
