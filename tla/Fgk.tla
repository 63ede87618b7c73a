-------------------------------- MODULE Fgk ---------------------------------
(***************************************************************************)
(* The adaptive Huffman coder (xdelta3-fgk.h).  A coder is a tree in which *)
(* encoder and decoder count what they have seen: nodes 0 .. Size-1 are    *)
(* the symbols, the others are the free nodes of the inner tree.           *)
(*                                                                         *)
(* The nodes in use are also linked by weight (left, right): here they are *)
(* the sequence "order", from the head of the unseen symbols to the root.  *)
(* The unseen symbols, linked through their child pointers, are "zeros".   *)
(* A block is the set of nodes of one weight, known by its leader.         *)
(***************************************************************************)
EXTENDS BitStream, SequencesExt

CONSTANT Size     \* ALPHABET_SIZE of the code, 256; two or more

Nodes  == 0 .. 2 * Size - 2
Blocks == 1 .. 2 * (2 * Size - 1)
NULL   == 2 * Size            \* no node, and no block

\* fgk_alloc and fgk_init.
fgk_init ==
  [weight   |-> [n \in Nodes |-> 0],
   parent   |-> [n \in Nodes |-> NULL],
   child    |-> [n \in Nodes |-> <<NULL, NULL>>],   \* left_child, right_child
   my_block |-> [n \in Nodes |-> NULL],
   leader   |-> [b \in Blocks |-> NULL],
   free_blocks |-> [b \in Blocks |-> b],
   order    |-> <<0>>,
   zeros    |-> [i \in 1 .. Size |-> i - 1],
   zero_freq_count |-> Size,
   root_node  |-> 0,
   free_node  |-> Size]

\* node->right and node->left.
IndexIn(h, n) == CHOOSE i \in DOMAIN h.order : h.order[i] = n
RightOf(h, n) == IF IndexIn(h, n) = Len(h.order) THEN NULL ELSE h.order[IndexIn(h, n) + 1]
LeftOf(h, n)  == IF IndexIn(h, n) = 1 THEN NULL ELSE h.order[IndexIn(h, n) - 1]

\* h->remaining_zeros.
RemainingZeros(h) == IF h.zeros = << >> THEN NULL ELSE Head(h.zeros)

IsZero(h, n) == n # NULL /\ h.weight[n] = 0

\* Which child of its parent n is: 1 left, 2 right.
SideOf(h, n) == IF h.child[h.parent[n]][2] = n THEN 2 ELSE 1

\* zero_freq_exp and zero_freq_rem of fgk_factor_remaining, and the bits that
\* name one of the unseen symbols.
RECURSIVE FloorLog2(_)
FloorLog2(n) == IF n <= 1 THEN 0 ELSE 1 + FloorLog2(n \div 2)
zero_freq_exp(h) == FloorLog2(h.zero_freq_count)
zero_freq_rem(h) == h.zero_freq_count - 2 ^ zero_freq_exp(h)
ZeroBits(h) == zero_freq_exp(h) + (IF zero_freq_rem(h) = 0 THEN 0 ELSE 1)

\* fgk_make_block for node n.
fgk_make_block(h, n) ==
  [h EXCEPT !.free_blocks = Tail(@),
            !.leader[Head(h.free_blocks)] = n,
            !.my_block[n] = Head(h.free_blocks)]

fgk_free_block(h, b) == [h EXCEPT !.free_blocks = <<b>> \o @]

-----------------------------------------------------------------------------
(* The tree update.                                                        *)

\* fgk_move_right: n changes places with the leader of its block, in the list
\* and in the tree.
fgk_move_right(h, n) ==
  LET lead == h.leader[h.my_block[n]]
      Swap(x) == CASE x = n -> lead [] x = lead -> n [] OTHER -> x
  IN IF n = lead \/ h.parent[n] = lead \/ h.weight[n] = 0
     THEN h
     ELSE [h EXCEPT !.order = [i \in DOMAIN @ |-> Swap(@[i])],
                    !.parent[n] = h.parent[lead],
                    !.parent[lead] = h.parent[n],
                    !.child[h.parent[n]][SideOf(h, n)] = lead,
                    !.child[h.parent[lead]][SideOf(h, lead)] = n,
                    !.leader[h.my_block[n]] = n]

\* Mutant: the next block is joined without a look at its weight.
JoinsNext_AnyWeight(h, n) == RightOf(h, n) # h.root_node

\* "node->weight == (my_right->weight - 1) && my_right != h->root_node".
JoinsNext(h, n) ==
  /\ h.weight[n] + 1 = h.weight[RightOf(h, n)]
  /\ RightOf(h, n) # h.root_node

\* fgk_promote: n, the leader of its block, goes into the block of the weight
\* it is about to have.
fgk_promote(h, n) ==
  LET my_left   == LeftOf(h, n)
      my_right  == RightOf(h, n)
      cur_block == h.my_block[n]
      stays     == my_left # NULL /\ h.my_block[my_left] = cur_block
      left      == IF stays THEN [h EXCEPT !.leader[cur_block] = my_left]
                   ELSE fgk_free_block(h, cur_block)
  IN IF h.weight[n] = 0
     THEN h
     ELSE IF my_left = h.child[n][2] /\ IsZero(h, h.child[n][1])
     THEN IF JoinsNext(h, n)
          THEN [fgk_free_block(h, cur_block) EXCEPT
                  !.my_block[n]       = h.my_block[my_right],
                  !.my_block[my_left] = h.my_block[my_right]]
          ELSE h
     ELSE IF my_left = RemainingZeros(h)
     THEN h
     ELSE IF JoinsNext(h, n)
     THEN [left EXCEPT !.my_block[n] = h.my_block[my_right]]
     ELSE fgk_make_block(left, n)

\* The block of a node that is about to get weight 1.
BlockOfOne(h, n) ==
  IF h.weight[RightOf(h, n)] = 1
  THEN [h EXCEPT !.my_block[n] = h.my_block[RightOf(h, n)]]
  ELSE fgk_make_block(h, n)

\* fgk_increase_zero_weight: n was seen for the first time.  It leaves the
\* unseen symbols, and shares a new inner node with those that remain
\* (fgk_eliminate_zero).
fgk_increase_zero_weight(h, n) ==
  LET zero_ptr == Head(h.zeros)
      new      == h.free_node
      first    == zero_ptr = h.root_node
      rest     == SelectSeq(h.zeros, LAMBDA z : z # n)
      linked   == [h EXCEPT !.free_node = new + 1,
                            !.parent[new] = h.parent[zero_ptr],
                            !.child[new] = <<zero_ptr, n>>,
                            !.order = <<zero_ptr, n, new>> \o Tail(@)]
      blocked  == IF first
                  THEN fgk_make_block(fgk_make_block([linked EXCEPT !.root_node = new], n), new)
                  ELSE LET hung == BlockOfOne([linked EXCEPT
                                     !.child[h.parent[zero_ptr]][SideOf(h, zero_ptr)] = new], new)
                       IN [hung EXCEPT !.my_block[n] = hung.my_block[new]]
  IN IF h.zero_freq_count = 1
     THEN [BlockOfOne(h, n) EXCEPT !.zeros = << >>]
     ELSE [blocked EXCEPT !.zeros = rest,
                          !.zero_freq_count = @ - 1,
                          !.child[new] = <<Head(rest), n>>,
                          !.order[1] = Head(rest),
                          !.parent[n] = new,
                          !.parent[Head(rest)] = new]

\* fgk_update_tree: the weights on the path from n to the root, each node
\* first moved to the end of its block.
RECURSIVE Increase(_, _)
Increase(h, n) ==
  IF n = h.root_node
  THEN [h EXCEPT !.weight[n] = @ + 1]
  ELSE LET moved == fgk_promote(fgk_move_right(h, n), n)
       IN Increase([moved EXCEPT !.weight[n] = @ + 1], moved.parent[n])

fgk_update_tree(h, n) ==
  Increase(IF h.weight[n] = 0 THEN fgk_increase_zero_weight(h, n) ELSE h, n)

-----------------------------------------------------------------------------
(* Encoder and decoder.                                                    *)

\* coded_bits: the path from the root to node n, 0 for left.
RECURSIVE PathTo(_, _)
PathTo(h, n) ==
  IF n = h.root_node THEN << >>
  ELSE Append(PathTo(h, h.parent[n]), SideOf(h, n) - 1)

\* fgk_encode_data before its update, with fgk_find_nth_zero and
\* fgk_get_encoded_bit: an unseen symbol is the place of the unseen symbols
\* and its number among them.
EncodedBits(h, n) ==
  IF h.weight[n] = 0
  THEN PathTo(h, RemainingZeros(h))
         \o xd3_encode_bits(ZeroBits(h), (CHOOSE i \in DOMAIN h.zeros : h.zeros[i] = n) - 1)
  ELSE PathTo(h, n)

fgk_encode_data(h, n) == [bits |-> EncodedBits(h, n), tree |-> fgk_update_tree(h, n)]

\* fgk_decode_bit until it returns 1: the bits from the root to decode_ptr.
RECURSIVE DecodePtr(_, _, _)
DecodePtr(h, r, ptr) ==
  IF IsZero(h, ptr) \/ h.child[ptr][1] = NULL
  THEN [r |-> r, ptr |-> ptr]
  ELSE IF r.pos = Len(r.in)
  THEN [r |-> Fail(r), ptr |-> ptr]
  ELSE DecodePtr(h, [r EXCEPT !.pos = @ + 1], h.child[ptr][r.in[r.pos + 1] + 1])

\* fgk_decode_bit and fgk_decode_data (with fgk_nth_zero): the next symbol.
fgk_decode_data(h, r) ==
  LET at   == DecodePtr(h, r, h.root_node)
      nth  == xd3_decode_bits(at.r, ZeroBits(h))
      seen == ~IsZero(h, at.ptr)
      elt  == IF seen THEN at.ptr
              ELSE h.zeros[IF nth.val < Len(h.zeros) THEN nth.val + 1 ELSE Len(h.zeros)]
      r2   == IF seen THEN at.r ELSE nth
  IN IF at.r.ok /\ r2.ok
     THEN [r |-> r2, elt |-> elt, tree |-> fgk_update_tree(h, elt)]
     ELSE [r |-> Fail(r2), elt |-> NULL, tree |-> h]

-----------------------------------------------------------------------------

Inner(h) == {n \in ToSet(h.order) : h.child[n][1] # NULL}

\* An inner node weighs what its children weigh, and they know it.
WeightsAddUp(h) ==
  \A n \in Inner(h) :
    /\ h.weight[n] = h.weight[h.child[n][1]] + h.weight[h.child[n][2]]
    /\ \A s \in 1 .. 2 : h.parent[h.child[n][s]] = n

\* Weights do not fall along the list, which ends with the root; children are
\* neighbours on it.
Sibling(h) ==
  LET N == Len(h.order)
  IN /\ h.order[N] = h.root_node
     /\ \A i \in 1 .. N - 1 : h.weight[h.order[i]] <= h.weight[h.order[i + 1]]
     /\ \A n \in Inner(h) : IndexIn(h, h.child[n][2]) = IndexIn(h, h.child[n][1]) + 1

\* Nodes of one weight (but the root, and the place of the unseen symbols) are
\* one block, led by the last of them.
BlocksAreWeights(h) ==
  LET counted == {n \in ToSet(h.order) \ {h.root_node} : h.weight[n] > 0}
  IN \A m \in counted :
       LET same == {n \in counted : h.weight[n] = h.weight[m]}
       IN /\ \A n \in same : h.my_block[n] = h.my_block[m]
          /\ \A n \in counted \ same : h.my_block[n] # h.my_block[m]
          /\ h.leader[h.my_block[m]] \in same
          /\ \A n \in same : IndexIn(h, n) <= IndexIn(h, h.leader[h.my_block[m]])

=============================================================================
