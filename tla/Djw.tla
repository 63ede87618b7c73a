-------------------------------- MODULE Djw ---------------------------------
(***************************************************************************)
(* The semi-adaptive Huffman coder (xdelta3-djw.h): length-limited prefix  *)
(* codes, their transmission by move-to-front and run-length (1/2) coding, *)
(* and the tables of the decoder.  A table of n entries is a function on   *)
(* 0 .. n-1; symbols are 0 .. ALPHABET_SIZE-1.                             *)
(***************************************************************************)
EXTENDS BitStream, Folds, SequencesExt

CONSTANTS
  ALPHABET_SIZE,        \* 256 in the code
  DJW_MAX_CODELEN,      \* 20: longest code of the alphabet
  djw_encode_12basic,   \* <<4,5,6,7,8>>: lengths whose codes are always sent
  djw_encode_12extra,   \* the other lengths, the likeliest first
  DJW_EXTRA_CODE_BITS,  \* 4: bits for the number of extra lengths sent
  DJW_CLCLEN_BITS,      \* 4: bits of the length of a code length's code
  DJW_GBCLEN_BITS,      \* 3: bits of the length of a selector's code
  DJW_MAX_GROUPS,       \* 8
  DJW_GROUP_BITS,       \* 3
  DJW_SECTORSZ_MULT,    \* 5
  DJW_SECTORSZ_BITS,    \* 5
  DJW_MAX_ITER,         \* 6
  DJW_MIN_IMPROVEMENT,  \* 20
  EFFICIENCY_BITS       \* 16

Alphabet == 0 .. ALPHABET_SIZE - 1

RUN_0 == 0
RUN_1 == 1

DJW_TOTAL_CODES    == DJW_MAX_CODELEN + 2
DJW_EXTRA_12OFFSET == Len(djw_encode_12basic) + 2
DJW_MAX_CLCLEN     == 2 ^ DJW_CLCLEN_BITS - 1
DJW_MAX_GBCLEN     == 2 ^ DJW_GBCLEN_BITS - 1
DJW_SECTORSZ_MAX   == 2 ^ DJW_SECTORSZ_BITS * DJW_SECTORSZ_MULT

ASSUME DjwAssumption ==
  /\ ALPHABET_SIZE \in Nat \ {0, 1}
  /\ ToSet(djw_encode_12basic) \cup ToSet(djw_encode_12extra)
       = 1 .. DJW_MAX_CODELEN
  /\ Len(djw_encode_12basic) + Len(djw_encode_12extra) = DJW_MAX_CODELEN
  /\ Len(djw_encode_12extra) < 2 ^ DJW_EXTRA_CODE_BITS
  /\ DJW_MAX_CLCLEN <= DJW_MAX_CODELEN
  /\ DJW_MAX_GROUPS <= 2 ^ DJW_GROUP_BITS

-----------------------------------------------------------------------------
(* The heap.  ents[0] is the sentinel; heap[1 .. heap_last] is in use.     *)

heap_less(a, b) == a.freq < b.freq \/ (a.freq = b.freq /\ a.depth < b.depth)

\* heap_insert: ents[e] rises from the free place p.
RECURSIVE heap_insert(_, _, _, _)
heap_insert(heap, ents, p, e) ==
  LET pp == p \div 2
  IN IF heap_less(ents[e], ents[heap[pp]])
     THEN heap_insert([heap EXCEPT ![p] = heap[pp]], ents, pp, e)
     ELSE [heap EXCEPT ![p] = e]

\* The loop of heap_extract: heap[p] sinks.
RECURSIVE Sink(_, _, _, _)
Sink(heap, ents, last, p) ==
  LET second == 2 * p < last /\ heap_less(ents[heap[2 * p + 1]], ents[heap[2 * p]])
      pc     == IF second THEN 2 * p + 1 ELSE 2 * p
  IN IF 2 * p > last \/ ~heap_less(ents[heap[pc]], ents[heap[p]])
     THEN heap
     ELSE Sink([heap EXCEPT ![pc] = heap[p], ![p] = heap[pc]], ents, last, pc)

\* heap_extract: the heap after the smallest entry, heap[1], has left it.
heap_extract(heap, ents, heap_last) ==
  Sink([heap EXCEPT ![1] = heap[heap_last + 1]], ents, heap_last, 1)

-----------------------------------------------------------------------------
(* Prefix codes.                                                           *)

\* The loop "while (heap_last > 1)" of djw_build_prefix: the two lightest
\* subtrees become one, until one is left.
Joined(a, b) ==
  [freq |-> a.freq + b.freq, depth |-> 1 + Max({a.depth, b.depth}), parent |-> 0]

RECURSIVE JoinTrees(_, _, _, _)
JoinTrees(heap, ents, last, size) ==
  IF last <= 1
  THEN ents
  ELSE LET rest  == heap_extract(heap, ents, last - 1)
           ents2 == [ents EXCEPT ![size] = Joined(ents[heap[1]], ents[rest[1]]),
                                 ![heap[1]].parent = size, ![rest[1]].parent = size]
       IN JoinTrees(heap_insert(heap_extract(rest, ents, last - 2), ents2, last - 1, size),
                    ents2, last - 1, size + 1)

RECURSIVE CountParents(_, _)
CountParents(ents, i) ==
  IF ents[i].parent = 0 THEN 0 ELSE 1 + CountParents(ents, ents[i].parent)

\* The heap is filled and emptied; a symbol's code is as long as its leaf is deep.
\* weight[s] is ents[s+1].freq, and used the entries with a weight.
CodeLengths(weight, used, asize) ==
  LET empty  == [freq |-> 0, depth |-> 0, parent |-> 0]
      ents   == [e \in 0 .. 2 * asize |->
                   IF e \in 1 .. asize THEN [empty EXCEPT !.freq = weight[e - 1]]
                   ELSE empty]
      heap   == FoldLeftDomain(LAMBDA h, k : heap_insert(h, ents, k, used[k]),
                               [p \in 0 .. asize |-> 0], used)
      tree   == JoinTrees(heap, ents, Len(used), asize + 1)
  IN [s \in 0 .. asize - 1 |-> IF weight[s] = 0 THEN 0 ELSE CountParents(tree, s + 1)]

\* The bits of a message in these lengths.
Priced(clen, freq) ==
  [clen |-> clen, bits |-> FoldFunction(+, 0, [s \in DOMAIN clen |-> clen[s] * freq[s]])]

\* djw_build_prefix from "again".  freq stays the caller's: it prices the code.
RECURSIVE PrefixOf(_, _, _, _)
PrefixOf(weight, freq, asize, maxlen) ==
  LET used   == SelectSeq([s \in 1 .. asize |-> s], LAMBDA e : weight[e - 1] # 0)
      clen   == CodeLengths(weight, used, asize)
      fake   == IF freq[0] # 0 THEN asize - 1 ELSE 0
  IN IF Len(used) = 1
     THEN PrefixOf([weight EXCEPT ![fake] = 1], freq, asize, maxlen)
     ELSE IF \E l \in Range(clen) : l > maxlen
     THEN PrefixOf([s \in DOMAIN weight |-> weight[s] \div 2 + 1], freq, asize, maxlen)
     ELSE Priced(clen, freq)

\* Mutant: lengths over the limit are cut to it instead of built again.
djw_build_prefix_Cut(freq, asize, maxlen) ==
  LET free == PrefixOf(freq, freq, asize, asize)
  IN [free EXCEPT !.clen = [s \in DOMAIN @ |-> IF @[s] > maxlen THEN maxlen ELSE @[s]]]

djw_build_prefix(freq, asize, maxlen) == PrefixOf(freq, freq, asize, maxlen)

\* How many of the first n entries of clen are l.
NrClen(clen, n, l) == Cardinality({i \in 0 .. n - 1 : clen[i] = l})

MinClen(clen) == Min({clen[s] : s \in DOMAIN clen} \ {0})
MaxClen(clen) == Max({clen[s] : s \in DOMAIN clen})

\* The value of "code" when the loop of djw_build_codes comes to length l.
RECURSIVE FirstCode(_, _, _)
FirstCode(clen, asize, l) ==
  IF l <= MinClen(clen) THEN 0
  ELSE 2 * (FirstCode(clen, asize, l - 1) + NrClen(clen, asize, l - 1))

\* djw_build_codes: codes of one length are consecutive, in symbol order.
djw_build_codes(clen, asize) ==
  [s \in {i \in 0 .. asize - 1 : clen[i] # 0} |->
     FirstCode(clen, asize, clen[s]) + NrClen(clen, s, clen[s])]

-----------------------------------------------------------------------------
(* Move-to-front and 1/2 coding.                                           *)

\* djw_update_mtf: the entry at index i (from 0) moves to the front.
djw_update_mtf(mtf, i) == <<mtf[i + 1]>> \o RemoveAt(mtf, i + 1)

\* djw_update_1_2: a run is written as a number in which the digits are 1
\* (RUN_0) and 2 (RUN_1), the lowest first.
RECURSIVE djw_update_1_2(_)
djw_update_1_2(mtf_run) ==
  LET rest == mtf_run - 1
  IN <<IF rest % 2 = 1 THEN RUN_1 ELSE RUN_0>>
       \o IF rest \div 2 >= 1 THEN djw_update_1_2(rest \div 2) ELSE << >>

djw_init_clen_mtf_1_2 == <<0>> \o djw_encode_12basic \o djw_encode_12extra

\* djw_compute_mtf_1_2: what is sent for the sequence "symbol".
djw_compute_mtf_1_2(symbol, mtf0) ==
  LET RunOut(acc) ==
        IF acc.run = 0 THEN acc
        ELSE [acc EXCEPT !.run = 0, !.sent = @ \o djw_update_1_2(acc.run)]
      Symbol(acc, sym) ==
        LET j     == (CHOOSE k \in DOMAIN acc.mtf : acc.mtf[k] = sym) - 1
            moved == [acc EXCEPT !.mtf = djw_update_mtf(@, j)]
        IN IF j = 0 THEN [acc EXCEPT !.run = @ + 1]
           ELSE [RunOut(moved) EXCEPT !.sent = Append(@, j + RUN_1)]
  IN RunOut(FoldLeft(Symbol, [mtf |-> mtf0, run |-> 0, sent |-> << >>], symbol)).sent

\* freq_out: how often each code was sent.
CountCodes(sent, n) ==
  [c \in 0 .. n - 1 |-> Cardinality({i \in DOMAIN sent : sent[i] = c})]

-----------------------------------------------------------------------------
(* The encoder's prefix and selectors.                                     *)

\* One Huffman-coded message: each code by its length and value.
EncodeCodes(sent, clen, codes) ==
  FlattenSeq([i \in DOMAIN sent |-> xd3_encode_bits(clen[sent[i]], codes[sent[i]])])

\* djw_compute_multi_prefix: all lengths of the first group, then those of
\* the other groups that are not zero.
djw_compute_multi_prefix(groups, clen) ==
  FlattenSeq([g \in 1 .. groups |->
    SelectSeq([i \in 1 .. ALPHABET_SIZE |-> clen[g - 1][i - 1]],
              LAMBDA l : g = 1 \/ l # 0)])

\* The first n lengths of a code, in so many bits each.
EncodeLengths(nbits, clen, n) ==
  FlattenSeq([i \in 1 .. n |-> xd3_encode_bits(nbits, clen[i - 1])])

\* djw_encode_prefix (with djw_compute_prefix_1_2): the code lengths, themselves
\* in codes of lengths clclen.
EncodePrefix(mtfsym, clclen) ==
  LET num_to_encode ==
        Max({DJW_EXTRA_12OFFSET} \cup {c + 1 : c \in {k \in DOMAIN clclen : clclen[k] # 0}})
  IN xd3_encode_bits(DJW_EXTRA_CODE_BITS, num_to_encode - DJW_EXTRA_12OFFSET)
       \o EncodeLengths(DJW_CLCLEN_BITS, clclen, num_to_encode)
       \o EncodeCodes(mtfsym, clclen, djw_build_codes(clclen, DJW_TOTAL_CODES))

djw_encode_prefix(symbol) ==
  LET mtfsym == djw_compute_mtf_1_2(symbol, djw_init_clen_mtf_1_2)
  IN EncodePrefix(mtfsym, djw_build_prefix(CountCodes(mtfsym, DJW_TOTAL_CODES),
                                           DJW_TOTAL_CODES, DJW_MAX_CLCLEN).clen)

\* djw_compute_selector_1_2 and what xd3_encode_huff sends of its result: the
\* lengths of groups+1 codes, then the groups of the sectors in these codes.
SelectorsIn(gbest_mtf, prefix, groups) ==
  [select_bits |-> prefix.bits,
   clens |-> EncodeLengths(DJW_GBCLEN_BITS, prefix.clen, groups + 1),
   codes |-> EncodeCodes(gbest_mtf, prefix.clen, djw_build_codes(prefix.clen, groups + 1))]

EncodeSelectors(gbest, groups) ==
  LET gbest_mtf == djw_compute_mtf_1_2(gbest, [g \in 1 .. groups |-> g - 1])
  IN SelectorsIn(gbest_mtf, djw_build_prefix(CountCodes(gbest_mtf, groups + 1),
                                             groups + 1, DJW_MAX_GBCLEN), groups)

-----------------------------------------------------------------------------
(* The decoder.                                                            *)

\* djw_build_decoder: per length the largest code (limit) and the distance
\* from a code to its place in inorder (base).
RECURSIVE LimitOf(_, _, _)
LimitOf(clen, asize, l) ==
  NrClen(clen, asize, l) - 1
    + IF l = MinClen(clen) THEN 0 ELSE 2 * (LimitOf(clen, asize, l - 1) + 1)

djw_build_decoder(clen, asize) ==
  IF \A s \in DOMAIN clen : clen[s] = 0
  THEN [minlen |-> 1, maxlen |-> 0]
  ELSE LET lens    == MinClen(clen) .. MaxClen(clen)
           Shorter(l) == Cardinality({s \in DOMAIN clen : clen[s] \in 1 .. l - 1})
           limit   == [l \in lens |-> LimitOf(clen, asize, l)]
           Base(l) == IF l = MinClen(clen) THEN 0
                      ELSE 2 * (limit[l - 1] + 1) - Shorter(l)
           Before(s, t) == clen[s] < clen[t] \/ (clen[s] = clen[t] /\ s < t)
       IN [minlen  |-> MinClen(clen),
           maxlen  |-> MaxClen(clen),
           limit   |-> limit,
           base    |-> [l \in lens |-> Base(l)],
           inorder |-> SetToSortSeq({s \in DOMAIN clen : clen[s] # 0}, Before)]

\* djw_decode_symbol: bits are added to code until it is a code of its length.
RECURSIVE DecodeFrom(_, _, _, _)
DecodeFrom(r, t, bits, code) ==
  IF ~r.ok \/ bits = t.maxlen \/ r.pos = Len(r.in)
  THEN Fail(r)
  ELSE LET r2 == [r EXCEPT !.pos = @ + 1]
           b2 == bits + 1
           c2 == 2 * code + r.in[r2.pos]
       IN IF b2 >= t.minlen /\ c2 <= t.limit[b2]
          THEN IF c2 - t.base[b2] \in 0 .. Len(t.inorder) - 1
               THEN [r2 EXCEPT !.val = t.inorder[c2 - t.base[b2] + 1]]
               ELSE Fail(r2)
          ELSE DecodeFrom(r2, t, b2, c2)

djw_decode_symbol(r, t) == DecodeFrom(r, t, 0, 0)

\* nbits-wide values, n of them: the code lengths at the head of a message.
RECURSIVE DecodeLengths(_, _, _, _)
DecodeLengths(r, nbits, n, sofar) ==
  IF n = 0 THEN [r |-> r, clen |-> sofar]
  ELSE LET one == xd3_decode_bits(r, nbits)
       IN DecodeLengths(one, nbits, n - 1, Append(sofar, one.val))

\* djw_decode_clclen: the table that decodes the code lengths.
djw_decode_clclen(r) ==
  LET extra == xd3_decode_bits(r, DJW_EXTRA_CODE_BITS)
      got   == DecodeLengths(extra, DJW_CLCLEN_BITS,
                             IF extra.ok THEN extra.val + DJW_EXTRA_12OFFSET ELSE 0, << >>)
      clen  == [c \in 0 .. DJW_TOTAL_CODES - 1 |->
                  IF c < Len(got.clen) THEN got.clen[c + 1] ELSE 0]
  IN [r |-> got.r, table |-> djw_build_decoder(clen, DJW_TOTAL_CODES)]

\* Mutant: a run's next digit counts as much as its first.
RunLength_NoShift(mtf, s) == mtf + 1

\* "rep = ((mtf + 1) << s)": the s-th digit of a run.
RunLength(mtf, s) == (mtf + 1) * 2 ^ s

\* djw_decode_1_2: elts values.  skip is the size of a group: a value whose
\* namesake in the group before is zero is zero and was not sent.
RECURSIVE Decode12From(_, _, _, _, _)
Decode12From(st, r, t, elts, skip) ==
  LET n    == Len(st.values)
      Value(v) == [st EXCEPT !.values = Append(@, v)]
      code == djw_decode_symbol(r, t)
  IN IF ~r.ok THEN [st |-> st, r |-> r]
     ELSE IF n >= elts
     THEN [st |-> st, r |-> IF st.rep = 0 THEN r ELSE Fail(r)]
     ELSE IF skip # 0 /\ n >= skip /\ st.values[n - skip + 1] = 0
     THEN Decode12From(Value(0), r, t, elts, skip)
     ELSE IF st.rep # 0
     THEN Decode12From([Value(st.mtfvals[1]) EXCEPT !.rep = @ - 1], r, t, elts, skip)
     ELSE IF st.mtf # 0
     THEN Decode12From([Value(st.mtfvals[st.mtf + 1]) EXCEPT
                          !.mtfvals = djw_update_mtf(@, st.mtf), !.mtf = 0],
                       r, t, elts, skip)
     ELSE IF ~code.ok THEN [st |-> st, r |-> code]
     ELSE IF code.val <= RUN_1
     THEN Decode12From([st EXCEPT !.rep = RunLength(code.val, st.s), !.s = @ + 1],
                       code, t, elts, skip)
     ELSE Decode12From([st EXCEPT !.mtf = code.val - 1, !.s = 0], code, t, elts, skip)

djw_decode_1_2(r, t, mtfvals, elts, skip_offset) ==
  LET got == Decode12From([values |-> << >>, rep |-> 0, mtf |-> 0, s |-> 0,
                           mtfvals |-> mtfvals], r, t, elts, skip_offset)
  IN [r |-> got.r, values |-> got.st.values]

\* djw_decode_prefix: the code lengths of all the groups.
djw_decode_prefix(r, t, groups) ==
  djw_decode_1_2(r, t, djw_init_clen_mtf_1_2, ALPHABET_SIZE * groups, ALPHABET_SIZE)

=============================================================================
