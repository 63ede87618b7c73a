----------------------------- MODULE Secondary ------------------------------
(***************************************************************************)
(* Secondary compression: xd3_encode_secondary compresses the sections of  *)
(* one kind of successive windows, and xd3_decode_secondary gets them      *)
(* back.  The compressor is xd3_encode_huff (DJW), whose steps are actions *)
(* here, or xd3_encode_fgk (FGK), symbol by symbol; FGK's two trees        *)
(* outlive a section (sec_stream_d, _i or _a of the encoder and of the     *)
(* decoder).                                                               *)
(*                                                                         *)
(* Not modelled: memory (ENOMEM), and output of more than one page, which  *)
(* the efficiency checks of xd3_encode_huff see only the last of.          *)
(***************************************************************************)
EXTENDS Djw

CONSTANTS
  FgkSize,               \* the alphabet of FGK
  SECONDARY_MIN_INPUT,   \* 10
  SECONDARY_MIN_SAVINGS, \* 2
  DjwJobs, FgkJobs,      \* records [section, cfg]
  MaxSections            \* how many windows have a section, for each compressor

ASSUME SecondaryAssumption ==
  /\ FgkSize \in Nat \ {0, 1}
  /\ {SECONDARY_MIN_INPUT, SECONDARY_MIN_SAVINGS} \subseteq Nat

F == INSTANCE Fgk WITH Size <- FgkSize

VARIABLES
  sec_type,   \* "djw" or "fgk"
  windows,    \* windows so far
  job,        \* the section at hand and its xd3_sec_cfg
  step,       \* what comes next
  enc,        \* the locals of xd3_encode_huff
  out,        \* tmp_head: the bits after the size
  did_it,     \* VCD_DATACOMP (or INSTCOMP, ADDRCOMP) of the window
  dec,        \* the locals of the decoder
  tree,       \* FGK: the encoder's and the decoder's sec_stream
  parted      \* history: a section that FGK's encoder has learnt from was discarded

vars == <<sec_type, windows, job, step, enc, out, did_it, dec, tree, parted>>

cfg == job.cfg
Min2(a, b) == IF a < b THEN a ELSE b

-----------------------------------------------------------------------------
(* xd3_encode_huff.                                                        *)

\* The defaults of xd3_encode_howmany_groups: input sizes below a limit get
\* this many groups and this sector size.
Suggestions == [
  data |-> <<<<1000, 1, 0>>, <<4000, 2, 10>>, <<7000, 3, 10>>, <<10000, 4, 10>>,
             <<25000, 5, 10>>, <<50000, 7, 20>>, <<100000, 8, 30>>, <<2147483647, 8, 70>>>>,
  inst |-> <<<<7000, 1, 0>>, <<10000, 2, 50>>, <<25000, 3, 50>>, <<50000, 6, 40>>,
             <<2147483647, 8, 40>>>>,
  addr |-> <<<<9000, 1, 0>>, <<25000, 2, 130>>, <<50000, 3, 130>>, <<100000, 5, 130>>,
             <<2147483647, 7, 130>>>>]

DefaultSector == [data |-> 20, inst |-> 50, addr |-> 130]

ValidCfg(c) ==
  /\ c.ngroups <= DJW_MAX_GROUPS
  /\ c.sector_size # 0 =>
       /\ c.sector_size \in DJW_SECTORSZ_MULT .. DJW_SECTORSZ_MAX
       /\ c.sector_size % DJW_SECTORSZ_MULT = 0

\* xd3_encode_howmany_groups.
xd3_encode_howmany_groups(c, input_size) ==
  LET rows   == Suggestions[c.data_type]
      sugg   == rows[Min({i \in DOMAIN rows : input_size < rows[i][1]})]
      groups == IF c.ngroups # 0 THEN c.ngroups ELSE sugg[2]
      sector == IF c.sector_size # 0 THEN c.sector_size ELSE sugg[3]
  IN [groups |-> groups,
      sector |-> IF groups # 1 /\ sector = 0 THEN DefaultSector[c.data_type] ELSE sector]

\* djw_count_freqs.
djw_count_freqs(section) == CountCodes(section, ALPHABET_SIZE)

\* "left / (groups - gp)" and the loop "while (sum < goal)": the symbols up to
\* which group gp takes half, a third, ... of what is left of the input.
GroupEnd(freq, from, goal) ==
  Min({e \in from .. ALPHABET_SIZE :
         FoldFunctionOnSet(+, 0, freq, from .. e - 1) >= goal})

\* The initial code lengths, 1 for the symbols of the group and 16 for others.
\* sym1 and sym2 as in the code: a group's range starts one symbol late and
\* includes one symbol of the next.
RECURSIVE InitialClen(_, _, _, _, _)
InitialClen(groups, gp, left, sym1, sym2) ==
  IF gp = groups THEN << >>
  ELSE LET end == GroupEnd(enc.freq, sym2, left \div (groups - gp))
           sum == FoldFunctionOnSet(+, 0, enc.freq, sym2 .. end - 1)
       IN <<[s \in Alphabet |-> IF s \in sym1 .. end THEN 1 ELSE 16]>>
            \o InitialClen(groups, gp + 1, left - sum, end + 1, end)

\* "goal == 0" for some group: what is left is less than the groups left.
RECURSIVE TooManyGroups(_, _, _, _)
TooManyGroups(groups, gp, left, sym2) ==
  IF gp = groups THEN FALSE
  ELSE IF left < groups - gp THEN TRUE
  ELSE LET end == GroupEnd(enc.freq, sym2, left \div (groups - gp))
       IN TooManyGroups(groups, gp + 1,
                        left - FoldFunctionOnSet(+, 0, enc.freq, sym2 .. end - 1), end)

\* The input in sectors; the last one may be short.
Sectors ==
  LET n == Len(job.section)
      Z == enc.sector_size
  IN [c \in 1 .. 1 + (n - 1) \div Z |-> SubSeq(job.section, Z * (c - 1) + 1, Min2(Z * c, n))]

\* The winner of a sector: the first of the groups that code it in the fewest bits.
Cost(sector, clen) == FoldLeft(LAMBDA n, s : n + clen[s], 0, sector)
Winner(sector) ==
  LET costs == {Cost(sector, enc.clen[g]) : g \in DOMAIN enc.clen}
  IN Min({g \in DOMAIN enc.clen : Cost(sector, enc.clen[g]) = Min(costs)})

\* evolve_freq of a group: what its sectors hold.
EvolveFreq(g, gbest) ==
  CountCodes(FlattenSeq([c \in DOMAIN gbest |->
               IF gbest[c] = g THEN Sectors[c] ELSE << >>]), ALPHABET_SIZE)

\* Mutant: the bits of the symbols a group has only for form's sake stay counted.
GroupBits_AllSymbols(prefix, freq) == prefix.bits

\* output_bits of a group, without the symbols counted once for form's sake
\* (evolve_zero).
GroupBits(prefix, freq) ==
  prefix.bits
    - FoldFunctionOnSet(+, 0, prefix.clen, {s \in Alphabet : freq[s] = 0 /\ enc.freq[s] # 0})

\* One pass of "repeat": a winner for each sector, then new code lengths for
\* each group.  No symbol of the input goes without a length in any group.
Evolve ==
  LET gbest     == [c \in DOMAIN Sectors |-> Winner(Sectors[c])]
      freqs     == [g \in DOMAIN enc.clen |-> EvolveFreq(g, gbest)]
      Faked(fr) == [s \in Alphabet |-> IF fr[s] = 0 /\ enc.freq[s] # 0 THEN 1 ELSE fr[s]]
      prefixes  == [g \in DOMAIN enc.clen |->
                      djw_build_prefix(Faked(freqs[g]), ALPHABET_SIZE, DJW_MAX_CODELEN)]
  IN [gbest |-> gbest,
      clen  |-> [g \in DOMAIN enc.clen |-> prefixes[g].clen],
      bits  |-> FoldFunction(+, 0, [g \in DOMAIN enc.clen |-> GroupBits(prefixes[g], freqs[g])])]

\* Neither efficiency check finds the output, of so many bits besides head, too long.
Efficient(bits, head) ==
  \/ bits + BYTE_BITS * BytesOut(head) + EFFICIENCY_BITS < BYTE_BITS * Len(job.section)
  \/ cfg.inefficient

\* output->next counts the byte of the size, which xd3_encode_secondary wrote.
SizeByte == [i \in 1 .. BYTE_BITS |-> 0]

\* A section as symbols in one group's codes.
EncodeSymbols(section, clen) == EncodeCodes(section, clen, djw_build_codes(clen, ALPHABET_SIZE))

\* The end of xd3_encode_huff: 0 with its output, or XD3_NOSECOND.
Return(bits) == step' = "encoded" /\ out' = bits
NoSecond     == step' = "nosecond" /\ out' = << >>

-----------------------------------------------------------------------------
(* The encoder's actions.                                                  *)

\* xd3_encode_secondary and the start of xd3_encode_huff.  A section of fewer
\* than SECONDARY_MIN_INPUT bytes is sent as it is.
Begin ==
  /\ step = "idle" /\ windows < MaxSections[sec_type]
  /\ job' \in IF sec_type = "djw" THEN DjwJobs ELSE FgkJobs
  /\ windows' = windows + 1
  /\ out' = << >> /\ did_it' = FALSE
  /\ LET n == Len(job'.section)
         c == job'.cfg
     IN CASE n < SECONDARY_MIN_INPUT  -> step' = "plain" /\ UNCHANGED enc
          [] n >= SECONDARY_MIN_INPUT /\ sec_type = "fgk" ->
               step' = "bytes" /\ enc' = [pos |-> 0]
          [] n >= SECONDARY_MIN_INPUT /\ sec_type = "djw" /\ ~ValidCfg(c) ->
               step' = "refused" /\ UNCHANGED enc
          [] n >= SECONDARY_MIN_INPUT /\ sec_type = "djw" /\ ValidCfg(c) ->
               LET how == xd3_encode_howmany_groups(c, n)
               IN /\ step' = "groups"
                  /\ enc' = [groups |-> how.groups, sector_size |-> how.sector,
                             freq |-> djw_count_freqs(job'.section),
                             niter |-> 0, best_bits |-> 0, output_bits |-> 0,
                             clen |-> << >>, gbest |-> << >>, data_bits |-> 0,
                             select_bits |-> 0, selected |-> 0]
  /\ UNCHANGED <<sec_type, dec, tree, parted>>

\* A single group.
HuffSingle ==
  /\ step = "groups" /\ enc.groups = 1
  /\ \E prefix \in {djw_build_prefix(enc.freq, ALPHABET_SIZE, DJW_MAX_CODELEN)} :
     LET head   == xd3_encode_bits(DJW_GROUP_BITS, 0)
                     \o djw_encode_prefix([s \in 1 .. ALPHABET_SIZE |-> prefix.clen[s - 1]])
         data   == EncodeSymbols(job.section, prefix.clen)
     IN /\ enc' = [enc EXCEPT !.clen = <<prefix.clen>>, !.output_bits = prefix.bits,
                              !.data_bits = Len(data)]
        /\ IF Efficient(prefix.bits, << >>) /\ Efficient(prefix.bits, SizeByte \o head)
           THEN Return(xd3_flush_bits(head \o data))
           ELSE NoSecond
  /\ UNCHANGED <<sec_type, windows, job, did_it, dec, tree, parted>>

\* "regroup": a group would get no symbol.
Regroup ==
  /\ step = "groups" /\ enc.groups > 1 /\ ~cfg.inefficient
  /\ TooManyGroups(enc.groups, 0, Len(job.section), 0)
  /\ enc' = [enc EXCEPT !.groups = @ - 1]
  /\ UNCHANGED <<sec_type, windows, job, step, out, did_it, dec, tree, parted>>

\* The initial code lengths of the groups.
HuffGroups ==
  /\ step = "groups" /\ enc.groups > 1
  /\ cfg.inefficient \/ ~TooManyGroups(enc.groups, 0, Len(job.section), 0)
  /\ enc' = [enc EXCEPT !.clen = InitialClen(enc.groups, 0, Len(job.section), 0, 0)]
  /\ step' = "repeat"
  /\ UNCHANGED <<sec_type, windows, job, out, did_it, dec, tree, parted>>

\* One iteration.  "best_bits - output_bits" is unsigned: a loss of bits is a
\* large improvement.
HuffRepeat ==
  /\ step = "repeat"
  /\ \E e \in {Evolve} :
     LET niter == enc.niter + 1
         again == niter = 1 \/ (niter < DJW_MAX_ITER /\
                    (e.bits > enc.best_bits \/ enc.best_bits - e.bits >= DJW_MIN_IMPROVEMENT))
     IN /\ enc' = [enc EXCEPT !.niter = niter, !.gbest = e.gbest, !.clen = e.clen,
                              !.output_bits = e.bits,
                              !.best_bits = IF again THEN e.bits ELSE @]
        /\ step' = IF again THEN "repeat" ELSE "emit"
  /\ UNCHANGED <<sec_type, windows, job, out, did_it, dec, tree, parted>>

\* The output of several groups.
HuffEmit ==
  /\ step = "emit"
  /\ \E sel \in {EncodeSelectors([c \in DOMAIN enc.gbest |-> enc.gbest[c] - 1], enc.groups)} :
     LET prefix == djw_encode_prefix(djw_compute_multi_prefix(enc.groups,
                     [g \in 0 .. enc.groups - 1 |-> enc.clen[g + 1]]))
         head   == xd3_encode_bits(DJW_GROUP_BITS, enc.groups - 1)
                     \o xd3_encode_bits(DJW_SECTORSZ_BITS, enc.sector_size \div DJW_SECTORSZ_MULT - 1)
                     \o prefix \o sel.clens \o sel.codes
         data   == FlattenSeq([c \in DOMAIN Sectors |->
                     EncodeSymbols(Sectors[c], enc.clen[enc.gbest[c]])])
     IN /\ enc' = [enc EXCEPT !.data_bits = Len(data), !.select_bits = sel.select_bits,
                              !.selected = Len(sel.codes)]
        /\ IF /\ Efficient(enc.output_bits, << >>)
              /\ Efficient(enc.output_bits + sel.select_bits, SizeByte \o head)
           THEN Return(xd3_flush_bits(head \o data))
           ELSE NoSecond
  /\ UNCHANGED <<sec_type, windows, job, did_it, dec, tree, parted>>

\* xd3_encode_fgk: one symbol.
FgkEncode ==
  /\ step = "bytes" /\ enc.pos < Len(job.section)
  /\ LET coded == F!fgk_encode_data(tree.enc, job.section[enc.pos + 1])
     IN /\ out' = out \o coded.bits
        /\ tree' = [tree EXCEPT !.enc = coded.tree]
  /\ enc' = [enc EXCEPT !.pos = @ + 1]
  /\ UNCHANGED <<sec_type, windows, job, step, did_it, dec, parted>>

FgkFlush ==
  /\ step = "bytes" /\ enc.pos = Len(job.section)
  /\ Return(xd3_flush_bits(out))
  /\ UNCHANGED <<sec_type, windows, job, enc, did_it, dec, tree, parted>>

\* The end of xd3_encode_secondary: the output replaces the section if it is
\* short enough, and is dropped otherwise; FGK's tree stays as it is after it.  Its size is one byte here, so sections are below 128 bytes.
Keep ==
  LET comp_size == 1 + Len(out) \div BYTE_BITS
  IN comp_size + SECONDARY_MIN_SAVINGS < Len(job.section) \/ cfg.inefficient

EndEncode ==
  \/ /\ step = "encoded"
     /\ did_it' = Keep
     /\ step' = IF Keep THEN "read" ELSE "plain"
     /\ parted' = (parted \/ (sec_type = "fgk" /\ ~Keep))
     /\ UNCHANGED <<sec_type, windows, job, enc, out, dec, tree>>
  \/ /\ step = "nosecond"
     /\ step' = "plain"
     /\ UNCHANGED <<sec_type, windows, job, enc, out, did_it, dec, tree, parted>>

-----------------------------------------------------------------------------
(* The decoder's actions: xd3_decode_secondary_sections.                   *)

NoTables == [r |-> Reader(<< >>), groups |-> 0, sector_size |-> 0, tables |-> << >>,
             clen |-> << >>, sel_group |-> << >>, output |-> << >>]

\* A section that was not compressed.
DecodePlain ==
  /\ step = "plain"
  /\ dec' = [NoTables EXCEPT !.output = job.section]
  /\ step' = "sent"
  /\ UNCHANGED <<sec_type, windows, job, enc, out, did_it, tree, parted>>

\* The groups of the sectors, after the lengths of their codes.
DecodeSelectors(r, groups, sectors) ==
  LET lens == DecodeLengths(r, DJW_GBCLEN_BITS, groups + 1, << >>)
  IN djw_decode_1_2(lens.r,
       djw_build_decoder([g \in 0 .. groups |-> lens.clen[g + 1]], groups + 1),
       [g \in 1 .. groups + 1 |-> g - 1], sectors, 0)

\* The head of xd3_decode_huff: the code lengths, then the tables, then the
\* group of each sector.
HuffTables ==
  /\ step = "read" /\ sec_type = "djw"
  /\ LET gbits   == xd3_decode_bits(Reader(out), DJW_GROUP_BITS)
         groups  == gbits.val + 1
         zbits   == IF groups > 1 THEN xd3_decode_bits(gbits, DJW_SECTORSZ_BITS) ELSE gbits
         sector  == IF groups > 1 THEN (zbits.val + 1) * DJW_SECTORSZ_MULT ELSE Len(job.section)
         sectors == 1 + (Len(job.section) - 1) \div sector
         cl      == djw_decode_clclen(zbits)
     IN \E prefix \in {djw_decode_prefix(cl.r, cl.table, groups)} :
        \E sel \in {IF groups > 1 /\ prefix.r.ok THEN DecodeSelectors(prefix.r, groups, sectors)
                    ELSE [r |-> prefix.r, values |-> <<0>>]} :
        LET ok      == sel.r.ok
            clen    == [g \in 1 .. groups |-> [s \in Alphabet |->
                          prefix.values[(g - 1) * ALPHABET_SIZE + s + 1]]]
        IN /\ dec' = [NoTables EXCEPT
                        !.r = sel.r, !.groups = groups, !.sector_size = sector,
                        !.clen = IF ok THEN clen ELSE << >>,
                        !.tables = IF ok THEN [g \in 1 .. groups |->
                                     djw_build_decoder(clen[g], ALPHABET_SIZE)] ELSE << >>,
                        !.sel_group = IF ok THEN sel.values ELSE << >>]
           /\ step' = IF ok THEN "sectors" ELSE "failed"
  /\ UNCHANGED <<sec_type, windows, job, enc, out, did_it, tree, parted>>

\* n symbols with one table.
RECURSIVE DecodeSymbols(_, _, _, _)
DecodeSymbols(r, table, n, sofar) ==
  IF n = 0 THEN [r |-> r, output |-> sofar]
  ELSE LET one == djw_decode_symbol(r, table)
       IN IF one.ok THEN DecodeSymbols(one, table, n - 1, Append(sofar, one.val))
          ELSE [r |-> one, output |-> sofar]

\* One sector.
HuffSector ==
  /\ step = "sectors" /\ Len(dec.output) < Len(job.section)
  /\ LET c == Len(dec.output) \div dec.sector_size + 1
         n == Min2(dec.sector_size, Len(job.section) - Len(dec.output))
         got == DecodeSymbols(dec.r, dec.tables[dec.sel_group[c] + 1], n, dec.output)
     IN /\ dec' = [dec EXCEPT !.r = got.r, !.output = got.output]
        /\ step' = IF got.r.ok THEN "sectors" ELSE "failed"
  /\ UNCHANGED <<sec_type, windows, job, enc, out, did_it, tree, parted>>

\* Mutant: the decoder begins every section with a new tree (a sec_stream
\* that xd3_get_secondary initializes each time).
FgkDecoder_Anew == F!fgk_init

\* xd3_get_secondary: the sec_stream is made once.
FgkDecoder == tree.dec

\* xd3_decode_fgk: its start, and one symbol.
FgkStart ==
  /\ step = "read" /\ sec_type = "fgk"
  /\ dec' = [NoTables EXCEPT !.r = Reader(out)]
  /\ tree' = [tree EXCEPT !.dec = FgkDecoder]
  /\ step' = "sectors"
  /\ UNCHANGED <<sec_type, windows, job, enc, out, did_it, parted>>

FgkDecode ==
  /\ step = "sectors" /\ sec_type = "fgk" /\ Len(dec.output) < Len(job.section)
  /\ LET got == F!fgk_decode_data(tree.dec, dec.r)
     IN /\ tree' = [tree EXCEPT !.dec = got.tree]
        /\ dec' = [dec EXCEPT !.r = got.r,
                              !.output = IF got.r.ok THEN Append(@, got.elt) ELSE @]
        /\ step' = IF got.r.ok THEN "sectors" ELSE "failed"
  /\ UNCHANGED <<sec_type, windows, job, enc, out, did_it, parted>>

\* The end of xd3_decode_secondary: the input must be used up.
EndDecode ==
  /\ step = "sectors" /\ Len(dec.output) = Len(job.section)
  /\ step' = IF InputUsed(dec.r) /\ CleanBits(dec.r) THEN "sent" ELSE "failed"
  /\ UNCHANGED <<sec_type, windows, job, enc, out, did_it, dec, tree, parted>>

\* The next window.
NextWindow ==
  /\ step = "sent"
  /\ step' = "idle"
  /\ dec' = NoTables /\ enc' = [pos |-> 0] /\ out' = << >>
  /\ UNCHANGED <<sec_type, windows, job, did_it, tree, parted>>

Init ==
  /\ sec_type \in {"djw", "fgk"}
  /\ windows = 0
  /\ job = [section |-> << >>, cfg |-> << >>]
  /\ step = "idle"
  /\ enc = [pos |-> 0] /\ out = << >> /\ did_it = FALSE
  /\ dec = NoTables
  /\ tree = [enc |-> F!fgk_init, dec |-> F!fgk_init]
  /\ parted = FALSE

\* All sections are sent, or the configuration or the input was refused.
Done ==
  /\ \/ step = "idle" /\ windows = MaxSections[sec_type]
     \/ step \in {"refused", "failed"}
  /\ UNCHANGED vars

Next ==
  \/ Begin \/ HuffSingle \/ Regroup \/ HuffGroups \/ HuffRepeat \/ HuffEmit
  \/ FgkEncode \/ FgkFlush \/ EndEncode
  \/ DecodePlain \/ HuffTables \/ HuffSector \/ FgkStart \/ FgkDecode \/ EndDecode
  \/ NextWindow \/ Done

Spec == Init /\ [][Next]_vars

-----------------------------------------------------------------------------
(* Properties.                                                             *)

\* What the reader of a compressed section goes by is what its writer had: FGK's tree;
\* DJW's knowledge of which symbols have no code, which it takes from the first group.
\* An overflow of the code lengths that meets a symbol that does not occur gives that
\* symbol a code in its group only (xdelta3-djw.h:504-507, 659).
SharedState ==
  IF sec_type = "fgk" THEN ~parted
  ELSE \A g, h \in DOMAIN enc.clen : \A s \in Alphabet : enc.clen[g][s] = 0 <=> enc.clen[h][s] = 0

\* What the decoder of the other side gets is the section the encoder had,
\* whichever number of groups and efficiency check it met, and no input that
\* the encoder wrote is refused (xd3_encode_secondary against
\* xd3_decode_secondary), with two exceptions only: FGK after it discarded a
\* section, and DJW with groups that differ in the symbols without a code.
\* A section sent as it is always arrives.
SectionsSurvive ==
  /\ step = "failed" => did_it /\ ~SharedState
  /\ step = "sent" /\ (did_it => SharedState) => dec.output = job.section

\* After a pass of the encoder every group has a code for every symbol of the
\* input, none longer than DJW_MAX_CODELEN, and its lengths fill the code
\* space exactly, so that the canonical codes of djw_build_codes are prefix
\* free and djw_build_decoder needs no check.
CodesAreComplete ==
  step \in {"encoded", "emit"} /\ sec_type = "djw" =>
    \A g \in DOMAIN enc.clen :
      LET coded == {s \in Alphabet : enc.clen[g][s] # 0}
      IN /\ \A s \in Alphabet : enc.freq[s] # 0 => s \in coded
         /\ \A s \in coded : enc.clen[g][s] <= DJW_MAX_CODELEN
         /\ 2 ^ DJW_MAX_CODELEN =
              FoldFunctionOnSet(+, 0,
                [s \in coded |-> 2 ^ (DJW_MAX_CODELEN - enc.clen[g][s])], coded)

\* The bits that the efficiency checks counted are the bits that were written:
\* the assertions output_bits == 0 and select_bits == 0 of xd3_encode_huff.
BitsAreCounted ==
  step = "encoded" /\ sec_type = "djw" =>
    enc.data_bits = enc.output_bits /\ enc.selected = enc.select_bits

\* Between two sections of an FGK stream decoder and encoder have the same tree,
\* blocks and unseen symbols included, until xd3_encode_secondary discards a section.
\* From then on they differ for good: the encoder's has counted more than the decoder
\* has seen, and no later section brings them together.
TreesInStep ==
  step \in {"idle", "sent"} => (tree.enc = tree.dec <=> ~parted)

\* As long as a symbol is unseen, the tree of FGK is a Huffman tree of the
\* counts (Sibling) and its blocks are its weights, which fgk_move_right relies
\* on; its weights add up ever after.
UnseenKeepsOrder ==
  \A t \in {tree.enc, tree.dec} :
    /\ t.zeros # << >> => F!Sibling(t) /\ F!BlocksAreWeights(t)
    /\ F!WeightsAddUp(t)

\* The lengths of the codes arrive: "If not the first group, we already know
\* the zero frequencies" (djw_decode_1_2).  See MCSecondaryZeros.cfg.
LengthsArrive ==
  /\ step # "failed"
  /\ step = "sectors" /\ sec_type = "djw" => dec.clen = enc.clen

=============================================================================
