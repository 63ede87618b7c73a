# A verification of xdelta-py

TLA+ modules, TLC runs and TLAPS proofs about xdelta-py: a Django file class, `DeltaFile`
(`xdelta.py`), over a Python C extension (`deltamodule.c`, with `buffer.c` and `lru_cache.c`)
over the xdelta3 delta engine (`xdelta3.c` and its headers). What a definition models is in
`PROJECT.json` under "map", by file and line.

Contents: [inventory](#inventory), [modules](#modules), [runs](#runs), [proofs](#proofs),
[disagreements](#where-the-code-and-its-words-disagree), [left out](#what-is-left-out),
[what remains](#what-remains).

## Inventory

The program has one thread. What makes it hard is not concurrency but four machines that call
each other and keep state between calls: a caller's sequence of methods, the loop that feeds
the engine, the engine's resumable state machines (they return in the middle of a window and
are called again), and Python file objects that may raise at every call.

| Component | State | Operations | Meets |
|---|---|---|---|
| `DeltaFile` (`xdelta.py`) | `_stream`, the file | `read write flush open close source` | makes and drops a `Stream` |
| `Stream` (`deltamodule.c`) | `target`, `source`, `cache`, `buffer`, an `xd3_stream` | `stream_read stream_write stream_flush stream_set_source`, `do_processing` | feeds the engine, moves output to a file or a string |
| byte buffer (`buffer.c`) | `data size offset` | `buffer_append buffer_take buffer_remaining buffer_release` | keeps what was decoded but not asked for |
| block cache (`lru_cache.c`) | array of blocks sorted by id, usage list threaded through it, data areas | `lru_cache_get _put _first _last _free` | source blocks in memory |
| source blocks (`get_source_block`, `xd3_getblk`) | `xd3_source`: current block, frontier, end | a request for a block | reads the source file forward, fills the cache |
| encoder (`xd3_encode_input`) | `enc_state`, `buf_in`, `buf_leftover`, output pages | one call: to the next `XD3_INPUT`, `XD3_OUTPUT`... | cuts windows, matches, emits sections |
| string matching, source window (`xd3_string_match`) | `match_*`, checksum tables, `srcbase srclen` | `xd3_smatch`, `xd3_source_match_setup`, `xd3_source_extend_match`, `xd3_srcwin_move_point`, `xd3_srcwin_setup` | decides which source blocks are asked for, fills the instruction buffer |
| address cache | near and same arrays | `xd3_encode_address xd3_decode_address xd3_update_cache` | one in the encoder, one in the decoder, never compared |
| instruction buffer and code table | `iopt` lists, `iout` | `xd3_iopt_*`, `xd3_choose_instruction` | pairs instructions into opcodes |
| decoder (`xd3_decode_input`) | `dec_state`, three sections, `dec_position` | one call, as above | asks for source blocks, outputs a window |
| secondary compression (`xdelta3-second.h`, `-djw.h`, `-fgk.h`) | Huffman groups; FGK's tree, kept over sections | encode, decode a section | between sections and output |
| merging (`xdelta3-merge.h`, `xdelta3-main.h`) | the whole delta read so far as a list of instructions | append a window, merge two lists, write the result in windows | reads with the decoder, writes with the encoder |

Hard behaviours, and for each component what makes it correct:

* `buffer.c`: bytes come out once and in order whichever way room is made, and a failed
  allocation changes nothing.
* `lru_cache.c`: a sorted array, a list through that array and data areas that move between
  blocks are changed by one function; they must stay consistent and be a least recently
  used cache.
* source blocks: the number of the next block is derived from the cache, its content from the
  position of a file that is never sought; these two must not drift apart over replacement,
  failures and the end of the file.
* address caches: two caches updated by different code, any number of instructions apart, must
  go through the same states.
* writing: windows are cut from strings of any size through a buffer and a borrowed pointer;
  nothing may be lost, doubled or reordered; a failed write leaves at most the last window
  torn; a flush commits all.
* matching: matches found later may cover earlier ones that are still in the instruction
  buffer, a source match may be taken up again at another block, the source window is decided
  while the search goes on; every byte of the window must be covered once, by something the
  decoder has at that point.
* secondary compression: writer and reader derive which lengths and symbols are sent from
  what each knows, and the writer counts the bits before it decides to write them.
* merging: copies are followed into copies, which may overlap themselves, without the text.
* reading: windows are gathered from pieces of any alignment, sections are used in place when
  possible; what is decoded is split between a string and the buffer; fewer bytes than asked
  for mean the end.

`setup.py` builds `deltamodule.c`, `xdelta3.c`, `buffer.c` and `lru_cache.c`, with DJW
(`config.h`). Merging and FGK are modelled although they are not built into the extension; the
rest of the command-line tool, its block cache, LZMA and the C regression test are not.

## Modules

| Module | Models | Uses |
|---|---|---|
| `ByteFifo` | abstract: a queue of bytes | |
| `ByteBuffer` | `buffer.c`; refines `ByteFifo` | |
| `AbstractLru` | abstract: a least recently used map | |
| `LruStore` | the data structure of `lru_cache.c`, one operator per operation | |
| `LruCache` | a client of `LruStore`; refines `AbstractLru` | `LruStore` |
| `LruLoops` | the loops of `lru_cache.c` step by step, against `LruStore` | `LruCache` |
| `LruStoreProofs` | what the operations of `LruStore` keep | |
| `LruCacheProofs` | proofs about `LruCache` and `LruLoops` | `LruStoreProofs` |
| `SourceCache` | `xd3_getblk`, `get_source_block`, `xd3_source`, the file's position | `LruStore` |
| `SourceCacheProofs` | proofs about `SourceCache` | `LruStoreProofs` |
| `AddrCache` | the address cache as operators | |
| `AddrChannel` | an encoder and a decoder that share a stream of instructions | `AddrCache` |
| `AddrChannelProofs` | proofs about the two | |
| `DeltaWriter` | `write flush close open source`, `do_processing`, `xd3_encode_input` | |
| `DeltaWriterProofs` | proofs about `DeltaWriter` | |
| `DeltaReader` | `read`, `do_processing`, `xd3_decode_input` | the queue `ByteBuffer` implements |
| `DeltaReaderProofs` | proofs about `DeltaReader` and `ByteBuffer` | |
| `CodeTable` | the code table as the decoder builds it, and the encoder's choice of codes | |
| `Iopt` | the instruction buffer and the encoding of instructions, as operators on the encoder | `CodeTable`, `AddrCache` |
| `Matcher` | checksums, hash chains, source matches, source blocks, likewise | `Iopt` |
| `WindowCodec` | the string matching loop and the decoding of its windows, step by step | `Matcher` |
| `WindowProofs` | proofs about `WindowCodec`'s encoder | |
| `MCWindow` | texts, sources and matcher settings for `WindowCodec` | `WindowCodec` |
| `BitStream` | the bit streams of the secondary compressors | |
| `Djw` | prefix codes, their transmission, decoder tables, as operators | `BitStream` |
| `Fgk` | the adaptive tree, as operators | `BitStream` |
| `Secondary` | a section through `xd3_encode_secondary` and `xd3_decode_secondary`, step by step | `Djw`, `Fgk` |
| `MCSecondary` | sections for `Secondary` | `Secondary` |
| `Merge` | reading, merging and writing a chain of deltas | |
| `MCMerge` | chains for `Merge` | `Merge` |
| `MergeProofs` | proofs about `Merge` | |

How state and actions correspond to code:

**ByteBuffer.** `data`, `size`, `offset` are the C struct's; the bytes are numbers in the order
they were stored, so that order and identity are visible. `AppendGrow` is the `realloc` branch,
`AppendCompact` the `malloc` and copy branch, `AppendFails` an allocation that fails in
either. `stored`, `taken` and `last` are history, for the mapping to `ByteFifo`.

**LruStore.** A record holds `blocks`, `head`, `tail`, `cur` and the memory of the data areas;
pointers are indices. `Shift` moves many blocks at once where the code moves one at a time and
repairs links as it goes; `LruLoops` has that loop, and the run checks that both agree in
every reachable cache. Likewise `Found`, `IndexOf` and `InsertionPoint` against the binary
search.

**SourceCache.** A block's content is the stretch of the file it was read from, so that "the
right data under the right number" is a formula. `AskCurrent`, `AskCached`, `AskTooFarBack`,
`AskAhead` are the ways a request goes; `ReadNext` is one round of the loop in
`get_source_block`. A decoder asks for any block, an encoder only up to the next one it has
not indexed (`Asked`). `ReadFails` is a read that raises or returns something that is no string;
`read_from_file` drops the latter after the file has moved, so the action moves it by any part of
the block, and `lost` records how many bytes were so lost before each block.

**AddrCache, AddrChannel.** The arrays are functions; `Small` stands for 128 and `Buckets` for
256. `Encode` keeps the code's order: self and here and near modes stop at the first small
distance, the same array is looked at only when none is small, and wins when it hits. `past`
is history: the encoder's state at each instruction on the wire.

**DeltaWriter.** One action per state of `xd3_encode_input` that can be told apart from
outside (`BeginWindow EncodeWindow NextPage FinishWindow MissedOutput ResetWindow`), one per
step of `do_processing` (`ReadInput OutputPage OutputFails`), one per method. `TakeInput` is
the label `enc_flush` with `xd3_encode_buffer_leftover`, reached from two states as in the
code. The file is a sequence of pages that name the window they are of; `committed` is what
its complete windows encode.

**DeltaReader.** The delta's bytes are their places in the file, so that a section's content
can be compared with the place it should come from. `dec_state` keeps `DEC_DATA`, `DEC_INST`,
`DEC_ADDR`, `DEC_EMIT` and `DEC_FINISH`; the states that read a header field are one,
`DEC_WININD`, since all they do with input is to gather bytes. `InPlace` is the `copy` flag of
`xd3_decode_sections`. The instructions of a window are left out: it decodes to so many bytes,
or fails.

The target's pieces may be short anywhere (a pipe), not only at its end.

**CodeTable, Iopt, Matcher.** Operators on a record `e`, the fields of `xd3_stream` and
`xd3_source` in use; a doubly linked list is a sequence. `Table` is the table the decoder
builds from its description, `Code1` and `Code2` the encoder's arithmetic, which never looks
at it. In `Iopt`, `Compact` is the loop of `xd3_iopt_flush_instructions` over neighbours
(`TooClose`, `Split`), `GetSlot` is `xd3_iopt_get_slot`, `Combine` pairs an
instruction with the one in `iout`. In `Matcher`, `SourceMatchSetup`, `ExtendBack`,
`ExtendForward` and `TakeMatch` are the parts of a source match, `MovePoint` and `Index` the
indexing of the source ahead of the input, `Smatch` and `LongestOf` the walk along a hash
chain. The code's loops are recursive functions on the number of rounds left (`after[n]` in
`Compact`, `EncodeFirst`, `ExtendBack`, `ExtendForward`, `Index`, `LongestOf`), each with a bound that no loop
exceeds: prover and TLC read the same definitions. Checksums are the code's sums with small moduli, so that unequal bytes collide.

**WindowCodec.** `e` is the encoder, `d` the decoder, `pc` the place: `TakeWindow`, then one
`BeginSearch` and one step per input position (`FindRun`; else `FindCopy`, the source tried
before the window), `FinishWindow` with the flush of the buffer, then `DecodeHeader`,
`DecodeInstruction`, one `OutputHalf` per half-instruction and source block (`OutputData`,
`OutputSource`, `OutputTarget`), and `EndWindow`. Encoder and decoder share the file but neither the cache nor
the address cache. Source blocks answer at once, as `get_source_block` does; sections are
sequences of numbers rather than bytes.

**Djw, Fgk, Secondary.** A table is a function, a tree a record of functions; pointers
are node numbers. DJW's heap is the code's (`heap_insert`, `Sink`), with its ties, since code
lengths depend on them. `Secondary` has one action per phase of
`xd3_encode_huff` (`HuffSingle`, `HuffGroups`, `HuffRepeat` once per iteration of `repeat:`,
`HuffEmit`) and of `xd3_decode_huff` (`HuffTables`, `HuffSector` per sector), one per symbol
of FGK on either side, and the wrapper's `EndEncode` (keep or discard) and `EndDecode`.
`SectionsSurvive` holds while writer and reader share what they derive codes from
(`SharedState`): FGK's trees, until a section is discarded (`parted`, history), and DJW's
knowledge of which symbols have no code. The run has sections beyond both conditions as well:
some of them come out wrong or are refused, and the property says that no others do.

**Merge.** `stream` is the delta read last, `merge_input` what the deltas before it merged to,
`tmp` the merged list so far. `ReadWindow`, `AppendInstruction` and `WindowIsRead` are
`xd3_whole_append_window`, one step per instruction. `MergeInstruction` is a round of
`xd3_merge_inputs` for what is no copy from the source; `SourceCopy` is the call of
`xd3_merge_source_copy` for one that is, `SourcePiece` a round of that function's loop and
`SourceReturn` its end. The function calls itself, so `todo` is the stack of its calls.
`OutputInstruction` is one round of the loop in `main_merge_output` with the split at a
window's end.

## Runs

Each run's `.cfg` gives the constants. Bounds are constants named as such in the modules.

| Run | Shows | Bounds and why they suffice |
|---|---|---|
| `ByteBuffer` | `TypeOK`, `HoldsTheRest`, `ImplementsFifo` | both thresholds (1 and 3) and lengths up to 4 make offsets below, between and above them; 12 bytes are several rounds |
| `LruCache` | `WellLinked`, `AreasAreOwned`, `LoopsAgree`, `ImplementsLru` | 4 blocks, 6 ids: every place of the tail in a full array, and shifts over 0 to 3 neighbours |
| `SourceCache` | `PositionFollowsCache`, `CachedBlocksAreRight`, `AnswerIsTheBlock`, `CurrentBlockIsCurrent`, `KnownLengthIsRight` | files shorter than a block, ending at and inside a block, with more blocks than the cache holds; 2 failures, each of which consumes nothing, a part or all of a block |
| `AddrChannel` | `TypeOK`, `AddressesSurvive`, `InStep`, `NoShorterForm` | 2 near and 2 same modes of 2 buckets: near slots wrap and same slots collide; a lag of 3 crosses window starts |
| `DeltaWriter` | `BufferFits`, `ConservesContent`, `WindowsAreFull`, `TornOnlyAtTheEnd`, `FlushCommits`, `NoDanglingInput`, `CallsReturn` | strings of 0, less and more than a window (3), so that every fill of the buffer meets every length; 2 pages a window, one failing write |
| `DeltaReader` | `InOrder`, `FewerOnlyAtTheEnd`, `NoDanglingSection`, `SectionsAreRight`, `ReadsReturn` | every delta of up to 2 windows whose sections are empty or not, cut off anywhere; pieces of 1 or 2 bytes fall at every alignment |
| `Window` | `DecodesToTheText`, `BufferIsOrdered`, `SlotsAreCounted`, `InstructionsTell`, `Rolling` | all words of two letters up to 7 bytes without a source (runs, overlaps, address modes); pieces of a 20-byte source of 3 blocks put together across a window of 32 bytes, with runs between them, length known or not; 729 texts made of overlapping stairs, which nest matches; sources shorter than a block and empty; both a greedy and a lazy matcher, an unlimited buffer and one of 5 slots, which fills |
| `Secondary` | `SectionsSurvive`, `CodesAreComplete`, `BitsAreCounted`, `TreesInStep`, `UnseenKeepsOrder` | every distribution of counts 0, 1, 2, 5 over 5 symbols of 6 with codes of at most 3 bits, so that lengths overflow, with the sixth symbol unused and used; overflows beside an unused symbol in one of two groups; every mix of four sectors of five kinds with 2 and 3 groups, with and without the efficiency rule; two FGK sections of every order of 3 symbols, one after the other on the same trees, kept or discarded by the efficiency rule, or kept in spite of it |
| `Merge` | `MergedDeltaDecodes`, `InstructionsTile` | 87 × 138 pairs of deltas of two windows of up to two instructions, among them copies that overlap themselves, cross windows and begin in the middle of an instruction; chains of three; a delta against another text; empty deltas. Every byte added is new, so that a misplaced one shows |
| `DeltaWriterOpen`, `WindowFar`, `SecondaryZeros` | see [disagreements](#where-the-code-and-its-words-disagree) | |

`Window` has no instance with addresses or sizes near the width of their types, and its small
constants replace numbers of the code, which the modules name in comments beside each
constant; the code table and its 7 address modes are the code's own.

Deadlock is checked except in `DeltaWriter` and `DeltaReader`: a closed file has no further
call, a delta whose decoding raised is not read on, and calls are bounded. `Window`,
`Secondary` and `Merge` stutter only when their work is done or refused, so that the same
check shows that no step of theirs gets stuck.

**Fairness.** Liveness is stated in two runs. `DeltaWriter` and `DeltaReader` assume weak
fairness of `Process`, the steps inside a call, and nothing of the caller: the code runs a
call to its end in one thread. Neither assumes that a write or a read of a file succeeds.

For each property `PROJECT.json` names a mutant, an operator beside the one it replaces
(commented "Mutant:"), that a plausible slip would produce and that the run finds.

## Proofs

For all values of the constants that satisfy the modules' assumptions:

* `DeltaReaderProofs`, about `ByteBuffer`: `BufferTypes` ([]`TypeOK`), `NothingLost` ([]`HoldsTheRest`) and
  `BufferImplementsFifo` (the refinement). `HoldsTheRest` with the types is inductive; the
  refinement has one lemma per action, each of which maps to `Store`, `Get`, `Refuse` or
  `Drop` of the queue. The thresholds appear only as numbers: the proof holds for 4096 and
  16 MB.
* `AddrChannelProofs`: `RoundTrip`, that decoding with a cache what was encoded with it gives
  the address back, for any address before the current position and any cache of its type,
  reachable or not. It rests on `ChosenIsUsable` (the mode chosen is one whose distance is
  not negative), which needs that a set of numbers has a least (`NatMin`), and on
  arithmetic of the same array's slots (`SlotSplits`). Then `ChannelTypes`, `CachesInStep`,
  `ChannelIsLossless`. `AddressesSurvive`
  is not inductive: it says nothing of instructions that are still on the wire. The invariant
  is `IInv`, the types, `InStep` and `AddressesSurvive`: `InStep` says that the decoder is in
  the state in which the encoder sent the first instruction on the wire, and that each
  instruction leads from the state of its sending to that of the next. From it a received
  copy was encoded with the cache it is decoded with, and `RoundTrip` applies.
  `EncodeIsShortest` is about `xd3_encode_address` alone, with any cache: no mode the decoder
  would accept sends the address in fewer bytes. The function looks for the smallest distance
  and ends early at one below 128; a smaller number has no more digits, and a number below 128
  has one, so that the early end loses nothing. `AddressesAreShort` ([]`NoShorterForm`) follows.
* `DeltaWriterProofs`: all six safety properties of `DeltaWriter` (`InputFits`,
  `NothingIsLost`, `WritesFillWindows`, `FileHasNoGaps`, `FlushIsComplete`,
  `LeftoverIsUsed`), for every window size, number of pages and sequence of calls. None is
  inductive alone. The invariant adds `Control` (which states of the encoder go with which place
  in `do_processing`, and when the flush flag is set), `Sizes` (input is buffered between windows
  and left over within them, and a write's window is full) and `LastPage` (the last page of the
  file is the encoder's last page). `ConservesContent` is proved by writing what the encoder
  has in hand as one concatenation (`InHandIs`) that every step regroups.
* `DeltaReaderProofs`, about `DeltaReader`: all four safety properties (`SectionsOutliveNoInput`,
  `SectionsAreTheWindows`, `ReadsAreInOrder`, `ShortReadsAreTheLast`), for every delta and every
  way its bytes are cut into pieces. There are three layers: what the decoder's state says of its
  sections and input (`IInv`); the place in the file of what is gathered, a sum of the sizes before
  it (`Position`, `Gathered`); and what callers were given (`Outputs`). `Before`, a sum defined by
  recursion, is known by its equations: that a function with these values exists and is the only one
  is shown by induction (`SumExists`, `SumsAgree`). The library's induction theorems take an
  operator as a parameter, which no prover here can instantiate; `NatInduct`, proved from the
  well-foundedness of the numbers, says the same of a set of numbers.
* `LruStoreProofs`: every operation of `lru_cache.c` keeps `CacheOK`, whatever the number of
  blocks: the array is in the order of the ids, every block has an area of its own, the usage list
  threads the used blocks. The last is said without following the list (`Chain`): there are times
  of last use that fall along the next pointers, and nothing lies between neighbours. An
  operation then gives a block a new time (`PushFront`, `MoveFront`), takes the earliest away
  (`DropLast`), or carries times along with the blocks that are shifted (`Rename`).
* `LruCacheProofs`: `NoBlockIsLost` ([]`WellLinked`) and `NoAreaIsShared` ([]`AreasAreOwned`).
  `CacheOK` is inductive; that it implies `WellLinked`, which follows the pointers, is a
  counting argument: along the pointers times fall, so no block is met twice and every block
  used after the present one has been met; hence the tail comes last and not before
  (`CanFollow`, `WholeList`). `CacheImplementsLru`: the cache refines `AbstractLru`, whose order
  of entries is the list of blocks in the order of their times. Each operation gives
  a list that obeys the new pointers, and there is only one such list: the new block first
  and the others as they were (`get`, `put`), the last one gone when the cache is full. `LoopsCompute`
  ([]`LoopsAgree`): the binary search of `find_block` and the shifting loops of `lru_cache_put`
  compute what `LruStore` says of them in one step; the loops are recursive functions, and the
  proof is an induction over their rounds.
* `SourceCacheProofs`: the five properties of `SourceCache` (`FileFollowsCache`,
  `EntriesAreTheirBlocks`, `RequestsAreAnswered`, `MemoryIsTheBlock`, `LengthIsTheFiles`), for
  every number and size of blocks and every length of the source. The invariant adds that the
  cache is well formed, that a request still being served is ahead of it (`Ahead`: this makes
  every id put higher than all others, which `PutOK` needs), that all blocks to come have the same
  bytes lost before them (`Counted`), that every entry ends where the file stands or before
  (`ReadBefore`) and, as long as nothing was lost, that the size of the block at hand is right even
  after a failed read, and what an encoder knows of the last block it saw (`Measured`).
* `MergeProofs`: `ListsTile` ([]`InstructionsTile`), for every chain of deltas that belong
  together, of any number of deltas, windows and instructions: no list of instructions has a gap or
  an overlap, copies point back within their window or into the first source, no assertion of
  `xd3_merge_inputs` or `xd3_merge_source_copy` fails and none of them returns an error.
  The invariant (`IInv`) adds the types; `Place`, which ties what is read to the sizes the
  windows announce; `Nested`, where the calls of `xd3_merge_source_copy` are: each is at the
  instruction that makes the byte it wants (`Grounded`), the innermost writes where the merged list
  ends, and each caller goes on where the call it made will end; and `Merged`, how far the delta is
  merged. That the binary search of a list without gaps finds the instruction (`PositionIsFound`)
  is by induction over the length of the part that is left.
  `MergedDecodes` ([]`MergedDeltaDecodes`): whatever chain of deltas that belong together is merged,
  the command never fails, every window it writes is well formed against the first source, and the
  delta yields the bytes the chain yields one after the other. The invariant (`TextInv`) says the
  bytes of every instruction: each of them is the byte the text has at that position (`Says`), whether
  added, repeated, copied from the source or from the text itself, so that following a copy into the
  list that made it changes nothing (`RoundTold`). No instruction crosses the end of a window
  (`Inside`), which is why `main_merge_output` never splits one and finds each window where the
  one before it ended (`NextFits`, `BeginWindowWritten`). A window that is being written is known
  by its buffered instructions and the bytes between them (`WindowTold`); its encoding is then a list
  of instructions whose decoding is that part of the text (`EncodeWindowMakes`), because the address
  space a window decodes to is the only sequence its instructions agree with (`SpaceFacts`), also where
  a copy reads bytes it has just written.

* `WindowProofs`: `RollingHolds`, `InstructionsTold`, `SlotsCounted` ([]`Rolling`,
  []`InstructionsTell`, []`SlotsAreCounted`) and `LargeBufferOrdered` ([]`BufferIsOrdered`), for every
  text, source, string matcher, window and block size, over any number of windows. They rest on one
  invariant of the encoder (`EncoderInvariant`, []`EncoderInv`): the types; what is known of the
  source's end (`SourceKnown`: nothing, all, or, for a source of less than a block, a block too
  much); that the source index and the window's hash chains hold positions that were
  passed (`SourcePositions`, `Tables`); how far a source match in progress may grow (`MatchLimits`);
  that the copies in the buffer lie within the source and the decided source window
  (`CopiesWithin(Lo, Hi)`), whose ends are the extremes of the addresses matched so far until it
  is decided; how many elements of the buffer are free; and, while the search goes on, that the
  rolling checksum is that of the bytes at hand (`LoopReady`). `Rolling` needs that removing the
  first byte and adding the next one is the checksum anew, for a window of any size (`Lcksum` by
  induction over its bytes).
  `InstructionsTold` has an invariant of its own (`TellInv`): every instruction in the buffer says
  what the window has (`Told`), the run in sight is as long as `run_l` says (`RunsTell`), and the
  chains of the small hash begin before the input position (`ChainedTo`), or are dropped before
  the search begins (`Unchained`). A match with the source is taken on a checksum and compared
  with it byte by byte in both directions, over blocks and windows (`BackAgrees`, `ForwardAgrees`);
  a match with the window descends from position to position, which is how the code knows that a
  chain it follows has not been written over (`ChainTells`); and what a flush cuts off an instruction that
  overlaps another one leaves an instruction that says the same of the rest (`Cuttable`,
  `TellingIsCuttable`).
  `SlotsCounted` and the order need `Roomy`: a limited buffer has at least four elements. With two
  or three a flush that is not forced leaves a full one full, and the assertion of
  `xd3_iopt_get_slot` fails (`xdelta3.c:2563`).
  The order has an invariant of its own (`OrderInv`): the instructions begin and end one after
  the other within what is not sent yet (`InOrder`), and during the search each ends before
  the position at hand plus `min_match` (`LoopOrdered`), so that whatever is found next reaches
  further than all of them: that is how "the min_match adjustments prevent this"
  (`xdelta3.c:2390`). What a step finds is entered after the instructions that a backward extension
  covers are erased (`EraseOrder`); a flush resolves overlaps between neighbours without disturbing
  the order (`ResolveOrder`, `CompactOrder`) and takes off only instructions that their successors
  do not overlap (`FlushOrder`). This last holds unless the flush leaves just two, which overlap:
  `BufferOrdered` is the theorem under `FlushHasRoom`, which excludes this for a full limited
  buffer. `LargeBufferOrdered` has no such condition: instructions in order begin at different
  positions of the window, so that a buffer with as many elements as the window has bytes is never
  full (`OrderGivesRoom`), and one without limit grows. The extension has 32768 elements and windows
  of up to 8 MB: for windows above 32 KB only `BufferOrdered` speaks of it.

Assumptions are the modules' `ASSUME`s: numbers are natural, sizes positive where the code
needs them to be, markers such as `None` distinct from what they mark the absence of; the block
cache has at least two blocks, and its clients put new ids in ascending order, as
`get_source_block` does; the last delta of a chain to merge has a window, as
`main_merge_output` asserts (`xdelta3-main.h:1888`) and every encoder writes.

Checked by TLC only:

* By their nature: the liveness properties (`CallsReturn`, `ReadsReturn`).
* `DecodesToTheText`. What is proved of `WindowCodec` is about the encoder's buffer. That the decoder
  makes the text of its windows again needs, beyond `BufferIsOrdered` and `InstructionsTell`, that
  the instructions' codes and addresses are read as they were written, that the bytes between
  them are sent, and that the decoder's block cache still has what is copied, which is false for
  long sources (`WindowFar`).
* Everything about `Secondary`. The operators of `Djw` and `Fgk` are `RECURSIVE`, over heaps and
  trees, and the prover does not take such modules.

## Where the code and its words disagree

Runs that TLC must find violated; `PROJECT.json` quotes the words under "findings".

* `DeltaWriterOpen`: `open()` after a write drops what the encoder has buffered; `close()`
  then succeeds without it.
* `WindowFar`: the encoder's and the decoder's caches of source blocks see different requests,
  and looking back at a block promotes it (`max_winsize`, which "prevents the encoder from
  seeking back further than the LRU cache maintaining FIFO discipline", counts on a FIFO). With
  a source of more blocks than `MAX_SOURCE_BLOCKS` a delta may copy from a block that the
  decoder has replaced: decoding fails, although `XD3_TOOFARBACK` is said to be the encoder's
  only.
* `SecondaryZeros`: after an overflow of DJW's code lengths, one group has codes for symbols
  that do not occur; the lengths of the next group are then read out of step. A section of
  706 KB with nearly exponential frequencies and two groups, compressed with the C code, is
  refused by its own decoder ("secondary decoder invalid code").

Met while modelling, without a run of their own:

* Buffer and caches. The buffer is not reallocated once half of it is consumed, as
  `buffer.c`'s comment has it: consumed bytes are kept whenever the offset exceeds a quarter
  of the size. A lower id put into a full block cache overwrites an entry (`lru_cache.c:125`);
  the extension puts ids in ascending order. A target that returns less than was asked for is
  taken for ended, so that `read()` does not "read to the end" of a pipe. After a failed read
  the block at hand may have been overwritten while `curblkno` still names it (so
  `CurrentBlockIsCurrent` is stated until a read fails). A read that returns no string, or that
  raises after the file has moved, loses what it consumed: the next stretch is stored under the
  lost block's number (`deltamodule.c:363`), requests for it succeed with other bytes, and the
  length an encoder concludes is short of the file's (`lost` in `PositionFollowsCache`,
  `CachedBlocksAreRight` and `KnownLengthIsRight`). A failed read is reported as
  `XD3_TOOFARBACK`, which `xd3_srcwin_move_point` says never occurs; a source shorter than a
  block never has its end known; `open()` numbers blocks from 0 over a source that is not
  rewound; a cache of one block dereferences a null pointer.
* Instruction buffer. With a very small fixed buffer (`xdelta3 -I`)
  `xd3_iopt_flush_instructions` takes an instruction off (`xdelta3.c:2504`) before it sees that
  the last two were not resolved against each other (`2519`): it encodes one that overlaps
  its successor, and the delta is corrupt. `Window`'s 5 slots do not meet this with the run's lazy
  matcher (`maxlazy` 6); with `maxlazy` 12 `BufferIsOrdered` fails there. The extension has 32768.
* FGK. Once every symbol was seen, `my_left == h->remaining_zeros` (`xdelta3-fgk.h:436`)
  compares two null pointers and leaves the leftmost leaf in its old block: the order of
  siblings that the file's head promises breaks, the code stays decodable
  (`UnseenKeepsOrder` is stated for as long as a symbol is unseen). And a section that
  `xd3_encode_secondary` discards has already changed the encoder's tree but never reaches the
  decoder's; LZMA sets `inefficient` for this reason ("Can't skip windows"), FGK does not. From
  then on the trees differ (`TreesInStep`), and a later compressed section is decoded to other
  symbols or refused: the run `Secondary` has such sections, and `SectionsSurvive` excepts them
  by name. FGK is not compiled in.
* Merging. As the TODO at `xdelta3-merge.h:502` says, each copy into a copy is followed one call
  deeper. The split of an instruction at a window's end (`take < inst->size`) never happens
  in chains of well-formed deltas (`NextFits`).

## What is left out

* Allocation failures other than `buffer_append`'s; errors inside the encoding of a window; what
  a reader meets after the decoder raised an error (the error is not remembered); a stream that
  both reads and writes; overflow of offsets and sizes (the `XOFF_T_OVERFLOW` and
  `USIZE_T_OVERFLOW` checks); `multiple_chunks`; argument parsing and reference counts; the
  `AttributeError` of `open()` on a file that has no stream yet (`xdelta.py:64`).
* `DeltaReader`: a header that is refused (`xdelta3-decode.h:851-1137`) has no branch of its own;
  a later step that fails stands for it.
* Variable-length integers: sizes travel as numbers.
* `WindowCodec`: application headers, custom code tables and `VCD_TARGET` windows (the code
  refuses them), Adler-32, non-blocking sources (the extension always answers), the debugging
  checks. Its termination is not stated as a liveness property: the graph is too large for it in
  the time a run has; that no state is stuck is checked.
* `Secondary`: output longer than a page, of which the efficiency checks see only the last one.
* `Merge`: the assertions that a chain of deltas that do not belong together may meet past the
  end of a text; the secondary compression and the checksums of the deltas it reads.
* LZMA, the block cache and the rest of the command-line tool, `xdelta3-test.h`: not built into
  the extension (`PROJECT.json`).

## What remains

1. `VarInt`: `xd3_emit_size` with the readers that take an integer whole or byte by byte and
   their overflow checks.
2. The composition of `DeltaWriter`, `WindowCodec` and `DeltaReader`: errors raised in the
   middle of a window, and a second stream over a source that was already read.
3. Theorems: `DecodesToTheText` for sources that fit the block cache; `Secondary`, once the
   operators of `Djw` and `Fgk` are recursive functions.
