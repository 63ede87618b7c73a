------------------------------ MODULE LruStore ------------------------------
(***************************************************************************)
(* The data structure of lru_cache.c and its operations, as operators on a *)
(* record: an array of blocks kept in the order of their ids, a doubly     *)
(* linked usage list threaded through the array (`head' is the block used  *)
(* last), and one data area per block, which moves between blocks.         *)
(*                                                                         *)
(* A pointer into the array is an index, Null is -1.  `mem' gives what the *)
(* data areas hold; a value stands for the bytes and their number.         *)
(***************************************************************************)
EXTENDS Integers

CONSTANTS
  MaxBlocks,   \* max_blocks: 32 for a Stream
  NoValue      \* a data area nobody has written to

\* With one block lru_cache_put would follow the previous pointer of the only one.
ASSUME MaxBlocksAssumption == MaxBlocks \in Nat \ {0, 1}

Null == -1
Index == 0..(MaxBlocks - 1)

\* lru_cache_init
EmptyCache ==
  [blocks |-> [i \in Index |-> [id |-> 0, data |-> i, next |-> Null, previous |-> Null]],
   head |-> Null,
   tail |-> Null,
   cur  |-> 0,
   mem  |-> [d \in Index |-> NoValue]]

Used(c) == 0..(c.cur - 1)
Full(c) == c.cur = MaxBlocks

-----------------------------------------------------------------------------
\* find_block, on an array in the order of its ids: the index of id, or the
\* index an entry for id belongs at.
Found(c, id) == \E i \in Used(c) : c.blocks[i].id = id
IndexOf(c, id) == CHOOSE i \in Used(c) : c.blocks[i].id = id
InsertionPoint(c, id) ==
  CHOOSE i \in 0..c.cur :
    /\ \A j \in 0..(i - 1) : c.blocks[j].id < id
    /\ \A j \in i..(c.cur - 1) : c.blocks[j].id > id

\* Mutant: a block leaving the end of the usage list is still called its tail.
MoveToHead_KeepsTail(c, i) ==
  LET b == c.blocks[i]
      unlinked == [k \in Index |->
                     [c.blocks[k] EXCEPT
                        !.next = IF k = b.previous THEN b.next ELSE @,
                        !.previous = IF k = b.next THEN b.previous ELSE @]]
  IN  IF i = c.head
      THEN c
      ELSE [c EXCEPT !.blocks = [unlinked EXCEPT ![i].previous = Null,
                                                 ![i].next = c.head,
                                                 ![c.head].previous = i],
                     !.head = i]

\* The block at i becomes the one used last.
MoveToHead(c, i) ==
  LET b == c.blocks[i]
      unlinked == [k \in Index |->
                     [c.blocks[k] EXCEPT
                        !.next = IF k = b.previous THEN b.next ELSE @,
                        !.previous = IF k = b.next THEN b.previous ELSE @]]
  IN  IF i = c.head
      THEN c
      ELSE [c EXCEPT !.blocks = [unlinked EXCEPT ![i].previous = Null,
                                                 ![i].next = c.head,
                                                 ![c.head].previous = i],
                     !.tail = IF i = c.tail THEN b.previous ELSE @,
                     !.head = i]

\* The blocks at the indices `moving' go one place up (d = 1) or down (d = -1),
\* and every pointer to one of them follows it.
Shift(c, moving, d) ==
  LET now(k) == IF k \in moving THEN k + d ELSE k
      before(k) == IF k - d \in moving THEN k - d ELSE k
      moved(b) == [b EXCEPT !.next = now(@), !.previous = now(@)]
  IN  [c EXCEPT !.blocks = [k \in Index |-> moved(c.blocks[before(k)])],
                !.head = now(@),
                !.tail = now(@)]

\* Mutant: the new block writes into the data area the shifted block still owns.
ReplaceTail_SharesData(c, i) ==
  LET new == c.blocks[c.tail].previous
      cut == [c EXCEPT !.blocks[new].next = Null, !.tail = new]
      s == Shift(cut, (c.tail + 1)..i, -1)
  IN  [s EXCEPT !.blocks = [@ EXCEPT ![i].next = s.head,
                                     ![i].previous = Null,
                                     ![s.head].previous = i]]

\* A full cache: the block used longest ago gives up its place in the array
\* and its data area to the new one at i.
ReplaceTail(c, i) ==
  LET new == c.blocks[c.tail].previous
      cut == [c EXCEPT !.blocks[new].next = Null, !.tail = new]
      s == Shift(cut, (c.tail + 1)..i, -1)
  IN  [s EXCEPT !.blocks = [@ EXCEPT ![i].data = c.blocks[c.tail].data,
                                     ![i].next = s.head,
                                     ![i].previous = Null,
                                     ![s.head].previous = i]]

\* A cache with room: the new block at i takes the first unused data area.
\* Its previous pointer keeps what the array held there.
UseFreeBlock(c, i) ==
  LET s == Shift(c, i..(c.cur - 1), 1)
  IN  IF c.cur = 0
      THEN [c EXCEPT !.tail = i, !.cur = 1]
      ELSE [s EXCEPT !.blocks = [@ EXCEPT ![i].data = c.blocks[c.cur].data,
                                          ![i].next = s.head,
                                          ![s.head].previous = i],
                     !.cur = @ + 1]

\* The block at i is the one used last and holds v under id.
Fill(c, i, id, v) ==
  [c EXCEPT !.head = i, !.blocks[i].id = id, !.mem[c.blocks[i].data] = v]

PutIndex(c, id) ==
  LET i == InsertionPoint(c, id)
  IN  IF i = MaxBlocks THEN MaxBlocks - 1 ELSE i

-----------------------------------------------------------------------------
\* lru_cache_get: the entry's index, or Null, and the cache it leaves behind.
GetEntry(c, id) == IF Found(c, id) THEN IndexOf(c, id) ELSE Null
AfterGet(c, id) == IF Found(c, id) THEN MoveToHead(c, IndexOf(c, id)) ELSE c

\* lru_cache_put
AfterPut(c, id, v) ==
  LET i == PutIndex(c, id)
      slot == IF Full(c) THEN ReplaceTail(c, i) ELSE UseFreeBlock(c, i)
  IN  IF Found(c, id)
      THEN Fill(MoveToHead(c, IndexOf(c, id)), IndexOf(c, id), id, v)
      ELSE Fill(slot, i, id, v)

\* lru_cache_first and lru_cache_last
First(c) == IF c.cur > 0 THEN 0 ELSE Null
Last(c) == IF c.cur > 0 THEN c.cur - 1 ELSE Null

\* lru_cache_free: the lowest data area of the used blocks is taken for the one
\* allocation they were all cut from.
FreedArea(c) ==
  LET areas == {c.blocks[0].data} \cup {c.blocks[i].data : i \in Used(c)}
  IN  CHOOSE d \in areas : \A e \in areas : d <= e
=============================================================================
