------------------------------ MODULE LruLoops ------------------------------
(***************************************************************************)
(* The two loops of lru_cache.c, step by step: the binary search of        *)
(* find_block and the shifts of lru_cache_put, which move one block at a   *)
(* time and mend the pointers to it before the next one moves.  LruStore   *)
(* states what they compute; here that is checked, in every cache a client *)
(* that appends can build, for every id it or any other client might use.  *)
(***************************************************************************)
EXTENDS LruCache

\* Mutant: the upper half of the array keeps the block just compared.
BinarySearch_KeepsMid(c, id) ==
  LET search[part \in (0..c.cur) \X (-1..(c.cur - 1))] ==
        LET low == part[1]
            high == part[2]
            mid == (low + high) \div 2
        IN  IF low >= high THEN -low - 1
            ELSE IF c.blocks[mid].id < id THEN search[<<mid + 1, high>>]
            ELSE IF c.blocks[mid].id > id THEN search[<<low, mid - 1>>]
            ELSE mid
  IN  search[<<0, c.cur - 1>>]

\* find_block: an index, or -(insertion point) - 1.
BinarySearch(c, id) ==
  LET search[part \in (0..c.cur) \X (-1..(c.cur - 1))] ==
        LET low == part[1]
            high == part[2]
            mid == (low + high) \div 2
        IN  IF low > high THEN -low - 1
            ELSE IF c.blocks[mid].id < id THEN search[<<mid + 1, high>>]
            ELSE IF c.blocks[mid].id > id THEN search[<<low, mid - 1>>]
            ELSE mid
  IN  search[<<0, c.cur - 1>>]

\* Mutant: the successor of the moved block is not told.
MoveBlock_ForgetsNext(c, to, from) ==
  LET b == c.blocks[from]
      moved == [c.blocks EXCEPT ![to] = b]
      told == IF b.previous = Null THEN moved ELSE [moved EXCEPT ![b.previous].next = to]
      follow(p) == IF p = from THEN to ELSE p
  IN  [c EXCEPT !.blocks = told, !.head = follow(@), !.tail = follow(@)]

\* One iteration: the block moves, its neighbours, head and tail are told.
MoveBlock(c, to, from) ==
  LET b == c.blocks[from]
      moved == [c.blocks EXCEPT ![to] = b]
      told == IF b.previous = Null THEN moved ELSE [moved EXCEPT ![b.previous].next = to]
      follow(p) == IF p = from THEN to ELSE p
  IN  [c EXCEPT !.blocks = IF told[to].next = Null THEN told
                           ELSE [told EXCEPT ![told[to].next].previous = to],
                !.head = follow(@),
                !.tail = follow(@)]

\* while (j < i): j from the evicted block up to i.
ShiftDown(c, j, i) ==
  LET after[k \in j..i] == IF k = j THEN c ELSE MoveBlock(after[k - 1], k - 1, k)
  IN  IF j < i THEN after[i] ELSE c

\* while (j > i): j from the first unused block down to i.
ShiftUp(c, j, i) ==
  LET after[k \in i..j] == IF k = j THEN c ELSE MoveBlock(after[k + 1], k + 1, k)
  IN  IF j > i THEN after[i] ELSE c

\* What find_block returns, of an array in the order of its ids.
SearchFindsThePlace ==
  \A id \in Ids :
    BinarySearch(cache, id) = IF Found(cache, id) THEN IndexOf(cache, id)
                              ELSE -InsertionPoint(cache, id) - 1

\* What moving block by block leaves of the links.
ShiftsAgree ==
  /\ Full(cache) => \A i \in Index, j \in Index :
       (j < i /\ j = cache.tail) =>
         LET new == cache.blocks[j].previous
             cut == [cache EXCEPT !.blocks[new].next = Null, !.tail = new]
         IN  ShiftDown(cut, j, i) = Shift(cut, (j + 1)..i, -1)
  /\ ~Full(cache) => \A i \in 0..cache.cur :
       ShiftUp(cache, cache.cur, i) = Shift(cache, i..(cache.cur - 1), 1)

\* The loops compute what LruStore says: the search neither misses an entry nor names a
\* wrong place for a new one, and the blocks moved one at a time are linked as if all
\* moved at once, also where two neighbours of the usage list are both on the move.
LoopsAgree == SearchFindsThePlace /\ ShiftsAgree
=============================================================================
