---------------------------- MODULE WindowProofs ----------------------------
(***************************************************************************)
(* Theorems about the encoder of WindowCodec, for every text, source,      *)
(* matcher and window, and for instruction buffers of every size that the  *)
(* code's own assertions allow.                                            *)
(***************************************************************************)
EXTENDS WindowCodec, WellFoundedInduction, SequenceTheorems, TLAPS

-----------------------------------------------------------------------------
(* Induction: a property of every number, as the set of those that have it. *)

\* A nonempty set of natural numbers has a smallest one.
LEMMA NatMin ==
  ASSUME NEW T, T \subseteq Nat, T # {}
  PROVE  \E x \in T : \A y \in T : x <= y
<1> DEFINE Less == {p \in Nat \X Nat : p[1] < p[2]}
<1>1. OpToRel(<, Nat) = Less
  BY DEF OpToRel
<1>2. PICK x \in T : \A y \in T : ~ (<<y, x>> \in Less)
  <2>1. IsWellFoundedOn(Less, Nat)
    BY <1>1, NatLessThanWellFounded
  <2> HIDE DEF Less
  <2> QED BY <2>1, WFMin
<1>3. ASSUME NEW y \in T
      PROVE  x <= y
  <2>1. x \in Nat /\ y \in Nat /\ <<y, x>> \in Nat \X Nat
    OBVIOUS
  <2> QED BY <1>2, <2>1
<1> QED BY <1>3

\* A set of numbers that holds 0 and the successor of each of its elements is all.
LEMMA NatInduct ==
  ASSUME NEW T, 0 \in T, \A n \in Nat : n \in T => n + 1 \in T
  PROVE  \A n \in Nat : n \in T
<1> DEFINE Others == {n \in Nat : n \notin T}
<1>1. SUFFICES ASSUME Others # {}
               PROVE  FALSE
  OBVIOUS
<1>2. PICK x \in Others : \A y \in Others : x <= y
  BY <1>1, NatMin
<1>3. x - 1 \in Nat /\ x - 1 \notin Others
  BY <1>2
<1> QED
  BY <1>2, <1>3

-----------------------------------------------------------------------------
(* The greatest and the least of a few numbers, and of the numbers of a range. *)

LEMMA MaxTwo ==
  ASSUME NEW a \in Int, NEW b \in Int
  PROVE  Max({a, b}) = IF a >= b THEN a ELSE b
<1> DEFINE m == IF a >= b THEN a ELSE b
<1>1. m \in {a, b} /\ \A y \in {a, b} : m >= y
  OBVIOUS
<1>2. \A x \in {a, b} : (\A y \in {a, b} : x >= y) => x = m
  OBVIOUS
<1> HIDE DEF m
<1> QED
  BY <1>1, <1>2 DEF Max, m

LEMMA MinTwo ==
  ASSUME NEW a \in Int, NEW b \in Int
  PROVE  Min({a, b}) = IF a <= b THEN a ELSE b
<1> DEFINE m == IF a <= b THEN a ELSE b
<1>1. m \in {a, b} /\ \A y \in {a, b} : m <= y
  OBVIOUS
<1>2. \A x \in {a, b} : (\A y \in {a, b} : x <= y) => x = m
  OBVIOUS
<1> HIDE DEF m
<1> QED
  BY <1>1, <1>2 DEF Min, m

LEMMA MinThree ==
  ASSUME NEW a \in Int, NEW b \in Int, NEW c \in Int
  PROVE  Min({a, b, c}) \in {a, b, c} /\ \A y \in {a, b, c} : Min({a, b, c}) <= y
<1>1. \E x \in {a, b, c} : \A y \in {a, b, c} : x <= y
  OBVIOUS
<1> QED
  BY <1>1 DEF Min

\* A set of numbers with an upper bound has a greatest element.
LEMMA MaxBounded ==
  ASSUME NEW T, T \subseteq Int, T # {}, NEW b \in Int, \A x \in T : x <= b
  PROVE  Max(T) \in T /\ \A y \in T : Max(T) >= y
<1> DEFINE U == {n \in Nat : b - n \in T}
<1>1. ASSUME NEW x \in T
      PROVE  b - x \in U /\ x \in Int
  <2>1. x \in Int /\ b - x \in Nat /\ b - (b - x) = x
    OBVIOUS
  <2> QED
    BY <2>1
<1>2. PICK u \in U : \A y \in U : u <= y
  <2>1. U \subseteq Nat /\ U # {}
    BY <1>1
  <2> HIDE DEF U
  <2> QED BY <2>1, NatMin
<1>3. b - u \in T /\ u \in Nat
  BY <1>2
<1>4. ASSUME NEW y \in T
      PROVE  b - u >= y
  BY <1>1, <1>2, <1>3
<1>5. \E x \in T : \A y \in T : x >= y
  BY <1>3, <1>4
<1> HIDE DEF U
<1> QED
  BY <1>5 DEF Max

\* And one with a lower bound has a least element.
LEMMA MinBounded ==
  ASSUME NEW T, T \subseteq Int, T # {}, NEW b \in Int, \A x \in T : x >= b
  PROVE  Min(T) \in T /\ \A y \in T : Min(T) <= y
<1> DEFINE U == {n \in Nat : b + n \in T}
<1>1. ASSUME NEW x \in T
      PROVE  x - b \in U /\ x \in Int
  <2>1. x \in Int /\ x - b \in Nat /\ b + (x - b) = x
    OBVIOUS
  <2> QED
    BY <2>1
<1>2. PICK u \in U : \A y \in U : u <= y
  <2>1. U \subseteq Nat /\ U # {}
    BY <1>1
  <2> HIDE DEF U
  <2> QED BY <2>1, NatMin
<1>3. b + u \in T /\ u \in Nat
  BY <1>2
<1>4. ASSUME NEW y \in T
      PROVE  b + u <= y
  BY <1>1, <1>2, <1>3
<1>5. \E x \in T : \A y \in T : x <= y
  BY <1>3, <1>4
<1> HIDE DEF U
<1> QED
  BY <1>5 DEF Min

-----------------------------------------------------------------------------
(* What an operator leaves alone: the fields of the encoder other than F. *)

Names ==
  {"source", "blksize", "capacity", "blocks", "curblkno", "eof_known", "max_blkno",
   "onlastblk", "win", "inp", "total_in", "min_match", "instr", "error", "cfg", "off",
   "used", "iout", "iopt_size", "free", "unlimited", "elts", "acache", "data", "inst",
   "addr", "has_src", "max_winsize", "decided", "srcbase", "srclen", "minaddr",
   "maxaddr", "maxsrcaddr", "cksum_pos", "match_state", "match_srcpos", "last_srcpos",
   "back", "fwd", "maxback", "maxfwd", "large", "small", "prev", "sprevsz",
   "small_reset", "run_l", "run_c", "lck", "next_move"}

OnlyChanges(s, t, F) == DOMAIN t = DOMAIN s /\ \A x \in DOMAIN s \ F : t[x] = s[x]

LEMMA ChangesTwice ==
  ASSUME NEW s, NEW t, NEW u, NEW F, NEW G, NEW H, F \subseteq H, G \subseteq H,
         OnlyChanges(s, t, F), OnlyChanges(t, u, G)
  PROVE  OnlyChanges(s, u, H)
  BY DEF OnlyChanges

LEMMA ChangesNothing ==
  ASSUME NEW s, NEW F
  PROVE  OnlyChanges(s, s, F)
  BY DEF OnlyChanges

SourceFields == {"blocks", "curblkno", "max_blkno", "eof_known", "onlastblk"}
BackFields == SourceFields \cup {"back", "match_state"}
ForwardFields == SourceFields \cup {"fwd"}
SetupFields == {"back", "fwd", "last_srcpos", "match_srcpos", "match_state", "maxback", "maxfwd"}
ExtendFields == SourceFields \cup {"back", "match_state", "fwd"}
MoveFields == SourceFields \cup {"cksum_pos", "next_move", "large", "error"}
CodeFields == {"off", "decided", "srcbase", "srclen", "acache", "addr", "data", "inst", "iout", "free"}
SlotFields == CodeFields \cup {"used", "iopt_size"}
TakeFields ==
  SlotFields \cup {"back", "minaddr", "maxaddr", "maxsrcaddr", "match_state", "match_srcpos"}

LEMMA GetblkChanges ==
  ASSUME NEW s, NEW b
  PROVE  OnlyChanges(s, Getblk(s, b).s, SourceFields)
  BY DEF OnlyChanges, Getblk, SourceFields

LEMMA SetupChanges ==
  ASSUME NEW s, NEW p
  PROVE  OnlyChanges(s, SourceMatchSetup(s, p), SetupFields)
  BY DEF OnlyChanges, SourceMatchSetup, SetupFields

LEMMA BackOneChanges ==
  ASSUME NEW s
  PROVE  OnlyChanges(s, BackOne(s), BackFields)
<1> DEFINE g == Getblk(s, (s.match_srcpos - s.back - 1) \div s.blksize)
<1>1. OnlyChanges(s, g.s, SourceFields)
  BY GetblkChanges
<1> HIDE DEF g
<1>2. BackOne(s) \in {s, [s EXCEPT !.match_state = "forward"], [s EXCEPT !.match_state = "searching"],
                      [g.s EXCEPT !.match_state = "forward"], [g.s EXCEPT !.back = @ + 1]}
  BY DEF BackOne, g
<1> QED
  BY <1>1, <1>2 DEF OnlyChanges, BackFields

LEMMA ForwardOneChanges ==
  ASSUME NEW s
  PROVE  OnlyChanges(s, ForwardOne(s), ForwardFields)
<1> DEFINE g == Getblk(s, (s.match_srcpos + s.fwd) \div s.blksize)
<1>1. OnlyChanges(s, g.s, SourceFields)
  BY GetblkChanges
<1> HIDE DEF g
<1>2. ForwardOne(s) \in {s, g.s, [g.s EXCEPT !.fwd = @ + 1]}
  BY DEF ForwardOne, g
<1> QED
  BY <1>1, <1>2 DEF OnlyChanges, ForwardFields

LEMMA IndexBlockChanges ==
  ASSUME NEW s, NEW target
  PROVE  OnlyChanges(s, IndexBlock(s, target), MoveFields)
<1> DEFINE b == s.cksum_pos \div s.blksize
           g == Getblk(s, b)
           t(l) == [g.s EXCEPT !.large = l, !.cksum_pos = (b + 1) * s.blksize]
<1>1. OnlyChanges(s, g.s, SourceFields)
  BY GetblkChanges
<1>2. \/ IndexBlock(s, target) \in {s, [s EXCEPT !.error = TRUE]}
      \/ \E l : IndexBlock(s, target) = t(l)
  BY DEF IndexBlock
<1> HIDE DEF g, b
<1> QED
  BY <1>1, <1>2 DEF OnlyChanges, MoveFields

-----------------------------------------------------------------------------
(* The loops of the encoder: each round is a value of a function. *)

\* What Compact, LongestOf and Lcksum begin with, and the byte the sums of Lcksum take in.
NonePassed(used) == [done |-> <<>>, todo |-> used]
NoneYet(base) == [best |-> [length |-> 0, offset |-> 0], base |-> base, done |-> FALSE]
NoSums == [low |-> 0, high |-> 0]
AddByte(c, x) == [low |-> c.low + x, high |-> c.high + c.low + x]

\* A round of a loop: t is what the rounds before it left, k its number.
Round(loop, t, k, x) ==
  IF loop = "index" THEN IndexBlock(t, x)
  ELSE IF loop = "back" THEN BackOne(t)
  ELSE IF loop = "forward" THEN ForwardOne(t)
  ELSE IF loop = "encode" THEN AddEncoding(t, x[k])
  ELSE IF loop = "compact" THEN Resolve(t, x)
  ELSE IF loop = "longest" THEN LookAt(x, t)
  ELSE AddByte(t, x[k])

\* n rounds of a loop from s.
RoundsAre(f, loop, s, x, n) ==
  f = [k \in 0..n |-> IF k = 0 THEN s ELSE Round(loop, f[k - 1], k, x)]

LEMMA RoundsExist ==
  ASSUME NEW loop, NEW s, NEW x
  PROVE  \A n \in Nat : \E f : RoundsAre(f, loop, s, x, n)
<1> DEFINE T == {n \in Nat : \E f : RoundsAre(f, loop, s, x, n)}
<1>1. 0 \in T
  <2>1. RoundsAre([k \in 0..0 |-> s], loop, s, x, 0)
    BY DEF RoundsAre
  <2> QED BY <2>1
<1>2. ASSUME NEW n \in Nat, n \in T
      PROVE  n + 1 \in T
  <2>1. PICK f : RoundsAre(f, loop, s, x, n)
    BY <1>2
  <2> DEFINE g == [k \in 0..(n + 1) |-> IF k = 0 THEN s ELSE Round(loop, f[k - 1], k, x)]
  <2>2. ASSUME NEW k \in 0..n
        PROVE  g[k] = f[k]
    BY <2>1 DEF RoundsAre
  <2>3. ASSUME NEW k \in 0..(n + 1), k # 0
        PROVE  k - 1 \in 0..n /\ g[k - 1] = f[k - 1]
    <3> HIDE DEF g
    <3>1. k - 1 \in 0..n
      BY <2>3
    <3> QED BY <2>2, <3>1
  <2>4. RoundsAre(g, loop, s, x, n + 1)
    BY <2>3 DEF RoundsAre
  <2> QED BY <2>4
<1> HIDE DEF T
<1>3. \A n \in Nat : n \in T
  BY <1>1, <1>2, NatInduct
<1> QED
  BY <1>3 DEF T

LEMMA RoundsFollow ==
  ASSUME NEW f, NEW loop, NEW s, NEW x, NEW n \in Nat, RoundsAre(f, loop, s, x, n)
  PROVE  f[0] = s /\ \A k \in Nat : k < n => f[k + 1] = Round(loop, f[k], k + 1, x)
<1>1. f[0] = s
  BY DEF RoundsAre
<1>2. ASSUME NEW k \in Nat, k < n
      PROVE  f[k + 1] = Round(loop, f[k], k + 1, x)
  <2>1. k + 1 \in 0..n /\ k + 1 # 0 /\ (k + 1) - 1 = k
    BY <1>2
  <2> QED BY <2>1 DEF RoundsAre
<1> QED
  BY <1>1, <1>2

IndexIs(f, s, target, n) ==
  f = [k \in 0..n |-> IF k = 0 THEN s ELSE LET t == f[k - 1] IN IndexBlock(t, target)]

\* Index as the last of its rounds.
LEMMA IndexByRounds ==
  ASSUME NEW s, NEW target, target \div s.blksize + 1 \in Nat
  PROVE  \E f : /\ f[0] = s /\ Index(s, target) = f[target \div s.blksize + 1]
                /\ \A k \in Nat : k < target \div s.blksize + 1 => f[k + 1] = IndexBlock(f[k], target)
<1> DEFINE n == target \div s.blksize + 1
           f == CHOOSE f : IndexIs(f, s, target, n)
<1>1. Index(s, target) = f[n]
  BY DEF Index, IndexIs
<1>2. \A g : IndexIs(g, s, target, n) <=> RoundsAre(g, "index", s, target, n)
  BY DEF IndexIs, RoundsAre, Round
<1>3. IndexIs(f, s, target, n)
  BY <1>2, RoundsExist
<1> HIDE DEF f
<1>4. f[0] = s /\ \A k \in Nat : k < n => f[k + 1] = Round("index", f[k], k + 1, target)
  BY <1>2, <1>3, RoundsFollow
<1> QED
  BY <1>1, <1>4 DEF Round

BackIs(f, s, n) ==
  f = [k \in 0..n |-> IF k = 0 THEN s ELSE LET t == f[k - 1] IN BackOne(t)]

LEMMA BackByRounds ==
  ASSUME NEW s, s.maxback + 1 \in Nat
  PROVE  \E f : /\ f[0] = s /\ ExtendBack(s) = f[s.maxback + 1]
                /\ \A k \in Nat : k < s.maxback + 1 => f[k + 1] = BackOne(f[k])
<1> DEFINE n == s.maxback + 1
           f == CHOOSE f : BackIs(f, s, n)
<1>1. ExtendBack(s) = f[n]
  BY DEF ExtendBack, BackIs
<1>2. \A g : BackIs(g, s, n) <=> RoundsAre(g, "back", s, 0, n)
  BY DEF BackIs, RoundsAre, Round
<1>3. BackIs(f, s, n)
  BY <1>2, RoundsExist
<1> HIDE DEF f
<1>4. f[0] = s /\ \A k \in Nat : k < n => f[k + 1] = Round("back", f[k], k + 1, 0)
  BY <1>2, <1>3, RoundsFollow
<1> QED
  BY <1>1, <1>4 DEF Round

ForwardIs(f, s, n) ==
  f = [k \in 0..n |-> IF k = 0 THEN s ELSE LET t == f[k - 1] IN ForwardOne(t)]

LEMMA ForwardByRounds ==
  ASSUME NEW s, AvailIn(s) - s.inp \in Nat
  PROVE  \E f : /\ f[0] = s /\ ExtendForward(s) = f[AvailIn(s) - s.inp]
                /\ \A k \in Nat : k < AvailIn(s) - s.inp => f[k + 1] = ForwardOne(f[k])
<1> DEFINE n == AvailIn(s) - s.inp
           f == CHOOSE f : ForwardIs(f, s, n)
<1>1. ExtendForward(s) = f[n]
  BY DEF ExtendForward, ForwardIs
<1>2. \A g : ForwardIs(g, s, n) <=> RoundsAre(g, "forward", s, 0, n)
  BY DEF ForwardIs, RoundsAre, Round
<1>3. ForwardIs(f, s, n)
  BY <1>2, RoundsExist
<1> HIDE DEF f
<1>4. f[0] = s /\ \A k \in Nat : k < n => f[k + 1] = Round("forward", f[k], k + 1, 0)
  BY <1>2, <1>3, RoundsFollow
<1> QED
  BY <1>1, <1>4 DEF Round

EncodeIs(f, s, kept, n) ==
  f = [k \in 0..n |-> IF k = 0 THEN s ELSE LET t == f[k - 1] IN AddEncoding(t, kept[k])]

LEMMA EncodeByRounds ==
  ASSUME NEW s, NEW kept, NEW n \in Nat
  PROVE  \E f : /\ f[0] = s /\ EncodeFirst(s, kept, n) = f[n]
                /\ \A k \in Nat : k < n => f[k + 1] = AddEncoding(f[k], kept[k + 1])
<1> DEFINE f == CHOOSE f : EncodeIs(f, s, kept, n)
<1>1. EncodeFirst(s, kept, n) = f[n]
  BY DEF EncodeFirst, EncodeIs
<1>2. \A g : EncodeIs(g, s, kept, n) <=> RoundsAre(g, "encode", s, kept, n)
  BY DEF EncodeIs, RoundsAre, Round
<1>3. EncodeIs(f, s, kept, n)
  BY <1>2, RoundsExist
<1> HIDE DEF f
<1>4. f[0] = s /\ \A k \in Nat : k < n => f[k + 1] = Round("encode", f[k], k + 1, kept)
  BY <1>2, <1>3, RoundsFollow
<1> QED
  BY <1>1, <1>4 DEF Round

CompactIs(f, used, force, n) ==
  f = [k \in 0..n |-> IF k = 0 THEN NonePassed(used) ELSE LET c == f[k - 1] IN Resolve(c, force)]

LEMMA CompactByRounds ==
  ASSUME NEW used, NEW force, Len(used) \in Nat
  PROVE  \E f : /\ f[0] = NonePassed(used)
                /\ Compact(used, force) = f[Len(used)].done \o f[Len(used)].todo
                /\ \A k \in Nat : k < Len(used) => f[k + 1] = Resolve(f[k], force)
<1> DEFINE n == Len(used)
           f == CHOOSE f : CompactIs(f, used, force, n)
<1>1. Compact(used, force) = f[n].done \o f[n].todo
  BY DEF Compact, CompactIs, NonePassed
<1>2. \A g : CompactIs(g, used, force, n) <=> RoundsAre(g, "compact", NonePassed(used), force, n)
  BY DEF CompactIs, RoundsAre, Round
<1>3. CompactIs(f, used, force, n)
  BY <1>2, RoundsExist
<1> HIDE DEF f
<1>4. f[0] = NonePassed(used) /\ \A k \in Nat : k < n => f[k + 1] = Round("compact", f[k], k + 1, force)
  BY <1>2, <1>3, RoundsFollow
<1> QED
  BY <1>1, <1>4 DEF Round

LongestIs(f, s, base, n) ==
  f = [k \in 0..n |-> IF k = 0 THEN NoneYet(base) ELSE LET c == f[k - 1] IN LookAt(s, c)]

LEMMA LongestByRounds ==
  ASSUME NEW s, NEW base, NEW n \in Nat
  PROVE  \E f : /\ f[0] = NoneYet(base) /\ LongestOf(s, base, n) = f[n].best
                /\ \A k \in Nat : k < n => f[k + 1] = LookAt(s, f[k])
<1> DEFINE f == CHOOSE f : LongestIs(f, s, base, n)
<1>1. LongestOf(s, base, n) = f[n].best
  BY DEF LongestOf, LongestIs, NoneYet
<1>2. \A g : LongestIs(g, s, base, n) <=> RoundsAre(g, "longest", NoneYet(base), s, n)
  BY DEF LongestIs, RoundsAre, Round
<1>3. LongestIs(f, s, base, n)
  BY <1>2, RoundsExist
<1> HIDE DEF f
<1>4. f[0] = NoneYet(base) /\ \A k \in Nat : k < n => f[k + 1] = Round("longest", f[k], k + 1, s)
  BY <1>2, <1>3, RoundsFollow
<1> QED
  BY <1>1, <1>4 DEF Round

LcksumIs(f, b, n) ==
  f = [k \in 0..n |-> IF k = 0 THEN NoSums ELSE LET c == f[k - 1] IN AddByte(c, b[k])]

LEMMA LcksumByRounds ==
  ASSUME NEW b, Len(b) \in Nat
  PROVE  \E f : /\ f[0] = NoSums
                /\ Lcksum(b) = [low |-> f[Len(b)].low % CkMod, high |-> f[Len(b)].high % CkMod]
                /\ \A k \in Nat : k < Len(b) => f[k + 1] = AddByte(f[k], b[k + 1])
<1> DEFINE n == Len(b)
           f == CHOOSE f : LcksumIs(f, b, n)
<1>1. Lcksum(b) = [low |-> f[n].low % CkMod, high |-> f[n].high % CkMod]
  BY DEF Lcksum, LcksumIs, NoSums, AddByte
<1>2. \A g : LcksumIs(g, b, n) <=> RoundsAre(g, "lcksum", NoSums, b, n)
  BY DEF LcksumIs, RoundsAre, Round
<1>3. LcksumIs(f, b, n)
  BY <1>2, RoundsExist
<1> HIDE DEF f
<1>4. f[0] = NoSums /\ \A k \in Nat : k < n => f[k + 1] = Round("lcksum", f[k], k + 1, b)
  BY <1>2, <1>3, RoundsFollow
<1> QED
  BY <1>1, <1>4 DEF Round

-----------------------------------------------------------------------------
(* The invariant of the encoder, in parts. *)

\* What the search reads and the buffer leaves alone.
Base(s) ==
  /\ Names \subseteq DOMAIN s
  /\ s.win \in Seq(Nat) /\ s.source \in Seq(Nat) /\ s.cfg \in Matchers /\ s.has_src \in BOOLEAN
  /\ s.blksize = BlkSize /\ s.max_winsize = BlkSize * MaxBlocks
  /\ s.inp \in Nat /\ s.inp <= Len(s.win) /\ s.total_in \in Nat
  /\ s.min_match \in Nat /\ s.min_match >= MIN_MATCH

\* What is known of the source's end: nothing, all of it, or, where the source is shorter
\* than its first block, a block too much, as xd3_getblk learns it from the block after.
UnknownEnd(size, max, ck) ==
  (max = 0 \/ (max + 1) * BlkSize <= size) /\ (ck <= size \/ ck <= BlkSize)
KnownEnd(size, max, last, ck) ==
  \/ max = size \div BlkSize /\ last = size % BlkSize
  \/ max = 1 /\ last = 0 /\ size < BlkSize /\ ck >= BlkSize

SourceKnown(s) ==
  /\ s.max_blkno \in Nat /\ s.onlastblk \in Nat /\ s.cksum_pos \in Nat
  /\ \/ s.eof_known = TRUE /\ KnownEnd(Len(s.source), s.max_blkno, s.onlastblk, s.cksum_pos)
     \/ s.eof_known = FALSE /\ UnknownEnd(Len(s.source), s.max_blkno, s.cksum_pos)

\* The source positions that matches start from.
SourcePositions(s) ==
  /\ s.large \in [0..(LargeSlots - 1) -> 0..(Len(s.source) + 1)]
  /\ s.maxsrcaddr \in 0..Len(s.source) /\ s.match_srcpos \in 0..Len(s.source)

SourceOK(s) == SourceKnown(s) /\ SourcePositions(s)

-----------------------------------------------------------------------------
(* What is known of the source. *)

LEMMA ConstantFacts ==
  /\ BlkSize \in Nat /\ BlkSize > 0 /\ MaxBlocks \in Nat /\ MaxBlocks > 0
  /\ SprevSize \in Nat /\ SprevSize > 0 /\ IoptElts \in Nat /\ IoptElts > 0
  /\ LargeSlots \in Nat /\ LargeSlots > 0 /\ SmallSlots \in Nat /\ SmallSlots > 0
  /\ CkMod \in Nat /\ CkMod > 0 /\ WinSize \in Nat /\ WinSize > 0
  BY SizesAssumption, TablesAssumption

LEMMA MatcherFacts ==
  ASSUME NEW c \in Matchers
  PROVE  /\ c.llook \in Nat /\ c.llook > 0 /\ c.lstep \in Nat /\ c.lstep > 0
         /\ c.schain \in Nat /\ c.schain > 0 /\ c.slchain \in Nat /\ c.slchain > 0
         /\ c.maxlazy \in Nat /\ c.long_enough \in Nat
  BY MatchersAssumption

LEMMA Division ==
  ASSUME NEW a \in Int, NEW b \in Nat \ {0}
  PROVE  /\ a \div b \in Int
         /\ a % b \in 0..(b - 1)
         /\ a = (a \div b) * b + (a % b)
  OBVIOUS

\* A product grows with its first factor.
LEMMA ProductGrows ==
  ASSUME NEW a \in Nat, NEW b \in Nat, NEW c \in Nat, a <= b
  PROVE  a * c <= b * c /\ a * c \in Nat /\ b * c \in Nat
<1>1. PICK k \in Nat : b = a + k
  <2>1. b - a \in Nat /\ b = a + (b - a)
    OBVIOUS
  <2> QED BY <2>1
<1>2. b * c = a * c + k * c /\ k * c \in Nat /\ a * c \in Nat
  BY <1>1
<1> QED
  BY <1>2

\* Quotient and remainder are unique.
LEMMA DivUnique ==
  ASSUME NEW a \in Int, NEW b \in Nat \ {0}, NEW q \in Int, NEW r \in 0..(b - 1), a = q * b + r
  PROVE  a \div b = q /\ a % b = r
<1> DEFINE p == a \div b
           m == a % b
<1>1. p \in Int /\ m \in 0..(b - 1) /\ a = p * b + m
  BY Division
<1> HIDE DEF p, m
<1> DEFINE k == p - q
<1>2. k \in Int /\ p = q + k /\ k * b = r - m
  <2>1. p = q + k
    BY <1>1
  <2>2. k \in Int
    BY <1>1
  <2> HIDE DEF k
  <2>3. p * b = q * b + k * b
    BY <2>1, <2>2
  <2>4. q * b \in Int /\ k * b \in Int /\ p * b \in Int
    BY <1>1, <2>2
  <2> QED BY <1>1, <2>1, <2>2, <2>3, <2>4
<1> HIDE DEF k
<1>3. k = 0
  <2>1. ASSUME k >= 1
        PROVE  FALSE
    <3>1. k * b >= b
      BY <1>2, <2>1
    <3> QED BY <1>1, <1>2, <3>1
  <2>2. ASSUME k <= 0 - 1
        PROVE  FALSE
    <3>1. k * b <= 0 - b
      BY <1>2, <2>2
    <3> QED BY <1>1, <1>2, <3>1
  <2> QED BY <1>2, <2>1, <2>2
<1>4. p = q /\ m = r
  BY <1>1, <1>2, <1>3
<1> QED
  BY <1>4 DEF p, m

\* How much of the source a block has.
LEMMA OnBlkFacts ==
  ASSUME NEW s, s.blksize = BlkSize, Len(s.source) \in Nat, NEW b \in Nat
  PROVE  /\ OnBlk(s, b) \in Nat /\ OnBlk(s, b) <= BlkSize
         /\ OnBlk(s, b) = BlkSize => (b + 1) * BlkSize <= Len(s.source)
         /\ OnBlk(s, b) > 0 => b * BlkSize + OnBlk(s, b) <= Len(s.source)
         /\ b * BlkSize <= Len(s.source) /\ OnBlk(s, b) # BlkSize
              => b = Len(s.source) \div BlkSize /\ OnBlk(s, b) = Len(s.source) % BlkSize
<1> DEFINE x == b * BlkSize
           y == Len(s.source) - x
           m == Min({BlkSize, y})
<1>1. BlkSize \in Nat /\ BlkSize > 0 /\ x \in Nat /\ (b + 1) * BlkSize = x + BlkSize /\ Len(s.source) \in Nat
  BY ConstantFacts
<1>2. OnBlk(s, b) = Max({0, m})
  BY DEF OnBlk
<1> HIDE DEF x
<1>3. m = IF BlkSize <= y THEN BlkSize ELSE y
  BY <1>1, MinTwo
<1>4. m \in Int
  BY <1>1, <1>3
<1> HIDE DEF m
<1>5. OnBlk(s, b) = IF 0 >= m THEN 0 ELSE m
  BY <1>2, <1>4, MaxTwo
<1>6. ASSUME x <= Len(s.source), OnBlk(s, b) # BlkSize
      PROVE  b = Len(s.source) \div BlkSize /\ OnBlk(s, b) = Len(s.source) % BlkSize
  <2>1. OnBlk(s, b) = y /\ y \in Nat /\ y < BlkSize
    BY <1>1, <1>3, <1>5, <1>6
  <2>2. Len(s.source) = b * BlkSize + y
    BY <1>1, <2>1 DEF x
  <2> HIDE DEF y
  <2>3. Len(s.source) \div BlkSize = b /\ Len(s.source) % BlkSize = y
    <3>1. BlkSize \in Nat \ {0} /\ y \in 0..(BlkSize - 1) /\ Len(s.source) \in Int /\ b \in Int
      BY <1>1, <2>1
    <3> QED BY <2>2, <3>1, DivUnique
  <2> QED BY <2>1, <2>3
<1>7. /\ OnBlk(s, b) \in Nat /\ OnBlk(s, b) <= BlkSize
      /\ OnBlk(s, b) = BlkSize => x + BlkSize <= Len(s.source)
      /\ OnBlk(s, b) > 0 => x + OnBlk(s, b) <= Len(s.source)
  BY <1>1, <1>3, <1>5
<1> QED
  BY <1>1, <1>6, <1>7 DEF x

\* What xd3_getblk learns.
LEMMA GetblkFields ==
  ASSUME NEW s, Names \subseteq DOMAIN s, NEW b
  PROVE  LET t == Getblk(s, b).s
         IN  /\ t.source = s.source /\ t.cksum_pos = s.cksum_pos
             /\ t.max_blkno = IF b > s.max_blkno THEN b ELSE s.max_blkno
             /\ t.eof_known = (s.eof_known \/ (b > s.max_blkno /\ OnBlk(s, b) # s.blksize))
             /\ t.onlastblk = IF b >= s.max_blkno THEN OnBlk(s, b) ELSE s.onlastblk
  BY DEF Getblk, Names

\* A block that lies in a source of so many bytes, or begins where it ends.
LEMMA BlockWithin ==
  ASSUME NEW size \in Nat, NEW b \in Nat, b * BlkSize <= size
  PROVE  /\ b <= size \div BlkSize
         /\ b = size \div BlkSize => ~ ((b + 1) * BlkSize <= size)
         /\ size < BlkSize => b = 0
<1> DEFINE q == size \div BlkSize
           r == size % BlkSize
<1>1. BlkSize \in Nat /\ BlkSize > 0 /\ q \in Nat /\ r \in Nat /\ r < BlkSize /\ size = (q * BlkSize) + r
  <2>1. BlkSize \in Nat \ {0} /\ size \in Int
    BY ConstantFacts
  <2>2. q >= 0
    BY <2>1
  <2> QED BY <2>1, <2>2, Division
<1> HIDE DEF q, r
<1>2. (q + 1) * BlkSize = (q * BlkSize) + BlkSize /\ q * BlkSize \in Nat
  BY <1>1
<1>3. ASSUME b >= q + 1
      PROVE  FALSE
  <2>1. (q + 1) * BlkSize <= b * BlkSize /\ b * BlkSize \in Nat
    BY <1>1, <1>3, ProductGrows
  <2> QED BY <1>1, <1>2, <2>1
<1>4. b = q => ~ ((b + 1) * BlkSize <= size)
  BY <1>1, <1>2
<1>5. ASSUME size < BlkSize, b >= 1
      PROVE  FALSE
  <2>1. 1 * BlkSize <= b * BlkSize /\ b * BlkSize \in Nat
    BY <1>1, <1>5, ProductGrows
  <2> QED BY <1>1, <1>5, <2>1
<1>6. b <= q /\ (size < BlkSize => b = 0)
  BY <1>1, <1>3, <1>5
<1> QED
  BY <1>4, <1>6 DEF q

\* Block b is asked for by a match that looks at a byte of it, or at the byte after the
\* source, or by the index of a source that is shorter than its first block.
Asked(size, ck, b) ==
  \/ b * BlkSize <= size
  \/ b = 1 /\ size < BlkSize /\ ck >= BlkSize

\* Block b has v bytes.
Learned(size, b, v) ==
  /\ v = BlkSize => (b + 1) * BlkSize <= size
  /\ v > 0 => b * BlkSize + v <= size
  /\ b * BlkSize <= size /\ v # BlkSize => b = size \div BlkSize /\ v = size % BlkSize

\* The end of the source was not known before.
LEMMA LearnsEnd ==
  ASSUME NEW size \in Nat, NEW max \in Nat, NEW ck \in Nat, UnknownEnd(size, max, ck),
         NEW b \in Nat, Asked(size, ck, b), NEW v \in Nat, Learned(size, b, v)
  PROVE  IF b > max /\ v # BlkSize THEN KnownEnd(size, b, v, ck)
         ELSE UnknownEnd(size, IF b > max THEN b ELSE max, ck)
<1>1. BlkSize \in Nat /\ BlkSize > 0
  BY ConstantFacts
<1>2. CASE b * BlkSize <= size
  BY <1>2 DEF UnknownEnd, KnownEnd, Learned
<1>3. CASE b = 1 /\ size < BlkSize /\ ck >= BlkSize
  <2>1. v = 0
    BY <1>1, <1>3 DEF Learned
  <2>2. max = 0
    <3>1. ASSUME (max + 1) * BlkSize <= size
          PROVE  FALSE
      <4>1. max + 1 = 0
        BY <1>3, <3>1, BlockWithin
      <4> QED BY <4>1
    <3> QED BY <3>1 DEF UnknownEnd
  <2> QED BY <1>1, <1>3, <2>1, <2>2 DEF KnownEnd
<1> QED
  BY <1>2, <1>3 DEF Asked

\* It was known: nothing changes.
LEMMA LearnsNothing ==
  ASSUME NEW size \in Nat, NEW max \in Nat, NEW last \in Nat, NEW ck \in Nat, KnownEnd(size, max, last, ck),
         NEW b \in Nat, Asked(size, ck, b), NEW v \in Nat, Learned(size, b, v)
  PROVE  KnownEnd(size, IF b > max THEN b ELSE max, IF b >= max THEN v ELSE last, ck)
<1>1. BlkSize \in Nat /\ BlkSize > 0
  BY ConstantFacts
<1>2. CASE b * BlkSize <= size
  <2>1. /\ b <= size \div BlkSize
        /\ b = size \div BlkSize => ~ ((b + 1) * BlkSize <= size)
        /\ size < BlkSize => b = 0
    BY <1>2, BlockWithin
  <2>2. CASE max = size \div BlkSize /\ last = size % BlkSize
    <3>1. CASE b = max
      BY <1>2, <2>1, <2>2, <3>1 DEF Learned, KnownEnd
    <3>2. CASE b < max
      BY <2>2, <3>2 DEF KnownEnd
    <3> QED BY <2>1, <2>2, <3>1, <3>2
  <2>3. CASE max = 1 /\ last = 0 /\ size < BlkSize /\ ck >= BlkSize
    BY <2>1, <2>3 DEF KnownEnd
  <2> QED BY <2>2, <2>3 DEF KnownEnd
<1>3. CASE b = 1 /\ size < BlkSize /\ ck >= BlkSize
  <2>1. v = 0
    BY <1>1, <1>3 DEF Learned
  <2>2. size \div BlkSize = 0
    BY <1>1, <1>3, DivUnique
  <2>3. max = 0 \/ max = 1
    BY <2>2 DEF KnownEnd
  <2> QED BY <1>3, <2>1, <2>3 DEF KnownEnd
<1> QED
  BY <1>2, <1>3 DEF Asked

LEMMA GetblkKnown ==
  ASSUME NEW s, Base(s), SourceKnown(s), NEW b \in Nat, Asked(Len(s.source), s.cksum_pos, b)
  PROVE  SourceKnown(Getblk(s, b).s)
<1> DEFINE t == Getblk(s, b).s
           size == Len(s.source)
           v == OnBlk(s, b)
<1>0. SUFFICES SourceKnown(t)
  OBVIOUS
<1>1. /\ t.source = s.source /\ t.cksum_pos = s.cksum_pos
      /\ t.max_blkno = IF b > s.max_blkno THEN b ELSE s.max_blkno
      /\ t.eof_known = (s.eof_known \/ (b > s.max_blkno /\ v # BlkSize))
      /\ t.onlastblk = IF b >= s.max_blkno THEN v ELSE s.onlastblk
  BY GetblkFields, SMTT(60) DEF Base
<1>2. size \in Nat /\ s.blksize = BlkSize
  BY DEF Base
<1>3. v \in Nat /\ Learned(size, b, v)
  BY <1>2, OnBlkFacts DEF Learned
<1> HIDE DEF t, v
<1>4. s.max_blkno \in Nat /\ s.onlastblk \in Nat /\ s.cksum_pos \in Nat /\ (s.eof_known = TRUE \/ s.eof_known = FALSE)
  BY DEF SourceKnown
<1>5. t.max_blkno \in Nat /\ t.onlastblk \in Nat /\ t.cksum_pos \in Nat
  BY <1>1, <1>3, <1>4
<1>6. CASE s.eof_known = TRUE
  <2>1. KnownEnd(size, t.max_blkno, t.onlastblk, t.cksum_pos)
    <3>1. KnownEnd(size, s.max_blkno, s.onlastblk, s.cksum_pos)
      BY <1>6 DEF SourceKnown
    <3>2. KnownEnd(size, IF b > s.max_blkno THEN b ELSE s.max_blkno,
                   IF b >= s.max_blkno THEN v ELSE s.onlastblk, s.cksum_pos)
      BY <1>2, <1>3, <1>4, <3>1, LearnsNothing
    <3> QED BY <1>1, <3>2
  <2>2. t.eof_known = TRUE
    BY <1>1, <1>6
  <2>3. t.source = s.source
    BY <1>1
  <2> QED BY <1>5, <2>1, <2>2, <2>3 DEF SourceKnown
<1>7. CASE s.eof_known = FALSE
  <2>1. UnknownEnd(size, s.max_blkno, s.cksum_pos)
    BY <1>7 DEF SourceKnown
  <2>2. IF b > s.max_blkno /\ v # BlkSize THEN KnownEnd(size, b, v, s.cksum_pos)
        ELSE UnknownEnd(size, IF b > s.max_blkno THEN b ELSE s.max_blkno, s.cksum_pos)
    BY <1>2, <1>3, <1>4, <2>1, LearnsEnd
  <2>3. CASE b > s.max_blkno /\ v # BlkSize
    <3>1. t.max_blkno = b /\ t.onlastblk = v
      BY <1>1, <1>4, <2>3
    <3>4. t.eof_known = TRUE
      BY <1>1, <2>3
    <3>2. KnownEnd(size, t.max_blkno, t.onlastblk, t.cksum_pos)
      BY <1>1, <2>2, <2>3, <3>1
    <3>3. t.source = s.source
      BY <1>1
    <3> QED BY <1>5, <3>4, <3>2, <3>3 DEF SourceKnown
  <2>4. CASE ~ (b > s.max_blkno /\ v # BlkSize)
    <3>1. t.eof_known = FALSE
      BY <1>1, <1>4, <1>7, <2>4
    <3>2. UnknownEnd(size, t.max_blkno, t.cksum_pos)
      BY <1>1, <2>2, <2>4
    <3>3. t.source = s.source
      BY <1>1
    <3> QED BY <1>5, <3>1, <3>2, <3>3 DEF SourceKnown
  <2> QED BY <2>3, <2>4
<1> QED
  BY <1>4, <1>6, <1>7

BaseFields ==
  {"win", "source", "cfg", "has_src", "blksize", "max_winsize", "inp", "total_in", "min_match"}

LEMMA BaseKept ==
  ASSUME NEW s, Base(s), NEW t, NEW F, OnlyChanges(s, t, F), F \cap BaseFields = {}
  PROVE  Base(t) /\ \A x \in BaseFields : t[x] = s[x]
<1>1. ASSUME NEW x \in BaseFields
      PROVE  t[x] = s[x]
  BY DEF Base, OnlyChanges, BaseFields, Names
<1>2. /\ t.win = s.win /\ t.source = s.source /\ t.cfg = s.cfg /\ t.has_src = s.has_src
      /\ t.blksize = s.blksize /\ t.max_winsize = s.max_winsize /\ t.inp = s.inp
      /\ t.total_in = s.total_in /\ t.min_match = s.min_match
  BY <1>1 DEF BaseFields
<1>3. Names \subseteq DOMAIN t
  BY DEF Base, OnlyChanges
<1> QED
  BY <1>1, <1>2, <1>3 DEF Base

\* A byte of the source, or the one after it, lies in a block that may be asked for.
LEMMA ByteAsked ==
  ASSUME NEW size \in Nat, NEW ck, NEW p \in Nat, p <= size
  PROVE  p \div BlkSize \in Nat /\ Asked(size, ck, p \div BlkSize)
<1> DEFINE q == p \div BlkSize
           r == p % BlkSize
<1>1. BlkSize \in Nat \ {0} /\ p \in Int
  BY ConstantFacts
<1>2. q \in Nat /\ r \in Nat /\ p = (q * BlkSize) + r
  <2>1. q >= 0
    BY <1>1
  <2> QED BY <1>1, <2>1, Division
<1> HIDE DEF q, r
<1>3. q * BlkSize <= size
  <2>1. q * BlkSize \in Nat
    BY <1>1, <1>2
  <2> QED BY <1>2, <2>1
<1>4. q \in Nat /\ Asked(size, ck, q)
  BY <1>2, <1>3 DEF Asked
<1> QED
  BY <1>4 DEF q

-----------------------------------------------------------------------------
(* A match is extended, back and forward. *)

\* What xd3_source_match_setup allows a match.
BackLimits(s) ==
  /\ s.match_srcpos \in Nat /\ s.match_srcpos <= Len(s.source)
  /\ s.maxback \in Nat /\ s.maxback <= s.match_srcpos

LEMMA BackOneKeeps ==
  ASSUME NEW s, Base(s), SourceKnown(s), BackLimits(s), s.back \in 0..s.maxback
  PROVE  LET t == BackOne(s)
         IN  SourceKnown(t) /\ t.back \in 0..t.maxback
<1> DEFINE t == BackOne(s)
           p == s.match_srcpos - s.back - 1
           g == Getblk(s, p \div s.blksize)
<1>0. SUFFICES SourceKnown(t) /\ t.back \in 0..t.maxback
  OBVIOUS
<1>1. Names \subseteq DOMAIN s
  BY DEF Base
<1>2. OnlyChanges(s, g.s, SourceFields)
  BY GetblkChanges
<1>3. t \in {s, [s EXCEPT !.match_state = "forward"], [s EXCEPT !.match_state = "searching"],
             [g.s EXCEPT !.match_state = "forward"], [g.s EXCEPT !.back = @ + 1]}
  BY DEF BackOne
<1>4. CASE t \in {s, [s EXCEPT !.match_state = "forward"], [s EXCEPT !.match_state = "searching"]}
  BY <1>1, <1>4 DEF SourceKnown, Names
<1>5. CASE s.back # s.maxback /\ t \in {[g.s EXCEPT !.match_state = "forward"], [g.s EXCEPT !.back = @ + 1]}
  <2>1. p \in Nat /\ p <= Len(s.source) /\ Len(s.source) \in Nat
    <3> DEFINE n == Len(s.source)
               m == s.match_srcpos
               b == s.back
               a == s.maxback
    <3>1. n \in Nat
      BY DEF Base
    <3>2. m \in Nat /\ m <= n /\ a \in Nat /\ a <= m
      BY DEF BackLimits
    <3>3. b \in 0..a /\ b # a
      BY <1>5
    <3> HIDE DEF n, m, b, a
    <3>4. m - b - 1 \in Nat /\ m - b - 1 <= n
      BY <3>1, <3>2, <3>3
    <3> QED BY <3>1, <3>4 DEF n, m, b
  <2>2. SourceKnown(g.s)
    BY <2>1, ByteAsked, GetblkKnown DEF Base
  <2>3. Names \subseteq DOMAIN g.s /\ g.s.back = s.back /\ g.s.maxback = s.maxback
    BY <1>1, <1>2 DEF OnlyChanges, SourceFields, Names
  <2> HIDE DEF g
  <2>4. t.back \in {s.back, s.back + 1} /\ t.maxback = s.maxback
    BY <1>5, <2>3 DEF Names
  <2>5. /\ t.max_blkno = g.s.max_blkno /\ t.onlastblk = g.s.onlastblk /\ t.cksum_pos = g.s.cksum_pos
        /\ t.eof_known = g.s.eof_known /\ t.source = g.s.source
    BY <1>5, <2>3 DEF Names
  <2>6. t.back \in 0..t.maxback
    BY <1>5, <2>4 DEF BackLimits
  <2> HIDE DEF t
  <2> QED BY <2>2, <2>5, <2>6 DEF SourceKnown
<1>6. \/ t \in {s, [s EXCEPT !.match_state = "forward"], [s EXCEPT !.match_state = "searching"]}
      \/ s.back # s.maxback /\ t \in {[g.s EXCEPT !.match_state = "forward"], [g.s EXCEPT !.back = @ + 1]}
  BY DEF BackOne
<1> QED
  BY <1>4, <1>5, <1>6

\* What the match at match_srcpos was compared with before the input position.
BackAgrees(s) ==
  \A j \in 1..s.back : s.source[s.match_srcpos - j + 1] = Byte(s, s.inp - j)

LEMMA BackOneAgrees ==
  ASSUME NEW s, Base(s), s.match_srcpos \in Nat, s.back \in Nat, BackAgrees(s)
  PROVE  BackAgrees(BackOne(s))
<1> DEFINE t == BackOne(s)
           p == s.match_srcpos - s.back - 1
           g == Getblk(s, p \div s.blksize)
<1>0. SUFFICES BackAgrees(t)
  OBVIOUS
<1>1. Names \subseteq DOMAIN s /\ s.inp \in Nat
  BY DEF Base
<1>2. OnlyChanges(s, g.s, SourceFields)
  BY GetblkChanges
<1>3. /\ Names \subseteq DOMAIN g.s /\ g.s.back = s.back /\ g.s.match_srcpos = s.match_srcpos
      /\ g.s.inp = s.inp /\ g.s.source = s.source /\ g.s.win = s.win
  BY <1>1, <1>2 DEF OnlyChanges, SourceFields, Names
<1>4. /\ t.match_srcpos = s.match_srcpos /\ t.inp = s.inp /\ t.source = s.source /\ t.win = s.win
      /\ \/ t.back = s.back
         \/ t.back = s.back + 1 /\ s.source[p + 1] = Byte(s, s.inp - s.back - 1)
  <2>1. \/ t \in {s, [s EXCEPT !.match_state = "forward"], [s EXCEPT !.match_state = "searching"],
                  [g.s EXCEPT !.match_state = "forward"]}
        \/ t = [g.s EXCEPT !.back = @ + 1] /\ s.source[p + 1] = Byte(s, s.inp - s.back - 1)
    BY DEF BackOne
  <2> HIDE DEF g, t, p
  <2> QED BY <1>1, <1>3, <2>1 DEF Names
<1> HIDE DEF t
<1>5. CASE t.back = s.back
  BY <1>4, <1>5 DEF BackAgrees, Byte
<1>6. CASE t.back = s.back + 1 /\ s.source[p + 1] = Byte(s, s.inp - s.back - 1)
  <2> SUFFICES ASSUME NEW j \in 1..t.back
               PROVE  s.source[s.match_srcpos - j + 1] = Byte(s, s.inp - j)
    BY <1>4 DEF BackAgrees, Byte
  <2>1. CASE j \in 1..s.back
    BY <2>1 DEF BackAgrees
  <2>2. CASE j = s.back + 1
    <3>1. s.match_srcpos - j + 1 = p + 1 /\ s.inp - j = s.inp - s.back - 1
      BY <1>1, <2>2
    <3> QED BY <1>6, <3>1
  <2>3. j \in 1..s.back \/ j = s.back + 1
    BY <1>6
  <2> QED BY <2>1, <2>2, <2>3
<1> QED
  BY <1>4, <1>5, <1>6

LEMMA ExtendBackKeeps ==
  ASSUME NEW s, Base(s), SourceKnown(s), BackLimits(s), s.back = 0
  PROVE  LET t == ExtendBack(s)
         IN  OnlyChanges(s, t, BackFields) /\ SourceKnown(t) /\ t.back \in 0..s.maxback /\ BackAgrees(t)
<1> DEFINE n == s.maxback + 1
           Good(t) == OnlyChanges(s, t, BackFields) /\ SourceKnown(t) /\ t.back \in 0..s.maxback /\ BackAgrees(t)
<1>1. n \in Nat
  BY DEF BackLimits
<1>2. PICK f : /\ f[0] = s /\ ExtendBack(s) = f[n]
               /\ \A k \in Nat : k < n => f[k + 1] = BackOne(f[k])
  BY <1>1, BackByRounds
<1> DEFINE T == {k \in Nat : k <= n => Good(f[k])}
<1>3. 0 \in T
  <2>1. Good(s)
    BY ChangesNothing DEF BackLimits, BackAgrees
  <2> QED BY <1>2, <2>1
<1>4. ASSUME NEW k \in Nat, k \in T
      PROVE  k + 1 \in T
  <2>1. SUFFICES ASSUME k + 1 <= n
                 PROVE  Good(f[k + 1])
    OBVIOUS
  <2> DEFINE u == f[k]
  <2>2. Good(u) /\ f[k + 1] = BackOne(u)
    BY <1>1, <1>2, <1>4, <2>1
  <2> HIDE DEF u
  <2>3. Base(u) /\ u.source = s.source /\ u.match_srcpos = s.match_srcpos /\ u.maxback = s.maxback
    <3>1. BackFields \cap BaseFields = {}
      BY DEF BackFields, BaseFields, SourceFields
    <3>2. Base(u) /\ \A x \in BaseFields : u[x] = s[x]
      BY <2>2, <3>1, BaseKept
    <3> QED BY <2>2, <3>2 DEF OnlyChanges, BackFields, SourceFields, Base, Names, BaseFields
  <2>4. BackLimits(u) /\ u.back \in 0..u.maxback
    BY <2>2, <2>3 DEF BackLimits
  <2>5. SourceKnown(BackOne(u)) /\ BackOne(u).back \in 0..BackOne(u).maxback
    BY <2>2, <2>3, <2>4, BackOneKeeps
  <2>6. OnlyChanges(u, BackOne(u), BackFields)
    BY BackOneChanges
  <2>7. OnlyChanges(s, BackOne(u), BackFields)
    BY <2>2, <2>6, ChangesTwice
  <2>8. BackOne(u).maxback = s.maxback
    BY <2>7 DEF OnlyChanges, BackFields, SourceFields, Base, Names
  <2>9. BackAgrees(BackOne(u))
    <3>1. u.match_srcpos \in Nat /\ u.back \in Nat
      BY <2>4 DEF BackLimits
    <3> QED BY <2>2, <2>3, <3>1, BackOneAgrees
  <2> QED BY <2>2, <2>5, <2>7, <2>8, <2>9
<1> HIDE DEF T
<1>5. \A k \in Nat : k \in T
  BY <1>3, <1>4, NatInduct
<1>6. Good(f[n])
  BY <1>1, <1>5 DEF T
<1> QED
  BY <1>2, <1>6

\* How far a match goes forward.
ForwardLimits(s, t) ==
  /\ t.fwd \in Nat /\ t.fwd <= s.maxfwd /\ t.fwd <= Len(s.win) - s.inp
  /\ s.match_srcpos + t.fwd <= Len(s.source)

LEMMA ForwardOneKeeps ==
  ASSUME NEW s, Base(s), SourceKnown(s), s.match_srcpos \in Nat, s.maxfwd \in Nat,
         NEW n \in Nat, n < Len(s.win) - s.inp, s.fwd <= n, ForwardLimits(s, s)
  PROVE  LET t == ForwardOne(s)
         IN  SourceKnown(t) /\ ForwardLimits(s, t) /\ t.fwd <= n + 1
<1> DEFINE t == ForwardOne(s)
           p == s.match_srcpos + s.fwd
           g == Getblk(s, p \div s.blksize)
<1>0. SUFFICES SourceKnown(t) /\ ForwardLimits(s, t) /\ t.fwd <= n + 1
  OBVIOUS
<1>1. Names \subseteq DOMAIN s
  BY DEF Base
<1>2. OnlyChanges(s, g.s, SourceFields)
  BY GetblkChanges
<1>3. \/ t = s
      \/ t = g.s
      \/ s.fwd # s.maxfwd /\ ~ (p >= Len(s.source)) /\ t = [g.s EXCEPT !.fwd = @ + 1]
  BY DEF ForwardOne
<1>4. p \in Nat /\ p <= Len(s.source) /\ Len(s.source) \in Nat /\ Len(s.win) \in Nat /\ s.inp \in Nat
  <2>1. p \in Nat /\ p <= Len(s.source)
    BY DEF ForwardLimits
  <2>2. Len(s.source) \in Nat /\ Len(s.win) \in Nat /\ s.inp \in Nat
    BY DEF Base
  <2> QED BY <2>1, <2>2
<1>5. SourceKnown(g.s)
  BY <1>4, ByteAsked, GetblkKnown DEF Base
<1>6. Names \subseteq DOMAIN g.s /\ g.s.fwd = s.fwd
  BY <1>1, <1>2 DEF OnlyChanges, SourceFields, Names
<1> HIDE DEF g
<1>7. CASE t = s
  BY <1>7 DEF ForwardLimits
<1>8. CASE t = g.s
  BY <1>5, <1>6, <1>8 DEF ForwardLimits
<1>9. CASE s.fwd # s.maxfwd /\ ~ (p >= Len(s.source)) /\ t = [g.s EXCEPT !.fwd = @ + 1]
  <2>1. t.fwd = s.fwd + 1
    BY <1>6, <1>9 DEF Names
  <2>2. /\ t.max_blkno = g.s.max_blkno /\ t.onlastblk = g.s.onlastblk /\ t.cksum_pos = g.s.cksum_pos
        /\ t.eof_known = g.s.eof_known /\ t.source = g.s.source
    BY <1>6, <1>9 DEF Names
  <2> HIDE DEF t
  <2>3. ForwardLimits(s, t) /\ t.fwd <= n + 1
    <3>1. s.fwd \in Nat /\ s.fwd <= s.maxfwd /\ s.fwd <= Len(s.win) - s.inp
      BY DEF ForwardLimits
    <3>2. s.fwd + 1 <= s.maxfwd /\ s.fwd + 1 <= Len(s.win) - s.inp /\ s.match_srcpos + (s.fwd + 1) <= Len(s.source)
      BY <1>4, <1>9, <3>1, SMTT(60)
    <3> QED BY <2>1, <3>1, <3>2 DEF ForwardLimits
  <2>4. SourceKnown(t)
    BY <1>5, <2>2 DEF SourceKnown
  <2> QED BY <2>3, <2>4
<1> QED
  BY <1>3, <1>7, <1>8, <1>9

\* What it was compared with from there on.
ForwardAgrees(s) ==
  \A j \in 0..(s.fwd - 1) : s.source[s.match_srcpos + j + 1] = Byte(s, s.inp + j)

LEMMA ForwardOneAgrees ==
  ASSUME NEW s, Base(s), s.match_srcpos \in Nat, s.fwd \in Nat, ForwardAgrees(s)
  PROVE  ForwardAgrees(ForwardOne(s))
<1> DEFINE t == ForwardOne(s)
           p == s.match_srcpos + s.fwd
           g == Getblk(s, p \div s.blksize)
<1>0. SUFFICES ForwardAgrees(t)
  OBVIOUS
<1>1. Names \subseteq DOMAIN s /\ s.inp \in Nat
  BY DEF Base
<1>2. OnlyChanges(s, g.s, SourceFields)
  BY GetblkChanges
<1>3. /\ Names \subseteq DOMAIN g.s /\ g.s.fwd = s.fwd /\ g.s.match_srcpos = s.match_srcpos
      /\ g.s.inp = s.inp /\ g.s.source = s.source /\ g.s.win = s.win
  BY <1>1, <1>2 DEF OnlyChanges, SourceFields, Names
<1>4. /\ t.match_srcpos = s.match_srcpos /\ t.inp = s.inp /\ t.source = s.source /\ t.win = s.win
      /\ \/ t.fwd = s.fwd
         \/ t.fwd = s.fwd + 1 /\ s.source[p + 1] = Byte(s, s.inp + s.fwd)
  <2>1. \/ t = s
        \/ t = g.s
        \/ t = [g.s EXCEPT !.fwd = @ + 1] /\ s.source[p + 1] = Byte(s, s.inp + s.fwd)
    BY DEF ForwardOne
  <2> HIDE DEF g, t, p
  <2> QED BY <1>1, <1>3, <2>1 DEF Names
<1> HIDE DEF t
<1>5. CASE t.fwd = s.fwd
  BY <1>4, <1>5 DEF ForwardAgrees, Byte
<1>6. CASE t.fwd = s.fwd + 1 /\ s.source[p + 1] = Byte(s, s.inp + s.fwd)
  <2> SUFFICES ASSUME NEW j \in 0..(t.fwd - 1)
               PROVE  s.source[s.match_srcpos + j + 1] = Byte(s, s.inp + j)
    BY <1>4 DEF ForwardAgrees, Byte
  <2>1. CASE j \in 0..(s.fwd - 1)
    BY <2>1 DEF ForwardAgrees
  <2>2. CASE j = s.fwd
    BY <1>6, <2>2
  <2>3. j \in 0..(s.fwd - 1) \/ j = s.fwd
    BY <1>6
  <2> QED BY <2>1, <2>2, <2>3
<1> QED
  BY <1>4, <1>5, <1>6

LEMMA ExtendForwardKeeps ==
  ASSUME NEW s, Base(s), SourceKnown(s), s.match_srcpos \in Nat, s.match_srcpos <= Len(s.source),
         s.maxfwd \in Nat, s.fwd = 0
  PROVE  LET t == ExtendForward(s)
         IN  OnlyChanges(s, t, ForwardFields) /\ SourceKnown(t) /\ ForwardLimits(s, t) /\ ForwardAgrees(t)
<1> DEFINE n == AvailIn(s) - s.inp
           Good(t) == OnlyChanges(s, t, ForwardFields) /\ SourceKnown(t) /\ ForwardLimits(s, t) /\ ForwardAgrees(t)
<1>1. n \in Nat /\ n = Len(s.win) - s.inp
  BY DEF Base, AvailIn
<1>2. PICK f : /\ f[0] = s /\ ExtendForward(s) = f[n]
               /\ \A k \in Nat : k < n => f[k + 1] = ForwardOne(f[k])
  BY <1>1, ForwardByRounds
<1> DEFINE T == {k \in Nat : k <= n => Good(f[k]) /\ f[k].fwd <= k}
<1>3. 0 \in T
  <2>1. Good(s) /\ s.fwd <= 0
    <3>1. ForwardLimits(s, s) /\ s.fwd <= 0
      BY <1>1 DEF ForwardLimits, Base
    <3>2. ForwardAgrees(s)
      BY DEF ForwardAgrees
    <3> QED BY <3>1, <3>2, ChangesNothing
  <2> HIDE DEF Good
  <2> QED BY <1>2, <2>1
<1>4. ASSUME NEW k \in Nat, k \in T
      PROVE  k + 1 \in T
  <2>1. SUFFICES ASSUME k + 1 <= n
                 PROVE  Good(f[k + 1]) /\ f[k + 1].fwd <= k + 1
    OBVIOUS
  <2> DEFINE u == f[k]
             v == ForwardOne(u)
  <2>2. Good(u) /\ u.fwd <= k /\ f[k + 1] = v
    BY <1>1, <1>2, <1>4, <2>1
  <2> HIDE DEF u
  <2>3. /\ Base(u) /\ u.source = s.source /\ u.win = s.win /\ u.inp = s.inp
        /\ u.match_srcpos = s.match_srcpos /\ u.maxfwd = s.maxfwd
    <3>1. ForwardFields \cap BaseFields = {}
      BY DEF ForwardFields, BaseFields, SourceFields
    <3>2. Base(u) /\ \A x \in BaseFields : u[x] = s[x]
      BY <2>2, <3>1, BaseKept
    <3> QED BY <2>2, <3>2 DEF OnlyChanges, ForwardFields, SourceFields, Base, Names, BaseFields
  <2>4. k < Len(u.win) - u.inp /\ ForwardLimits(u, u)
    BY <1>1, <2>1, <2>2, <2>3 DEF ForwardLimits, Base
  <2>5. SourceKnown(v) /\ ForwardLimits(u, v) /\ v.fwd <= k + 1
    BY <2>2, <2>3, <2>4, ForwardOneKeeps
  <2>6. OnlyChanges(u, v, ForwardFields)
    BY ForwardOneChanges
  <2>7. OnlyChanges(s, v, ForwardFields)
    BY <2>2, <2>6, ChangesTwice
  <2>8. ForwardLimits(s, v)
    BY <2>3, <2>5 DEF ForwardLimits
  <2>9. ForwardAgrees(v)
    <3>1. u.fwd \in Nat
      BY <2>2 DEF ForwardLimits
    <3> QED BY <2>2, <2>3, <3>1, ForwardOneAgrees
  <2>10. Good(v) /\ v.fwd <= k + 1
    BY <2>5, <2>7, <2>8, <2>9
  <2> HIDE DEF v, Good
  <2> QED BY <2>2, <2>10
<1> HIDE DEF T
<1>5. \A k \in Nat : k \in T
  BY <1>3, <1>4, NatInduct
<1>6. Good(f[n])
  BY <1>1, <1>5 DEF T
<1> QED
  BY <1>2, <1>6

-----------------------------------------------------------------------------
(* The source is indexed. *)

\* Quotients of numbers.
LEMMA NatDivision ==
  ASSUME NEW a \in Nat
  PROVE  /\ a \div BlkSize \in Nat /\ a % BlkSize \in Nat /\ a % BlkSize < BlkSize
         /\ a = ((a \div BlkSize) * BlkSize) + (a % BlkSize)
         /\ (a \div BlkSize) * BlkSize \in Nat
<1>1. BlkSize \in Nat \ {0} /\ a \in Int
  BY ConstantFacts
<1>2. a \div BlkSize >= 0
  BY <1>1
<1>3. /\ a \div BlkSize \in Nat /\ a % BlkSize \in Nat /\ a % BlkSize < BlkSize
      /\ a = ((a \div BlkSize) * BlkSize) + (a % BlkSize)
  BY <1>1, <1>2, Division
<1> DEFINE q == a \div BlkSize
<1> HIDE DEF q
<1>4. q \in Nat => q * BlkSize \in Nat
  BY <1>1
<1> QED
  BY <1>3, <1>4 DEF q

\* The size of the source, where it is known; at least its size where one block too
\* much is counted.
LEMMA SourceEofFacts ==
  ASSUME NEW s, Base(s), SourceKnown(s), s.eof_known
  PROVE  /\ SourceEof(s) \in Nat /\ SourceEof(s) >= Len(s.source)
         /\ SourceEof(s) = Len(s.source) \/ (SourceEof(s) = BlkSize /\ s.cksum_pos >= BlkSize)
<1> DEFINE size == Len(s.source)
<1>1. size \in Nat /\ s.blksize = BlkSize /\ BlkSize \in Nat
  BY ConstantFacts DEF Base
<1>2. KnownEnd(size, s.max_blkno, s.onlastblk, s.cksum_pos)
  BY DEF SourceKnown
<1>3. CASE s.max_blkno = size \div BlkSize /\ s.onlastblk = size % BlkSize
  <2>1. size = ((size \div BlkSize) * BlkSize) + (size % BlkSize)
    BY <1>1, NatDivision
  <2>2. SourceEof(s) = size
    BY <1>1, <1>3, <2>1 DEF SourceEof
  <2> QED BY <1>1, <2>2
<1>4. CASE s.max_blkno = 1 /\ s.onlastblk = 0 /\ size < BlkSize /\ s.cksum_pos >= BlkSize
  BY <1>1, <1>4 DEF SourceEof
<1> QED
  BY <1>2, <1>3, <1>4 DEF KnownEnd

LEMMA IndexAsks ==
  ASSUME NEW s, Base(s), SourceKnown(s), ~ (s.eof_known /\ s.cksum_pos >= SourceEof(s))
  PROVE  LET b == s.cksum_pos \div BlkSize
         IN  b \in Nat /\ Asked(Len(s.source), s.cksum_pos, b)
<1> DEFINE size == Len(s.source)
           b == s.cksum_pos \div BlkSize
<1>1. size \in Nat /\ s.cksum_pos \in Nat /\ BlkSize \in Nat /\ BlkSize > 0
  BY ConstantFacts DEF Base, SourceKnown
<1>2. CASE s.cksum_pos <= size
  BY <1>1, <1>2, ByteAsked
<1>3. CASE s.eof_known = FALSE /\ s.cksum_pos <= BlkSize /\ size < s.cksum_pos
  <2>1. CASE s.cksum_pos < BlkSize
    <3>1. b = 0
      BY <1>1, <2>1, DivUnique
    <3> HIDE DEF b
    <3> QED BY <1>1, <3>1 DEF Asked, b
  <2>2. CASE s.cksum_pos = BlkSize
    <3>1. b = 1
      BY <1>1, <2>2, DivUnique
    <3> HIDE DEF b
    <3> QED BY <1>1, <1>3, <2>2, <3>1 DEF Asked, b
  <2> QED BY <1>1, <1>3, <2>1, <2>2
<1>4. CASE s.eof_known = TRUE
  <2>1. SourceEof(s) = size
    BY <1>1, <1>4, SourceEofFacts
  <2> QED BY <1>1, <1>2, <1>4, <2>1
<1>5. s.eof_known = FALSE => (s.cksum_pos <= size \/ s.cksum_pos <= BlkSize)
  BY DEF SourceKnown, UnknownEnd
<1>6. s.eof_known = TRUE \/ s.eof_known = FALSE
  BY DEF SourceKnown
<1>7. s.cksum_pos <= size \/ size < s.cksum_pos
  BY <1>1
<1> QED
  BY <1>2, <1>3, <1>4, <1>5, <1>6, <1>7

\* The bytes that the block of the index position has, once it is read, are the source's.
LEMMA BytesWithin ==
  ASSUME NEW s, Base(s), SourceKnown(s), NEW b \in Nat, b = s.cksum_pos \div BlkSize,
         Asked(Len(s.source), s.cksum_pos, b)
  PROVE  LET t == Getblk(s, b).s
         IN  /\ BytesOnBlk(t, b) \in Nat /\ t.max_blkno >= b
             /\ BytesOnBlk(t, b) > 0 => (b * BlkSize) + BytesOnBlk(t, b) <= Len(s.source)
<1> DEFINE t == Getblk(s, b).s
           size == Len(s.source)
           v == OnBlk(s, b)
<1>0. SUFFICES /\ BytesOnBlk(t, b) \in Nat /\ t.max_blkno >= b
               /\ BytesOnBlk(t, b) > 0 => (b * BlkSize) + BytesOnBlk(t, b) <= size
  OBVIOUS
<1>1. /\ t.source = s.source /\ t.cksum_pos = s.cksum_pos
      /\ t.max_blkno = IF b > s.max_blkno THEN b ELSE s.max_blkno
      /\ t.onlastblk = IF b >= s.max_blkno THEN v ELSE s.onlastblk
  BY GetblkFields, SMTT(60) DEF Base
<1>2. size \in Nat /\ s.blksize = BlkSize /\ BlkSize \in Nat /\ BlkSize > 0
  BY ConstantFacts DEF Base
<1>3. v \in Nat /\ (v > 0 => (b * BlkSize) + v <= size)
  BY <1>2, OnBlkFacts
<1>4. SourceKnown(t)
  BY GetblkKnown
<1>5. t.blksize = BlkSize
  <2>1. OnlyChanges(s, t, SourceFields)
    BY GetblkChanges
  <2> HIDE DEF t
  <2> QED BY <1>2, <2>1 DEF OnlyChanges, Base, Names, SourceFields
<1> HIDE DEF t, v
<1>6. s.max_blkno \in Nat
  BY DEF SourceKnown
<1>7. t.max_blkno \in Nat /\ t.max_blkno >= b
  BY <1>1, <1>6
<1>8. CASE b = t.max_blkno
  <2>1. t.onlastblk = v
    BY <1>1, <1>6, <1>8
  <2> QED BY <1>3, <1>7, <1>8, <2>1 DEF BytesOnBlk
<1>9. CASE b < t.max_blkno
  <2>1. BytesOnBlk(t, b) = BlkSize
    BY <1>5, <1>7, <1>9 DEF BytesOnBlk
  <2>2. (b + 1) * BlkSize <= size
    <3>1. CASE t.eof_known = FALSE
      <4>1. UnknownEnd(size, t.max_blkno, t.cksum_pos)
        BY <1>1, <1>4, <3>1 DEF SourceKnown
      <4>2. (t.max_blkno + 1) * BlkSize <= size
        BY <1>7, <1>9, <4>1 DEF UnknownEnd
      <4>3. (b + 1) * BlkSize <= (t.max_blkno + 1) * BlkSize /\ (b + 1) * BlkSize \in Nat
            /\ (t.max_blkno + 1) * BlkSize \in Nat
        BY <1>2, <1>7, ProductGrows
      <4> QED BY <1>2, <4>2, <4>3
    <3>2. CASE t.eof_known = TRUE
      <4>1. KnownEnd(size, t.max_blkno, t.onlastblk, t.cksum_pos)
        BY <1>1, <1>4, <3>2 DEF SourceKnown
      <4>2. CASE t.max_blkno = size \div BlkSize
        <5>1. /\ size \div BlkSize \in Nat /\ size % BlkSize \in Nat
              /\ size = ((size \div BlkSize) * BlkSize) + (size % BlkSize)
              /\ (size \div BlkSize) * BlkSize \in Nat
          BY <1>2, NatDivision
        <5> DEFINE q == size \div BlkSize
                   r == size % BlkSize
                   y == q * BlkSize
                   x == (b + 1) * BlkSize
        <5>2. q \in Nat /\ r \in Nat /\ size = y + r /\ y \in Nat /\ b < q
          BY <1>9, <4>2, <5>1
        <5> HIDE DEF q, r
        <5>3. x <= y /\ x \in Nat
          BY <1>2, <5>2, ProductGrows
        <5> HIDE DEF y, x
        <5>4. x <= size
          BY <5>2, <5>3
        <5> QED BY <5>4 DEF x
      <4>3. CASE t.max_blkno = 1 /\ size < BlkSize /\ t.cksum_pos >= BlkSize
        <5>1. b = 0
          BY <1>9, <4>3
        <5>2. /\ s.cksum_pos = ((s.cksum_pos \div BlkSize) * BlkSize) + (s.cksum_pos % BlkSize)
              /\ s.cksum_pos % BlkSize < BlkSize
          BY NatDivision DEF SourceKnown
        <5>3. s.cksum_pos = 0 + (s.cksum_pos % BlkSize)
          BY <1>2, <5>1, <5>2
        <5>4. s.cksum_pos < BlkSize
          <6> DEFINE r == s.cksum_pos % BlkSize
          <6>1. r \in Nat /\ r < BlkSize /\ s.cksum_pos = 0 + r
            BY <5>2, <5>3, NatDivision DEF SourceKnown
          <6> HIDE DEF r
          <6> QED BY <6>1
        <5>5. t.cksum_pos < BlkSize
          BY <1>1, <5>4
        <5>6. t.cksum_pos \in Nat
          BY <1>4 DEF SourceKnown
        <5> QED BY <1>2, <4>3, <5>5, <5>6
      <4> QED BY <4>1, <4>2, <4>3 DEF KnownEnd
    <3> QED BY <1>4, <3>1, <3>2 DEF SourceKnown
  <2>3. (b + 1) * BlkSize = (b * BlkSize) + BlkSize
    BY <1>2
  <2> QED BY <1>2, <1>7, <2>1, <2>2, <2>3
<1> QED
  BY <1>7, <1>8, <1>9

\* The positions that a block enters into the table, one more than each of them.
Positions(s) == [0..(LargeSlots - 1) -> 0..(Len(s.source) + 1)]

LEMMA EnterBlockFacts ==
  ASSUME NEW s, Base(s), s.large \in Positions(s), NEW b \in Nat, BytesOnBlk(s, b) \in Nat,
         BytesOnBlk(s, b) >= s.cfg.llook, (b * BlkSize) + BytesOnBlk(s, b) <= Len(s.source)
  PROVE  EnterBlock(s, b) \in Positions(s)
<1> DEFINE top == BytesOnBlk(s, b) - s.cfg.llook
           old == s.cksum_pos % s.blksize
           tested == {p \in 0..top : (top - p) % s.cfg.lstep = 0 /\ (p = top \/ p >= old)}
           at(p) == b * s.blksize + p
           hash(p) == LargeHash(Lcksum(SubSeq(s.source, at(p) + 1, at(p) + s.cfg.llook)))
           here(h) == {p \in tested : hash(p) = h}
           base == b * BlkSize
<1>1. top \in Nat /\ base \in Nat /\ s.blksize = BlkSize /\ Len(s.source) \in Nat
      /\ base + top <= Len(s.source)
  <2>1. s.cfg.llook \in Nat /\ s.blksize = BlkSize /\ Len(s.source) \in Nat
    BY MatcherFacts DEF Base
  <2>2. base \in Nat
    BY ConstantFacts
  <2> HIDE DEF base
  <2>3. top \in Nat /\ top <= BytesOnBlk(s, b)
    BY <2>1
  <2>4. base + BytesOnBlk(s, b) <= Len(s.source)
    BY DEF base
  <2> HIDE DEF top
  <2> QED BY <2>1, <2>2, <2>3, <2>4
<1>2. EnterBlock(s, b) = [h \in DOMAIN s.large |->
                            IF here(h) = {} THEN s.large[h] ELSE at(Min(here(h))) + HASH_CKOFFSET]
  BY DEF EnterBlock
<1>3. ASSUME NEW h, here(h) # {}
      PROVE  at(Min(here(h))) + HASH_CKOFFSET \in 0..(Len(s.source) + 1)
  <2>1. here(h) \subseteq 0..top
    OBVIOUS
  <2>2. Min(here(h)) \in 0..top
    <3> DEFINE H == here(h)
    <3> HIDE DEF H, top
    <3>1. H \subseteq Int /\ H # {} /\ (\A x \in H : x >= 0) /\ H \subseteq 0..top
      BY <1>1, <1>3, <2>1 DEF H
    <3>2. Min(H) \in H
      BY <3>1, MinBounded
    <3> QED BY <3>1, <3>2 DEF H
  <2> DEFINE m == Min(here(h))
  <2>3. at(m) = base + m
    BY <1>1
  <2> HIDE DEF m, top, base, tested
  <2>4. base + m \in 0..Len(s.source)
    BY <1>1, <2>2 DEF m
  <2> QED BY <1>1, <2>3, <2>4 DEF HASH_CKOFFSET, m
<1> HIDE DEF top, old, tested, at, hash, here, base
<1>4. ASSUME NEW h \in 0..(LargeSlots - 1)
      PROVE  (IF here(h) = {} THEN s.large[h] ELSE at(Min(here(h))) + HASH_CKOFFSET) \in 0..(Len(s.source) + 1)
  BY <1>3 DEF Positions
<1>5. DOMAIN s.large = 0..(LargeSlots - 1)
  BY DEF Positions
<1> QED
  BY <1>2, <1>4, <1>5 DEF Positions

LEMMA IndexBlockKeeps ==
  ASSUME NEW s, Base(s), SourceKnown(s), s.large \in Positions(s), NEW target
  PROVE  LET t == IndexBlock(s, target)
         IN  SourceKnown(t) /\ t.large \in Positions(s) /\ t.cksum_pos >= s.cksum_pos
<1> DEFINE t == IndexBlock(s, target)
           b == s.cksum_pos \div BlkSize
           g == Getblk(s, b)
           l == IF BytesOnBlk(g.s, b) < s.cfg.llook THEN g.s.large ELSE EnterBlock(g.s, b)
           size == Len(s.source)
<1>0. SUFFICES SourceKnown(t) /\ t.large \in Positions(s) /\ t.cksum_pos >= s.cksum_pos
  OBVIOUS
<1>1. Names \subseteq DOMAIN s /\ s.blksize = BlkSize /\ size \in Nat /\ s.cksum_pos \in Nat
  BY DEF Base, SourceKnown
<1>2. OnlyChanges(s, g.s, SourceFields)
  BY GetblkChanges
<1>3. Base(g.s) /\ g.s.cfg = s.cfg /\ g.s.source = s.source /\ g.s.blksize = BlkSize
  <2>1. SourceFields \cap BaseFields = {}
    BY DEF SourceFields, BaseFields
  <2>2. Base(g.s) /\ \A x \in BaseFields : g.s[x] = s[x]
    BY <1>2, <2>1, BaseKept
  <2> HIDE DEF g
  <2> QED BY <1>1, <2>2 DEF BaseFields
<1>4. g.s.large = s.large /\ g.s.cksum_pos = s.cksum_pos /\ Names \subseteq DOMAIN g.s
  <2> HIDE DEF g
  <2> QED BY <1>1, <1>2 DEF OnlyChanges, SourceFields, Names
<1>5. \/ t \in {s, [s EXCEPT !.error = TRUE]}
      \/ /\ ~ (s.eof_known /\ s.cksum_pos >= SourceEof(s))
         /\ t = [g.s EXCEPT !.large = l, !.cksum_pos = (b + 1) * BlkSize]
  BY <1>1, <1>3 DEF IndexBlock
<1>6. CASE t \in {s, [s EXCEPT !.error = TRUE]}
  <2>1. /\ t.max_blkno = s.max_blkno /\ t.onlastblk = s.onlastblk /\ t.cksum_pos = s.cksum_pos
        /\ t.eof_known = s.eof_known /\ t.source = s.source /\ t.large = s.large
    BY <1>1, <1>6 DEF Names
  <2> HIDE DEF t
  <2>2. SourceKnown(t)
    BY <2>1 DEF SourceKnown
  <2> QED BY <1>1, <2>1, <2>2
<1>7. CASE /\ ~ (s.eof_known /\ s.cksum_pos >= SourceEof(s))
           /\ t = [g.s EXCEPT !.large = l, !.cksum_pos = (b + 1) * BlkSize]
  <2>1. b \in Nat /\ Asked(size, s.cksum_pos, b)
    BY <1>7, IndexAsks
  <2>2. SourceKnown(g.s)
    BY <2>1, GetblkKnown
  <2>3. /\ BytesOnBlk(g.s, b) \in Nat /\ g.s.max_blkno >= b
        /\ BytesOnBlk(g.s, b) > 0 => (b * BlkSize) + BytesOnBlk(g.s, b) <= size
    BY <2>1, BytesWithin
  <2>4. s.cfg.llook \in Nat /\ s.cfg.llook > 0
    BY MatcherFacts DEF Base
  <2>5. s.cksum_pos = (b * BlkSize) + (s.cksum_pos % BlkSize) /\ s.cksum_pos % BlkSize \in Nat
        /\ s.cksum_pos % BlkSize < BlkSize /\ b * BlkSize \in Nat
    BY <1>1, NatDivision
  <2>6. (b + 1) * BlkSize = (b * BlkSize) + BlkSize /\ BlkSize \in Nat /\ BlkSize > 0
    BY <2>1, ConstantFacts
  <2> HIDE DEF g, b
  <2>7. l \in Positions(s)
    <3>1. CASE BytesOnBlk(g.s, b) < s.cfg.llook
      BY <1>4, <3>1
    <3>2. CASE BytesOnBlk(g.s, b) >= s.cfg.llook
      <4>1. (b * BlkSize) + BytesOnBlk(g.s, b) <= size
        BY <2>3, <2>4, <3>2
      <4>2. g.s.large \in Positions(g.s) /\ Positions(g.s) = Positions(s)
        BY <1>3, <1>4 DEF Positions
      <4>3. EnterBlock(g.s, b) \in Positions(g.s)
        BY <1>3, <2>1, <2>3, <3>2, <4>1, <4>2, EnterBlockFacts
      <4> QED BY <2>3, <2>4, <3>2, <4>2, <4>3
    <3> QED BY <2>3, <2>4, <3>1, <3>2
  <2> HIDE DEF l
  <2>8. /\ t.max_blkno = g.s.max_blkno /\ t.onlastblk = g.s.onlastblk /\ t.cksum_pos = (b + 1) * BlkSize
        /\ t.eof_known = g.s.eof_known /\ t.source = s.source /\ t.large = l
    BY <1>3, <1>4, <1>7 DEF Names
  <2> HIDE DEF t
  <2>9. t.cksum_pos \in Nat /\ t.cksum_pos >= BlkSize /\ t.cksum_pos >= s.cksum_pos
    <3> DEFINE x == b * BlkSize
               r == s.cksum_pos % BlkSize
    <3>1. x \in Nat /\ r \in Nat /\ r < BlkSize /\ s.cksum_pos = x + r /\ t.cksum_pos = x + BlkSize
      BY <2>5, <2>6, <2>8
    <3> HIDE DEF x, r
    <3> QED BY <2>6, <3>1
  <2>10. SourceKnown(t)
    <3>1. CASE g.s.eof_known = TRUE
      <4>1. KnownEnd(size, g.s.max_blkno, g.s.onlastblk, g.s.cksum_pos)
        BY <1>3, <2>2, <3>1 DEF SourceKnown
      <4>2. KnownEnd(size, t.max_blkno, t.onlastblk, t.cksum_pos)
        BY <2>8, <2>9, <4>1 DEF KnownEnd
      <4> QED BY <2>2, <2>8, <2>9, <3>1, <4>2 DEF SourceKnown
    <3>2. CASE g.s.eof_known = FALSE
      <4>1. UnknownEnd(size, g.s.max_blkno, g.s.cksum_pos)
        BY <1>3, <2>2, <3>2 DEF SourceKnown
      <4>2. t.cksum_pos <= size \/ t.cksum_pos <= BlkSize
        <5>1. CASE g.s.max_blkno = 0
          <6>1. b = 0
            BY <2>1, <2>3, <5>1
          <6> QED BY <2>6, <2>8, <6>1
        <5>2. CASE (g.s.max_blkno + 1) * BlkSize <= size
          <6>1. g.s.max_blkno \in Nat
            BY <2>2 DEF SourceKnown
          <6>2. /\ (b + 1) * BlkSize <= (g.s.max_blkno + 1) * BlkSize
                /\ (b + 1) * BlkSize \in Nat /\ (g.s.max_blkno + 1) * BlkSize \in Nat
            <7> DEFINE y == b + 1
                       z == g.s.max_blkno + 1
            <7>1. y \in Nat /\ z \in Nat /\ y <= z /\ BlkSize \in Nat
              BY <2>1, <2>3, <2>6, <6>1
            <7> HIDE DEF y, z
            <7>2. y * BlkSize <= z * BlkSize /\ y * BlkSize \in Nat /\ z * BlkSize \in Nat
              BY <7>1, ProductGrows
            <7> QED BY <7>2 DEF y, z
          <6> DEFINE x == (g.s.max_blkno + 1) * BlkSize
          <6>3. x <= size /\ t.cksum_pos <= x /\ x \in Nat /\ t.cksum_pos \in Nat
            BY <2>8, <5>2, <6>2
          <6> HIDE DEF x
          <6> QED BY <1>1, <6>3
        <5> QED BY <4>1, <5>1, <5>2 DEF UnknownEnd
      <4>3. UnknownEnd(size, t.max_blkno, t.cksum_pos)
        BY <2>8, <4>1, <4>2 DEF UnknownEnd
      <4> QED BY <2>2, <2>8, <2>9, <3>2, <4>3 DEF SourceKnown
    <3> QED BY <2>2, <3>1, <3>2 DEF SourceKnown
  <2> QED BY <2>7, <2>8, <2>9, <2>10
<1> QED
  BY <1>5, <1>6, <1>7

LEMMA IndexKeeps ==
  ASSUME NEW s, Base(s), SourceKnown(s), s.large \in Positions(s), NEW target \in Nat
  PROVE  LET t == Index(s, target)
         IN  OnlyChanges(s, t, MoveFields) /\ SourceKnown(t) /\ t.large \in Positions(s)
<1> DEFINE n == target \div s.blksize + 1
           Good(t) == OnlyChanges(s, t, MoveFields) /\ SourceKnown(t) /\ t.large \in Positions(s)
<1>1. n \in Nat
  <2>1. s.blksize = BlkSize /\ target \div BlkSize \in Nat
    BY NatDivision DEF Base
  <2> QED BY <2>1
<1>2. PICK f : /\ f[0] = s /\ Index(s, target) = f[n]
               /\ \A k \in Nat : k < n => f[k + 1] = IndexBlock(f[k], target)
  BY <1>1, IndexByRounds
<1> DEFINE T == {k \in Nat : k <= n => Good(f[k])}
<1>3. 0 \in T
  <2>1. Good(s)
    BY ChangesNothing
  <2> HIDE DEF Good
  <2> QED BY <1>2, <2>1
<1>4. ASSUME NEW k \in Nat, k \in T
      PROVE  k + 1 \in T
  <2>1. SUFFICES ASSUME k + 1 <= n
                 PROVE  Good(f[k + 1])
    OBVIOUS
  <2> DEFINE u == f[k]
             v == IndexBlock(u, target)
  <2>2. Good(u) /\ f[k + 1] = v
    BY <1>1, <1>2, <1>4, <2>1
  <2> HIDE DEF u
  <2>3. Base(u) /\ u.source = s.source
    <3>1. MoveFields \cap BaseFields = {}
      BY DEF MoveFields, BaseFields, SourceFields
    <3>2. Base(u) /\ \A x \in BaseFields : u[x] = s[x]
      BY <2>2, <3>1, BaseKept
    <3> QED BY <3>2 DEF BaseFields
  <2>4. Positions(u) = Positions(s)
    BY <2>3 DEF Positions
  <2>5. SourceKnown(v) /\ v.large \in Positions(s)
    BY <2>2, <2>3, <2>4, IndexBlockKeeps
  <2>6. OnlyChanges(u, v, MoveFields)
    BY IndexBlockChanges
  <2>7. OnlyChanges(s, v, MoveFields)
    BY <2>2, <2>6, ChangesTwice
  <2>8. Good(v)
    BY <2>5, <2>7
  <2> HIDE DEF v, Good
  <2> QED BY <2>2, <2>8
<1> HIDE DEF T
<1>5. \A k \in Nat : k \in T
  BY <1>3, <1>4, NatInduct
<1>6. Good(f[n])
  BY <1>1, <1>5 DEF T
<1> QED
  BY <1>2, <1>6

\* The position of the index may move on within the source.
LEMMA PositionMoves ==
  ASSUME NEW s, SourceKnown(s), Len(s.source) \in Nat, NEW ck \in Nat, ck >= s.cksum_pos,
         ck = s.cksum_pos \/ ck <= Len(s.source),
         NEW t, t.source = s.source, t.max_blkno = s.max_blkno,
         t.onlastblk = s.onlastblk, t.eof_known = s.eof_known, t.cksum_pos = ck
  PROVE  SourceKnown(t)
<1>1. s.cksum_pos \in Nat /\ BlkSize \in Nat
  BY ConstantFacts DEF SourceKnown
<1>2. CASE s.eof_known = TRUE
  <2>1. KnownEnd(Len(s.source), s.max_blkno, s.onlastblk, s.cksum_pos)
    BY <1>2 DEF SourceKnown
  <2>2. KnownEnd(Len(s.source), s.max_blkno, s.onlastblk, ck)
    <3>1. s.cksum_pos >= BlkSize => ck >= BlkSize
      BY <1>1
    <3> QED BY <2>1, <3>1 DEF KnownEnd
  <2> QED BY <1>2, <2>2 DEF SourceKnown
<1>3. CASE s.eof_known = FALSE
  <2>1. UnknownEnd(Len(s.source), s.max_blkno, ck)
    BY <1>3 DEF SourceKnown, UnknownEnd
  <2> QED BY <1>3, <2>1 DEF SourceKnown
<1> QED
  BY <1>2, <1>3 DEF SourceKnown

LEMMA NextMoveKeeps ==
  ASSUME NEW s, Base(s), SourceKnown(s), NEW target
  PROVE  LET t == NextMove(s, target)
         IN  OnlyChanges(s, t, MoveFields) /\ SourceKnown(t) /\ t.large = s.large
<1> DEFINE t == NextMove(s, target)
           next == s.inp + s.blksize - ((s.cksum_pos - target) % s.blksize)
<1>0. SUFFICES OnlyChanges(s, t, MoveFields) /\ SourceKnown(t) /\ t.large = s.large
  OBVIOUS
<1>1. \/ s.eof_known /\ t = [s EXCEPT !.cksum_pos = SourceEof(s), !.next_move = AvailIn(s)]
      \/ t = [s EXCEPT !.next_move = next]
  BY DEF NextMove
<1>2. Names \subseteq DOMAIN s /\ (s.eof_known = TRUE \/ s.eof_known = FALSE)
  BY DEF Base, SourceKnown
<1> HIDE DEF t, next
<1>3. OnlyChanges(s, t, MoveFields)
  BY <1>1 DEF OnlyChanges, MoveFields
<1>4. /\ t.source = s.source /\ t.max_blkno = s.max_blkno /\ t.onlastblk = s.onlastblk
      /\ t.eof_known = s.eof_known /\ t.large = s.large
  BY <1>1, <1>2, ZenonT(60) DEF Names
<1>5. CASE t.cksum_pos = s.cksum_pos
  <2>1. SourceKnown(t)
    BY <1>4, <1>5 DEF SourceKnown
  <2> QED BY <1>3, <1>4, <2>1
<1>6. CASE s.eof_known = TRUE /\ t.cksum_pos = SourceEof(s)
  <2>1. SourceEof(s) \in Nat /\ (SourceEof(s) = Len(s.source) \/ SourceEof(s) = BlkSize)
    BY <1>6, SourceEofFacts
  <2>2. KnownEnd(Len(s.source), s.max_blkno, s.onlastblk, s.cksum_pos)
    BY <1>6 DEF SourceKnown
  <2>3. KnownEnd(Len(s.source), s.max_blkno, s.onlastblk, SourceEof(s))
    <3>1. CASE s.max_blkno = Len(s.source) \div BlkSize /\ s.onlastblk = Len(s.source) % BlkSize
      BY <3>1 DEF KnownEnd
    <3>2. CASE s.max_blkno = 1 /\ s.onlastblk = 0 /\ Len(s.source) < BlkSize
      <4>1. SourceEof(s) >= BlkSize
        BY <3>2, ConstantFacts DEF SourceEof, Base
      <4> QED BY <3>2, <4>1 DEF KnownEnd
    <3> QED BY <2>2, <3>1, <3>2 DEF KnownEnd
  <2>4. SourceKnown(t)
    BY <1>4, <1>6, <2>1, <2>3 DEF SourceKnown
  <2> QED BY <1>3, <1>4, <2>4
<1>7. \/ t.cksum_pos = s.cksum_pos
      \/ s.eof_known = TRUE /\ t.cksum_pos = SourceEof(s)
  BY <1>1, <1>2 DEF Names
<1> QED
  BY <1>3, <1>4, <1>5, <1>6, <1>7

\* xd3_srcwin_move_point keeps what is known of the source.
LEMMA MovePointKeeps ==
  ASSUME NEW s, Base(s), SourceOK(s)
  PROVE  LET t == MovePoint(s)
         IN  OnlyChanges(s, t, MoveFields) /\ SourceOK(t)
<1> DEFINE here == s.total_in + s.inp
           half == s.max_winsize \div 2
           far == here + half + 2 * s.blksize
           ck == Max({s.cksum_pos, s.maxsrcaddr})
           from == [s EXCEPT !.cksum_pos = ck]
           first == IF here < half THEN s.max_winsize ELSE far - (far % s.blksize)
           target == Max({first, from.cksum_pos})
           u == Index(from, target)
           t == MovePoint(s)
<1>0. SUFFICES OnlyChanges(s, t, MoveFields) /\ SourceOK(t)
  OBVIOUS
<1>1. /\ Names \subseteq DOMAIN s /\ s.cksum_pos \in Nat /\ s.maxsrcaddr \in Nat
      /\ s.maxsrcaddr <= Len(s.source) /\ Len(s.source) \in Nat /\ SourceKnown(s) /\ s.large \in Positions(s)
  BY DEF Base, SourceOK, SourceKnown, SourcePositions, Positions
<1>2. t = [s EXCEPT !.next_move = AvailIn(s)] \/ t = NextMove(u, target)
  BY DEF MovePoint
<1>3. ASSUME NEW w, OnlyChanges(s, w, MoveFields), SourceKnown(w), w.large \in Positions(s)
      PROVE  SourceOK(w)
  <2>1. w.source = s.source /\ w.maxsrcaddr = s.maxsrcaddr /\ w.match_srcpos = s.match_srcpos
    BY <1>1, <1>3 DEF OnlyChanges, MoveFields, SourceFields, Names
  <2> QED BY <1>3, <2>1 DEF SourceOK, SourcePositions, Positions
<1>4. CASE t = [s EXCEPT !.next_move = AvailIn(s)]
  <2>1. OnlyChanges(s, t, MoveFields)
    BY <1>4 DEF OnlyChanges, MoveFields
  <2>2. /\ t.source = s.source /\ t.max_blkno = s.max_blkno /\ t.onlastblk = s.onlastblk
        /\ t.eof_known = s.eof_known /\ t.large = s.large /\ t.cksum_pos = s.cksum_pos
    BY <1>1, <1>4 DEF Names
  <2> HIDE DEF t
  <2>3. SourceKnown(t)
    BY <1>1, <2>2 DEF SourceKnown
  <2> QED BY <1>1, <1>3, <2>1, <2>2, <2>3
<1>5. CASE t = NextMove(u, target)
  <2>1. ck = (IF s.cksum_pos >= s.maxsrcaddr THEN s.cksum_pos ELSE s.maxsrcaddr)
    BY <1>1, MaxTwo
  <2> HIDE DEF ck
  <2>2. ck \in Nat /\ ck >= s.cksum_pos /\ (ck = s.cksum_pos \/ ck <= Len(s.source))
    BY <1>1, <2>1
  <2>3. /\ from.source = s.source /\ from.max_blkno = s.max_blkno /\ from.onlastblk = s.onlastblk
        /\ from.eof_known = s.eof_known /\ from.large = s.large /\ from.cksum_pos = ck
    BY <1>1 DEF Names
  <2>4. OnlyChanges(s, from, MoveFields)
    BY DEF OnlyChanges, MoveFields
  <2>5. first \in Int
    <3>1. s.blksize \in Nat \ {0} /\ s.max_winsize \in Nat /\ s.total_in \in Nat /\ s.inp \in Nat
      BY ConstantFacts DEF Base
    <3>2. half \in Int
      BY <3>1
    <3> HIDE DEF half
    <3>3. far \in Int
      BY <3>1, <3>2
    <3> HIDE DEF far
    <3>4. far % s.blksize \in Int
      BY <3>1, <3>3
    <3> QED BY <3>1, <3>3, <3>4
  <2> HIDE DEF from, first
  <2>6. SourceKnown(from)
    BY <1>1, <2>2, <2>3, PositionMoves
  <2>7. target \in Nat
    <3>1. target = (IF first >= ck THEN first ELSE ck)
      BY <2>2, <2>3, <2>5, MaxTwo
    <3> QED BY <2>2, <2>5, <3>1
  <2> HIDE DEF target
  <2>8. MoveFields \cap BaseFields = {}
    BY DEF MoveFields, BaseFields, SourceFields
  <2>9. Base(from) /\ from.large \in Positions(from) /\ Positions(from) = Positions(s)
    <3>1. Base(from)
      BY <2>4, <2>8, BaseKept
    <3> QED BY <1>1, <2>3, <3>1 DEF Positions
  <2>10. OnlyChanges(from, u, MoveFields) /\ SourceKnown(u) /\ u.large \in Positions(s)
    BY <2>6, <2>7, <2>9, IndexKeeps
  <2> HIDE DEF u
  <2>11. Base(u)
    BY <2>8, <2>9, <2>10, BaseKept
  <2>12. OnlyChanges(u, t, MoveFields) /\ SourceKnown(t) /\ t.large = u.large
    BY <1>5, <2>10, <2>11, NextMoveKeeps
  <2> HIDE DEF t
  <2>13. OnlyChanges(s, u, MoveFields)
    BY <2>4, <2>10, ChangesTwice
  <2>14. OnlyChanges(s, t, MoveFields)
    BY <2>12, <2>13, ChangesTwice
  <2> QED BY <1>3, <2>10, <2>12, <2>14
<1> QED
  BY <1>2, <1>4, <1>5

-----------------------------------------------------------------------------
(* Instructions, and how overlaps between them are resolved. *)

Instrs == [type : {RUN, CPY}, pos : Int, size : Nat \ {0}, addr : Int, xtra : Int]

\* Those whose copies from the source lie between two of its positions.
CopiesWithin(lo, hi) ==
  {i \in Instrs : i.type = CPY /\ i.xtra = 1 => lo <= i.addr /\ EndOfCopy(i) <= hi}

LEMMA InstrFacts ==
  ASSUME NEW i \in Instrs
  PROVE  /\ i.type \in {RUN, CPY} /\ i.pos \in Int /\ i.size \in Nat /\ i.size > 0
         /\ i.addr \in Int /\ i.xtra \in Int
         /\ EndOf(i) \in Int /\ EndOf(i) = i.pos + i.size /\ EndOf(i) > i.pos
         /\ i = [type |-> i.type, pos |-> i.pos, size |-> i.size, addr |-> i.addr, xtra |-> i.xtra]
  BY DEF Instrs, EndOf

\* The sizes that two overlapping matches are cut by.
Cuts(r1, r2, cut1, cut2) ==
  /\ cut1 \in Nat /\ cut2 \in Nat /\ cut1 < r1.size /\ cut2 < r2.size
  /\ EndOf(r1) - cut1 = r2.pos + cut2
  /\ r1.size >= MIN_MATCH /\ r2.size >= MIN_MATCH
       => r1.size - cut1 >= MIN_MATCH /\ r2.size - cut2 >= MIN_MATCH
  /\ Split(r1, r2) = <<[r1 EXCEPT !.size = @ - cut1],
                       [r2 EXCEPT !.size = @ - cut2, !.pos = @ + cut2, !.addr = @ + cut2]>>

LEMMA SplitCuts ==
  ASSUME NEW r1 \in Instrs, NEW r2 \in Instrs, EndOf(r1) > r2.pos, ~ TooClose(r1, r2)
  PROVE  \E cut1, cut2 : Cuts(r1, r2, cut1, cut2)
<1> DEFINE gap == EndOf(r2) - r1.pos
           half == gap - gap \div 2
           newsize == Min({MAX_MATCH_SPLIT, half})
           overlap == EndOf(r1) - r2.pos
           cut == r1.size - newsize
           over == r2.pos - (EndOf(r1) - cut)
           most == Max({0, over})
           cut1 == IF newsize > r1.size THEN 0
                   ELSE IF newsize > r2.size THEN overlap
                   ELSE cut - most
           cut2 == IF newsize <= r1.size /\ newsize > r2.size THEN 0 ELSE overlap - cut1
<1>1. Split(r1, r2) = <<[r1 EXCEPT !.size = @ - cut1],
                        [r2 EXCEPT !.size = @ - cut2, !.pos = @ + cut2, !.addr = @ + cut2]>>
  BY DEF Split
<1>2. /\ r1.pos \in Int /\ r1.size \in Nat /\ r1.size > 0 /\ EndOf(r1) = r1.pos + r1.size
      /\ r2.pos \in Int /\ r2.size \in Nat /\ r2.size > 0 /\ EndOf(r2) = r2.pos + r2.size
  BY InstrFacts
<1>3. /\ gap >= 8 /\ gap \in Int /\ EndOf(r2) - EndOf(r1) > 2 /\ r2.pos - r1.pos > 2 /\ overlap > 0 /\ overlap \in Int
  BY <1>2 DEF TooClose, MIN_MATCH
<1> HIDE DEF gap
<1>4. half \in Int /\ 2 * half >= gap /\ 2 * half <= gap + 1
  BY <1>3
<1> HIDE DEF half
<1>5. MAX_MATCH_SPLIT \in Nat /\ MAX_MATCH_SPLIT >= 4
  BY RunsAndSplits DEF MIN_MATCH
<1>6. newsize = IF MAX_MATCH_SPLIT <= half THEN MAX_MATCH_SPLIT ELSE half
  BY <1>4, <1>5, MinTwo
<1> HIDE DEF newsize
<1>7. newsize \in Int /\ newsize >= 4 /\ newsize <= half
  BY <1>3, <1>4, <1>5, <1>6
<1>8. most = IF 0 >= over THEN 0 ELSE over
  BY <1>2, <1>7, MaxTwo
<1> HIDE DEF most
<1>9. gap = r2.pos + r2.size - r1.pos
  BY <1>2 DEF gap
<1>10. /\ cut1 \in Nat /\ cut2 \in Nat /\ cut1 < r1.size /\ cut2 < r2.size
       /\ EndOf(r1) - cut1 = r2.pos + cut2
       /\ r1.size >= MIN_MATCH /\ r2.size >= MIN_MATCH
            => r1.size - cut1 >= MIN_MATCH /\ r2.size - cut2 >= MIN_MATCH
  <2>1. CASE newsize > r1.size
    BY <1>2, <1>3, <1>4, <1>7, <1>9, <2>1 DEF MIN_MATCH
  <2>2. CASE newsize <= r1.size /\ newsize > r2.size
    BY <1>2, <1>3, <1>4, <1>7, <1>9, <2>2 DEF MIN_MATCH
  <2>3. CASE newsize <= r1.size /\ newsize <= r2.size
    BY <1>2, <1>3, <1>4, <1>7, <1>8, <1>9, <2>3, SMTT(60) DEF MIN_MATCH
  <2> QED BY <1>2, <1>7, <2>1, <2>2, <2>3
<1> HIDE DEF cut1, cut2
<1> QED
  BY <1>1, <1>10 DEF Cuts

\* Instructions of a kind that what is left of two that overlap is of too.
Cuttable(X) ==
  /\ X \subseteq Instrs
  /\ \A r1, r2 \in X : EndOf(r1) > r2.pos /\ ~ TooClose(r1, r2)
                        => Split(r1, r2)[1] \in X /\ Split(r1, r2)[2] \in X

\* The parts of a split are instructions, and copy from no other part of the source.
LEMMA WithinIsCuttable ==
  ASSUME NEW lo \in Int, NEW hi \in Int
  PROVE  Cuttable(CopiesWithin(lo, hi))
<1>0. SUFFICES ASSUME NEW r1 \in CopiesWithin(lo, hi), NEW r2 \in CopiesWithin(lo, hi),
                      EndOf(r1) > r2.pos, ~ TooClose(r1, r2)
               PROVE  Split(r1, r2)[1] \in CopiesWithin(lo, hi) /\ Split(r1, r2)[2] \in CopiesWithin(lo, hi)
  BY DEF Cuttable, CopiesWithin
<1>1. r1 \in Instrs /\ r2 \in Instrs
  BY DEF CopiesWithin
<1>2. PICK cut1, cut2 : Cuts(r1, r2, cut1, cut2)
  BY <1>0, <1>1, SplitCuts
<1>3. /\ cut1 \in Nat /\ cut2 \in Nat /\ cut1 < r1.size /\ cut2 < r2.size
      /\ Split(r1, r2)[1] = [r1 EXCEPT !.size = @ - cut1]
      /\ Split(r1, r2)[2] = [r2 EXCEPT !.size = @ - cut2, !.pos = @ + cut2, !.addr = @ + cut2]
  BY <1>2 DEF Cuts
<1>4. /\ r1.type \in {RUN, CPY} /\ r1.pos \in Int /\ r1.size \in Nat /\ r1.addr \in Int /\ r1.xtra \in Int
      /\ r2.type \in {RUN, CPY} /\ r2.pos \in Int /\ r2.size \in Nat /\ r2.addr \in Int /\ r2.xtra \in Int
      /\ r1 = [type |-> r1.type, pos |-> r1.pos, size |-> r1.size, addr |-> r1.addr, xtra |-> r1.xtra]
      /\ r2 = [type |-> r2.type, pos |-> r2.pos, size |-> r2.size, addr |-> r2.addr, xtra |-> r2.xtra]
  BY <1>1, InstrFacts
<1> DEFINE a == [type |-> r1.type, pos |-> r1.pos, size |-> r1.size - cut1, addr |-> r1.addr, xtra |-> r1.xtra]
           b == [type |-> r2.type, pos |-> r2.pos + cut2, size |-> r2.size - cut2, addr |-> r2.addr + cut2,
                 xtra |-> r2.xtra]
<1>5. Split(r1, r2)[1] = a
  BY <1>3, <1>4
<1>6. Split(r1, r2)[2] = b
  BY <1>3, <1>4
<1>7. a \in Instrs /\ b \in Instrs
  <2>1. r1.size - cut1 \in Nat \ {0} /\ r2.size - cut2 \in Nat \ {0} /\ r2.pos + cut2 \in Int /\ r2.addr + cut2 \in Int
    BY <1>3, <1>4
  <2> QED BY <1>4, <2>1 DEF Instrs
<1>8. a \in CopiesWithin(lo, hi)
  <2>1. r1.type = CPY /\ r1.xtra = 1 => lo <= r1.addr /\ r1.addr + r1.size <= hi
    BY DEF CopiesWithin, EndOfCopy
  <2>2. a.type = CPY /\ a.xtra = 1 => lo <= a.addr /\ a.addr + a.size <= hi
    BY <1>3, <1>4, <2>1
  <2> HIDE DEF a
  <2> QED BY <1>7, <2>2 DEF CopiesWithin, EndOfCopy
<1>9. b \in CopiesWithin(lo, hi)
  <2>1. r2.type = CPY /\ r2.xtra = 1 => lo <= r2.addr /\ r2.addr + r2.size <= hi
    BY DEF CopiesWithin, EndOfCopy
  <2>2. b.type = CPY /\ b.xtra = 1 => lo <= b.addr /\ b.addr + b.size <= hi
    BY <1>3, <1>4, <2>1
  <2> HIDE DEF b
  <2> QED BY <1>7, <2>2 DEF CopiesWithin, EndOfCopy
<1> QED
  BY <1>5, <1>6, <1>8, <1>9

\* The pieces of a sequence.
LEMMA RestFacts ==
  ASSUME NEW X, NEW todo \in Seq(X), Len(todo) >= 2
  PROVE  /\ todo[1] \in X /\ todo[2] \in X
         /\ SubSeq(todo, 3, Len(todo)) \in Seq(X) /\ Len(SubSeq(todo, 3, Len(todo))) = Len(todo) - 2
         /\ \A k \in 1..(Len(todo) - 2) : SubSeq(todo, 3, Len(todo))[k] = todo[k + 2]
         /\ Tail(todo) \in Seq(X) /\ Len(Tail(todo)) = Len(todo) - 1
         /\ \A k \in 1..(Len(todo) - 1) : Tail(todo)[k] = todo[k + 1]
<1>1. todo[1] \in X /\ todo[2] \in X /\ Len(todo) \in Nat
  OBVIOUS
<1> DEFINE rest == SubSeq(todo, 3, Len(todo))
<1>2. /\ rest \in Seq(X) /\ Len(rest) = Len(todo) - 2
      /\ \A k \in 1..(Len(todo) - 2) : rest[k] = todo[k + 2]
  <2>1. Len(todo) \in Int /\ \A k \in 3..Len(todo) : todo[k] \in X
    BY <1>1
  <2>2. /\ rest \in Seq(X) /\ Len(rest) = (IF 3 <= Len(todo) THEN Len(todo) - 3 + 1 ELSE 0)
        /\ \A k \in 1..(Len(todo) - 3 + 1) : rest[k] = todo[3 + k - 1]
    BY <2>1, SubSeqProperties
  <2> HIDE DEF rest
  <2>3. Len(rest) = Len(todo) - 2
    <3> DEFINE n == Len(todo)
    <3>1. n \in Nat /\ n >= 2 /\ Len(rest) = (IF 3 <= n THEN n - 3 + 1 ELSE 0)
      BY <1>1, <2>2
    <3> HIDE DEF n
    <3>2. Len(rest) = n - 2
      BY <3>1
    <3> QED BY <3>2 DEF n
  <2>4. ASSUME NEW k \in 1..(Len(todo) - 2)
        PROVE  rest[k] = todo[k + 2]
    <3>1. k \in 1..(Len(todo) - 3 + 1) /\ 3 + k - 1 = k + 2
      BY <1>1
    <3> QED BY <2>2, <3>1
  <2> QED BY <2>2, <2>3, <2>4
<1>3. todo # <<>>
  OBVIOUS
<1>4. /\ Tail(todo) \in Seq(X) /\ Len(Tail(todo)) = Len(todo) - 1
      /\ \A k \in 1..(Len(todo) - 1) : Tail(todo)[k] = todo[k + 1]
  BY <1>3, HeadTailProperties
<1> QED
  BY <1>1, <1>2, <1>3, <1>4

LEMMA PushFacts ==
  ASSUME NEW X, NEW x \in X, NEW s \in Seq(X)
  PROVE  /\ <<x>> \o s \in Seq(X) /\ Len(<<x>> \o s) = Len(s) + 1 /\ (<<x>> \o s)[1] = x
         /\ \A k \in 1..Len(s) : (<<x>> \o s)[k + 1] = s[k]
         /\ Append(s, x) \in Seq(X) /\ Len(Append(s, x)) = Len(s) + 1 /\ Append(s, x)[Len(s) + 1] = x
         /\ \A k \in 1..Len(s) : Append(s, x)[k] = s[k]
  OBVIOUS

LEMMA ResolveKeeps ==
  ASSUME NEW X, Cuttable(X), NEW c, c.done \in Seq(X),
         c.todo \in Seq(X), DOMAIN c = {"done", "todo"}, NEW force
  PROVE  LET b == Resolve(c, force)
         IN  /\ b.done \in Seq(X) /\ b.todo \in Seq(X)
             /\ DOMAIN b = {"done", "todo"} /\ Len(b.done) + Len(b.todo) <= Len(c.done) + Len(c.todo)
<1> DEFINE b == Resolve(c, force)
           r1 == c.todo[1]
           r2 == c.todo[2]
           rest == SubSeq(c.todo, 3, Len(c.todo))
           s == Split(r1, r2)
           Good(u) == /\ u.done \in Seq(X) /\ u.todo \in Seq(X) /\ DOMAIN u = {"done", "todo"}
                      /\ Len(u.done) + Len(u.todo) <= Len(c.done) + Len(c.todo)
<1>0. SUFFICES Good(b)
  OBVIOUS
<1>1. \/ b = c
      \/ /\ Len(c.todo) >= 2
         /\ \/ b = [done |-> Append(c.done, r1), todo |-> Tail(c.todo)]
            \/ b = [c EXCEPT !.todo = <<r1>> \o rest]
            \/ EndOf(r1) > r2.pos /\ ~ TooClose(r1, r2) /\ b = [done |-> Append(c.done, s[1]), todo |-> <<s[2]>> \o rest]
            \/ b = [c EXCEPT !.todo = Tail(@)]
            \/ b = [done |-> Append(c.done, r1), todo |-> rest]
  <2>1. CASE Resolved(c, force)
    BY <2>1 DEF Resolve
  <2>2. CASE ~ Resolved(c, force)
    <3>1. Len(c.todo) >= 2 /\ Len(c.todo) \in Nat
      BY <2>2 DEF Resolved
    <3>2. r1 \in Instrs /\ r2 \in Instrs
      BY <3>1, RestFacts DEF Cuttable
    <3>3. EndOf(r1) <= r2.pos \/ EndOf(r1) > r2.pos
      BY <3>2, InstrFacts, SMTT(60)
    <3> HIDE DEF s
    <3> QED BY <2>2, <3>1, <3>3 DEF Resolve, s
  <2> QED BY <2>1, <2>2
<1> HIDE DEF b
<1>2. Len(c.done) \in Nat /\ Len(c.todo) \in Nat
  OBVIOUS
<1>3. CASE b = c
  BY <1>2, <1>3
<1>4. ASSUME Len(c.todo) >= 2
      PROVE  /\ r1 \in X /\ r2 \in X /\ rest \in Seq(X) /\ Len(rest) = Len(c.todo) - 2
             /\ Tail(c.todo) \in Seq(X) /\ Len(Tail(c.todo)) = Len(c.todo) - 1
             /\ Append(c.done, r1) \in Seq(X) /\ Len(Append(c.done, r1)) = Len(c.done) + 1
             /\ <<r1>> \o rest \in Seq(X) /\ Len(<<r1>> \o rest) = Len(c.todo) - 1
  <2>1. r1 \in X /\ r2 \in X /\ rest \in Seq(X) /\ Len(rest) = Len(c.todo) - 2
        /\ Tail(c.todo) \in Seq(X) /\ Len(Tail(c.todo)) = Len(c.todo) - 1
    BY <1>4, RestFacts
  <2> HIDE DEF r1, r2, rest
  <2>2. Append(c.done, r1) \in Seq(X) /\ Len(Append(c.done, r1)) = Len(c.done) + 1
    BY <2>1, PushFacts
  <2>3. <<r1>> \o rest \in Seq(X) /\ Len(<<r1>> \o rest) = Len(c.todo) - 1
    BY <1>2, <2>1, PushFacts
  <2> QED BY <2>1, <2>2, <2>3
<1>5. ASSUME Len(c.todo) >= 2, EndOf(r1) > r2.pos, ~ TooClose(r1, r2)
      PROVE  /\ Append(c.done, s[1]) \in Seq(X) /\ Len(Append(c.done, s[1])) = Len(c.done) + 1
             /\ <<s[2]>> \o rest \in Seq(X) /\ Len(<<s[2]>> \o rest) = Len(c.todo) - 1
  <2>1. s[1] \in X /\ s[2] \in X
    BY <1>4, <1>5 DEF Cuttable
  <2>2. rest \in Seq(X) /\ Len(rest) = Len(c.todo) - 2 /\ c.done \in Seq(X)
    BY <1>4, <1>5
  <2> HIDE DEF s, r1, r2, rest
  <2> QED BY <1>2, <2>1, <2>2, PushFacts
<1>6. CASE Len(c.todo) >= 2 /\ b = [done |-> Append(c.done, r1), todo |-> Tail(c.todo)]
  <2> HIDE DEF r1
  <2> QED BY <1>2, <1>4, <1>6
<1>7. CASE Len(c.todo) >= 2 /\ b = [c EXCEPT !.todo = <<r1>> \o rest]
  <2>1. b.done = c.done /\ b.todo = <<r1>> \o rest /\ DOMAIN b = {"done", "todo"}
    BY <1>7
  <2> HIDE DEF r1, rest
  <2> QED BY <1>2, <1>4, <1>7, <2>1
<1>8. CASE /\ Len(c.todo) >= 2 /\ EndOf(r1) > r2.pos /\ ~ TooClose(r1, r2)
           /\ b = [done |-> Append(c.done, s[1]), todo |-> <<s[2]>> \o rest]
  <2>1. b.done = Append(c.done, s[1]) /\ b.todo = <<s[2]>> \o rest /\ DOMAIN b = {"done", "todo"}
    BY <1>8
  <2> HIDE DEF r1, r2, rest, s
  <2> QED BY <1>2, <1>5, <1>8, <2>1
<1>9. CASE Len(c.todo) >= 2 /\ b = [c EXCEPT !.todo = Tail(@)]
  <2>1. b.done = c.done /\ b.todo = Tail(c.todo) /\ DOMAIN b = {"done", "todo"}
    BY <1>9
  <2> QED BY <1>2, <1>4, <1>9, <2>1
<1>10. CASE Len(c.todo) >= 2 /\ b = [done |-> Append(c.done, r1), todo |-> rest]
  <2> HIDE DEF r1, rest
  <2> QED BY <1>2, <1>4, <1>10
<1> QED
  BY <1>1, <1>3, <1>6, <1>7, <1>8, <1>9, <1>10

Passed(u, X, n) ==
  /\ u.done \in Seq(X) /\ u.todo \in Seq(X) /\ DOMAIN u = {"done", "todo"}
  /\ Len(u.done) + Len(u.todo) <= n

LEMMA CompactKeeps ==
  ASSUME NEW X, Cuttable(X), NEW used \in Seq(X), NEW force
  PROVE  /\ Compact(used, force) \in Seq(X)
         /\ Len(Compact(used, force)) <= Len(used)
<1> DEFINE n == Len(used)
<1>1. n \in Nat
  OBVIOUS
<1>2. PICK f : /\ f[0] = NonePassed(used)
               /\ Compact(used, force) = f[n].done \o f[n].todo
               /\ \A k \in Nat : k < n => f[k + 1] = Resolve(f[k], force)
  <2>1. Len(used) \in Nat
    BY <1>1
  <2>2. \E f : /\ f[0] = NonePassed(used)
               /\ Compact(used, force) = f[Len(used)].done \o f[Len(used)].todo
               /\ \A k \in Nat : k < Len(used) => f[k + 1] = Resolve(f[k], force)
    BY <2>1, CompactByRounds
  <2> QED BY <2>2
<1>0. used \in Seq(X) /\ n = Len(used)
  OBVIOUS
<1> HIDE DEF n
<1> DEFINE T == {k \in Nat : k <= n => Passed(f[k], X, n)}
<1>3. 0 \in T
  <2> DEFINE u == NonePassed(used)
  <2>1. u.done = <<>> /\ u.todo = used /\ DOMAIN u = {"done", "todo"}
    BY DEF NonePassed
  <2>2. f[0] = u
    BY <1>2
  <2> HIDE DEF u
  <2>3. Passed(u, X, n)
    <3> QED BY <1>0, <1>1, <2>1 DEF Passed
  <2> QED BY <2>2, <2>3
<1>4. ASSUME NEW k \in Nat, k \in T
      PROVE  k + 1 \in T
  <2>1. SUFFICES ASSUME k + 1 <= n
                 PROVE  Passed(f[k + 1], X, n)
    OBVIOUS
  <2> DEFINE u == f[k]
             v == Resolve(u, force)
  <2>2. Passed(u, X, n) /\ f[k + 1] = v
    BY <1>1, <1>2, <1>4, <2>1
  <2> HIDE DEF u
  <2>3. /\ v.done \in Seq(X) /\ v.todo \in Seq(X) /\ DOMAIN v = {"done", "todo"}
        /\ Len(v.done) + Len(v.todo) <= Len(u.done) + Len(u.todo)
    BY <2>2, ResolveKeeps DEF Passed
  <2> HIDE DEF v
  <2>4. Passed(v, X, n)
    <3>1. /\ Len(u.done) \in Nat /\ Len(u.todo) \in Nat /\ Len(v.done) \in Nat /\ Len(v.todo) \in Nat
          /\ Len(u.done) + Len(u.todo) <= n
      BY <2>2, <2>3 DEF Passed
    <3> DEFINE a1 == Len(u.done)
               a2 == Len(u.todo)
               b1 == Len(v.done)
               b2 == Len(v.todo)
    <3>2. /\ a1 \in Nat /\ a2 \in Nat /\ b1 \in Nat /\ b2 \in Nat
          /\ a1 + a2 <= n /\ b1 + b2 <= a1 + a2
      BY <2>3, <3>1
    <3> HIDE DEF a1, a2, b1, b2
    <3>3. b1 + b2 <= n
      BY <1>1, <3>2
    <3> QED BY <2>3, <3>3 DEF Passed, b1, b2
  <2> QED BY <2>2, <2>4
<1> HIDE DEF T
<1>5. \A k \in Nat : k \in T
  BY <1>3, <1>4, NatInduct
<1>6. Passed(f[n], X, n)
  BY <1>1, <1>5 DEF T
<1>7. Compact(used, force) \in Seq(X) /\ Len(Compact(used, force)) <= n
  <2> DEFINE a == f[n].done
             b == f[n].todo
  <2>1. a \in Seq(X) /\ b \in Seq(X) /\ Len(a) + Len(b) <= n /\ Compact(used, force) = a \o b
    BY <1>2, <1>6 DEF Passed
  <2> HIDE DEF a, b
  <2>2. a \o b \in Seq(X) /\ Len(a \o b) = Len(a) + Len(b)
    BY <2>1
  <2> QED BY <2>1, <2>2
<1> QED
  BY <1>0, <1>7

-----------------------------------------------------------------------------
(* An address is sent in one of the modes there are. *)

NearKnown(c) == c.near \in [NearSlots -> Int] /\ c.next_slot \in NearSlots \cup {0}

LEMMA UpdateKeeps ==
  ASSUME NEW c, NearKnown(c), NEW addr \in Int
  PROVE  NearKnown(Update(c, addr))
<1> DEFINE b == Update(c, addr)
<1>0. SUFFICES NearKnown(b)
  OBVIOUS
<1>1. /\ b.near = IF NearModes > 0 THEN [c.near EXCEPT ![c.next_slot] = addr] ELSE c.near
      /\ b.next_slot = IF NearModes > 0 THEN (c.next_slot + 1) % NearModes ELSE c.next_slot
  BY DEF Update
<1> HIDE DEF b
<1>2. NearModes \in Nat
  BY ModesAssumption
<1>3. CASE NearModes > 0
  <2>1. c.next_slot + 1 \in Int /\ NearModes \in Nat \ {0}
    BY <1>2, <1>3 DEF NearKnown, NearSlots
  <2>2. b.next_slot \in 0..(NearModes - 1)
    BY <1>1, <1>3, <2>1, Division
  <2>3. b.near \in [NearSlots -> Int]
    BY <1>1, <1>3 DEF NearKnown
  <2> QED BY <2>2, <2>3 DEF NearKnown, NearSlots
<1>4. CASE ~ (NearModes > 0)
  BY <1>1, <1>4 DEF NearKnown
<1> QED
  BY <1>3, <1>4

LEMMA UsableModes ==
  ASSUME NEW c, NearKnown(c), NEW addr \in Int, NEW here \in Int
  PROVE  /\ Usable(c, addr) \subseteq Nat /\ Usable(c, addr) # {}
         /\ \A m \in Usable(c, addr) : Distance(c, addr, here, m) \in Int
<1>1. NearModes \in Nat /\ NearSlots \subseteq Nat
  BY ModesAssumption DEF NearSlots
<1>2. Usable(c, addr) \subseteq Nat
  <2>1. ASSUME NEW m \in Usable(c, addr)
        PROVE  m \in Nat
    <3>1. m \in {VCD_SELF, VCD_HERE} \/ \E i \in NearSlots : m = FirstNear + i
      BY <2>1 DEF Usable
    <3>2. \A i \in NearSlots : FirstNear + i \in Nat
      BY <1>1 DEF FirstNear
    <3>3. {VCD_SELF, VCD_HERE} \subseteq Nat
      BY DEF VCD_SELF, VCD_HERE
    <3> QED BY <3>1, <3>2, <3>3
  <2> QED BY <2>1
<1>3. VCD_SELF \in Usable(c, addr)
  BY DEF Usable
<1>4. ASSUME NEW m \in Usable(c, addr)
      PROVE  Distance(c, addr, here, m) \in Int
  <2>1. CASE m \in {VCD_SELF, VCD_HERE}
    BY <2>1 DEF Distance, VCD_SELF, VCD_HERE
  <2>2. CASE \E i \in NearSlots : m = FirstNear + i
    <3>1. PICK i \in NearSlots : m = FirstNear + i
      BY <2>2
    <3>2. m - FirstNear = i /\ m # VCD_SELF /\ m # VCD_HERE
      BY <1>1, <3>1 DEF FirstNear, VCD_SELF, VCD_HERE
    <3>3. c.near[i] \in Int
      BY DEF NearKnown
    <3> QED BY <3>2, <3>3 DEF Distance
  <2> QED BY <1>4, <2>1, <2>2 DEF Usable
<1> QED
  BY <1>2, <1>3, <1>4

\* Among the modes of the smallest number, the first; there is a smallest number because
\* a NEAR address is only used from below.
LEMMA ClosestExists ==
  ASSUME NEW c, NearKnown(c), NEW addr \in Int, NEW here \in Int
  PROVE  Closest(c, addr, here) \in Usable(c, addr)
<1> DEFINE U == Usable(c, addr)
           dist(m) == Distance(c, addr, here, m)
           D == {x \in Int : \E m \in U : x = dist(m)}
<1>1. U \subseteq Nat /\ U # {} /\ \A m \in U : dist(m) \in Int
  BY UsableModes
<1>2. \E b \in Int : \A m \in U : dist(m) >= b
  <2> DEFINE b == IF addr <= here - addr THEN (IF addr <= 0 THEN addr ELSE 0)
                  ELSE (IF here - addr <= 0 THEN here - addr ELSE 0)
  <2>1. b \in Int /\ b <= 0 /\ b <= addr /\ b <= here - addr
    OBVIOUS
  <2> HIDE DEF b
  <2>2. ASSUME NEW m \in U
        PROVE  dist(m) >= b
    <3>1. CASE m = VCD_SELF
      BY <2>1, <3>1 DEF Distance
    <3>2. CASE m = VCD_HERE
      BY <2>1, <3>2 DEF Distance, VCD_SELF, VCD_HERE
    <3>3. CASE \E i \in NearSlots : m = FirstNear + i /\ c.near[i] <= addr
      <4>1. PICK i \in NearSlots : m = FirstNear + i /\ c.near[i] <= addr
        BY <3>3
      <4>2. i \in Nat
        BY ModesAssumption DEF NearSlots
      <4>3. m - FirstNear = i /\ m # VCD_SELF /\ m # VCD_HERE
        BY <4>1, <4>2 DEF FirstNear, VCD_SELF, VCD_HERE
      <4>4. c.near[i] \in Int
        BY DEF NearKnown
      <4>5. dist(m) = addr - c.near[i]
        BY <4>3 DEF Distance
      <4> HIDE DEF dist
      <4> QED BY <2>1, <4>1, <4>4, <4>5
    <3> QED BY <2>2, <3>1, <3>2, <3>3 DEF Usable
  <2> QED BY <2>1, <2>2
<1>3. PICK b \in Int : \A m \in U : dist(m) >= b
  BY <1>2
<1> HIDE DEF U, dist
<1>4. PICK x \in D : \A y \in D : x <= y
  <2>1. D \subseteq Int /\ D # {} /\ \A y \in D : y >= b
    BY <1>1, <1>3
  <2> HIDE DEF D
  <2> QED BY <2>1, MinBounded
<1> DEFINE M == {m \in U : dist(m) = x}
<1>5. PICK m \in M : \A k \in M : m <= k
  <2>1. M \subseteq Nat /\ M # {}
    BY <1>1, <1>4
  <2> HIDE DEF M
  <2> QED BY <2>1, NatMin
<1>6. m \in U /\ \A n \in U : dist(m) < dist(n) \/ (dist(m) = dist(n) /\ m <= n)
  <2>1. m \in U /\ dist(m) = x
    BY <1>5
  <2>2. ASSUME NEW n \in U
        PROVE  dist(m) < dist(n) \/ (dist(m) = dist(n) /\ m <= n)
    <3>1. dist(n) \in Int /\ dist(n) \in D /\ x \in Int
      BY <1>1, <1>4
    <3>2. x <= dist(n)
      BY <1>4, <3>1
    <3>3. CASE dist(n) = x
      BY <1>5, <2>1, <3>3
    <3>4. CASE dist(n) # x
      <4> DEFINE y == dist(n)
      <4>1. y \in Int /\ x \in Int /\ x <= y /\ y # x
        BY <3>1, <3>2, <3>4
      <4> HIDE DEF y
      <4>2. x < y
        BY <4>1
      <4> QED BY <2>1, <4>2 DEF y
    <3> QED BY <3>3, <3>4
  <2> QED BY <2>1, <2>2
<1>7. \E a \in U : \A n \in U : dist(a) < dist(n) \/ (dist(a) = dist(n) /\ a <= n)
  BY <1>6
<1> QED
  BY <1>7 DEF Closest, U, dist

LEMMA ModeIsNat ==
  ASSUME NEW c, NearKnown(c), NEW addr \in Int, NEW here \in Int
  PROVE  Encode(c, addr, here).mode \in Nat
<1> DEFINE S == SmallModes(c, addr, here)
           m == IF S # {} THEN FirstSmall(c, addr, here) ELSE Closest(c, addr, here)
<1>1. Usable(c, addr) \subseteq Nat
  BY UsableModes
<1>2. m \in Nat
  <2>1. CASE S # {}
    <3>1. S \subseteq Nat
      BY <1>1 DEF SmallModes
    <3>2. \E k \in S : \A n \in S : k <= n
      <4> HIDE DEF S
      <4> QED BY <2>1, <3>1, NatMin
    <3>3. FirstSmall(c, addr, here) \in S
      BY <3>2 DEF FirstSmall
    <3> QED BY <2>1, <3>1, <3>3
  <2>2. CASE S = {}
    BY <1>1, <2>2, ClosestExists
  <2> QED BY <2>1, <2>2
<1> HIDE DEF m
<1>3. ASSUME S = {}, SameHit(c, addr)
      PROVE  FirstSame + SameSlot(addr) \div Buckets \in Nat
  <2>1. SameModes \in Nat /\ SameModes > 0 /\ Buckets \in Nat \ {0} /\ NearModes \in Nat
    BY <1>3, ModesAssumption DEF SameHit
  <2>2. SameModes * Buckets \in Nat \ {0}
    BY <2>1
  <2>3. SameSlot(addr) \in Nat
    <3> DEFINE w == SameModes * Buckets
    <3>1. w \in Nat \ {0}
      BY <2>2
    <3> HIDE DEF w
    <3>2. addr % w \in 0..(w - 1)
      BY <3>1, Division
    <3> QED BY <3>1, <3>2 DEF SameSlot, w
  <2> DEFINE x == SameSlot(addr)
  <2> HIDE DEF x
  <2>4. x \div Buckets \in Nat
    BY <2>1, <2>3 DEF x
  <2> QED BY <2>1, <2>4 DEF FirstSame, x
<1> HIDE DEF S
<1>4. Encode(c, addr, here).mode
      = IF S = {} /\ SameHit(c, addr) THEN FirstSame + SameSlot(addr) \div Buckets ELSE m
  BY DEF Encode, S, m
<1> QED
  BY <1>2, <1>3, <1>4

-----------------------------------------------------------------------------
(* Instructions are encoded. *)

\* The source positions that copies are taken from, or may be once the window is decided.
Lo(s) == IF s.decided THEN s.srcbase ELSE s.minaddr
Hi(s) == IF s.decided THEN s.srcbase + s.srclen ELSE s.maxaddr

CodeOK(s) ==
  /\ s.iout = <<>> \/ \E i : s.iout = <<i>>
  /\ NearKnown(s.acache)
  /\ s.decided \in BOOLEAN /\ s.srcbase \in Nat /\ s.srclen \in Int
  /\ s.minaddr \in Nat /\ s.maxaddr \in Nat /\ s.maxaddr <= Len(s.source)
  /\ s.free \in Int /\ s.off \in Int

LEMMA LoHi ==
  ASSUME NEW s, CodeOK(s)
  PROVE  Lo(s) \in Nat /\ Hi(s) \in Int
  BY DEF CodeOK, Lo, Hi

\* The fields that the invariants of source and code speak of.
SourceOKFields == SourceFields \cup {"source", "cksum_pos", "large", "maxsrcaddr", "match_srcpos"}
CodeOKFields ==
  {"iout", "acache", "decided", "srcbase", "srclen", "minaddr", "maxaddr", "source", "free", "off"}

LEMMA KnownKept ==
  ASSUME NEW s, Base(s), SourceKnown(s), NEW t, NEW F, OnlyChanges(s, t, F),
         F \cap (SourceFields \cup {"source", "cksum_pos"}) = {}
  PROVE  SourceKnown(t)
<1>1. \A x \in SourceFields \cup {"source", "cksum_pos"} : t[x] = s[x]
  BY DEF OnlyChanges, Base, Names, SourceFields
<1>2. /\ t.max_blkno = s.max_blkno /\ t.onlastblk = s.onlastblk /\ t.eof_known = s.eof_known
      /\ t.source = s.source /\ t.cksum_pos = s.cksum_pos
  BY <1>1 DEF SourceFields
<1> QED
  BY <1>2 DEF SourceKnown

LEMMA SourceKept ==
  ASSUME NEW s, Base(s), SourceOK(s), NEW t, NEW F, OnlyChanges(s, t, F), F \cap SourceOKFields = {}
  PROVE  SourceOK(t)
<1>1. \A x \in SourceOKFields : t[x] = s[x]
  BY DEF OnlyChanges, Base, Names, SourceFields, SourceOKFields
<1>2. /\ t.source = s.source /\ t.large = s.large /\ t.maxsrcaddr = s.maxsrcaddr
      /\ t.match_srcpos = s.match_srcpos
  BY <1>1 DEF SourceOKFields
<1>3. SourceKnown(t)
  BY KnownKept DEF SourceOK, SourceOKFields
<1> QED
  BY <1>2, <1>3 DEF SourceOK, SourcePositions

LEMMA CodeKept ==
  ASSUME NEW s, Base(s), CodeOK(s), NEW t, NEW F, OnlyChanges(s, t, F), F \cap CodeOKFields = {}
  PROVE  /\ CodeOK(t) /\ t.free = s.free /\ t.off = s.off /\ t.iout = s.iout
         /\ Waits(t) = Waits(s) /\ Lo(t) = Lo(s) /\ Hi(t) = Hi(s)
         /\ t.decided = s.decided /\ t.srcbase = s.srcbase /\ t.srclen = s.srclen
         /\ t.minaddr = s.minaddr /\ t.maxaddr = s.maxaddr
<1>1. \A x \in CodeOKFields : t[x] = s[x]
  BY DEF OnlyChanges, Base, Names, CodeOKFields
<1>2. /\ t.iout = s.iout /\ t.acache = s.acache /\ t.decided = s.decided /\ t.srcbase = s.srcbase
      /\ t.srclen = s.srclen /\ t.minaddr = s.minaddr /\ t.maxaddr = s.maxaddr
      /\ t.source = s.source /\ t.free = s.free /\ t.off = s.off
  BY <1>1 DEF CodeOKFields
<1> QED
  BY <1>2 DEF CodeOK, Waits, Lo, Hi

\* The source window, once it is decided, holds the copies found before: what is known of
\* the source's end cuts none of them off.
LEMMA SrcwinSetupKeeps ==
  ASSUME NEW s, Base(s), SourceKnown(s), CodeOK(s), s.decided = FALSE
  PROVE  LET t == SrcwinSetup(s)
         IN  /\ OnlyChanges(s, t, {"decided", "srcbase", "srclen"})
             /\ CodeOK(t) /\ Lo(t) <= Lo(s) /\ Hi(s) <= Hi(t)
<1> DEFINE t == SrcwinSetup(s)
           length == s.maxaddr - s.minaddr
           room == AvailIn(s) + AvailIn(s) \div 4
           guess == Max({length, room})
           cut == IF s.eof_known THEN Min({guess, SourceEof(s) - s.minaddr}) ELSE guess
           none == s.instr /\ s.maxaddr = 0
           base == IF none THEN 0 ELSE s.minaddr
           len == IF none THEN 0 ELSE IF s.instr THEN length ELSE cut
<1>0. SUFFICES /\ OnlyChanges(s, t, {"decided", "srcbase", "srclen"})
               /\ CodeOK(t) /\ Lo(t) <= Lo(s) /\ Hi(s) <= Hi(t)
  OBVIOUS
<1>1. t = [s EXCEPT !.decided = TRUE, !.srcbase = base, !.srclen = len]
  BY DEF SrcwinSetup
<1>2. /\ s.minaddr \in Nat /\ s.maxaddr \in Nat /\ s.maxaddr <= Len(s.source)
      /\ Names \subseteq DOMAIN s
  BY DEF CodeOK, Base
<1>3. length \in Int
  BY <1>2
<1>4. room \in Int
  BY Division DEF AvailIn, Base
<1>5. guess \in Int /\ guess >= length
  <2> HIDE DEF length, room
  <2> QED BY <1>3, <1>4, MaxTwo
<1>6. cut \in Int /\ cut >= length
  <2>1. CASE s.eof_known
    <3>1. SourceEof(s) \in Nat /\ SourceEof(s) >= Len(s.source) /\ Len(s.source) \in Nat
      BY <2>1, SourceEofFacts DEF Base
    <3> DEFINE left == SourceEof(s) - s.minaddr
    <3>2. left \in Int /\ left >= length
      BY <1>2, <3>1
    <3> HIDE DEF left, length, guess
    <3>3. Min({guess, left}) \in Int /\ Min({guess, left}) >= length
      BY <1>3, <1>5, <3>2, MinTwo
    <3> QED BY <2>1, <3>3 DEF left
  <2>2. CASE ~ s.eof_known
    BY <1>5, <2>2
  <2> QED BY <2>1, <2>2
<1> HIDE DEF guess, cut
<1>7. base \in Nat /\ len \in Int /\ base <= s.minaddr /\ s.maxaddr <= base + len
  BY <1>2, <1>3, <1>6
<1> HIDE DEF base, len, t, none, length
<1>8. OnlyChanges(s, t, {"decided", "srcbase", "srclen"})
  BY <1>1 DEF OnlyChanges
<1>9. t.decided = TRUE /\ t.srcbase = base /\ t.srclen = len
  BY <1>1, <1>2 DEF Names
<1>10. /\ t.iout = s.iout /\ t.acache = s.acache /\ t.minaddr = s.minaddr /\ t.maxaddr = s.maxaddr
       /\ t.source = s.source /\ t.free = s.free /\ t.off = s.off
  BY <1>2, <1>8 DEF OnlyChanges, Names
<1>11. CodeOK(t)
  BY <1>7, <1>9, <1>10 DEF CodeOK
<1>12. Lo(t) = base /\ Hi(t) = base + len /\ Lo(s) = s.minaddr /\ Hi(s) = s.maxaddr
  BY <1>9 DEF Lo, Hi
<1> QED
  BY <1>7, <1>8, <1>11, <1>12

\* Instructions and the ADDs between them.
Adds == [type : {ADD}, pos : Int, size : Nat \ {0}, addr : Int, xtra : Int]

\* The elements that the instructions of a type hold.
Slot(i) == IF i.type = ADD THEN 0 ELSE 1

OperandFields == {"decided", "srcbase", "srclen", "acache", "addr", "data"}

LEMMA EncodeAddressKeeps ==
  ASSUME NEW s, Base(s), CodeOK(s), NEW i \in Instrs, i.type = CPY
  PROVE  LET r == EncodeAddress(s, i)
         IN  /\ OnlyChanges(s, r.e, {"acache", "addr"}) /\ CodeOK(r.e)
             /\ Lo(r.e) = Lo(s) /\ Hi(r.e) = Hi(s)
             /\ r.i.type # ADD /\ r.i.size = i.size
<1> DEFINE a == IF i.xtra = 1 THEN i.addr - s.srcbase ELSE s.srclen + i.addr
           sent == Encode(s.acache, a, i.pos + s.srclen)
           cache == Update(s.acache, a)
           t == [s EXCEPT !.acache = cache, !.addr = Append(@, sent.value)]
           j == [i EXCEPT !.type = CPY + sent.mode]
<1>1. EncodeAddress(s, i) = [e |-> t, i |-> j]
  BY DEF EncodeAddress
<1>2. /\ i.xtra \in Int /\ i.addr \in Int /\ i.pos \in Int
      /\ i = [type |-> i.type, pos |-> i.pos, size |-> i.size, addr |-> i.addr, xtra |-> i.xtra]
  BY InstrFacts
<1>3. s.srcbase \in Int /\ s.srclen \in Int /\ NearKnown(s.acache) /\ Names \subseteq DOMAIN s
  BY DEF CodeOK, Base
<1>4. a \in Int /\ i.pos + s.srclen \in Int
  BY <1>2, <1>3
<1> HIDE DEF a
<1>5. sent.mode \in Nat
  BY <1>3, <1>4, ModeIsNat
<1>6. NearKnown(cache)
  BY <1>3, <1>4, UpdateKeeps
<1> HIDE DEF sent, cache
<1>7. j.type # ADD /\ j.size = i.size
  BY <1>2, <1>5 DEF CPY, ADD
<1>8. OnlyChanges(s, t, {"acache", "addr"}) /\ t.acache = cache
  BY <1>3 DEF OnlyChanges, Names
<1> HIDE DEF t, j
<1>9. /\ t.iout = s.iout /\ t.minaddr = s.minaddr /\ t.maxaddr = s.maxaddr
      /\ t.source = s.source /\ t.free = s.free /\ t.off = s.off
      /\ t.decided = s.decided /\ t.srcbase = s.srcbase /\ t.srclen = s.srclen
  BY <1>3, <1>8 DEF OnlyChanges, Names
<1>10. CodeOK(t) /\ Lo(t) = Lo(s) /\ Hi(t) = Hi(s)
  BY <1>6, <1>8, <1>9 DEF CodeOK, Lo, Hi
<1> QED
  BY <1>1, <1>7, <1>8, <1>10

\* The operands of an instruction.
LEMMA EncodeOperandKeeps ==
  ASSUME NEW s, Base(s), SourceKnown(s), CodeOK(s), NEW i \in Instrs \cup Adds
  PROVE  LET r == EncodeOperand(s, i)
         IN  /\ OnlyChanges(s, r.e, OperandFields) /\ CodeOK(r.e)
             /\ Lo(r.e) <= Lo(s) /\ Hi(s) <= Hi(r.e)
             /\ Slot(r.i) = Slot(i)
<1>0. Lo(s) \in Nat /\ Hi(s) \in Int
  BY LoHi
<1>1. CASE i.type = CPY
  <2>1. i \in Instrs
    BY <1>1 DEF Adds, ADD, CPY
  <2> DEFINE u == IF s.has_src /\ ~s.decided THEN SrcwinSetup(s) ELSE s
             r == EncodeAddress(u, i)
  <2>2. EncodeOperand(s, i) = r
    <3>1. EncodeOperand(s, i) = EncodeCopy(s, i)
      BY <1>1 DEF EncodeOperand, RUN, ADD, CPY
    <3> QED BY <3>1 DEF EncodeCopy
  <2>3. OnlyChanges(s, u, {"decided", "srcbase", "srclen"}) /\ CodeOK(u) /\ Lo(u) <= Lo(s) /\ Hi(s) <= Hi(u)
    <3>1. CASE s.has_src /\ ~s.decided
      <4>1. s.decided = FALSE
        BY <3>1 DEF CodeOK
      <4> QED BY <3>1, <4>1, SrcwinSetupKeeps
    <3>2. CASE ~ (s.has_src /\ ~s.decided)
      <4>1. u = s
        BY <3>2
      <4> QED BY <1>0, <4>1, ChangesNothing
    <3> QED BY <3>1, <3>2
  <2> HIDE DEF u
  <2>4. Base(u)
    BY <2>3, BaseKept DEF BaseFields
  <2>5. /\ OnlyChanges(u, r.e, {"acache", "addr"}) /\ CodeOK(r.e)
        /\ Lo(r.e) = Lo(u) /\ Hi(r.e) = Hi(u) /\ r.i.type # ADD
    BY <1>1, <2>1, <2>3, <2>4, EncodeAddressKeeps
  <2> HIDE DEF r
  <2>6. OnlyChanges(s, r.e, OperandFields)
    BY <2>3, <2>5, ChangesTwice DEF OperandFields
  <2>7. Slot(r.i) = Slot(i)
    BY <1>1, <2>5 DEF Slot, CPY, ADD
  <2> QED BY <2>2, <2>3, <2>5, <2>6, <2>7
<1>2. CASE i.type # CPY
  <2>1. i.type = RUN \/ i.type = ADD
    BY <1>2 DEF Adds, Instrs
  <2>2. \E x : EncodeOperand(s, i) = [e |-> [s EXCEPT !.data = x], i |-> i]
    <3>1. CASE i.type = RUN
      <4>1. EncodeOperand(s, i) = [e |-> [s EXCEPT !.data = Append(@, i.xtra)], i |-> i]
        BY <3>1 DEF EncodeOperand, RUN, ADD, CPY
      <4> QED BY <4>1
    <3>2. CASE i.type = ADD
      <4>1. EncodeOperand(s, i)
            = [e |-> [s EXCEPT !.data = @ \o SubSeq(s.win, i.pos + 1, EndOf(i))], i |-> i]
        BY <3>2 DEF EncodeOperand, RUN, ADD, CPY
      <4> QED BY <4>1
    <3> QED BY <2>1, <3>1, <3>2
  <2>3. PICK x : EncodeOperand(s, i) = [e |-> [s EXCEPT !.data = x], i |-> i]
    BY <2>2
  <2> DEFINE t == [s EXCEPT !.data = x]
  <2>4. OnlyChanges(s, t, {"data"})
    BY DEF OnlyChanges
  <2> HIDE DEF t
  <2>5. CodeOK(t) /\ Lo(t) = Lo(s) /\ Hi(t) = Hi(s)
    BY <2>4, CodeKept DEF CodeOKFields
  <2>6. OnlyChanges(s, t, OperandFields)
    BY <2>4 DEF OnlyChanges, OperandFields
  <2>7. EncodeOperand(s, i).e = t /\ EncodeOperand(s, i).i = i
    BY <2>3 DEF t
  <2> QED BY <1>0, <2>5, <2>6, <2>7
<1> QED
  BY <1>1, <1>2

\* An element is given back for an instruction that is no ADD.
LEMMA FreeNonAddFacts ==
  ASSUME NEW s, Names \subseteq DOMAIN s, s.free \in Int, NEW i
  PROVE  LET t == FreeNonAdd(s, i)
         IN  OnlyChanges(s, t, {"free"}) /\ t.free = s.free + Slot(i) /\ t.iout = s.iout /\ t.free \in Int
<1> DEFINE t == FreeNonAdd(s, i)
<1>1. t = [s EXCEPT !.free = s.free + Slot(i)]
  BY DEF FreeNonAdd, Slot
<1>2. s.free + Slot(i) \in Int
  BY DEF Slot
<1> HIDE DEF t
<1>3. OnlyChanges(s, t, {"free"}) /\ t.free = s.free + Slot(i) /\ t.iout = s.iout
  BY <1>1 DEF OnlyChanges, Names
<1> QED
  BY <1>2, <1>3 DEF t

LEMMA CombineKeeps ==
  ASSUME NEW s, Names \subseteq DOMAIN s, s.free \in Int, s.iout = <<>> \/ \E x : s.iout = <<x>>, NEW i
  PROVE  LET t == Combine(s, i)
         IN  /\ OnlyChanges(s, t, {"inst", "iout", "free"})
             /\ t.iout = <<>> \/ \E x : t.iout = <<x>>
             /\ t.free \in Int /\ t.free + Waits(t) = s.free + Waits(s) + Slot(i)
<1> DEFINE t == Combine(s, i)
           F == {"inst", "iout", "free"}
<1>0. SUFFICES /\ OnlyChanges(s, t, F)
               /\ t.iout = <<>> \/ \E x : t.iout = <<x>>
               /\ t.free \in Int /\ t.free + Waits(t) = s.free + Waits(s) + Slot(i)
  OBVIOUS
<1>1. CASE s.iout = <<>>
  <2>1. t = [s EXCEPT !.iout = <<i>>]
    BY <1>1 DEF Combine
  <2> HIDE DEF t
  <2>2. OnlyChanges(s, t, F) /\ t.iout = <<i>> /\ t.free = s.free
    BY <2>1 DEF OnlyChanges, Names
  <2>3. Waits(t) = Slot(i) /\ Waits(s) = 0 /\ Slot(i) \in Int
    BY <1>1, <2>2 DEF Waits, Slot
  <2> QED BY <2>2, <2>3
<1>2. CASE s.iout # <<>>
  <2>1. PICK j : s.iout = <<j>>
    BY <1>2
  <2>2. s.iout[1] = j /\ Waits(s) = Slot(j) /\ Slot(j) \in Int /\ Slot(i) \in Int
    BY <2>1 DEF Waits, Slot
  <2>3. CASE Code2(j, i) # 0
    <3> DEFINE u == [EmitDouble(s, Code2(j, i)) EXCEPT !.iout = <<>>]
               v == FreeNonAdd(u, j)
    <3>1. t = FreeNonAdd(v, i)
      BY <1>2, <2>2, <2>3 DEF Combine
    <3>2. OnlyChanges(s, u, F) /\ u.iout = <<>> /\ u.free = s.free /\ Names \subseteq DOMAIN u
      BY DEF EmitDouble, OnlyChanges, Names
    <3> HIDE DEF u
    <3>3. OnlyChanges(u, v, {"free"}) /\ v.free = s.free + Slot(j) /\ v.iout = <<>> /\ v.free \in Int
      BY <3>2, FreeNonAddFacts
    <3> HIDE DEF v
    <3>4. Names \subseteq DOMAIN v
      BY <3>2, <3>3 DEF OnlyChanges
    <3>5. OnlyChanges(v, t, {"free"}) /\ t.free = v.free + Slot(i) /\ t.iout = <<>> /\ t.free \in Int
      BY <3>1, <3>3, <3>4, FreeNonAddFacts
    <3> HIDE DEF t
    <3>6. OnlyChanges(s, v, F)
      BY <3>2, <3>3, ChangesTwice
    <3>7. OnlyChanges(s, t, F)
      BY <3>5, <3>6, ChangesTwice
    <3>8. Waits(t) = 0
      BY <3>5 DEF Waits
    <3> QED BY <2>2, <3>3, <3>5, <3>7, <3>8
  <2>4. CASE Code2(j, i) = 0
    <3> DEFINE u == [EmitSingle(s, j) EXCEPT !.iout = <<i>>]
    <3>1. t = FreeNonAdd(u, j)
      BY <1>2, <2>2, <2>4 DEF Combine
    <3>2. OnlyChanges(s, u, F) /\ u.iout = <<i>> /\ u.free = s.free /\ Names \subseteq DOMAIN u
      BY DEF EmitSingle, OnlyChanges, Names
    <3> HIDE DEF u
    <3>3. OnlyChanges(u, t, {"free"}) /\ t.free = s.free + Slot(j) /\ t.iout = <<i>> /\ t.free \in Int
      BY <3>1, <3>2, FreeNonAddFacts
    <3> HIDE DEF t
    <3>4. OnlyChanges(s, t, F)
      BY <3>2, <3>3, ChangesTwice
    <3>5. Waits(t) = Slot(i)
      BY <3>3 DEF Waits, Slot
    <3> QED BY <2>2, <3>3, <3>4, <3>5
  <2> QED BY <2>3, <2>4
<1> QED
  BY <1>1, <1>2

\* The encoder goes on from s to t: n elements came free or wait.
Sent(s, t, n) ==
  /\ OnlyChanges(s, t, CodeFields) /\ CodeOK(t)
  /\ t.free + Waits(t) = s.free + Waits(s) + n
  /\ Lo(t) <= Lo(s) /\ Hi(s) <= Hi(t)

\* What it works on is still all right.
CanSend(s) == Base(s) /\ SourceKnown(s) /\ CodeOK(s)

LEMMA SentKeeps ==
  ASSUME NEW s, CanSend(s), NEW t, NEW n, Sent(s, t, n)
  PROVE  /\ CanSend(t) /\ t.win = s.win /\ t.inp = s.inp /\ t.used = s.used
         /\ t.iopt_size = s.iopt_size /\ Waits(t) \in {0, 1}
<1>1. OnlyChanges(s, t, CodeFields) /\ Base(s) /\ Names \subseteq DOMAIN s
  BY DEF Sent, CanSend, Base
<1>2. Base(t)
  BY <1>1, BaseKept DEF CodeFields, BaseFields
<1>3. SourceKnown(t)
  BY <1>1, KnownKept DEF CanSend, CodeFields, SourceFields
<1>4. t.win = s.win /\ t.inp = s.inp /\ t.used = s.used /\ t.iopt_size = s.iopt_size
  BY <1>1 DEF OnlyChanges, Names, CodeFields
<1> QED
  BY <1>2, <1>3, <1>4 DEF Sent, CanSend, Waits

LEMMA SentTwice ==
  ASSUME NEW s, CanSend(s), NEW t, NEW n \in Int, Sent(s, t, n), NEW u, NEW m \in Int, Sent(t, u, m)
  PROVE  Sent(s, u, n + m)
<1>1. OnlyChanges(s, u, CodeFields)
  BY ChangesTwice DEF Sent
<1>2. CodeOK(s) /\ CodeOK(t) /\ CodeOK(u)
  BY DEF Sent, CanSend
<1>3. /\ Lo(s) \in Int /\ Lo(t) \in Int /\ Lo(u) \in Int
      /\ Hi(s) \in Int /\ Hi(t) \in Int /\ Hi(u) \in Int
  BY <1>2, LoHi
<1>4. /\ s.free \in Int /\ t.free \in Int /\ u.free \in Int
      /\ Waits(s) \in Int /\ Waits(t) \in Int /\ Waits(u) \in Int
  BY <1>2 DEF CodeOK, Waits
<1>5. /\ t.free + Waits(t) = s.free + Waits(s) + n /\ u.free + Waits(u) = t.free + Waits(t) + m
      /\ Lo(t) <= Lo(s) /\ Hi(s) <= Hi(t) /\ Lo(u) <= Lo(t) /\ Hi(t) <= Hi(u)
  BY DEF Sent
<1>6. Lo(u) <= Lo(s) /\ Hi(s) <= Hi(u)
  BY <1>3, <1>5
<1>7. u.free + Waits(u) = s.free + Waits(s) + (n + m)
  BY <1>4, <1>5
<1> QED
  BY <1>1, <1>2, <1>6, <1>7 DEF Sent

LEMMA FinishEncodingKeeps ==
  ASSUME NEW s, CanSend(s), NEW i \in Instrs \cup Adds
  PROVE  LET t == FinishEncoding(s, i)
         IN  Sent(s, t, Slot(i)) /\ t.off = s.off + i.size
<1> DEFINE t == FinishEncoding(s, i)
           r == EncodeOperand(s, i)
           u == [r.e EXCEPT !.off = @ + i.size]
<1>0. SUFFICES Sent(s, t, Slot(i)) /\ t.off = s.off + i.size
  OBVIOUS
<1>1. t = Combine(u, r.i)
  BY DEF FinishEncoding
<1>2. /\ OnlyChanges(s, r.e, OperandFields) /\ CodeOK(r.e)
      /\ Lo(r.e) <= Lo(s) /\ Hi(s) <= Hi(r.e) /\ Slot(r.i) = Slot(i)
  BY EncodeOperandKeeps DEF CanSend
<1>3. Names \subseteq DOMAIN s /\ CodeOK(s) /\ i.size \in Int /\ s.off \in Int
  BY SMTT(60) DEF CanSend, Base, CodeOK, Instrs, Adds
<1> HIDE DEF r, t
<1>4. r.e.off = s.off /\ r.e.free = s.free /\ r.e.iout = s.iout /\ Names \subseteq DOMAIN r.e
  BY <1>2, <1>3 DEF OnlyChanges, OperandFields, Names
<1>5. OnlyChanges(r.e, u, {"off"}) /\ u.off = s.off + i.size
  BY <1>4 DEF OnlyChanges, Names
<1> HIDE DEF u
<1>6. /\ u.free = s.free /\ u.iout = s.iout /\ Names \subseteq DOMAIN u
      /\ u.acache = r.e.acache /\ u.decided = r.e.decided /\ u.srcbase = r.e.srcbase
      /\ u.srclen = r.e.srclen /\ u.minaddr = r.e.minaddr /\ u.maxaddr = r.e.maxaddr
      /\ u.source = r.e.source
  BY <1>4, <1>5 DEF OnlyChanges, Names
<1>7. CodeOK(u) /\ Lo(u) = Lo(r.e) /\ Hi(u) = Hi(r.e) /\ Waits(u) = Waits(s)
  BY <1>2, <1>3, <1>4, <1>5, <1>6 DEF CodeOK, Lo, Hi, Waits
<1>8. /\ OnlyChanges(u, t, {"inst", "iout", "free"})
      /\ t.iout = <<>> \/ \E x : t.iout = <<x>>
      /\ t.free \in Int /\ t.free + Waits(t) = u.free + Waits(u) + Slot(r.i)
  BY <1>1, <1>6, <1>7, CombineKeeps DEF CodeOK
<1>9. /\ t.acache = u.acache /\ t.decided = u.decided /\ t.srcbase = u.srcbase
      /\ t.srclen = u.srclen /\ t.minaddr = u.minaddr /\ t.maxaddr = u.maxaddr
      /\ t.source = u.source /\ t.off = u.off
  BY <1>6, <1>8 DEF OnlyChanges, Names
<1>10. CodeOK(t) /\ Lo(t) = Lo(u) /\ Hi(t) = Hi(u)
  BY <1>7, <1>8, <1>9 DEF CodeOK, Lo, Hi
<1>11. OnlyChanges(s, u, CodeFields)
  BY <1>2, <1>5, ChangesTwice DEF OperandFields, CodeFields
<1>12. OnlyChanges(s, t, CodeFields)
  BY <1>8, <1>11, ChangesTwice DEF CodeFields
<1>13. Sent(s, t, Slot(i))
  BY <1>2, <1>6, <1>7, <1>8, <1>10, <1>12 DEF Sent
<1> QED
  BY <1>5, <1>9, <1>13

\* What lies between the instructions sent and a position is added.
LEMMA AddUpToKeeps ==
  ASSUME NEW s, CanSend(s), NEW pos \in Int
  PROVE  LET t == AddUpTo(s, pos)
         IN  Sent(s, t, 0) /\ t.off = IF pos > s.off THEN pos ELSE s.off
<1> DEFINE i == Inst(ADD, s.off, pos - s.off, 0, 0)
           t == AddUpTo(s, pos)
<1>1. s.off \in Int /\ CodeOK(s)
  BY DEF CanSend, CodeOK
<1>2. CASE pos > s.off
  <2>1. t = FinishEncoding(s, i)
    BY <1>2 DEF AddUpTo
  <2>2. i \in Adds /\ i.size = pos - s.off /\ Slot(i) = 0
    BY <1>1, <1>2 DEF Inst, Adds, Slot
  <2> HIDE DEF i, t
  <2>3. Sent(s, t, 0) /\ t.off = s.off + i.size
    BY <2>1, <2>2, FinishEncodingKeeps
  <2>4. t.off = pos
    BY <1>1, <2>2, <2>3
  <2> QED BY <1>2, <2>3, <2>4 DEF t
<1>3. CASE ~ (pos > s.off)
  <2>1. t = s
    BY <1>3 DEF AddUpTo
  <2>2. Lo(s) \in Int /\ Hi(s) \in Int /\ s.free \in Int /\ Waits(s) \in Int
    BY <1>1, LoHi DEF CodeOK, Waits
  <2>3. OnlyChanges(s, s, CodeFields)
    BY ChangesNothing
  <2>4. Sent(s, s, 0)
    BY <1>1, <2>2, <2>3 DEF Sent
  <2> QED BY <1>3, <2>1, <2>4
<1> QED
  BY <1>2, <1>3

LEMMA AddEncodingKeeps ==
  ASSUME NEW s, CanSend(s), NEW i \in Instrs
  PROVE  LET t == AddEncoding(s, i)
         IN  Sent(s, t, 1) /\ t.off = (IF i.pos > s.off THEN i.pos ELSE s.off) + i.size
<1> DEFINE u == AddUpTo(s, i.pos)
<1>1. i.pos \in Int /\ Slot(i) = 1
  BY DEF Instrs, Slot, RUN, CPY, ADD
<1>2. Sent(s, u, 0) /\ u.off = IF i.pos > s.off THEN i.pos ELSE s.off
  BY <1>1, AddUpToKeeps
<1> HIDE DEF u
<1>3. CanSend(u)
  BY <1>2, SentKeeps
<1>4. Sent(u, FinishEncoding(u, i), 1) /\ FinishEncoding(u, i).off = u.off + i.size
  BY <1>1, <1>3, FinishEncodingKeeps
<1>5. Sent(s, FinishEncoding(u, i), 0 + 1)
  BY <1>2, <1>4, SentTwice
<1> QED
  BY <1>2, <1>4, <1>5 DEF AddEncoding, u

LEMMA EncodeFirstKeeps ==
  ASSUME NEW s, CanSend(s), NEW kept \in Seq(Instrs), NEW n \in Nat, n <= Len(kept)
  PROVE  Sent(s, EncodeFirst(s, kept, n), n)
<1>1. PICK f : /\ f[0] = s /\ EncodeFirst(s, kept, n) = f[n]
               /\ \A k \in Nat : k < n => f[k + 1] = AddEncoding(f[k], kept[k + 1])
  BY EncodeByRounds, SMTT(60)
<1> DEFINE T == {k \in Nat : k <= n => Sent(s, f[k], k)}
<1>2. 0 \in T
  <2>1. CodeOK(s)
    BY DEF CanSend
  <2>2. Lo(s) \in Int /\ Hi(s) \in Int /\ s.free \in Int /\ Waits(s) \in Int
    BY <2>1, LoHi DEF CodeOK, Waits
  <2>3. OnlyChanges(s, s, CodeFields)
    BY ChangesNothing
  <2>4. Sent(s, s, 0)
    BY <2>1, <2>2, <2>3 DEF Sent
  <2> QED BY <1>1, <2>4
<1>3. ASSUME NEW k \in Nat, k \in T
      PROVE  k + 1 \in T
  <2>1. CASE k < n
    <3>1. Sent(s, f[k], k) /\ k + 1 \in 1..Len(kept)
      BY <1>3, <2>1
    <3>2. CanSend(f[k])
      BY <3>1, SentKeeps
    <3>3. kept[k + 1] \in Instrs
      BY <3>1
    <3>4. Sent(f[k], f[k + 1], 1)
      BY <1>1, <2>1, <3>2, <3>3, AddEncodingKeeps
    <3>5. Sent(s, f[k + 1], k + 1)
      BY <3>1, <3>4, SentTwice
    <3> QED BY <3>5
  <2>2. CASE ~ (k < n)
    BY <2>2
  <2> QED BY <2>1, <2>2
<1> HIDE DEF T
<1>4. \A k \in Nat : k \in T
  BY <1>2, <1>3, NatInduct
<1>5. n \in T
  BY <1>4
<1>6. Sent(s, f[n], n)
  BY <1>5 DEF T
<1> QED
  BY <1>1, <1>6

-----------------------------------------------------------------------------
(* The instruction buffer: what it holds and what is free. *)

\* A buffer that is flushed has two elements left, of which one may wait: the code's own
\* assertion (xd3_iopt_get_slot) asks for a few more than that.
Roomy == \A size \in IoptSizes : size = 0 \/ size >= 4

BufferOK(s) ==
  /\ s.used \in Seq(CopiesWithin(0, Len(s.source)))
  /\ s.used \in Seq(CopiesWithin(Lo(s), Hi(s)))
  /\ s.free + Len(s.used) + Waits(s) = s.iopt_size
  /\ s.iopt_size \in Nat /\ s.elts = IoptElts /\ s.unlimited \in BOOLEAN
  /\ s.unlimited = FALSE => s.iopt_size \in IoptSizes \ {0}
  /\ Roomy => s.free >= 0

LEMMA SeqGrows ==
  ASSUME NEW A, NEW B, NEW s \in Seq(A), \A k \in 1..Len(s) : s[k] \in A => s[k] \in B
  PROVE  s \in Seq(B)
<1>1. Len(s) \in Nat /\ s = [k \in 1..Len(s) |-> s[k]] /\ \A k \in 1..Len(s) : s[k] \in A
  OBVIOUS
<1> QED
  BY <1>1

LEMMA WithinGrows ==
  ASSUME NEW lo \in Int, NEW hi \in Int, NEW lo2 \in Int, NEW hi2 \in Int, lo2 <= lo, hi <= hi2,
         NEW s \in Seq(CopiesWithin(lo, hi))
  PROVE  s \in Seq(CopiesWithin(lo2, hi2))
<1>1. ASSUME NEW k \in 1..Len(s), s[k] \in CopiesWithin(lo, hi)
      PROVE  s[k] \in CopiesWithin(lo2, hi2)
  <2> DEFINE i == s[k]
  <2>1. i \in Instrs /\ i.addr \in Int /\ EndOfCopy(i) \in Int
    BY <1>1, SMTT(60) DEF CopiesWithin, Instrs, EndOfCopy
  <2>2. i.type = CPY /\ i.xtra = 1 => lo <= i.addr /\ EndOfCopy(i) <= hi
    BY <1>1 DEF CopiesWithin
  <2> HIDE DEF i
  <2>3. i \in CopiesWithin(lo2, hi2)
    BY <2>1, <2>2 DEF CopiesWithin
  <2> QED BY <2>3 DEF i
<1> QED
  BY <1>1, SeqGrows

\* The first or the last elements of a sequence.
LEMMA PartFacts ==
  ASSUME NEW X, NEW s \in Seq(X), NEW n \in Nat, n <= Len(s)
  PROVE  /\ SubSeq(s, 1, n) \in Seq(X) /\ Len(SubSeq(s, 1, n)) = n
         /\ \A k \in 1..n : SubSeq(s, 1, n)[k] = s[k]
         /\ SubSeq(s, n + 1, Len(s)) \in Seq(X) /\ Len(SubSeq(s, n + 1, Len(s))) = Len(s) - n
         /\ \A k \in 1..(Len(s) - n) : SubSeq(s, n + 1, Len(s))[k] = s[k + n]
<1>1. Len(s) \in Nat
  OBVIOUS
<1>2. SubSeq(s, 1, n) \in Seq(X) /\ Len(SubSeq(s, 1, n)) = n /\ \A k \in 1..n : SubSeq(s, 1, n)[k] = s[k]
  BY <1>1
<1>3. /\ SubSeq(s, n + 1, Len(s)) \in Seq(X) /\ Len(SubSeq(s, n + 1, Len(s))) = Len(s) - n
      /\ \A k \in 1..(Len(s) - n) : SubSeq(s, n + 1, Len(s))[k] = s[k + n]
  BY <1>1
<1> QED
  BY <1>2, <1>3

\* How many instructions are encoded.
LEMMA FlushCountFacts ==
  ASSUME NEW s, s.iopt_size \in Nat, NEW n \in Nat, NEW force \in BOOLEAN
  PROVE  LET k == FlushCount(s, n, force)
         IN  /\ k \in Nat /\ k <= n
             /\ force = TRUE => k = n
             /\ force = FALSE /\ n <= s.iopt_size /\ s.iopt_size >= 4 => s.iopt_size - n + k >= 2
<1> DEFINE k == FlushCount(s, n, force)
           half == s.iopt_size \div 2 + 1
           two == Max({1, n - 2})
<1>1. CASE force = TRUE
  BY <1>1 DEF FlushCount
<1>2. CASE force = FALSE
  <2>1. k = Min({n, half, two})
    BY <1>2 DEF FlushCount
  <2>2. half \in Nat /\ (s.iopt_size >= 4 => half >= 3)
    OBVIOUS
  <2>3. two = IF 1 >= n - 2 THEN 1 ELSE n - 2
    BY MaxTwo
  <2> HIDE DEF half, two, k
  <2>4. two \in Nat
    BY <2>3
  <2>5. k \in {n, half, two} /\ k <= n
    <3>1. /\ Min({n, half, two}) \in {n, half, two}
          /\ \A y \in {n, half, two} : Min({n, half, two}) <= y
      <4>1. n \in Int /\ half \in Int /\ two \in Int
        BY <2>2, <2>4
      <4> QED BY <4>1, MinThree, Zenon
    <3> QED BY <2>1, <3>1
  <2>6. k \in Nat
    BY <2>2, <2>4, <2>5
  <2>7. ASSUME n <= s.iopt_size, s.iopt_size >= 4
        PROVE  s.iopt_size - n + k >= 2
    <3> DEFINE z == s.iopt_size
    <3>0. SUFFICES z - n + k >= 2
      OBVIOUS
    <3>1. z \in Nat /\ n <= z /\ z >= 4 /\ half >= 3
      BY <2>2, <2>7
    <3> HIDE DEF z
    <3>2. CASE k = n
      BY <3>1, <3>2
    <3>3. CASE k = half
      BY <2>2, <3>1, <3>3
    <3>4. CASE k = two
      BY <2>3, <3>1, <3>4
    <3> QED BY <2>5, <3>2, <3>3, <3>4
  <2> QED BY <1>2, <2>5, <2>6, <2>7 DEF k
<1> QED
  BY <1>1, <1>2

LEMMA FlushKeptKeeps ==
  ASSUME NEW s, CanSend(s), BufferOK(s), NEW force \in BOOLEAN,
         NEW kept, Len(kept) <= Len(s.used), kept \in Seq(CopiesWithin(0, Len(s.source))),
         kept \in Seq(CopiesWithin(Lo(s), Hi(s)))
  PROVE  LET t == FlushKept(s, kept, force)
             k == FlushCount(s, Len(kept), force)
         IN  /\ OnlyChanges(s, t, CodeFields \cup {"used"}) /\ CodeOK(t)
             /\ Lo(t) <= Lo(s) /\ Hi(s) <= Hi(t)
             /\ t.used = SubSeq(kept, k + 1, Len(kept)) /\ k \in 0..Len(kept)
             /\ t.used \in Seq(CopiesWithin(0, Len(t.source))) /\ t.used \in Seq(CopiesWithin(Lo(t), Hi(t)))
             /\ t.free + Len(t.used) + Waits(t) = t.iopt_size
             /\ force = TRUE => t.used = <<>>
             /\ force = FALSE /\ s.iopt_size >= 4 /\ s.free >= 0 => t.free > 0
<1> DEFINE n == Len(kept)
           k == FlushCount(s, n, force)
           left == SubSeq(kept, k + 1, n)
           f == [s EXCEPT !.used = left, !.free = @ + Len(s.used) - n]
           t == FlushKept(s, kept, force)
<1>0. SUFFICES
        /\ OnlyChanges(s, t, CodeFields \cup {"used"}) /\ CodeOK(t)
        /\ Lo(t) <= Lo(s) /\ Hi(s) <= Hi(t)
        /\ t.used = SubSeq(kept, k + 1, n) /\ k \in 0..n
        /\ t.used \in Seq(CopiesWithin(0, Len(t.source))) /\ t.used \in Seq(CopiesWithin(Lo(t), Hi(t)))
        /\ t.free + Len(t.used) + Waits(t) = t.iopt_size
        /\ force = TRUE => t.used = <<>>
        /\ force = FALSE /\ s.iopt_size >= 4 /\ s.free >= 0 => t.free > 0
  OBVIOUS
<1>1. t = EncodeFirst(f, kept, k)
  BY DEF FlushKept
<1>2. n \in Nat /\ Len(s.used) \in Nat /\ n <= Len(s.used)
  BY DEF BufferOK
<1>3. /\ k \in Nat /\ k <= n /\ (force = TRUE => k = n)
      /\ force = FALSE /\ n <= s.iopt_size /\ s.iopt_size >= 4 => s.iopt_size - n + k >= 2
  BY <1>2, FlushCountFacts DEF BufferOK
<1>4. Base(s) /\ SourceKnown(s) /\ CodeOK(s) /\ Names \subseteq DOMAIN s
  BY DEF CanSend, Base
<1>5. /\ s.free \in Int /\ s.iopt_size \in Nat /\ Waits(s) \in {0, 1} /\ Lo(s) \in Int /\ Hi(s) \in Int
      /\ s.free + Len(s.used) + Waits(s) = s.iopt_size
  BY <1>4, LoHi DEF CodeOK, BufferOK, Waits
<1> HIDE DEF n, k, t
<1>6. left \in Seq(CopiesWithin(0, Len(s.source))) /\ left \in Seq(CopiesWithin(Lo(s), Hi(s))) /\ Len(left) = n - k
  <2>1. SubSeq(kept, k + 1, n) \in Seq(CopiesWithin(0, Len(s.source))) /\ Len(SubSeq(kept, k + 1, n)) = n - k
    BY <1>3, PartFacts DEF n
  <2>2. SubSeq(kept, k + 1, n) \in Seq(CopiesWithin(Lo(s), Hi(s)))
    BY <1>3, PartFacts DEF n
  <2> QED BY <2>1, <2>2
<1>7. OnlyChanges(s, f, {"used", "free"}) /\ f.used = left /\ f.free = s.free + Len(s.used) - n
  BY <1>4 DEF OnlyChanges, Names
<1> HIDE DEF left, f
<1>8. CanSend(f) /\ Waits(f) = Waits(s) /\ Lo(f) = Lo(s) /\ Hi(f) = Hi(s) /\ f.iopt_size = s.iopt_size
      /\ f.source = s.source
  <2>1. Base(f) /\ SourceKnown(f)
    BY <1>4, <1>7, BaseKept, KnownKept DEF BaseFields, SourceFields
  <2>2. /\ f.iout = s.iout /\ f.acache = s.acache /\ f.decided = s.decided /\ f.srcbase = s.srcbase
        /\ f.srclen = s.srclen /\ f.minaddr = s.minaddr /\ f.maxaddr = s.maxaddr
        /\ f.source = s.source /\ f.off = s.off /\ f.iopt_size = s.iopt_size
    BY <1>4, <1>7 DEF OnlyChanges, Names
  <2>3. f.free \in Int
    BY <1>2, <1>5, <1>7
  <2>4. CodeOK(f)
    BY <1>4, <2>2, <2>3 DEF CodeOK
  <2> QED BY <2>1, <2>2, <2>4 DEF CanSend, Waits, Lo, Hi
<1>9. kept \in Seq(Instrs)
  BY SeqGrows DEF CopiesWithin
<1>10. Sent(f, t, k)
  BY <1>1, <1>3, <1>8, <1>9, EncodeFirstKeeps DEF n
<1>11. t.used = left /\ t.iopt_size = s.iopt_size /\ Waits(t) \in {0, 1} /\ t.source = s.source
  <2>1. t.used = left /\ t.iopt_size = s.iopt_size /\ Waits(t) \in {0, 1}
    BY <1>7, <1>8, <1>10, SentKeeps
  <2>2. t.source = f.source
    BY <1>8, <1>10 DEF Sent, OnlyChanges, CanSend, Base, Names, CodeFields
  <2> QED BY <1>8, <2>1, <2>2
<1>12. /\ OnlyChanges(f, t, CodeFields) /\ CodeOK(t) /\ t.free + Waits(t) = f.free + Waits(f) + k
       /\ Lo(t) <= Lo(f) /\ Hi(f) <= Hi(t)
  BY <1>10 DEF Sent
<1>13. OnlyChanges(s, t, CodeFields \cup {"used"})
  BY <1>7, <1>12, ChangesTwice DEF CodeFields
<1>14. t.free \in Int /\ Lo(t) \in Int /\ Hi(t) \in Int
  BY <1>12, LoHi DEF CodeOK
<1>15. t.used \in Seq(CopiesWithin(0, Len(t.source))) /\ t.used \in Seq(CopiesWithin(Lo(t), Hi(t)))
  BY <1>5, <1>6, <1>8, <1>11, <1>12, <1>14, WithinGrows
<1>16. t.free + Waits(t) = s.free + Len(s.used) - n + Waits(s) + k
  BY <1>7, <1>8, <1>12
<1>17. t.free + Len(t.used) + Waits(t) = t.iopt_size
  <2> DEFINE a == t.free
             b == Waits(t)
             x == s.free
             u == Len(s.used)
             w == Waits(s)
             z == s.iopt_size
  <2>1. a \in Int /\ b \in Int /\ x \in Int /\ u \in Int /\ w \in Int /\ z \in Int /\ n \in Int /\ k \in Int
    BY <1>2, <1>3, <1>5, <1>11, <1>14
  <2>2. a + b = x + u - n + w + k /\ x + u + w = z
    BY <1>5, <1>16
  <2> HIDE DEF a, b, x, u, w, z
  <2>3. a + (n - k) + b = z
    BY <2>1, <2>2
  <2> QED BY <1>6, <1>11, <2>3 DEF a, b, z
<1>18. ASSUME force = TRUE
       PROVE  t.used = <<>>
  <2>1. Len(left) = 0
    BY <1>2, <1>3, <1>6, <1>18
  <2>2. left = <<>>
    BY <1>6, <2>1
  <2> QED BY <1>11, <2>2
<1>19. ASSUME force = FALSE, s.iopt_size >= 4, s.free >= 0
       PROVE  t.free > 0
  <2>1. n <= s.iopt_size
    BY <1>2, <1>5, <1>19
  <2>2. s.iopt_size - n + k >= 2
    BY <1>3, <1>19, <2>1
  <2>3. t.free + Waits(t) >= 2
    <3> DEFINE a == t.free + Waits(t)
               x == s.free
               u == Len(s.used)
               w == Waits(s)
               z == s.iopt_size
    <3>0. SUFFICES a >= 2
      OBVIOUS
    <3>1. x \in Int /\ u \in Int /\ w \in Int /\ z \in Int /\ n \in Int /\ k \in Int
      BY <1>2, <1>3, <1>5
    <3>2. a = x + u - n + w + k /\ x + u + w = z /\ z - n + k >= 2
      BY <1>5, <1>16, <2>2
    <3> HIDE DEF a, x, u, w, z
    <3> QED BY <3>1, <3>2
  <2> QED BY <1>11, <1>14, <2>3
<1>20. t.used = SubSeq(kept, k + 1, n) /\ k \in 0..n
  BY <1>2, <1>3, <1>11 DEF left
<1> QED
  BY <1>5, <1>8, <1>12, <1>13, <1>14, <1>15, <1>17, <1>18, <1>19, <1>20

\* An instruction is entered, or the buffer flushed for it: no copy is cut off.
Entered(s, t) ==
  /\ OnlyChanges(s, t, SlotFields) /\ CodeOK(t) /\ BufferOK(t)
  /\ Lo(t) <= Lo(s) /\ Hi(s) <= Hi(t)

LEMMA GetSlotKeeps ==
  ASSUME NEW s, CanSend(s), BufferOK(s)
  PROVE  Entered(s, GetSlot(s)) /\ (Roomy => GetSlot(s).free > 0)
<1> DEFINE t == GetSlot(s)
<1>0. SUFFICES Entered(s, t) /\ (Roomy => t.free > 0)
  OBVIOUS
<1>1. /\ Names \subseteq DOMAIN s /\ CodeOK(s) /\ s.free \in Int /\ Lo(s) \in Int /\ Hi(s) \in Int
      /\ Lo(s) >= 0 /\ s.iopt_size \in Nat /\ s.elts \in Nat /\ s.elts > 0 /\ s.source \in Seq(Nat)
  <2>1. CodeOK(s) /\ Names \subseteq DOMAIN s /\ s.source \in Seq(Nat) /\ s.free \in Int
    BY DEF CanSend, Base, CodeOK
  <2>2. Lo(s) \in Nat /\ Hi(s) \in Int
    BY <2>1, LoHi
  <2>3. s.iopt_size \in Nat /\ s.elts \in Nat /\ s.elts > 0
    BY ConstantFacts DEF BufferOK
  <2> QED BY <2>1, <2>2, <2>3
<1>2. CASE s.free > 0
  <2>1. t = s
    BY <1>2 DEF GetSlot
  <2>2. OnlyChanges(s, s, SlotFields)
    BY ChangesNothing
  <2> QED BY <1>1, <1>2, <2>1, <2>2 DEF Entered
<1>3. CASE ~ (s.free > 0) /\ s.unlimited = TRUE
  <2>1. t = [s EXCEPT !.free = @ + s.elts, !.iopt_size = @ + s.elts]
    BY <1>3 DEF GetSlot
  <2> HIDE DEF t
  <2>2. /\ OnlyChanges(s, t, SlotFields)
        /\ t.free = s.free + s.elts /\ t.iopt_size = s.iopt_size + s.elts
    BY <1>1, <2>1 DEF OnlyChanges, Names, SlotFields, CodeFields
  <2>3. /\ t.iout = s.iout /\ t.acache = s.acache /\ t.decided = s.decided /\ t.srcbase = s.srcbase
        /\ t.srclen = s.srclen /\ t.minaddr = s.minaddr /\ t.maxaddr = s.maxaddr
        /\ t.source = s.source /\ t.off = s.off /\ t.used = s.used /\ t.elts = s.elts
        /\ t.unlimited = s.unlimited
    BY <1>1, <2>1 DEF Names
  <2>4. t.free \in Int
    BY <1>1, <2>2
  <2>5. CodeOK(t) /\ Lo(t) = Lo(s) /\ Hi(t) = Hi(s) /\ Waits(t) = Waits(s) /\ Waits(s) \in Int
    BY <1>1, <2>3, <2>4 DEF CodeOK, Lo, Hi, Waits
  <2>6. Len(s.used) \in Int /\ s.free + Len(s.used) + Waits(s) = s.iopt_size /\ (Roomy => s.free >= 0)
    BY DEF BufferOK
  <2>7. t.free + Len(t.used) + Waits(t) = t.iopt_size /\ t.iopt_size \in Nat /\ (Roomy => t.free > 0)
    BY <1>1, <2>2, <2>3, <2>5, <2>6, SMTT(60)
  <2>8. BufferOK(t)
    BY <1>3, <2>3, <2>4, <2>5, <2>7 DEF BufferOK
  <2> QED BY <1>1, <2>2, <2>5, <2>7, <2>8 DEF Entered
<1>4. CASE ~ (s.free > 0) /\ s.unlimited = FALSE
  <2> DEFINE kept == Compact(s.used, FALSE)
  <2>1. t = FlushKept(s, kept, FALSE)
    BY <1>4 DEF GetSlot, FlushInstructions
  <2>2. Len(kept) <= Len(s.used) /\ kept \in Seq(CopiesWithin(0, Len(s.source)))
    <3>1. s.used \in Seq(CopiesWithin(0, Len(s.source))) /\ Len(s.source) \in Int /\ 0 \in Int
      BY <1>1 DEF BufferOK
    <3> QED BY <3>1, WithinIsCuttable, CompactKeeps
  <2>3. kept \in Seq(CopiesWithin(Lo(s), Hi(s)))
    <3>1. s.used \in Seq(CopiesWithin(Lo(s), Hi(s)))
      BY DEF BufferOK
    <3> QED BY <1>1, <3>1, WithinIsCuttable, CompactKeeps
  <2> HIDE DEF kept, t
  <2>4. /\ OnlyChanges(s, t, CodeFields \cup {"used"}) /\ CodeOK(t)
        /\ Lo(t) <= Lo(s) /\ Hi(s) <= Hi(t)
        /\ t.used \in Seq(CopiesWithin(0, Len(t.source))) /\ t.used \in Seq(CopiesWithin(Lo(t), Hi(t)))
        /\ t.free + Len(t.used) + Waits(t) = t.iopt_size
        /\ s.iopt_size >= 4 /\ s.free >= 0 => t.free > 0
    <3>1. FALSE \in BOOLEAN
      OBVIOUS
    <3> QED BY <2>1, <2>2, <2>3, <3>1, FlushKeptKeeps
  <2>5. t.iopt_size = s.iopt_size /\ t.elts = s.elts /\ t.unlimited = s.unlimited
    BY <1>1, <2>4 DEF OnlyChanges, Names, CodeFields
  <2>6. Roomy => s.iopt_size >= 4 /\ s.free >= 0
    BY <1>4 DEF BufferOK, Roomy
  <2>7. Roomy => t.free > 0
    BY <2>4, <2>6
  <2>8. BufferOK(t)
    <3>1. Roomy => t.free >= 0
      BY <2>4, <2>7 DEF CodeOK
    <3> QED BY <2>4, <2>5, <3>1 DEF BufferOK
  <2>9. OnlyChanges(s, t, SlotFields)
    BY <2>4 DEF OnlyChanges, SlotFields
  <2> QED BY <2>4, <2>7, <2>8, <2>9 DEF Entered
<1> QED
  BY <1>2, <1>3, <1>4 DEF BufferOK

\* What an instruction entered leaves for the next one.
LEMMA EnteredKeeps ==
  ASSUME NEW s, CanSend(s), NEW t, Entered(s, t)
  PROVE  CanSend(t) /\ BufferOK(t) /\ t.win = s.win /\ t.inp = s.inp /\ t.source = s.source
<1>1. OnlyChanges(s, t, SlotFields) /\ Base(s) /\ Names \subseteq DOMAIN s
  BY DEF Entered, CanSend, Base
<1>2. Base(t)
  BY <1>1, BaseKept DEF SlotFields, CodeFields, BaseFields
<1>3. SourceKnown(t)
  BY <1>1, KnownKept DEF CanSend, SlotFields, CodeFields, SourceFields
<1>4. t.win = s.win /\ t.inp = s.inp /\ t.source = s.source
  BY <1>1 DEF OnlyChanges, Names, SlotFields, CodeFields
<1> QED
  BY <1>2, <1>3, <1>4 DEF Entered, CanSend

LEMMA TakeSlotKeeps ==
  ASSUME NEW s, CanSend(s), BufferOK(s), NEW i,
         i \in CopiesWithin(0, Len(s.source)), i \in CopiesWithin(Lo(s), Hi(s))
  PROVE  Entered(s, TakeSlot(s, i))
<1> DEFINE u == GetSlot(s)
           t == TakeSlot(s, i)
<1>0. SUFFICES Entered(s, t)
  OBVIOUS
<1>1. Entered(s, u) /\ (Roomy => u.free > 0)
  BY GetSlotKeeps
<1>2. t = [u EXCEPT !.free = @ - 1, !.used = Append(@, i)]
  BY DEF TakeSlot
<1> HIDE DEF u, t
<1>3. CanSend(u) /\ BufferOK(u) /\ u.source = s.source
  BY <1>1, EnteredKeeps
<1>4. Names \subseteq DOMAIN u /\ CodeOK(u) /\ u.free \in Int
  BY <1>3 DEF CanSend, Base, CodeOK
<1>5. OnlyChanges(u, t, {"free", "used"}) /\ t.free = u.free - 1 /\ t.used = Append(u.used, i)
  BY <1>2, <1>4 DEF OnlyChanges, Names
<1>6. /\ t.iout = u.iout /\ t.acache = u.acache /\ t.decided = u.decided /\ t.srcbase = u.srcbase
      /\ t.srclen = u.srclen /\ t.minaddr = u.minaddr /\ t.maxaddr = u.maxaddr
      /\ t.source = u.source /\ t.off = u.off /\ t.elts = u.elts
      /\ t.unlimited = u.unlimited /\ t.iopt_size = u.iopt_size
  BY <1>4, <1>5 DEF OnlyChanges, Names
<1>7. t.free \in Int
  BY <1>4, <1>5
<1>8. CodeOK(t) /\ Lo(t) = Lo(u) /\ Hi(t) = Hi(u) /\ Waits(t) = Waits(u) /\ Waits(u) \in Int
  BY <1>4, <1>6, <1>7 DEF CodeOK, Lo, Hi, Waits
<1>9. /\ Lo(u) <= Lo(s) /\ Hi(s) <= Hi(u) /\ Lo(s) \in Int /\ Hi(s) \in Int /\ Lo(u) \in Int /\ Hi(u) \in Int
      /\ Len(s.source) \in Int
  BY <1>1, <1>3, LoHi DEF Entered, CanSend, Base
<1>10. t.used \in Seq(CopiesWithin(0, Len(t.source))) /\ Len(t.used) = Len(u.used) + 1 /\ Len(u.used) \in Nat
  <2>1. u.used \in Seq(CopiesWithin(0, Len(t.source))) /\ i \in CopiesWithin(0, Len(t.source))
    BY <1>3, <1>6 DEF BufferOK
  <2> QED BY <1>5, <2>1, PushFacts
<1>11. t.used \in Seq(CopiesWithin(Lo(t), Hi(t)))
  <2>1. i \in CopiesWithin(Lo(t), Hi(t))
    <3>1. i \in Instrs /\ EndOfCopy(i) \in Int /\ i.addr \in Int
      BY DEF CopiesWithin, Instrs, EndOfCopy
    <3>2. i.type = CPY /\ i.xtra = 1 => Lo(s) <= i.addr /\ EndOfCopy(i) <= Hi(s)
      BY DEF CopiesWithin
    <3>3. i.type = CPY /\ i.xtra = 1 => Lo(t) <= i.addr /\ EndOfCopy(i) <= Hi(t)
      BY <1>8, <1>9, <3>1, <3>2
    <3> QED BY <3>1, <3>3 DEF CopiesWithin
  <2>2. u.used \in Seq(CopiesWithin(Lo(t), Hi(t)))
    BY <1>3, <1>8 DEF BufferOK
  <2> QED BY <1>5, <2>1, <2>2, PushFacts
<1>12. t.free + Len(t.used) + Waits(t) = t.iopt_size
  <2>1. u.free + Len(u.used) + Waits(u) = u.iopt_size
    BY <1>3 DEF BufferOK
  <2> QED BY <1>4, <1>5, <1>6, <1>8, <1>10, <2>1, SMTT(60)
<1>13. Roomy => t.free >= 0
  BY <1>1, <1>4, <1>5
<1>14. BufferOK(t)
  BY <1>3, <1>6, <1>10, <1>11, <1>12, <1>13 DEF BufferOK
<1>15. OnlyChanges(s, t, SlotFields)
  BY <1>1, <1>5, ChangesTwice DEF Entered, SlotFields, CodeFields
<1> QED
  BY <1>8, <1>9, <1>14, <1>15 DEF Entered

\* The instructions that a match covers are erased.
LEMMA EraseKeeps ==
  ASSUME NEW s, CanSend(s), BufferOK(s), NEW pos
  PROVE  LET t == Erase(s, pos)
         IN  /\ OnlyChanges(s, t, {"used", "free"}) /\ CodeOK(t) /\ BufferOK(t)
             /\ Lo(t) = Lo(s) /\ Hi(t) = Hi(s)
<1> DEFINE J == {0} \cup {j \in 1..Len(s.used) : s.used[j].pos < pos}
           k == Max(J)
           t == Erase(s, pos)
<1>0. SUFFICES /\ OnlyChanges(s, t, {"used", "free"}) /\ CodeOK(t) /\ BufferOK(t)
               /\ Lo(t) = Lo(s) /\ Hi(t) = Hi(s)
  OBVIOUS
<1>1. /\ Names \subseteq DOMAIN s /\ CodeOK(s) /\ s.free \in Int /\ Len(s.used) \in Nat
      /\ s.used \in Seq(CopiesWithin(0, Len(s.source))) /\ s.used \in Seq(CopiesWithin(Lo(s), Hi(s)))
      /\ Waits(s) \in Int
  BY DEF CanSend, Base, CodeOK, BufferOK, Waits
<1>2. k \in Nat /\ k <= Len(s.used)
  <2> DEFINE n == Len(s.used)
  <2>1. J \subseteq Nat /\ 0 \in J /\ n \in Nat /\ \A x \in J : x <= n
    BY <1>1
  <2>2. J \subseteq Int /\ J # {} /\ n \in Int
    BY <2>1
  <2> HIDE DEF J, n
  <2>3. Max(J) \in J
    BY <2>1, <2>2, MaxBounded
  <2> QED BY <2>1, <2>3 DEF n
<1>3. t = [s EXCEPT !.used = SubSeq(@, 1, k), !.free = @ + Len(s.used) - k]
  BY DEF Erase
<1> HIDE DEF k, t
<1>4. /\ OnlyChanges(s, t, {"used", "free"}) /\ t.used = SubSeq(s.used, 1, k)
      /\ t.free = s.free + Len(s.used) - k
  BY <1>1, <1>3 DEF OnlyChanges, Names
<1>5. /\ t.iout = s.iout /\ t.acache = s.acache /\ t.decided = s.decided /\ t.srcbase = s.srcbase
      /\ t.srclen = s.srclen /\ t.minaddr = s.minaddr /\ t.maxaddr = s.maxaddr
      /\ t.source = s.source /\ t.off = s.off /\ t.elts = s.elts
      /\ t.unlimited = s.unlimited /\ t.iopt_size = s.iopt_size
  BY <1>1, <1>4 DEF OnlyChanges, Names
<1>6. t.free \in Int
  BY <1>1, <1>2, <1>4
<1>7. CodeOK(t) /\ Lo(t) = Lo(s) /\ Hi(t) = Hi(s) /\ Waits(t) = Waits(s)
  BY <1>1, <1>5, <1>6 DEF CodeOK, Lo, Hi, Waits
<1>8. /\ t.used \in Seq(CopiesWithin(0, Len(s.source))) /\ t.used \in Seq(CopiesWithin(Lo(s), Hi(s)))
      /\ Len(t.used) = k
  <2>1. SubSeq(s.used, 1, k) \in Seq(CopiesWithin(0, Len(s.source))) /\ Len(SubSeq(s.used, 1, k)) = k
    BY <1>1, <1>2, PartFacts
  <2>2. SubSeq(s.used, 1, k) \in Seq(CopiesWithin(Lo(s), Hi(s)))
    BY <1>1, <1>2, PartFacts
  <2> QED BY <1>4, <2>1, <2>2
<1>9. t.free + Len(t.used) + Waits(t) = t.iopt_size /\ (Roomy => t.free >= 0)
  <2>1. s.free + Len(s.used) + Waits(s) = s.iopt_size /\ (Roomy => s.free >= 0)
    BY DEF BufferOK
  <2> DEFINE a == s.free
             n == Len(s.used)
             w == Waits(s)
             z == s.iopt_size
             b == t.free
  <2>2. a \in Int /\ n \in Int /\ w \in Int /\ k \in Int /\ k <= n /\ b = a + n - k
    BY <1>1, <1>2, <1>4
  <2>3. a + n + w = z /\ (Roomy => a >= 0)
    BY <2>1
  <2>4. b + Len(t.used) + Waits(t) = b + k + w /\ t.iopt_size = z
    BY <1>5, <1>7, <1>8
  <2>5. (Roomy => t.free >= 0) <=> (Roomy => b >= 0)
    OBVIOUS
  <2> HIDE DEF a, n, w, z, b
  <2>6. b + k + w = z /\ (Roomy => b >= 0)
    BY <2>2, <2>3
  <2>7. b + Len(t.used) + Waits(t) = t.iopt_size
    BY <2>4, <2>6
  <2> QED BY <2>5, <2>6, <2>7 DEF b
<1>10. BufferOK(t)
  <2>1. /\ s.iopt_size \in Nat /\ s.elts = IoptElts /\ s.unlimited \in BOOLEAN
        /\ s.unlimited = FALSE => s.iopt_size \in IoptSizes \ {0}
    BY DEF BufferOK
  <2> QED BY <1>5, <1>7, <1>8, <1>9, <2>1 DEF BufferOK
<1> QED
  BY <1>4, <1>7, <1>10

-----------------------------------------------------------------------------
(* Between two operations of the search. *)

Core(s) ==
  /\ CanSend(s) /\ BufferOK(s) /\ SourcePositions(s)
  /\ s.run_c \in Nat /\ s.run_l \in Nat
Good(s) == Core(s) /\ s.match_state \in {"target", "searching"}

\* The fields that Core speaks of, but for those that change with the input position.
CoreFields ==
  {"win", "source", "cfg", "has_src", "blksize", "max_winsize", "total_in",
   "blocks", "curblkno", "max_blkno", "eof_known", "onlastblk",
   "cksum_pos", "large", "maxsrcaddr", "match_srcpos",
   "iout", "acache", "decided", "srcbase", "srclen", "minaddr", "maxaddr", "free", "off",
   "used", "iopt_size", "elts", "unlimited"}

LEMMA CoreMoves ==
  ASSUME NEW s, Core(s), NEW t, NEW F, OnlyChanges(s, t, F), F \cap CoreFields = {},
         t.inp \in Nat, t.inp <= Len(s.win), t.min_match \in Nat, t.min_match >= MIN_MATCH,
         t.run_c \in Nat, t.run_l \in Nat
  PROVE  Core(t) /\ Lo(t) = Lo(s) /\ Hi(t) = Hi(s)
<1>1. Base(s) /\ SourceKnown(s) /\ CodeOK(s) /\ BufferOK(s) /\ SourcePositions(s) /\ Names \subseteq DOMAIN s
  BY DEF Core, CanSend, Base
<1>2. DOMAIN t = DOMAIN s /\ \A x \in CoreFields : t[x] = s[x]
  BY <1>1 DEF OnlyChanges, Names, CoreFields
<1>3. /\ t.win = s.win /\ t.source = s.source /\ t.cfg = s.cfg /\ t.has_src = s.has_src
      /\ t.blksize = s.blksize /\ t.max_winsize = s.max_winsize /\ t.total_in = s.total_in
      /\ t.max_blkno = s.max_blkno /\ t.eof_known = s.eof_known /\ t.onlastblk = s.onlastblk
      /\ t.cksum_pos = s.cksum_pos /\ t.large = s.large /\ t.maxsrcaddr = s.maxsrcaddr
      /\ t.match_srcpos = s.match_srcpos
  BY <1>2 DEF CoreFields
<1>4. /\ t.iout = s.iout /\ t.acache = s.acache /\ t.decided = s.decided /\ t.srcbase = s.srcbase
      /\ t.srclen = s.srclen /\ t.minaddr = s.minaddr /\ t.maxaddr = s.maxaddr
      /\ t.free = s.free /\ t.off = s.off /\ t.used = s.used /\ t.iopt_size = s.iopt_size
      /\ t.elts = s.elts /\ t.unlimited = s.unlimited
  BY <1>2 DEF CoreFields
<1>5. Base(t)
  BY <1>1, <1>2, <1>3 DEF Base
<1>6. SourceKnown(t) /\ SourcePositions(t)
  BY <1>1, <1>3 DEF SourceKnown, SourcePositions
<1>7. CodeOK(t)
  BY <1>1, <1>3, <1>4 DEF CodeOK
<1>8. Lo(t) = Lo(s) /\ Hi(t) = Hi(s) /\ Waits(t) = Waits(s)
  BY <1>4 DEF Lo, Hi, Waits
<1>9. BufferOK(t)
  BY <1>1, <1>3, <1>4, <1>8 DEF BufferOK
<1> QED
  BY <1>5, <1>6, <1>7, <1>8, <1>9 DEF Core, CanSend

LEMMA CoreKept ==
  ASSUME NEW s, Core(s), NEW t, NEW F, OnlyChanges(s, t, F),
         F \cap (CoreFields \cup {"inp", "min_match", "run_c", "run_l"}) = {}
  PROVE  Core(t) /\ Lo(t) = Lo(s) /\ Hi(t) = Hi(s) /\ t.inp = s.inp /\ t.win = s.win /\ t.source = s.source
<1>1. Base(s) /\ Names \subseteq DOMAIN s /\ s.run_c \in Nat /\ s.run_l \in Nat
  BY DEF Core, CanSend, Base
<1>2. /\ t.inp = s.inp /\ t.min_match = s.min_match /\ t.run_c = s.run_c /\ t.run_l = s.run_l
      /\ t.win = s.win /\ t.source = s.source
  BY <1>1 DEF OnlyChanges, Names, CoreFields
<1>3. t.inp \in Nat /\ t.inp <= Len(s.win) /\ t.min_match \in Nat /\ t.min_match >= MIN_MATCH
  BY <1>1, <1>2 DEF Base
<1>4. F \cap CoreFields = {}
  OBVIOUS
<1> QED
  BY <1>1, <1>2, <1>3, <1>4, CoreMoves

\* Source blocks are read.
LEMMA CoreReads ==
  ASSUME NEW s, Core(s), NEW t, NEW F, OnlyChanges(s, t, F), SourceKnown(t),
         F \cap ((CoreFields \ SourceFields) \cup {"inp", "min_match", "run_c", "run_l"}) = {}
  PROVE  Core(t) /\ Lo(t) = Lo(s) /\ Hi(t) = Hi(s) /\ t.inp = s.inp /\ t.win = s.win /\ t.source = s.source
<1>1. Base(s) /\ CodeOK(s) /\ BufferOK(s) /\ SourcePositions(s) /\ Names \subseteq DOMAIN s
      /\ s.run_c \in Nat /\ s.run_l \in Nat
  BY DEF Core, CanSend, Base
<1>2. /\ t.inp = s.inp /\ t.min_match = s.min_match /\ t.run_c = s.run_c /\ t.run_l = s.run_l
      /\ t.win = s.win /\ t.source = s.source /\ t.large = s.large /\ t.maxsrcaddr = s.maxsrcaddr
      /\ t.match_srcpos = s.match_srcpos
  BY <1>1 DEF OnlyChanges, Names, CoreFields, SourceFields
<1>3. Base(t)
  BY <1>1, BaseKept DEF BaseFields, CoreFields, SourceFields
<1>4. CodeOK(t) /\ Waits(t) = Waits(s) /\ Lo(t) = Lo(s) /\ Hi(t) = Hi(s) /\ t.free = s.free
  BY <1>1, CodeKept DEF CodeOKFields, CoreFields, SourceFields
<1>5. SourcePositions(t)
  BY <1>1, <1>2 DEF SourcePositions
<1>6. t.used = s.used /\ t.iopt_size = s.iopt_size /\ t.elts = s.elts /\ t.unlimited = s.unlimited
  BY <1>1 DEF OnlyChanges, Names, CoreFields, SourceFields
<1>7. BufferOK(t)
  BY <1>1, <1>2, <1>4, <1>6 DEF BufferOK
<1> QED
  BY <1>1, <1>2, <1>3, <1>4, <1>5, <1>7 DEF Core, CanSend

-----------------------------------------------------------------------------
(* Copies from the source. *)

\* What a match may be extended by: it stays within the source, and within the source
\* window if that is decided.
MatchLimits(s) ==
  /\ s.match_srcpos \in Nat /\ s.match_srcpos <= Len(s.source)
  /\ s.maxback \in Nat /\ s.maxback <= s.match_srcpos /\ s.maxfwd \in Nat
  /\ s.back = 0 /\ s.fwd = 0
  /\ s.maxfwd > 0 /\ s.decided = TRUE => /\ s.srcbase <= s.match_srcpos - s.maxback
                                         /\ s.match_srcpos + s.maxfwd <= s.srcbase + s.srclen

LEMMA SetupKeeps ==
  ASSUME NEW s, Core(s), NEW p \in Nat, p <= Len(s.source)
  PROVE  LET t == SourceMatchSetup(s, p)
         IN  /\ OnlyChanges(s, t, SetupFields) /\ Core(t)
             /\ MatchLimits(t) /\ t.match_state \in {"searching", "backward"}
             /\ t.fwd = 0
<1> DEFINE t == SourceMatchSetup(s, p)
           low == IF s.decided THEN p - s.srcbase ELSE p
           rest == s.inp - s.off
           back == IF s.off <= s.inp THEN Min({rest, low}) ELSE low
           room == AvailIn(s) - s.inp
           high == IF s.decided THEN s.srcbase + s.srclen - p
                   ELSE IF s.eof_known THEN SourceEof(s) - p ELSE room
           bad == LoopsOrTooFar(s, p) \/ OutsideWindow(s, p)
           fwd == Min({room, high})
<1>0. SUFFICES /\ OnlyChanges(s, t, SetupFields) /\ Core(t)
               /\ MatchLimits(t) /\ t.match_state \in {"searching", "backward"}
               /\ t.fwd = 0
  OBVIOUS
<1>1. t = [s EXCEPT !.back = 0, !.fwd = 0, !.last_srcpos = p,
                    !.match_srcpos = IF bad THEN @ ELSE p,
                    !.match_state = IF bad THEN "searching" ELSE "backward",
                    !.maxback = IF bad THEN 0 ELSE back,
                    !.maxfwd = IF bad THEN 0 ELSE fwd]
  BY DEF SourceMatchSetup
<1>2. /\ Base(s) /\ SourceKnown(s) /\ CodeOK(s) /\ BufferOK(s) /\ SourcePositions(s)
      /\ Names \subseteq DOMAIN s
  BY DEF Core, CanSend, Base
<1>3. /\ s.inp \in Int /\ s.off \in Int /\ s.srcbase \in Nat /\ s.srclen \in Int /\ s.decided \in BOOLEAN
      /\ Len(s.source) \in Nat /\ room \in Nat
  BY <1>2 DEF Base, CodeOK, AvailIn
<1>4. ASSUME ~ bad
      PROVE  /\ back \in Nat /\ back <= low /\ low <= p /\ fwd \in Nat /\ fwd <= high
             /\ s.decided = TRUE => s.srcbase <= p - back /\ p + fwd <= s.srcbase + s.srclen
  <2>1. s.decided => s.srcbase <= p /\ p <= s.srcbase + s.srclen
    BY <1>3, <1>4 DEF OutsideWindow
  <2>2. low \in Nat /\ low <= p
    BY <1>3, <2>1
  <2>3. high \in Nat
    <3>1. CASE s.decided
      BY <1>3, <2>1, <3>1
    <3>2. CASE ~ s.decided /\ s.eof_known
      <4>1. SourceEof(s) \in Nat /\ SourceEof(s) >= Len(s.source)
        BY <1>2, <3>2, SourceEofFacts
      <4> QED BY <1>3, <3>2, <4>1
    <3>3. CASE ~ s.decided /\ ~ s.eof_known
      BY <1>3, <3>3
    <3> QED BY <3>1, <3>2, <3>3
  <2>4. back \in Nat /\ back <= low
    <3>1. CASE s.off <= s.inp
      <4>1. rest \in Nat
        BY <1>3, <3>1
      <4> HIDE DEF rest, low
      <4>2. Min({rest, low}) \in Nat /\ Min({rest, low}) <= low
        BY <2>2, <4>1, MinTwo
      <4> QED BY <3>1, <4>2
    <3>2. CASE ~ (s.off <= s.inp)
      BY <2>2, <3>2
    <3> QED BY <3>1, <3>2
  <2>5. fwd \in Nat /\ fwd <= high
    <3> HIDE DEF room, high
    <3> QED BY <1>3, <2>3, MinTwo
  <2> HIDE DEF back, fwd
  <2>6. s.decided = TRUE => low = p - s.srcbase /\ high = s.srcbase + s.srclen - p
    OBVIOUS
  <2> HIDE DEF low, high
  <2>7. s.decided = TRUE => s.srcbase <= p - back /\ p + fwd <= s.srcbase + s.srclen
    BY <1>3, <2>4, <2>5, <2>6
  <2> QED BY <2>2, <2>4, <2>5, <2>7
<1> HIDE DEF t, back, fwd, low, high, bad
<1>5. OnlyChanges(s, t, SetupFields)
  BY <1>1 DEF OnlyChanges, SetupFields
<1>6. /\ t.back = 0 /\ t.fwd = 0 /\ t.match_srcpos = (IF bad THEN s.match_srcpos ELSE p)
      /\ t.match_state = (IF bad THEN "searching" ELSE "backward")
      /\ t.maxback = (IF bad THEN 0 ELSE back) /\ t.maxfwd = (IF bad THEN 0 ELSE fwd)
  BY <1>1, <1>2 DEF Names
<1>7. /\ t.source = s.source /\ t.decided = s.decided /\ t.srcbase = s.srcbase /\ t.srclen = s.srclen
      /\ t.large = s.large /\ t.maxsrcaddr = s.maxsrcaddr
  BY <1>2, <1>5 DEF OnlyChanges, SetupFields, Names
<1>8. s.match_srcpos \in Nat /\ s.match_srcpos <= Len(s.source)
  BY <1>2, <1>3 DEF SourcePositions
<1>9. MatchLimits(t)
  <2>1. CASE bad
    BY <1>6, <1>7, <1>8, <2>1 DEF MatchLimits
  <2>2. CASE ~ bad
    <3>1. /\ t.match_srcpos = p /\ t.maxback = back /\ t.maxfwd = fwd /\ back \in Nat /\ back <= p /\ fwd \in Nat
      <4>1. back <= p
        <5>1. low \in Int
          BY <1>3 DEF low
        <5> QED BY <1>4, <2>2, <5>1
      <4> QED BY <1>4, <1>6, <2>2, <4>1
    <3> QED BY <1>4, <1>6, <1>7, <2>2, <3>1 DEF MatchLimits
  <2> QED BY <2>1, <2>2
<1>10. Core(t)
  <2> DEFINE u == [t EXCEPT !.match_srcpos = s.match_srcpos]
  <2>1. t.match_srcpos \in 0..Len(s.source)
    BY <1>3, <1>6, <1>8
  <2>2. SourcePositions(t)
    BY <1>2, <1>7, <2>1 DEF SourcePositions
  <2>3. OnlyChanges(s, u, SetupFields \ {"match_srcpos"}) /\ DOMAIN u = DOMAIN t
    BY <1>2, <1>5 DEF OnlyChanges, SetupFields, Names
  <2> HIDE DEF u
  <2>4. Core(u)
    BY <2>3, CoreKept DEF SetupFields, CoreFields
  <2>5. OnlyChanges(u, t, {"match_srcpos"})
    BY <1>2, <2>3 DEF OnlyChanges, u
  <2>6. Base(t) /\ SourceKnown(t) /\ CodeOK(t) /\ Waits(t) = Waits(u) /\ Lo(t) = Lo(u) /\ Hi(t) = Hi(u)
        /\ t.free = u.free
    BY <2>4, <2>5, BaseKept, KnownKept, CodeKept DEF Core, CanSend, BaseFields, SourceFields, CodeOKFields
  <2>7. /\ t.used = u.used /\ t.iopt_size = u.iopt_size /\ t.elts = u.elts /\ t.unlimited = u.unlimited
        /\ t.source = u.source /\ t.run_c = u.run_c /\ t.run_l = u.run_l
    BY <2>4, <2>5 DEF OnlyChanges, Names, Core, CanSend, Base
  <2>8. BufferOK(t)
    BY <2>4, <2>6, <2>7 DEF BufferOK, Core
  <2> QED BY <2>2, <2>4, <2>6, <2>7, <2>8 DEF Core, CanSend
<1> QED
  BY <1>5, <1>6, <1>9, <1>10

\* A match that is taken.
Found(s) ==
  /\ s.back \in Nat /\ s.back <= s.match_srcpos /\ s.fwd \in Nat /\ s.fwd > 0
  /\ s.match_srcpos + s.fwd <= Len(s.source)
  /\ s.decided = TRUE => /\ s.srcbase <= s.match_srcpos - s.back
                         /\ s.match_srcpos + s.fwd <= s.srcbase + s.srclen

\* The positions that copies may come from take in those of a match.
TakenFields == {"back", "minaddr", "maxaddr", "maxsrcaddr"}
LEMMA RangeGrows ==
  ASSUME NEW s, Core(s), NEW addr \in Nat, NEW end \in Nat, addr < end, end <= Len(s.source),
         s.decided = TRUE => s.srcbase <= addr /\ end <= s.srcbase + s.srclen,
         NEW t, t = [s EXCEPT !.back = 0,
                              !.minaddr = IF s.maxaddr = 0 \/ addr < @ THEN addr ELSE @,
                              !.maxaddr = Max({@, end}), !.maxsrcaddr = Max({@, end})]
  PROVE  Core(t) /\ OnlyChanges(s, t, TakenFields) /\ Lo(t) <= addr /\ end <= Hi(t)
<1> DEFINE min == IF s.maxaddr = 0 \/ addr < s.minaddr THEN addr ELSE s.minaddr
           max == Max({s.maxaddr, end})
           far == Max({s.maxsrcaddr, end})
<1>1. /\ Base(s) /\ SourceKnown(s) /\ CodeOK(s) /\ BufferOK(s) /\ SourcePositions(s)
      /\ Names \subseteq DOMAIN s /\ Len(s.source) \in Nat
  BY DEF Core, CanSend, Base
<1>2. /\ s.minaddr \in Nat /\ s.maxaddr \in Nat /\ s.maxaddr <= Len(s.source) /\ s.decided \in BOOLEAN
      /\ s.maxsrcaddr \in Nat /\ s.maxsrcaddr <= Len(s.source)
  BY <1>1 DEF CodeOK, SourcePositions
<1>3. max = (IF s.maxaddr >= end THEN s.maxaddr ELSE end) /\ far = (IF s.maxsrcaddr >= end THEN s.maxsrcaddr ELSE end)
  BY <1>2, MaxTwo
<1>4. OnlyChanges(s, t, TakenFields) /\ t.minaddr = min /\ t.maxaddr = max /\ t.maxsrcaddr = far
  BY <1>1 DEF OnlyChanges, Names, TakenFields
<1> HIDE DEF max, far
<1>5. /\ min \in Nat /\ max \in Nat /\ far \in Nat /\ max <= Len(s.source) /\ far <= Len(s.source)
      /\ min <= addr /\ end <= max /\ s.maxaddr <= max /\ (s.maxaddr # 0 => min <= s.minaddr)
  BY <1>2, <1>3
<1> HIDE DEF min
<1>6. /\ t.iout = s.iout /\ t.acache = s.acache /\ t.decided = s.decided /\ t.srcbase = s.srcbase
      /\ t.srclen = s.srclen /\ t.free = s.free /\ t.off = s.off /\ t.used = s.used
      /\ t.iopt_size = s.iopt_size /\ t.elts = s.elts /\ t.unlimited = s.unlimited
      /\ t.source = s.source /\ t.large = s.large /\ t.match_srcpos = s.match_srcpos
      /\ t.run_c = s.run_c /\ t.run_l = s.run_l
  BY <1>1, <1>4 DEF OnlyChanges, Names, TakenFields
<1>7. CodeOK(t) /\ Waits(t) = Waits(s)
  BY <1>1, <1>4, <1>5, <1>6 DEF CodeOK, Waits
<1>8. Base(t) /\ SourceKnown(t) /\ SourcePositions(t)
  <2>1. Base(t) /\ SourceKnown(t)
    BY <1>1, <1>4, BaseKept, KnownKept DEF BaseFields, SourceFields, TakenFields
  <2>2. t.maxsrcaddr \in 0..Len(s.source)
    BY <1>1, <1>4, <1>5
  <2> QED BY <1>1, <1>6, <2>1, <2>2 DEF SourcePositions
<1>9. Lo(t) <= addr /\ end <= Hi(t)
  BY <1>4, <1>5, <1>6, <1>2 DEF Lo, Hi
<1>10. t.used \in Seq(CopiesWithin(Lo(t), Hi(t)))
  <2>1. Lo(s) \in Int /\ Hi(s) \in Int /\ Lo(t) \in Int /\ Hi(t) \in Int
    BY <1>1, <1>7, LoHi
  <2>2. s.used \in Seq(CopiesWithin(Lo(s), Hi(s))) /\ s.used \in Seq(CopiesWithin(0, Len(s.source)))
    BY <1>1 DEF BufferOK
  <2>3. CASE s.decided = TRUE \/ s.maxaddr # 0
    <3>1. Lo(t) <= Lo(s) /\ Hi(s) <= Hi(t)
      BY <1>2, <1>4, <1>5, <1>6, <2>1, <2>3 DEF Lo, Hi
    <3> QED BY <1>6, <2>1, <2>2, <3>1, WithinGrows
  <2>4. CASE s.decided = FALSE /\ s.maxaddr = 0
    <3>1. Hi(s) = 0
      BY <2>4 DEF Hi
    <3>2. ASSUME NEW k \in 1..Len(s.used)
          PROVE  s.used[k] \in CopiesWithin(Lo(t), Hi(t))
      <4> DEFINE i == s.used[k]
      <4>1. i \in CopiesWithin(Lo(s), 0) /\ i \in CopiesWithin(0, Len(s.source))
        BY <2>2, <3>1
      <4> HIDE DEF i
      <4>2. i \in Instrs /\ i.addr \in Int /\ i.size \in Nat /\ i.size > 0
        BY <4>1 DEF CopiesWithin, Instrs
      <4>3. ~ (i.type = CPY /\ i.xtra = 1)
        BY <4>1, <4>2 DEF CopiesWithin, EndOfCopy
      <4>4. i \in CopiesWithin(Lo(t), Hi(t))
        BY <4>2, <4>3 DEF CopiesWithin
      <4> QED BY <4>4 DEF i
    <3>3. s.used \in Seq(CopiesWithin(Lo(t), Hi(t)))
      BY <2>2, <3>2, SeqGrows
    <3> QED BY <1>6, <3>3
  <2> QED BY <1>2, <2>3, <2>4
<1>11. BufferOK(t)
  BY <1>1, <1>6, <1>7, <1>10 DEF BufferOK
<1> QED
  BY <1>4, <1>6, <1>7, <1>8, <1>9, <1>11 DEF Core, CanSend

LEMMA CoreEnters ==
  ASSUME NEW s, Core(s), NEW t, Entered(s, t)
  PROVE  Core(t) /\ t.inp = s.inp /\ t.win = s.win /\ t.source = s.source /\ t.fwd = s.fwd
         /\ t.match_srcpos = s.match_srcpos /\ t.match_state = s.match_state /\ t.cfg = s.cfg
<1>1. CanSend(s) /\ Names \subseteq DOMAIN s /\ SourcePositions(s) /\ s.run_c \in Nat /\ s.run_l \in Nat
  BY DEF Core, CanSend, Base
<1>2. CanSend(t) /\ BufferOK(t) /\ t.win = s.win /\ t.inp = s.inp /\ t.source = s.source
  BY <1>1, EnteredKeeps
<1>3. /\ t.large = s.large /\ t.maxsrcaddr = s.maxsrcaddr /\ t.match_srcpos = s.match_srcpos
      /\ t.run_c = s.run_c /\ t.run_l = s.run_l /\ t.fwd = s.fwd /\ t.match_state = s.match_state
      /\ t.cfg = s.cfg
  BY <1>1 DEF Entered, OnlyChanges, Names, SlotFields, CodeFields
<1> QED
  BY <1>1, <1>2, <1>3 DEF Core, SourcePositions

\* The copy that a match found is entered as, and the encoder without the instructions it covers.
CopyFound(s) == Inst(CPY, s.inp - s.back, s.back + s.fwd, s.match_srcpos - s.back, 1)
Uncovered(s) == IF s.back > 0 THEN Erase(s, s.inp - s.back) ELSE s

\* It is entered in g, where the source window reaches to its ends.
TakesIn(s, g) ==
  LET i == CopyFound(s)
      u == TakeSlot(g, i)
      t == TakeMatch(s)
  IN  /\ OnlyChanges(Uncovered(s), g, TakenFields) /\ Core(g)
      /\ i \in CopiesWithin(0, Len(g.source)) /\ i \in CopiesWithin(Lo(g), Hi(g))
      /\ Entered(g, u) /\ Core(u)
      /\ OnlyChanges(u, t, {"match_state", "match_srcpos"})
      /\ t.match_state \in {"target", s.match_state}
      /\ t.match_srcpos \in {s.match_srcpos + s.fwd, u.match_srcpos}

LEMMA TakeMatchSteps ==
  ASSUME NEW s, Core(s), Found(s)
  PROVE  /\ OnlyChanges(s, Uncovered(s), {"used", "free"}) /\ Core(Uncovered(s))
         /\ \E g : TakesIn(s, g)
<1> DEFINE pos == s.inp - s.back
           addr == s.match_srcpos - s.back
           end == s.match_srcpos + s.fwd
           f == Uncovered(s)
           g == [f EXCEPT !.back = 0,
                          !.minaddr = IF s.maxaddr = 0 \/ addr < @ THEN addr ELSE @,
                          !.maxaddr = Max({@, end}), !.maxsrcaddr = Max({@, end})]
           i == CopyFound(s)
           u == TakeSlot(g, i)
           goeson == s.inp + s.fwd = AvailIn(s)
           t == TakeMatch(s)
<1>1. t = [u EXCEPT !.match_state = IF goeson THEN "target" ELSE @,
                    !.match_srcpos = IF goeson THEN end ELSE @]
  BY DEF TakeMatch, FoundMatch, CopyFound, Uncovered
<1>2. /\ CanSend(s) /\ BufferOK(s) /\ SourcePositions(s) /\ Names \subseteq DOMAIN s
      /\ s.run_c \in Nat /\ s.run_l \in Nat /\ s.inp \in Int /\ Len(s.source) \in Nat
  BY DEF Core, CanSend, Base
<1>3. s.match_srcpos \in Nat
  BY <1>2 DEF SourcePositions
<1>4. /\ s.back \in Nat /\ s.back <= s.match_srcpos /\ s.fwd \in Nat /\ s.fwd > 0
      /\ addr \in Nat /\ end \in Nat /\ addr < end /\ end <= Len(s.source) /\ pos \in Int
      /\ s.decided = TRUE => s.srcbase <= addr /\ end <= s.srcbase + s.srclen
  BY <1>2, <1>3 DEF Found
<1>5. OnlyChanges(s, f, {"used", "free"}) /\ Core(f)
  <2>1. CASE s.back > 0
    <3>1. OnlyChanges(s, f, {"used", "free"}) /\ CodeOK(f) /\ BufferOK(f)
      BY <1>2, <2>1, EraseKeeps DEF Uncovered
    <3> HIDE DEF f
    <3>2. Base(f) /\ SourceOK(f)
      BY <1>2, <3>1, BaseKept, SourceKept DEF CanSend, SourceOK, BaseFields, SourceOKFields, SourceFields
    <3>3. f.run_c = s.run_c /\ f.run_l = s.run_l
      BY <1>2, <3>1 DEF OnlyChanges, Names
    <3> QED BY <1>2, <3>1, <3>2, <3>3 DEF Core, CanSend, SourceOK
  <2>2. CASE ~ (s.back > 0)
    BY <2>2, ChangesNothing DEF Uncovered
  <2> QED BY <2>1, <2>2
<1> HIDE DEF f
<1>6. /\ f.maxaddr = s.maxaddr /\ f.decided = s.decided /\ f.srcbase = s.srcbase /\ f.srclen = s.srclen
      /\ f.source = s.source /\ f.match_state = s.match_state /\ Names \subseteq DOMAIN f
  BY <1>2, <1>5 DEF OnlyChanges, Names
<1>7. Core(g) /\ OnlyChanges(f, g, TakenFields) /\ Lo(g) <= addr /\ end <= Hi(g)
  <2> HIDE DEF addr, end
  <2> QED BY <1>4, <1>5, <1>6, RangeGrows
<1> HIDE DEF g
<1>8. g.source = s.source /\ g.match_state = s.match_state
  BY <1>6, <1>7 DEF OnlyChanges, Names, TakenFields
<1>9. i \in CopiesWithin(0, Len(g.source)) /\ i \in CopiesWithin(Lo(g), Hi(g))
  <2>1. i \in Instrs
    BY <1>4 DEF CopyFound, Inst, Instrs
  <2>2. i.addr = addr /\ EndOfCopy(i) = end
    BY <1>3, <1>4 DEF CopyFound, Inst, EndOfCopy
  <2> HIDE DEF i, addr, end
  <2> QED BY <1>4, <1>7, <1>8, <2>1, <2>2 DEF CopiesWithin
<1> HIDE DEF i
<1>10. Entered(g, u)
  BY <1>7, <1>9, TakeSlotKeeps DEF Core
<1> HIDE DEF u
<1>11. Core(u) /\ u.match_state = s.match_state /\ Names \subseteq DOMAIN u
  <2>1. Core(u) /\ u.match_state = g.match_state
    BY <1>7, <1>10, CoreEnters
  <2> QED BY <1>8, <2>1 DEF Core, CanSend, Base
<1> HIDE DEF t, end
<1>12. /\ OnlyChanges(u, t, {"match_state", "match_srcpos"})
       /\ t.match_state \in {"target", s.match_state} /\ t.match_srcpos \in {end, u.match_srcpos}
  BY <1>1, <1>11 DEF OnlyChanges, Names
<1>13. TakesIn(s, g)
  BY <1>7, <1>9, <1>10, <1>11, <1>12 DEF TakesIn, f, i, u, t, end
<1> QED
  BY <1>5, <1>13 DEF f

\* A copy from the source is entered into the buffer.
LEMMA TakeMatchKeeps ==
  ASSUME NEW s, Core(s), Found(s)
  PROVE  LET t == TakeMatch(s)
         IN  OnlyChanges(s, t, TakeFields) /\ Core(t) /\ t.match_state \in {"target", s.match_state}
<1> DEFINE f == Uncovered(s)
           t == TakeMatch(s)
<1>0. SUFFICES OnlyChanges(s, t, TakeFields) /\ Core(t) /\ t.match_state \in {"target", s.match_state}
  OBVIOUS
<1>1. PICK g : TakesIn(s, g)
  BY TakeMatchSteps
<1> DEFINE u == TakeSlot(g, CopyFound(s))
           end == s.match_srcpos + s.fwd
<1>2. /\ OnlyChanges(s, f, {"used", "free"}) /\ OnlyChanges(f, g, TakenFields)
      /\ Core(g) /\ Entered(g, u) /\ Core(u) /\ OnlyChanges(u, t, {"match_state", "match_srcpos"})
      /\ t.match_state \in {"target", s.match_state} /\ t.match_srcpos \in {end, u.match_srcpos}
  BY <1>1, TakeMatchSteps DEF TakesIn
<1> HIDE DEF t, u, f
<1>3. OnlyChanges(s, t, TakeFields) /\ OnlyChanges(s, u, TakeFields)
  <2>1. OnlyChanges(s, g, TakeFields)
    BY <1>2, ChangesTwice DEF TakeFields, SlotFields, CodeFields, TakenFields
  <2>2. OnlyChanges(g, u, SlotFields)
    BY <1>2 DEF Entered
  <2>3. OnlyChanges(s, u, TakeFields)
    BY <2>1, <2>2, ChangesTwice DEF TakeFields
  <2> QED BY <1>2, <2>3, ChangesTwice DEF TakeFields
<1>4. Core(t)
  <2>1. Base(t) /\ SourceKnown(t) /\ CodeOK(t) /\ Waits(t) = Waits(u) /\ Lo(t) = Lo(u) /\ Hi(t) = Hi(u)
        /\ t.free = u.free
    BY <1>2, BaseKept, KnownKept, CodeKept DEF Core, CanSend, BaseFields, SourceFields, CodeOKFields
  <2>2. /\ t.used = u.used /\ t.iopt_size = u.iopt_size /\ t.elts = u.elts /\ t.unlimited = u.unlimited
        /\ t.source = u.source /\ t.run_c = u.run_c /\ t.run_l = u.run_l /\ t.large = u.large
        /\ t.maxsrcaddr = u.maxsrcaddr
    BY <1>2 DEF OnlyChanges, Names, Core, CanSend, Base
  <2>3. BufferOK(t)
    BY <1>2, <2>1, <2>2 DEF BufferOK, Core
  <2>4. end \in Nat /\ end <= Len(u.source)
    <3>1. u.source = s.source
      BY <1>3 DEF OnlyChanges, Names, Core, CanSend, Base, TakeFields, SlotFields, CodeFields
    <3> QED BY <3>1 DEF Found, Core, SourcePositions
  <2>5. SourcePositions(t)
    <3> HIDE DEF end
    <3> QED BY <1>2, <2>2, <2>4, SMTT(60) DEF SourcePositions, Core
  <2> QED BY <1>2, <2>1, <2>2, <2>3, <2>5 DEF Core, CanSend
<1> QED
  BY <1>2, <1>3, <1>4

\* A match with the source is extended, before it is taken or not.
LEMMA MatchGrows ==
  ASSUME NEW s, Core(s), MatchLimits(s)
  PROVE  \E w : /\ SourceExtendMatch(s) = TakeIfLong(w)
                /\ OnlyChanges(s, w, ExtendFields) /\ Core(w) /\ w.match_state = "searching"
                /\ w.fwd \in Nat /\ w.fwd <= AvailIn(s) - s.inp
                /\ w.back \in Nat /\ w.back <= s.maxback
                /\ w.fwd >= w.min_match => Found(w)
                /\ w.min_match \in Nat /\ w.min_match >= MIN_MATCH
                /\ BackAgrees(w) /\ ForwardAgrees(w)
<1> DEFINE u == IF s.match_state = "backward" THEN ExtendBack(s) ELSE s
           v == GrowForward(u)
           w == [v EXCEPT !.match_state = "searching"]
<1>1. SourceExtendMatch(s) = TakeIfLong(w)
  BY DEF SourceExtendMatch
<1>2. /\ Base(s) /\ SourceKnown(s) /\ Names \subseteq DOMAIN s /\ s.match_srcpos \in Nat
      /\ s.match_srcpos <= Len(s.source) /\ s.maxback \in Nat /\ s.maxback <= s.match_srcpos
      /\ s.maxfwd \in Nat /\ s.back = 0 /\ s.fwd = 0 /\ Len(s.win) - s.inp \in Nat
  BY DEF Core, CanSend, Base, MatchLimits
<1>3. OnlyChanges(s, u, BackFields) /\ Core(u) /\ u.back \in Nat /\ u.back <= s.maxback /\ BackAgrees(u)
  <2>1. CASE s.match_state = "backward"
    <3>1. OnlyChanges(s, u, BackFields) /\ SourceKnown(u) /\ u.back \in 0..s.maxback /\ BackAgrees(u)
      BY <1>2, <2>1, ExtendBackKeeps DEF BackLimits
    <3> HIDE DEF u
    <3>2. Core(u)
      BY <3>1, CoreReads DEF BackFields, SourceFields, CoreFields
    <3>3. u.back \in Nat /\ u.back <= s.maxback
      BY <1>2, <3>1
    <3> QED BY <3>1, <3>2, <3>3
  <2>2. CASE s.match_state # "backward"
    BY <1>2, <2>2, ChangesNothing DEF BackAgrees
  <2> QED BY <2>1, <2>2
<1> HIDE DEF u
<1>4. /\ u.match_srcpos = s.match_srcpos /\ u.maxfwd = s.maxfwd /\ u.fwd = 0 /\ u.source = s.source
      /\ u.win = s.win /\ u.inp = s.inp /\ u.decided = s.decided /\ u.srcbase = s.srcbase
      /\ u.srclen = s.srclen /\ Names \subseteq DOMAIN u
  BY <1>2, <1>3, SMTT(60) DEF OnlyChanges, Names, BackFields, SourceFields
<1>5. /\ OnlyChanges(u, v, ForwardFields) /\ Core(v) /\ v.fwd \in Nat /\ v.fwd <= s.maxfwd
      /\ v.fwd <= Len(s.win) - s.inp /\ s.match_srcpos + v.fwd <= Len(s.source) /\ ForwardAgrees(v)
  <2>1. CASE u.match_state = "searching"
    <3>1. v = u
      BY <2>1 DEF GrowForward
    <3>2. ForwardAgrees(u)
      BY <1>4 DEF ForwardAgrees
    <3> QED BY <1>2, <1>3, <1>4, <3>1, <3>2, ChangesNothing
  <2>2. CASE u.match_state # "searching"
    <3>1. v = ExtendForward(u)
      BY <2>2 DEF GrowForward
    <3>2. Base(u) /\ SourceKnown(u)
      BY <1>3 DEF Core, CanSend
    <3>3. OnlyChanges(u, v, ForwardFields) /\ SourceKnown(v) /\ ForwardLimits(u, v) /\ ForwardAgrees(v)
      BY <1>2, <1>4, <3>1, <3>2, ExtendForwardKeeps
    <3> HIDE DEF v
    <3>4. Core(v)
      BY <1>3, <3>3, CoreReads DEF ForwardFields, SourceFields, CoreFields
    <3> QED BY <1>4, <3>3, <3>4 DEF ForwardLimits
  <2> QED BY <2>1, <2>2
<1> HIDE DEF v
<1>6. /\ v.match_srcpos = s.match_srcpos /\ v.back = u.back /\ v.source = s.source
      /\ v.win = s.win /\ v.inp = s.inp /\ v.decided = s.decided /\ v.srcbase = s.srcbase
      /\ v.srclen = s.srclen /\ Names \subseteq DOMAIN v
  BY <1>4, <1>5 DEF OnlyChanges, Names, ForwardFields, SourceFields
<1>7. OnlyChanges(v, w, {"match_state"}) /\ w.match_state = "searching"
  BY <1>6 DEF OnlyChanges, Names
<1> HIDE DEF w
<1>8. Core(w)
  BY <1>5, <1>7, CoreKept DEF CoreFields
<1>9. /\ w.match_srcpos = s.match_srcpos /\ w.back = u.back /\ w.fwd = v.fwd /\ w.source = s.source
      /\ w.win = s.win /\ w.inp = s.inp /\ w.decided = s.decided /\ w.srcbase = s.srcbase
      /\ w.srclen = s.srclen /\ Names \subseteq DOMAIN w /\ w.min_match \in Nat /\ w.min_match >= MIN_MATCH
  <2>1. w.min_match \in Nat /\ w.min_match >= MIN_MATCH
    BY <1>8 DEF Core, CanSend, Base
  <2> QED BY <1>6, <1>7, <2>1 DEF OnlyChanges, Names
<1>10. OnlyChanges(s, w, ExtendFields)
  <2>1. OnlyChanges(s, v, ExtendFields)
    BY <1>3, <1>5, ChangesTwice DEF ExtendFields, BackFields, ForwardFields
  <2> QED BY <1>7, <2>1, ChangesTwice DEF ExtendFields
<1>11. ASSUME w.fwd >= w.min_match
       PROVE  Found(w)
  <2>1. w.fwd \in Nat /\ w.fwd > 0
    BY <1>5, <1>9, <1>11 DEF MIN_MATCH
  <2>2. s.maxfwd > 0
    BY <1>2, <1>5, <1>9, <2>1
  <2>3. s.decided = TRUE => /\ s.srcbase <= s.match_srcpos - s.maxback
                            /\ s.match_srcpos + s.maxfwd <= s.srcbase + s.srclen
    BY <2>2 DEF MatchLimits
  <2>4. s.srcbase \in Nat /\ s.srclen \in Int
    BY DEF Core, CanSend, CodeOK
  <2>5. s.decided = TRUE => /\ s.srcbase <= s.match_srcpos - u.back
                            /\ s.match_srcpos + v.fwd <= s.srcbase + s.srclen
    BY <1>2, <1>3, <1>5, <2>3, <2>4, SMTT(60)
  <2>6. u.back <= s.match_srcpos
    BY <1>2, <1>3
  <2> QED BY <1>3, <1>5, <1>9, <2>1, <2>5, <2>6 DEF Found
<1>12. w.fwd \in Nat /\ w.fwd <= AvailIn(s) - s.inp /\ w.back \in Nat /\ w.back <= s.maxback
  BY <1>3, <1>5, <1>9 DEF AvailIn
<1>13. BackAgrees(w) /\ ForwardAgrees(w)
  <2>1. BackAgrees(w)
    BY <1>3, <1>4, <1>9 DEF BackAgrees, Byte
  <2>2. ForwardAgrees(w)
    BY <1>5, <1>6, <1>9 DEF ForwardAgrees, Byte
  <2> QED BY <2>1, <2>2
<1> QED
  BY <1>1, <1>7, <1>8, <1>9, <1>10, <1>11, <1>12, <1>13

\* xd3_source_extend_match: the match is extended and taken, or there is none.
MatchFields == SourceFields \cup TakeFields \cup {"fwd"}
LEMMA SourceExtendMatchKeeps ==
  ASSUME NEW s, Core(s), MatchLimits(s)
  PROVE  LET t == SourceExtendMatch(s)
         IN  /\ OnlyChanges(s, t, MatchFields) /\ Good(t)
             /\ t.fwd \in Nat /\ t.fwd <= AvailIn(s) - s.inp
             /\ t.fwd = 0 \/ t.fwd >= s.min_match
<1> DEFINE t == SourceExtendMatch(s)
<1>0. SUFFICES /\ OnlyChanges(s, t, MatchFields) /\ Good(t)
               /\ t.fwd \in Nat /\ t.fwd <= AvailIn(s) - s.inp
               /\ t.fwd = 0 \/ t.fwd >= s.min_match
  OBVIOUS
<1>1. PICK w : /\ t = TakeIfLong(w)
               /\ OnlyChanges(s, w, ExtendFields) /\ Core(w) /\ w.match_state = "searching"
               /\ w.fwd \in Nat /\ w.fwd <= AvailIn(s) - s.inp
               /\ w.fwd >= w.min_match => Found(w)
               /\ w.min_match \in Nat /\ w.min_match >= MIN_MATCH
  BY MatchGrows
<1> HIDE DEF t
<1>2. /\ Names \subseteq DOMAIN s /\ Names \subseteq DOMAIN w /\ w.min_match = s.min_match
      /\ AvailIn(s) - s.inp \in Nat
  <2>1. Base(s) /\ Base(w)
    BY <1>1 DEF Core, CanSend
  <2>2. Names \subseteq DOMAIN s /\ Names \subseteq DOMAIN w /\ AvailIn(s) - s.inp \in Nat
    <3>1. Len(s.win) \in Nat
      BY <2>1 DEF Base
    <3> QED BY <2>1, <3>1 DEF Base, AvailIn
  <2> QED BY <1>1, <2>2 DEF OnlyChanges, Names, ExtendFields, SourceFields
<1>3. OnlyChanges(s, w, MatchFields)
  BY <1>1 DEF OnlyChanges, ExtendFields, MatchFields, TakeFields
<1>4. CASE w.fwd < w.min_match
  <2>1. t = [w EXCEPT !.fwd = 0]
    BY <1>1, <1>4 DEF TakeIfLong
  <2>2. OnlyChanges(w, t, {"fwd"}) /\ t.fwd = 0 /\ t.match_state = "searching"
    BY <1>1, <1>2, <2>1 DEF OnlyChanges, Names
  <2>3. Core(t)
    BY <1>1, <2>2, CoreKept DEF CoreFields
  <2>4. OnlyChanges(s, t, MatchFields)
    BY <1>3, <2>2, ChangesTwice DEF MatchFields
  <2> QED BY <1>2, <2>2, <2>3, <2>4 DEF Good
<1>5. CASE ~ (w.fwd < w.min_match)
  <2>1. t = TakeMatch(w) /\ w.fwd >= w.min_match
    BY <1>1, <1>5 DEF TakeIfLong
  <2>2. OnlyChanges(w, t, TakeFields) /\ Core(t) /\ t.match_state \in {"target", w.match_state}
    BY <1>1, <2>1, TakeMatchKeeps
  <2>3. OnlyChanges(s, t, MatchFields)
    BY <1>3, <2>2, ChangesTwice DEF MatchFields
  <2>4. t.fwd = w.fwd
    BY <1>2, <2>2 DEF OnlyChanges, Names, TakeFields, SlotFields, CodeFields
  <2> QED BY <1>1, <1>2, <2>1, <2>2, <2>3, <2>4 DEF Good
<1> QED
  BY <1>4, <1>5

-----------------------------------------------------------------------------
(* The tables of the window, and steps that leave them and Core alone. *)

Tables(s) ==
  /\ s.small \in [0..(SmallSlots - 1) -> Nat] /\ s.prev \in [0..(SprevSize - 1) -> Nat]
  /\ s.sprevsz = SprevSize
TableFields == {"small", "prev", "sprevsz"}

Ready(s) == Good(s) /\ Tables(s)
MovingFields == {"inp", "min_match", "run_c", "run_l"}

LEMMA ReadyFacts ==
  ASSUME NEW s, Ready(s)
  PROVE  /\ Core(s) /\ Base(s) /\ Names \subseteq DOMAIN s
         /\ s.win \in Seq(Nat) /\ Len(s.win) \in Nat /\ s.inp \in Nat /\ s.inp <= Len(s.win)
         /\ s.cfg \in Matchers /\ s.has_src \in BOOLEAN
         /\ s.min_match \in Nat /\ s.min_match >= MIN_MATCH
         /\ s.run_c \in Nat /\ s.run_l \in Nat /\ AvailIn(s) = Len(s.win)
  BY DEF Ready, Good, Core, CanSend, Base, AvailIn

LEMMA TablesKept ==
  ASSUME NEW s, Names \subseteq DOMAIN s, Tables(s), NEW t, NEW F, OnlyChanges(s, t, F),
         F \cap TableFields = {}
  PROVE  Tables(t)
<1>1. \A x \in TableFields : t[x] = s[x]
  BY DEF OnlyChanges, Names, TableFields
<1>2. t.small = s.small /\ t.prev = s.prev /\ t.sprevsz = s.sprevsz
  BY <1>1 DEF TableFields
<1> QED
  BY <1>2 DEF Tables

LEMMA ReadyMoves ==
  ASSUME NEW s, Ready(s), NEW t, NEW F, OnlyChanges(s, t, F),
         F \cap (CoreFields \cup TableFields \cup {"match_state"}) = {},
         t.inp \in Nat, t.inp <= Len(s.win), t.min_match \in Nat, t.min_match >= MIN_MATCH,
         t.run_c \in Nat, t.run_l \in Nat
  PROVE  Ready(t)
<1>1. Core(s) /\ Names \subseteq DOMAIN s /\ Tables(s)
  BY ReadyFacts DEF Ready
<1>2. F \cap CoreFields = {} /\ F \cap TableFields = {} /\ "match_state" \notin F
  OBVIOUS
<1>3. Core(t)
  BY <1>1, <1>2, CoreMoves
<1>4. Tables(t)
  BY <1>1, <1>2, TablesKept
<1>5. t.match_state = s.match_state
  BY <1>1, <1>2 DEF OnlyChanges, Names
<1> QED
  BY <1>3, <1>4, <1>5 DEF Ready, Good

LEMMA ReadyKept ==
  ASSUME NEW s, Ready(s), NEW t, NEW F, OnlyChanges(s, t, F),
         F \cap (CoreFields \cup TableFields \cup MovingFields \cup {"match_state"}) = {}
  PROVE  Ready(t)
<1>1. Names \subseteq DOMAIN s
  BY ReadyFacts
<1>2. t.inp = s.inp /\ t.min_match = s.min_match /\ t.run_c = s.run_c /\ t.run_l = s.run_l
  <2>1. \A x \in MovingFields : t[x] = s[x]
    BY <1>1 DEF OnlyChanges, Names, MovingFields
  <2> QED BY <2>1 DEF MovingFields
<1>3. F \cap (CoreFields \cup TableFields \cup {"match_state"}) = {}
  OBVIOUS
<1> QED
  BY <1>2, <1>3, ReadyFacts, ReadyMoves

\* The bytes of the window.
LEMMA ByteIsNat ==
  ASSUME NEW s, s.win \in Seq(Nat), NEW i \in Nat, i < Len(s.win)
  PROVE  Byte(s, i) \in Nat
<1>1. i + 1 \in 1..Len(s.win)
  OBVIOUS
<1> QED
  BY <1>1 DEF Byte

\* The copy that a match with the source begun in the last window goes on with.
LEMMA ContinuedSteps ==
  ASSUME NEW s, Ready(s)
  PROVE  \/ Continued(s) = s
         \/ /\ Continued(s) = [s EXCEPT !.match_state = "searching", !.fwd = 0]
            /\ OnlyChanges(s, Continued(s), {"match_state", "fwd"})
         \/ \E v : /\ Continued(s) = SkipMatch(SourceExtendMatch(v))
                   /\ OnlyChanges(s, v, SetupFields) /\ Core(v) /\ MatchLimits(v)
                   /\ v.maxback = SourceMatchSetup(s, s.match_srcpos).maxback
<1> DEFINE u == SourceMatchSetup(s, s.match_srcpos)
           v == [u EXCEPT !.match_state = "forward"]
           begun == IF s.match_state # "target" THEN s
                    ELSE IF AvailIn(s) = 0 THEN [s EXCEPT !.match_state = "searching", !.fwd = 0]
                    ELSE v
<1>1. Core(s) /\ Names \subseteq DOMAIN s /\ s.match_state \in {"target", "searching"}
  BY ReadyFacts DEF Ready, Good
<1>2. Continued(s) = IF s.has_src /\ begun.match_state # "searching" /\ AvailIn(s) # 0
                     THEN SkipMatch(SourceExtendMatch(begun))
                     ELSE IF s.has_src THEN begun ELSE s
  BY DEF Continued
<1>3. s.match_srcpos \in Nat /\ s.match_srcpos <= Len(s.source)
  BY <1>1 DEF Core, SourcePositions, CanSend, Base
<1>4. OnlyChanges(s, u, SetupFields) /\ Core(u) /\ MatchLimits(u)
  BY <1>1, <1>3, SetupKeeps
<1> HIDE DEF u
<1>5. OnlyChanges(u, v, {"match_state"}) /\ Names \subseteq DOMAIN u
  BY <1>4 DEF OnlyChanges, Core, CanSend, Base
<1>6. v.match_state = "forward"
  BY <1>5 DEF Names
<1> HIDE DEF v
<1>7. OnlyChanges(s, v, SetupFields) /\ Core(v)
  BY <1>4, <1>5, ChangesTwice, CoreKept DEF SetupFields, CoreFields
<1>8. /\ v.match_srcpos = u.match_srcpos /\ v.source = u.source /\ v.maxback = u.maxback
      /\ v.maxfwd = u.maxfwd /\ v.back = u.back /\ v.fwd = u.fwd /\ v.decided = u.decided
      /\ v.srcbase = u.srcbase /\ v.srclen = u.srclen /\ v.win = u.win /\ v.inp = u.inp
  BY <1>5 DEF OnlyChanges, Names
<1>9. MatchLimits(v)
  BY <1>4, <1>8 DEF MatchLimits
<1>10. CASE ~ s.has_src \/ s.match_state # "target"
  BY <1>1, <1>2, <1>10
<1>11. CASE s.has_src /\ s.match_state = "target" /\ AvailIn(s) = 0
  <2>1. Continued(s) = [s EXCEPT !.match_state = "searching", !.fwd = 0]
    BY <1>2, <1>11
  <2> QED BY <1>1, <2>1 DEF OnlyChanges, Names
<1>12. CASE s.has_src /\ s.match_state = "target" /\ AvailIn(s) # 0
  <2>1. begun = v
    BY <1>12
  <2> HIDE DEF begun
  <2>2. Continued(s) = SkipMatch(SourceExtendMatch(v))
    BY <1>2, <1>6, <1>12, <2>1
  <2> QED BY <1>7, <1>8, <1>9, <2>2 DEF u
<1> QED
  BY <1>1, <1>10, <1>11, <1>12

\* A match that ended with the last window goes on in this one.
LEMMA ContinuedKeeps ==
  ASSUME NEW s, Ready(s)
  PROVE  Ready(Continued(s))
<1> DEFINE t == Continued(s)
<1>0. SUFFICES Ready(t)
  OBVIOUS
<1>1. /\ Core(s) /\ Names \subseteq DOMAIN s /\ s.match_state \in {"target", "searching"} /\ Tables(s)
      /\ s.inp \in Nat /\ s.inp <= Len(s.win) /\ AvailIn(s) = Len(s.win) /\ Len(s.win) \in Nat
      /\ s.min_match \in Nat /\ s.run_c \in Nat /\ s.run_l \in Nat /\ s.min_match >= MIN_MATCH
  BY ReadyFacts DEF Ready, Good
<1>2. CASE /\ t = [s EXCEPT !.match_state = "searching", !.fwd = 0]
           /\ OnlyChanges(s, t, {"match_state", "fwd"})
  <2>1. t.match_state = "searching"
    BY <1>1, <1>2 DEF Names
  <2> HIDE DEF t
  <2>2. Core(t) /\ Tables(t)
    BY <1>1, <1>2, CoreKept, TablesKept DEF CoreFields, TableFields
  <2> QED BY <2>1, <2>2 DEF Ready, Good
<1>3. CASE \E v : /\ t = SkipMatch(SourceExtendMatch(v))
                  /\ OnlyChanges(s, v, SetupFields) /\ Core(v) /\ MatchLimits(v)
  <2>1. PICK v : /\ t = SkipMatch(SourceExtendMatch(v))
                 /\ OnlyChanges(s, v, SetupFields) /\ Core(v) /\ MatchLimits(v)
    BY <1>3
  <2> DEFINE w == SourceExtendMatch(v)
  <2>2. /\ OnlyChanges(v, w, MatchFields) /\ Good(w)
        /\ w.fwd \in Nat /\ w.fwd <= AvailIn(v) - v.inp
    BY <2>1, SourceExtendMatchKeeps
  <2>3. t = SkipMatch(w)
    BY <2>1
  <2> HIDE DEF w, t
  <2>4. OnlyChanges(s, w, SetupFields \cup MatchFields)
    BY <2>1, <2>2, ChangesTwice
  <2>5. /\ w.inp = s.inp /\ w.win = s.win /\ w.min_match = s.min_match /\ w.run_c = s.run_c /\ w.run_l = s.run_l
        /\ Names \subseteq DOMAIN w
    BY <1>1, <2>4
    DEF OnlyChanges, Names, SetupFields, MatchFields, TakeFields, SlotFields, CodeFields, SourceFields
  <2>6. Tables(w)
    BY <1>1, <2>4, TablesKept
    DEF SetupFields, MatchFields, TakeFields, SlotFields, CodeFields, SourceFields, TableFields
  <2>7. Ready(w)
    BY <2>2, <2>6 DEF Ready
  <2>8. v.inp = s.inp /\ v.win = s.win
    BY <1>1, <2>1 DEF OnlyChanges, Names, SetupFields
  <2>9. OnlyChanges(w, t, {"inp"}) /\ t.inp = s.inp + w.fwd
    BY <2>3, <2>5 DEF SkipMatch, OnlyChanges, Names
  <2>10. t.inp \in Nat /\ t.inp <= Len(w.win)
    BY <1>1, <2>2, <2>5, <2>8, <2>9 DEF AvailIn
  <2>11. t.min_match = w.min_match /\ t.run_c = w.run_c /\ t.run_l = w.run_l
    BY <2>5, <2>9 DEF OnlyChanges, Names
  <2>12. t.min_match \in Nat /\ t.min_match >= MIN_MATCH /\ t.run_c \in Nat /\ t.run_l \in Nat
    BY <1>1, <2>5, <2>11
  <2>13. {"inp"} \cap (CoreFields \cup TableFields \cup {"match_state"}) = {}
    BY DEF CoreFields, TableFields
  <2> QED BY <2>7, <2>9, <2>10, <2>12, <2>13, ReadyMoves
<1>4. CASE t = s
  BY <1>4
<1> HIDE DEF t
<1> QED
  BY <1>2, <1>3, <1>4, ContinuedSteps DEF t

\* xd3_string_match_init
LEMMA MatchInitKeeps ==
  ASSUME NEW s, Ready(s)
  PROVE  Ready(MatchInit(s))
<1> DEFINE t == MatchInit(s)
<1>0. SUFFICES Ready(t)
  OBVIOUS
<1>1. /\ Core(s) /\ Names \subseteq DOMAIN s /\ s.match_state \in {"target", "searching"}
      /\ s.small \in [0..(SmallSlots - 1) -> Nat] /\ s.prev \in [0..(SprevSize - 1) -> Nat]
      /\ s.sprevsz = SprevSize
  BY ReadyFacts DEF Ready, Good, Tables
<1> DEFINE none == [h \in DOMAIN s.small |-> 0]
<1>2. none \in [0..(SmallSlots - 1) -> Nat]
  BY <1>1
<1>3. t = s \/ t = [s EXCEPT !.small = none, !.small_reset = FALSE]
  BY DEF MatchInit
<1> HIDE DEF t, none
<1>4. OnlyChanges(s, t, {"small", "small_reset"}) /\ t.small \in {s.small, none}
  BY <1>1, <1>3 DEF OnlyChanges, Names
<1>5. Core(t)
  BY <1>1, <1>4, CoreKept DEF CoreFields
<1>6. t.prev = s.prev /\ t.sprevsz = s.sprevsz /\ t.match_state = s.match_state
  BY <1>1, <1>4 DEF OnlyChanges, Names
<1> QED
  BY <1>1, <1>2, <1>4, <1>5, <1>6 DEF Ready, Good, Tables

-----------------------------------------------------------------------------
(* The rolling checksum. *)

LEMMA ModAdd ==
  ASSUME NEW a \in Int, NEW b \in Int, NEW m \in Nat \ {0}
  PROVE  ((a % m) + b) % m = (a + b) % m
<1> DEFINE q == a \div m
           r == a % m
           p == (r + b) \div m
           w == (r + b) % m
<1>1. q \in Int /\ r \in 0..(m - 1) /\ a = q * m + r
  BY Division
<1>2. r \in Int /\ r + b \in Int
  BY <1>1
<1>3. p \in Int /\ w \in 0..(m - 1) /\ r + b = p * m + w
  <2> HIDE DEF r
  <2> QED BY <1>2, Division
<1> HIDE DEF q, r, p, w
<1>4. w \in Int /\ q + p \in Int
  BY <1>1, <1>3
<1>5. q * m + p * m = (q + p) * m
  BY <1>1, <1>3
<1>6. a + b = (q + p) * m + w
  <2> DEFINE x == q * m
             y == p * m
             z == (q + p) * m
  <2>1. x \in Int /\ y \in Int /\ z \in Int
    BY <1>1, <1>3
  <2>2. a = x + r /\ r + b = y + w /\ x + y = z
    BY <1>1, <1>3, <1>5
  <2> HIDE DEF x, y, z
  <2>3. a + b = z + w
    BY <1>2, <1>4, <2>1, <2>2
  <2> QED BY <2>3 DEF z
<1>7. (a + b) % m = w
  <2>1. a + b \in Int
    OBVIOUS
  <2> QED BY <1>3, <1>4, <1>6, <2>1, DivUnique
<1> QED
  BY <1>7 DEF w, r

\* The sums of the bytes of a sequence.
Sums(f, b) == f[0] = NoSums /\ \A k \in Nat : k < Len(b) => f[k + 1] = AddByte(f[k], b[k + 1])

LEMMA SumsAreInt ==
  ASSUME NEW b \in Seq(Nat), NEW f, Sums(f, b)
  PROVE  \A k \in Nat : k <= Len(b) => f[k].low \in Int /\ f[k].high \in Int
<1> DEFINE T == {k \in Nat : k <= Len(b) => f[k].low \in Int /\ f[k].high \in Int}
<1>1. 0 \in T
  BY DEF Sums, NoSums
<1>2. ASSUME NEW k \in Nat, k \in T
      PROVE  k + 1 \in T
  <2>1. CASE k < Len(b)
    <3>1. f[k].low \in Int /\ f[k].high \in Int /\ b[k + 1] \in Nat
      BY <1>2, <2>1
    <3>2. f[k + 1] = AddByte(f[k], b[k + 1])
      BY <2>1 DEF Sums
    <3>3. f[k + 1].low \in Int /\ f[k + 1].high \in Int
      BY <3>1, <3>2 DEF AddByte
    <3> QED BY <3>3
  <2>2. CASE ~ (k < Len(b))
    BY <2>2
  <2> QED BY <2>1, <2>2
<1> HIDE DEF T
<1>3. \A k \in Nat : k \in T
  BY <1>1, <1>2, NatInduct
<1> QED
  BY <1>3 DEF T

\* c holds the n bytes one further on than those of b.
OneOn(b, c, n) ==
  /\ b \in Seq(Nat) /\ c \in Seq(Nat) /\ n \in Nat /\ n > 0 /\ Len(b) = n /\ Len(c) = n
  /\ \A k \in 1..(n - 1) : c[k] = b[k + 1]

\* The sums of the bytes one further on, but for the last of these.
LEMMA SumsShift ==
  ASSUME NEW b, NEW c, NEW n, OneOn(b, c, n), NEW f, Sums(f, b), NEW g, Sums(g, c)
  PROVE  /\ g[n].low = f[n].low - b[1] + c[n]
         /\ g[n].high = f[n].high - b[1] * n + g[n].low
<1> USE DEF OneOn
<1> DEFINE x == b[1]
           T == {k \in Nat : k < n => /\ g[k].low = f[k + 1].low - x
                                      /\ g[k].high = f[k + 1].high - x * (k + 1)}
<1>1. x \in Nat
  OBVIOUS
<1>2. \A k \in Nat : k <= n => /\ f[k].low \in Int /\ f[k].high \in Int
                               /\ g[k].low \in Int /\ g[k].high \in Int
  BY SumsAreInt
<1>3. 0 \in T
  <2>1. f[0] = NoSums /\ g[0] = NoSums /\ f[0 + 1] = AddByte(f[0], b[0 + 1])
    BY DEF Sums
  <2>2. f[1].low = x /\ f[1].high = x /\ g[0].low = 0 /\ g[0].high = 0
    BY <1>1, <2>1 DEF AddByte, NoSums
  <2> QED BY <1>1, <2>2
<1>4. ASSUME NEW k \in Nat, k \in T
      PROVE  k + 1 \in T
  <2>1. CASE k + 1 < n
    <3> DEFINE y == c[k + 1]
               p == x * (k + 1)
               r == x * (k + 1 + 1)
    <3>1. g[k].low = f[k + 1].low - x /\ g[k].high = f[k + 1].high - p
      BY <1>4, <2>1
    <3>2. g[k + 1] = AddByte(g[k], y) /\ f[k + 1 + 1] = AddByte(f[k + 1], y)
      <4>1. k + 1 \in Nat /\ k < Len(c) /\ k + 1 < Len(b) /\ k + 1 \in 1..(n - 1)
        BY <2>1
      <4>2. b[k + 1 + 1] = y
        BY <4>1
      <4> HIDE DEF y
      <4>3. f[k + 1 + 1] = AddByte(f[k + 1], b[k + 1 + 1])
        BY <4>1 DEF Sums
      <4>4. g[k + 1] = AddByte(g[k], c[k + 1])
        BY <4>1 DEF Sums
      <4> QED BY <4>2, <4>3, <4>4 DEF y
    <3>3. /\ g[k].low \in Int /\ g[k].high \in Int /\ f[k + 1].low \in Int /\ f[k + 1].high \in Int
          /\ y \in Nat
      BY <1>2, <2>1
    <3>4. r = p + x /\ p \in Int /\ r \in Int
      BY <1>1
    <3> HIDE DEF x, y, p, r
    <3>5. /\ g[k + 1].low = g[k].low + y /\ g[k + 1].high = g[k].high + g[k].low + y
          /\ f[k + 1 + 1].low = f[k + 1].low + y
          /\ f[k + 1 + 1].high = f[k + 1].high + f[k + 1].low + y
      BY <3>2 DEF AddByte
    <3>6. g[k + 1].low = f[k + 1 + 1].low - x
      BY <1>1, <3>1, <3>3, <3>5, SMTT(60)
    <3>7. g[k + 1].high = f[k + 1 + 1].high - r
      <4> DEFINE fl == f[k + 1].low
                 fh == f[k + 1].high
                 gl == g[k].low
                 gh == g[k].high
      <4>1. fl \in Int /\ fh \in Int /\ gl \in Int /\ gh \in Int /\ x \in Int /\ y \in Int
        BY <1>1, <3>3
      <4>2. gl = fl - x /\ gh = fh - p
        BY <3>1
      <4>3. g[k + 1].high = gh + gl + y /\ f[k + 1 + 1].high = fh + fl + y
        BY <3>5
      <4> HIDE DEF fl, fh, gl, gh
      <4>4. gh + gl + y = (fh + fl + y) - r
        BY <3>4, <4>1, <4>2
      <4> QED BY <4>3, <4>4
    <3> QED BY <3>6, <3>7 DEF r
  <2>2. CASE ~ (k + 1 < n)
    BY <2>2
  <2> QED BY <2>1, <2>2
<1> HIDE DEF T
<1>5. \A k \in Nat : k \in T
  BY <1>3, <1>4, NatInduct
<1> DEFINE m == n - 1
<1>6. m \in Nat /\ m < n /\ m + 1 = n
  OBVIOUS
<1>7. m \in T
  BY <1>5, <1>6
<1> HIDE DEF m
<1>8. g[m].low = f[n].low - x /\ g[m].high = f[n].high - x * n
  BY <1>6, <1>7 DEF T
<1>9. g[n] = AddByte(g[m], c[n])
  BY <1>6 DEF Sums
<1>10. /\ g[n].low = g[m].low + c[n] /\ g[n].high = g[m].high + g[m].low + c[n]
  BY <1>9 DEF AddByte
<1>11. /\ f[n].low \in Int /\ f[n].high \in Int /\ g[m].low \in Int /\ g[m].high \in Int /\ c[n] \in Nat
  BY <1>2, <1>6
<1> DEFINE p == x * n
<1>12. p \in Int
  BY <1>1
<1> HIDE DEF x, p
<1>13. g[n].low = f[n].low - x + c[n]
  BY <1>1, <1>8, <1>10, <1>11
<1>14. g[n].high = f[n].high - p + g[n].low
  BY <1>1, <1>8, <1>10, <1>11, <1>12, SMTT(60) DEF p
<1> QED
  BY <1>13, <1>14 DEF x, p

\* xd3_large_cksum_update: the checksum of the bytes one further on.
LEMMA UpdateIsLcksum ==
  ASSUME NEW b, NEW c, NEW n, OneOn(b, c, n)
  PROVE  LargeCksumUpdate(Lcksum(b), b[1], c[n], n) = Lcksum(c)
<1>0. /\ b \in Seq(Nat) /\ c \in Seq(Nat) /\ n \in Nat /\ n > 0 /\ Len(b) = n /\ Len(c) = n
      /\ b[1] \in Nat /\ c[n] \in Nat
  BY DEF OneOn
<1>1. PICK f : /\ f[0] = NoSums
               /\ Lcksum(b) = [low |-> f[n].low % CkMod, high |-> f[n].high % CkMod]
               /\ \A k \in Nat : k < n => f[k + 1] = AddByte(f[k], b[k + 1])
  <2>1. Len(b) \in Nat
    BY <1>0
  <2>2. \E f : /\ f[0] = NoSums
               /\ Lcksum(b) = [low |-> f[Len(b)].low % CkMod, high |-> f[Len(b)].high % CkMod]
               /\ \A k \in Nat : k < Len(b) => f[k + 1] = AddByte(f[k], b[k + 1])
    BY <2>1, LcksumByRounds
  <2> QED BY <1>0, <2>2
<1>2. PICK g : /\ g[0] = NoSums
               /\ Lcksum(c) = [low |-> g[n].low % CkMod, high |-> g[n].high % CkMod]
               /\ \A k \in Nat : k < n => g[k + 1] = AddByte(g[k], c[k + 1])
  <2>1. Len(c) \in Nat
    BY <1>0
  <2>2. \E g : /\ g[0] = NoSums
               /\ Lcksum(c) = [low |-> g[Len(c)].low % CkMod, high |-> g[Len(c)].high % CkMod]
               /\ \A k \in Nat : k < Len(c) => g[k + 1] = AddByte(g[k], c[k + 1])
    BY <2>1, LcksumByRounds
  <2> QED BY <1>0, <2>2
<1>3. Sums(f, b) /\ Sums(g, c)
  BY <1>0, <1>1, <1>2 DEF Sums
<1> DEFINE fl == f[n].low
           fh == f[n].high
           gl == g[n].low
           gh == g[n].high
           x == b[1]
           y == c[n]
           p == x * n
<1>4. gl = fl - x + y /\ gh = fh - p + gl
  <2>1. /\ g[n].low = f[n].low - b[1] + c[n]
        /\ g[n].high = f[n].high - b[1] * n + g[n].low
    BY <1>3, SumsShift
  <2> QED BY <2>1
<1>5. fl \in Int /\ fh \in Int /\ x \in Int /\ y \in Int /\ p \in Int
  BY <1>0, <1>3, SumsAreInt
<1>6. CkMod \in Nat \ {0}
  BY ConstantFacts
<1>7. Lcksum(b).low = fl % CkMod /\ Lcksum(b).high = fh % CkMod
      /\ Lcksum(c) = [low |-> gl % CkMod, high |-> gh % CkMod]
  BY <1>1, <1>2
<1> DEFINE low == (Lcksum(b).low - x + y) % CkMod
           high == (Lcksum(b).high - p + low) % CkMod
<1>8. LargeCksumUpdate(Lcksum(b), b[1], c[n], n) = [low |-> low, high |-> high]
  BY DEF LargeCksumUpdate
<1> HIDE DEF fl, fh, gl, gh, x, y, p
<1>9. low = gl % CkMod
  <2> DEFINE z == y - x
             a == fl % CkMod
  <2>1. z \in Int /\ a \in Int
    BY <1>5, <1>6, Division
  <2>2. a - x + y = a + z /\ fl + z = gl
    <3> HIDE DEF a
    <3> QED BY <1>4, <1>5, <2>1
  <2>3. (a + z) % CkMod = (fl + z) % CkMod
    <3> HIDE DEF z
    <3> QED BY <1>5, <1>6, <2>1, ModAdd
  <2> QED BY <1>7, <2>2, <2>3
<1>10. gl \in Int /\ gh \in Int
  BY <1>4, <1>5
<1>11. high = gh % CkMod
  <2> DEFINE a == fh % CkMod
             l == gl % CkMod
             z == l - p
             w == fh - p
  <2>1. a \in Int /\ l \in Int
    BY <1>5, <1>6, <1>10, Division
  <2>2. z \in Int /\ w \in Int
    <3> HIDE DEF l
    <3> QED BY <1>5, <2>1
  <2>3. a - p + l = a + z /\ fh + z = l + w /\ gl + w = gh
    <3> HIDE DEF a, l
    <3> QED BY <1>4, <1>5, <1>10, <2>1
  <2>4. (a + z) % CkMod = (fh + z) % CkMod
    <3> HIDE DEF z
    <3> QED BY <1>5, <1>6, <2>2, ModAdd
  <2>5. (l + w) % CkMod = (gl + w) % CkMod
    <3> HIDE DEF w
    <3> QED BY <1>6, <1>10, <2>2, ModAdd
  <2>6. high = (a - p + l) % CkMod
    <3> HIDE DEF a, l
    <3>1. high = (Lcksum(b).high - p + low) % CkMod
      OBVIOUS
    <3> HIDE DEF high, low
    <3> QED BY <3>1, <1>7, <1>9 DEF a, l
  <2> HIDE DEF high, a, l, z, w
  <2> QED BY <2>3, <2>4, <2>5, <2>6
<1> HIDE DEF low, high
<1> QED
  BY <1>7, <1>8, <1>9, <1>11

-----------------------------------------------------------------------------
(* The steps of the search. *)

RollingAt(s) == LargeFits(s) => s.lck = Lcksum(LargeHere(s))

\* At the head of the loop, and where it may go on or end.
LoopReady(s) == Ready(s) /\ s.inp + SLOOK <= AvailIn(s) /\ RollingAt(s)
After(s) == Ready(s) /\ (s.instr = TRUE \/ LoopReady(s))

LEMMA Ends ==
  ASSUME NEW s, Ready(s), NEW t, t = [s EXCEPT !.instr = TRUE]
  PROVE  After(t)
<1>1. Names \subseteq DOMAIN s
  BY ReadyFacts
<1>2. OnlyChanges(s, t, {"instr"}) /\ t.instr = TRUE
  BY <1>1 DEF OnlyChanges, Names
<1>3. Ready(t)
  BY <1>2, ReadyKept DEF CoreFields, TableFields, MovingFields
<1> QED
  BY <1>2, <1>3 DEF After

\* The bytes of a large checksum.
LEMMA LargeHereFacts ==
  ASSUME NEW w \in Seq(Nat), NEW i \in Nat, NEW n \in Nat, n > 0, i + n <= Len(w)
  PROVE  LET b == SubSeq(w, i + 1, i + n)
         IN  b \in Seq(Nat) /\ Len(b) = n /\ \A k \in 1..n : b[k] = w[i + k]
<1>1. Len(w) \in Nat
  OBVIOUS
<1>2. SubSeq(w, i + 1, i + n) \in Seq(Nat)
  BY <1>1
<1>3. Len(SubSeq(w, i + 1, i + n)) = n
  BY <1>1
<1>4. ASSUME NEW k \in 1..n
      PROVE  SubSeq(w, i + 1, i + n)[k] = w[i + k]
  BY <1>1
<1> QED
  BY <1>2, <1>3, <1>4

LEMMA UpdateOneKeeps ==
  ASSUME NEW s, LoopReady(s)
  PROVE  After(UpdateOne(s))
<1> DEFINE t == UpdateOne(s)
           i == s.inp
           n == s.cfg.llook
           c == Byte(s, i + SLOOK)
           l == IF s.has_src /\ i + n < AvailIn(s)
                THEN LargeCksumUpdate(s.lck, Byte(s, i), Byte(s, i + n), n) ELSE s.lck
<1>0. SUFFICES After(t)
  OBVIOUS
<1>1. /\ Ready(s) /\ Names \subseteq DOMAIN s /\ s.win \in Seq(Nat) /\ Len(s.win) \in Nat
      /\ i \in Nat /\ i <= Len(s.win) /\ AvailIn(s) = Len(s.win) /\ i + SLOOK <= Len(s.win)
      /\ s.min_match \in Nat /\ s.min_match >= MIN_MATCH /\ s.run_l \in Nat
  BY ReadyFacts DEF LoopReady
<1>2. n \in Nat /\ n > 0
  BY <1>1, ReadyFacts, MatcherFacts
<1>3. CASE i + SLOOK = AvailIn(s)
  <2>1. t = [s EXCEPT !.instr = TRUE]
    BY <1>3 DEF UpdateOne
  <2> QED BY <1>1, <2>1, Ends
<1>4. CASE i + SLOOK # AvailIn(s)
  <2> DEFINE u == NextRun(s, c)
  <2>1. t = [u EXCEPT !.inp = @ + 1,
                      !.lck = IF s.has_src /\ i + n < AvailIn(s)
                              THEN LargeCksumUpdate(@, Byte(s, i), Byte(s, i + n), n) ELSE @]
    BY <1>4 DEF UpdateOne
  <2>2. c \in Nat
    <3>1. i + SLOOK \in Nat /\ i + SLOOK < Len(s.win)
      BY <1>1, <1>4 DEF SLOOK
    <3> HIDE DEF i
    <3> QED BY <1>1, <3>1, ByteIsNat
  <2>3. OnlyChanges(s, u, {"run_l", "run_c"}) /\ u.run_c = c /\ u.run_l \in {s.run_l + 1, 1}
    BY <1>1 DEF NextRun, OnlyChanges, Names
  <2> HIDE DEF c, u
  <2>4. u.inp = i /\ u.lck = s.lck /\ Names \subseteq DOMAIN u
    BY <1>1, <2>3 DEF OnlyChanges, Names
  <2>5. OnlyChanges(u, t, {"inp", "lck"}) /\ t.inp = i + 1 /\ t.lck = l
    <3> DEFINE m == IF s.has_src /\ i + n < AvailIn(s)
                    THEN LargeCksumUpdate(u.lck, Byte(s, i), Byte(s, i + n), n) ELSE u.lck
    <3>1. t = [u EXCEPT !.inp = @ + 1, !.lck = m]
      BY <2>1
    <3>2. m = l
      BY <2>4
    <3> HIDE DEF t, m, l, i
    <3> QED BY <2>4, <3>1, <3>2 DEF OnlyChanges, Names
  <2> HIDE DEF t, l
  <2>6. OnlyChanges(s, t, {"run_l", "run_c", "inp", "lck"})
    BY <2>3, <2>5, ChangesTwice
  <2>7. t.run_c = u.run_c /\ t.run_l = u.run_l /\ t.min_match = s.min_match /\ t.win = s.win
        /\ t.cfg = s.cfg /\ t.has_src = s.has_src
    BY <1>1, <2>4, <2>5, <2>6 DEF OnlyChanges, Names
  <2>8. t.inp \in Nat /\ t.inp + SLOOK <= Len(s.win) /\ t.inp <= Len(s.win)
    <3>1. i \in Nat /\ i + 4 <= Len(s.win) /\ i + 4 # Len(s.win)
      BY <1>1, <1>4 DEF SLOOK
    <3> HIDE DEF i
    <3>2. i + 1 \in Nat /\ i + 1 + 4 <= Len(s.win)
      BY <1>1, <3>1
    <3> QED BY <1>1, <2>5, <3>2 DEF SLOOK
  <2>9. t.run_c \in Nat /\ t.run_l \in Nat
    BY <1>1, <2>2, <2>3, <2>7
  <2>10. Ready(t)
    <3>1. {"run_l", "run_c", "inp", "lck"} \cap (CoreFields \cup TableFields \cup {"match_state"}) = {}
      BY DEF CoreFields, TableFields
    <3> QED BY <1>1, <2>6, <2>7, <2>8, <2>9, <3>1, ReadyMoves
  <2>11. ASSUME LargeFits(t)
         PROVE  t.lck = Lcksum(LargeHere(t))
    <3>1. s.has_src /\ i + 1 + n <= Len(s.win)
      BY <1>1, <2>5, <2>7, <2>11 DEF LargeFits, AvailIn
    <3>2. LargeFits(s)
      BY <1>1, <1>2, <3>1 DEF LargeFits
    <3>3. s.lck = Lcksum(LargeHere(s))
      BY <3>2 DEF LoopReady, RollingAt
    <3> DEFINE b == LargeHere(s)
               d2 == LargeHere(t)
    <3>4. b = SubSeq(s.win, i + 1, i + n) /\ d2 = SubSeq(s.win, i + 1 + 1, i + 1 + n)
      BY <2>5, <2>7 DEF LargeHere
    <3> HIDE DEF b, d2, i, n
    <3>5. b \in Seq(Nat) /\ Len(b) = n /\ \A k \in 1..n : b[k] = s.win[i + k]
      <4>1. i + n <= Len(s.win)
        BY <1>1, <1>2, <3>1
      <4> QED BY <1>1, <1>2, <3>4, <4>1, LargeHereFacts, ZenonT(60)
    <3>6. d2 \in Seq(Nat) /\ Len(d2) = n /\ \A k \in 1..n : d2[k] = s.win[i + 1 + k]
      <4> DEFINE j == i + 1
      <4>1. j \in Nat /\ j + n <= Len(s.win)
        BY <1>1, <1>2, <3>1
      <4>2. d2 = SubSeq(s.win, j + 1, j + n)
        BY <3>4
      <4> HIDE DEF j
      <4>3. d2 \in Seq(Nat) /\ Len(d2) = n /\ \A k \in 1..n : d2[k] = s.win[j + k]
        BY <1>1, <1>2, <4>1, <4>2, LargeHereFacts, SMTT(60)
      <4> QED BY <4>3 DEF j
    <3>7. OneOn(b, d2, n)
      <4>1. ASSUME NEW k \in 1..(n - 1)
            PROVE  d2[k] = b[k + 1]
        <5>1. k \in 1..n /\ k + 1 \in 1..n
          BY <1>2
        <5>2. i + (k + 1) = i + 1 + k
          BY <1>1
        <5> QED BY <3>5, <3>6, <5>1, <5>2
      <4> QED BY <1>2, <3>5, <3>6, <4>1 DEF OneOn
    <3>8. b[1] = Byte(s, i) /\ d2[n] = Byte(s, i + n)
      <4>1. 1 \in 1..n /\ n \in 1..n
        BY <1>2
      <4>2. b[1] = s.win[i + 1] /\ d2[n] = s.win[i + 1 + n]
        BY <3>5, <3>6, <4>1
      <4>3. i + 1 + n = i + n + 1
        BY <1>1, <1>2
      <4> QED BY <4>2, <4>3 DEF Byte
    <3>9. LargeCksumUpdate(Lcksum(b), b[1], d2[n], n) = Lcksum(d2)
      BY <3>7, UpdateIsLcksum
    <3>10. i + n < AvailIn(s)
      BY <1>1, <1>2, <3>1
    <3>11. l = LargeCksumUpdate(s.lck, Byte(s, i), Byte(s, i + n), n)
      BY <3>1, <3>10 DEF l, i, n
    <3> QED BY <2>5, <3>3, <3>8, <3>9, <3>11 DEF b, d2
  <2>12. t.inp + SLOOK <= AvailIn(t)
    BY <2>7, <2>8 DEF AvailIn
  <2> QED BY <2>10, <2>11, <2>12 DEF After, LoopReady, RollingAt
<1> QED
  BY <1>3, <1>4

\* The end of the last instruction in the buffer.
LEMMA LastMatchedIsInt ==
  ASSUME NEW s, Core(s)
  PROVE  LastMatched(s) \in Int
<1>1. s.used \in Seq(Instrs)
  <2>1. s.used \in Seq(CopiesWithin(0, Len(s.source)))
    BY DEF Core, BufferOK
  <2> QED BY <2>1, SeqGrows DEF CopiesWithin
<1>2. CASE s.used = <<>>
  BY <1>2 DEF LastMatched
<1>3. CASE s.used # <<>>
  <2>1. Len(s.used) \in 1..Len(s.used)
    BY <1>1, <1>3
  <2>2. Last(s.used) \in Instrs
    BY <1>1, <2>1 DEF Last
  <2> QED BY <1>3, <2>2, InstrFacts DEF LastMatched
<1> QED
  BY <1>2, <1>3

LEMMA ComprunKeeps ==
  ASSUME NEW s, Ready(s), s.inp + SLOOK <= AvailIn(s)
  PROVE  LET t == Comprun(s)
         IN  OnlyChanges(s, t, {"run_c", "run_l"}) /\ Ready(t)
<1> DEFINE t == Comprun(s)
           c == Byte(s, s.inp + SLOOK - 1)
           R == {n \in 1..SLOOK : \A k \in 1..n : Byte(s, s.inp + SLOOK - k) = c}
<1>0. SUFFICES OnlyChanges(s, t, {"run_c", "run_l"}) /\ Ready(t)
  OBVIOUS
<1>1. /\ Names \subseteq DOMAIN s /\ s.win \in Seq(Nat) /\ Len(s.win) \in Nat
      /\ s.inp \in Nat /\ s.inp <= Len(s.win) /\ AvailIn(s) = Len(s.win) /\ s.inp + SLOOK <= Len(s.win)
      /\ s.min_match \in Nat /\ s.min_match >= MIN_MATCH
  BY ReadyFacts
<1>2. c \in Nat
  <2>1. s.inp + SLOOK - 1 \in Nat /\ s.inp + SLOOK - 1 < Len(s.win)
    BY <1>1 DEF SLOOK
  <2> QED BY <1>1, <2>1, ByteIsNat
<1>3. Max(R) \in Nat
  <2>1. 1 \in R
    <3>1. \A k \in 1..1 : Byte(s, s.inp + SLOOK - k) = c
      OBVIOUS
    <3> QED BY <3>1 DEF SLOOK
  <2>2. R \subseteq Nat /\ R \subseteq Int /\ R # {} /\ \A x \in R : x <= 4
    BY <2>1 DEF SLOOK
  <2> HIDE DEF R
  <2>3. 4 \in Int
    OBVIOUS
  <2>4. Max(R) \in R
    BY <2>2, <2>3, MaxBounded
  <2> QED BY <2>2, <2>4
<1>4. t = [s EXCEPT !.run_c = c, !.run_l = Max(R)]
  BY DEF Comprun
<1> HIDE DEF t, c, R
<1>5. OnlyChanges(s, t, {"run_c", "run_l"}) /\ t.run_c = c /\ t.run_l = Max(R)
  BY <1>1, <1>4 DEF OnlyChanges, Names
<1>6. t.inp = s.inp /\ t.min_match = s.min_match
  BY <1>1, <1>5 DEF OnlyChanges, Names
<1>7. {"run_c", "run_l"} \cap (CoreFields \cup TableFields \cup {"match_state"}) = {}
  BY DEF CoreFields, TableFields
<1>8. Ready(t)
  BY <1>1, <1>2, <1>3, <1>5, <1>6, <1>7, ReadyMoves
<1> QED
  BY <1>5, <1>8

\* xd3_srcwin_move_point
LEMMA MoveReady ==
  ASSUME NEW s, Ready(s)
  PROVE  OnlyChanges(s, MovePoint(s), MoveFields) /\ Ready(MovePoint(s))
<1> DEFINE t == MovePoint(s)
<1>1. Names \subseteq DOMAIN s
  BY ReadyFacts
<1>2. OnlyChanges(s, t, MoveFields) /\ SourceOK(t)
  BY MovePointKeeps DEF Ready, Good, Core, CanSend, SourceOK
<1> HIDE DEF t
<1>3. Base(t) /\ CodeOK(t) /\ Waits(t) = Waits(s) /\ Lo(t) = Lo(s) /\ Hi(t) = Hi(s) /\ t.free = s.free
  BY <1>2, BaseKept, CodeKept
  DEF Ready, Good, Core, CanSend, MoveFields, SourceFields, BaseFields, CodeOKFields
<1>4. /\ t.used = s.used /\ t.iopt_size = s.iopt_size /\ t.elts = s.elts
      /\ t.unlimited = s.unlimited /\ t.source = s.source
      /\ t.run_c = s.run_c /\ t.run_l = s.run_l /\ t.match_state = s.match_state
  BY <1>1, <1>2 DEF OnlyChanges, Names, MoveFields, SourceFields
<1>5. BufferOK(t)
  BY <1>3, <1>4 DEF BufferOK, Ready, Good, Core
<1>6. Tables(t)
  BY <1>1, <1>2, TablesKept DEF Ready, MoveFields, SourceFields, TableFields
<1>7. Core(t)
  BY <1>2, <1>3, <1>4, <1>5 DEF SourceOK, Core, CanSend, Ready, Good
<1>8. Ready(t)
  BY <1>4, <1>6, <1>7 DEF Ready, Good
<1> QED
  BY <1>2, <1>8 DEF t

LEMMA RestartKeeps ==
  ASSUME NEW s, Ready(s)
  PROVE  After(Restart(s))
<1> DEFINE t == Restart(s)
           x == 1 + LastMatched(s) - s.inp
           m == Max({MIN_MATCH, x})
           u == [s EXCEPT !.min_match = m]
           a == Comprun(u)
           v == MovePoint(a)
<1>0. SUFFICES After(t)
  OBVIOUS
<1>1. /\ Core(s) /\ Names \subseteq DOMAIN s /\ s.inp \in Nat /\ s.inp <= Len(s.win)
      /\ AvailIn(s) = Len(s.win) /\ s.run_c \in Nat /\ s.run_l \in Nat
  BY ReadyFacts
<1>2. m \in Nat /\ m >= MIN_MATCH
  <2>1. x \in Int /\ MIN_MATCH \in Nat
    BY <1>1, LastMatchedIsInt DEF MIN_MATCH
  <2> HIDE DEF x
  <2> QED BY <2>1, MaxTwo
<1> HIDE DEF m, x
<1>3. CASE NoRoom(s)
  <2>1. t = [s EXCEPT !.instr = TRUE]
    BY <1>3 DEF Restart
  <2> QED BY <2>1, Ends
<1>4. CASE ~ NoRoom(s)
  <2>1. t = IF LargeFits(s) THEN [v EXCEPT !.lck = Lcksum(LargeHere(s))] ELSE a
    BY <1>4 DEF Restart, m, x
  <2>2. OnlyChanges(s, u, {"min_match"}) /\ u.min_match = m
    BY <1>1 DEF OnlyChanges, Names
  <2> HIDE DEF u
  <2>3. /\ u.inp = s.inp /\ u.win = s.win /\ u.run_c = s.run_c /\ u.run_l = s.run_l
    BY <1>1, <2>2 DEF OnlyChanges, Names
  <2>4. Ready(u)
    <3>1. {"min_match"} \cap (CoreFields \cup TableFields \cup {"match_state"}) = {}
      BY DEF CoreFields, TableFields
    <3> QED BY <1>1, <1>2, <2>2, <2>3, <3>1, ReadyMoves
  <2>5. s.inp + SLOOK <= AvailIn(s)
    BY <1>1, <1>4 DEF NoRoom, SLOOK
  <2>6. OnlyChanges(u, a, {"run_c", "run_l"}) /\ Ready(a)
    BY <2>3, <2>4, <2>5, ComprunKeeps DEF AvailIn
  <2> HIDE DEF a
  <2>7. OnlyChanges(s, a, {"min_match", "run_c", "run_l"})
    BY <2>2, <2>6, ChangesTwice
  <2>8. /\ a.inp = s.inp /\ a.win = s.win /\ a.cfg = s.cfg /\ a.has_src = s.has_src
        /\ Names \subseteq DOMAIN a
    BY <1>1, <2>7 DEF OnlyChanges, Names
  <2>9. CASE LargeFits(s)
    <3>1. t = [v EXCEPT !.lck = Lcksum(LargeHere(s))]
      BY <2>1, <2>9
    <3>2. OnlyChanges(a, v, MoveFields) /\ SourceOK(v)
      BY <2>6, MovePointKeeps DEF Ready, Good, Core, CanSend, SourceOK
    <3> HIDE DEF v
    <3>3. /\ v.inp = s.inp /\ v.win = s.win /\ v.cfg = s.cfg /\ v.has_src = s.has_src
          /\ Names \subseteq DOMAIN v
      BY <2>8, <3>2 DEF OnlyChanges, Names, MoveFields, SourceFields
    <3>4. OnlyChanges(v, t, {"lck"}) /\ t.lck = Lcksum(LargeHere(s))
      BY <3>1, <3>3 DEF OnlyChanges, Names
    <3> HIDE DEF t
    <3>5. Ready(v)
      BY <2>6, MoveReady DEF v
    <3>6. Ready(t)
      BY <3>4, <3>5, ReadyKept DEF CoreFields, TableFields, MovingFields
    <3>7. t.inp = s.inp /\ t.win = s.win /\ t.cfg = s.cfg /\ t.has_src = s.has_src
      BY <3>3, <3>4 DEF OnlyChanges, Names
    <3>8. LargeHere(t) = LargeHere(s) /\ AvailIn(t) = AvailIn(s)
      BY <3>7 DEF LargeHere, AvailIn
    <3> QED BY <2>5, <3>4, <3>6, <3>7, <3>8 DEF After, LoopReady, RollingAt
  <2>10. CASE ~ LargeFits(s)
    <3>1. t = a
      BY <2>1, <2>10
    <3>2. ~ LargeFits(a) /\ AvailIn(a) = AvailIn(s)
      BY <2>8, <2>10 DEF LargeFits, AvailIn
    <3> QED BY <2>5, <2>6, <2>8, <3>1, <3>2 DEF After, LoopReady, RollingAt
  <2> QED BY <2>9, <2>10
<1> QED
  BY <1>3, <1>4

\* After a match of length len.
LEMMA HandleLazyKeeps ==
  ASSUME NEW s, LoopReady(s), NEW len \in Nat, len >= MIN_MATCH, s.inp + len <= AvailIn(s)
  PROVE  After(HandleLazy(s, len))
<1> DEFINE u == [s EXCEPT !.min_match = len]
           v == [s EXCEPT !.inp = @ + len]
<1>1. /\ Ready(s) /\ Names \subseteq DOMAIN s /\ s.inp \in Nat /\ s.inp <= Len(s.win)
      /\ AvailIn(s) = Len(s.win) /\ s.run_c \in Nat /\ s.run_l \in Nat
      /\ s.min_match \in Nat /\ s.min_match >= MIN_MATCH
  BY ReadyFacts DEF LoopReady
<1>2. HandleLazy(s, len) = UpdateOne(u) \/ HandleLazy(s, len) = Restart(v)
  BY DEF HandleLazy
<1>3. LoopReady(u)
  <2>1. OnlyChanges(s, u, {"min_match"}) /\ u.min_match = len
    BY <1>1 DEF OnlyChanges, Names
  <2> HIDE DEF u
  <2>2. /\ u.inp = s.inp /\ u.win = s.win /\ u.run_c = s.run_c /\ u.run_l = s.run_l
        /\ u.cfg = s.cfg /\ u.has_src = s.has_src /\ u.lck = s.lck
    BY <1>1, <2>1 DEF OnlyChanges, Names
  <2>3. Ready(u)
    <3>1. {"min_match"} \cap (CoreFields \cup TableFields \cup {"match_state"}) = {}
      BY DEF CoreFields, TableFields
    <3> QED BY <1>1, <2>1, <2>2, <3>1, ReadyMoves
  <2>4. LargeHere(u) = LargeHere(s) /\ AvailIn(u) = AvailIn(s) /\ (LargeFits(u) <=> LargeFits(s))
    BY <2>2 DEF LargeHere, AvailIn, LargeFits
  <2> QED BY <2>2, <2>3, <2>4 DEF LoopReady, RollingAt
<1>4. Ready(v)
  <2>1. OnlyChanges(s, v, {"inp"}) /\ v.inp = s.inp + len
    BY <1>1 DEF OnlyChanges, Names
  <2> HIDE DEF v
  <2>2. /\ v.min_match = s.min_match /\ v.run_c = s.run_c /\ v.run_l = s.run_l
    BY <1>1, <2>1 DEF OnlyChanges, Names
  <2>3. v.inp \in Nat /\ v.inp <= Len(s.win)
    BY <1>1, <2>1
  <2>4. {"inp"} \cap (CoreFields \cup TableFields \cup {"match_state"}) = {}
    BY DEF CoreFields, TableFields
  <2> QED BY <1>1, <2>1, <2>2, <2>3, <2>4, ReadyMoves
<1> HIDE DEF u, v
<1> QED
  BY <1>2, <1>3, <1>4, UpdateOneKeeps, RestartKeeps

\* What leaves window, position and checksum alone.
LEMMA RollingKept ==
  ASSUME NEW s, Names \subseteq DOMAIN s, RollingAt(s), NEW t, NEW F, OnlyChanges(s, t, F),
         F \cap {"win", "inp", "cfg", "has_src", "lck"} = {}
  PROVE  /\ RollingAt(t) /\ t.win = s.win /\ t.inp = s.inp /\ t.cfg = s.cfg /\ t.has_src = s.has_src
         /\ AvailIn(t) = AvailIn(s) /\ (LargeFits(t) <=> LargeFits(s))
<1>1. t.win = s.win /\ t.inp = s.inp /\ t.cfg = s.cfg /\ t.has_src = s.has_src /\ t.lck = s.lck
  BY DEF OnlyChanges, Names
<1>2. LargeHere(t) = LargeHere(s) /\ AvailIn(t) = AvailIn(s) /\ (LargeFits(t) <=> LargeFits(s))
  BY <1>1 DEF LargeHere, AvailIn, LargeFits
<1> QED
  BY <1>1, <1>2 DEF RollingAt

\* The run at the input position.
LEMMA WholeRunFacts ==
  ASSUME NEW s, LoopReady(s), s.run_l = SLOOK
  PROVE  /\ WholeRun(s) \in Nat /\ s.inp + WholeRun(s) <= AvailIn(s)
         /\ WholeRun(s) >= SLOOK /\ \A j \in SLOOK..(WholeRun(s) - 1) : Byte(s, s.inp + j) = s.run_c
<1> DEFINE n == AvailIn(s) - s.inp
           R == {k \in SLOOK..n : \A j \in SLOOK..(k - 1) : Byte(s, s.inp + j) = s.run_c}
<1>1. s.inp \in Nat /\ AvailIn(s) \in Nat /\ n \in Nat /\ SLOOK <= n
  BY ReadyFacts DEF LoopReady, SLOOK
<1>2. SLOOK \in R /\ R \subseteq Nat /\ \A x \in R : x <= n
  <2>1. SLOOK \in Nat /\ SLOOK..(SLOOK - 1) = {}
    BY DEF SLOOK
  <2> QED BY <1>1, <2>1
<1>3. WholeRun(s) = Max(R)
  BY DEF WholeRun
<1>7. \A x \in R : x >= SLOOK /\ \A j \in SLOOK..(x - 1) : Byte(s, s.inp + j) = s.run_c
  OBVIOUS
<1> HIDE DEF R
<1>4. R \subseteq Int /\ R # {} /\ n \in Int
  BY <1>1, <1>2
<1>5. Max(R) \in R
  <2> HIDE DEF n
  <2> QED BY <1>2, <1>4, MaxBounded
<1>6. Max(R) \in Nat /\ Max(R) <= n
  BY <1>2, <1>5
<1>8. Max(R) >= SLOOK /\ \A j \in SLOOK..(Max(R) - 1) : Byte(s, s.inp + j) = s.run_c
  BY <1>5, <1>7
<1> QED
  BY <1>1, <1>3, <1>6, <1>8

LEMMA TryRunKeeps ==
  ASSUME NEW s, LoopReady(s)
  PROVE  LET t == TryRun(s)
         IN  LoopReady(t) /\ OnlyChanges(s, t, {"run_l"})
<1> DEFINE t == TryRun(s)
<1>0. SUFFICES LoopReady(t) /\ OnlyChanges(s, t, {"run_l"})
  OBVIOUS
<1>1. Ready(s) /\ Names \subseteq DOMAIN s /\ RollingAt(s) /\ s.inp + SLOOK <= AvailIn(s)
  BY ReadyFacts DEF LoopReady
<1>2. CASE s.run_l # SLOOK
  BY <1>2, ChangesNothing DEF TryRun
<1>3. CASE s.run_l = SLOOK
  <2> DEFINE r == WholeRun(s)
  <2>1. t = [s EXCEPT !.run_l = r]
    BY <1>3 DEF TryRun
  <2>2. r \in Nat
    BY <1>3, WholeRunFacts
  <2> HIDE DEF t, r
  <2>3. OnlyChanges(s, t, {"run_l"}) /\ t.run_l = r
    BY <1>1, <2>1 DEF OnlyChanges, Names
  <2>4. t.inp = s.inp /\ t.min_match = s.min_match /\ t.run_c = s.run_c
    BY <1>1, <2>3 DEF OnlyChanges, Names
  <2>5. Ready(t)
    <3>1. {"run_l"} \cap (CoreFields \cup TableFields \cup {"match_state"}) = {}
      BY DEF CoreFields, TableFields
    <3>2. /\ t.inp \in Nat /\ t.inp <= Len(s.win) /\ t.min_match \in Nat /\ t.min_match >= MIN_MATCH
          /\ t.run_c \in Nat /\ t.run_l \in Nat
      BY <1>1, <2>2, <2>3, <2>4, ReadyFacts
    <3> QED BY <1>1, <2>3, <3>1, <3>2, ReadyMoves
  <2>6. RollingAt(t) /\ AvailIn(t) = AvailIn(s)
    BY <1>1, <2>3, RollingKept
  <2> QED BY <1>1, <2>3, <2>4, <2>5, <2>6 DEF LoopReady
<1> QED
  BY <1>2, <1>3

\* The bytes at the input position have a place in the tables.
LEMMA LcksumIsInt ==
  ASSUME NEW b \in Seq(Nat)
  PROVE  Lcksum(b).low \in Nat /\ Lcksum(b).high \in Nat
<1>1. PICK f : /\ f[0] = NoSums
               /\ Lcksum(b) = [low |-> f[Len(b)].low % CkMod, high |-> f[Len(b)].high % CkMod]
               /\ \A k \in Nat : k < Len(b) => f[k + 1] = AddByte(f[k], b[k + 1])
  <2>1. Len(b) \in Nat
    OBVIOUS
  <2> QED BY <2>1, LcksumByRounds
<1>2. f[Len(b)].low \in Int /\ f[Len(b)].high \in Int
  <2>1. Sums(f, b) /\ Len(b) \in Nat
    BY <1>1 DEF Sums
  <2> QED BY <2>1, SumsAreInt
<1> DEFINE x == f[Len(b)].low
           y == f[Len(b)].high
<1>3. x \in Int /\ y \in Int /\ CkMod \in Nat \ {0}
  BY <1>2, ConstantFacts
<1>4. Lcksum(b).low = x % CkMod /\ Lcksum(b).high = y % CkMod
  BY <1>1
<1> HIDE DEF x, y
<1>5. x % CkMod \in 0..(CkMod - 1) /\ y % CkMod \in 0..(CkMod - 1)
  BY <1>3, Division
<1> QED
  BY <1>3, <1>4, <1>5

LEMMA LargeHashFacts ==
  ASSUME NEW s, LoopReady(s), LargeFits(s)
  PROVE  s.large[LargeHash(s.lck)] \in 0..(Len(s.source) + 1)
<1>1. LargeHere(s) \in Seq(Nat)
  <2>1. /\ s.win \in Seq(Nat) /\ s.inp \in Nat /\ s.cfg.llook \in Nat /\ s.cfg.llook > 0
        /\ s.inp + s.cfg.llook <= Len(s.win)
    BY ReadyFacts, MatcherFacts DEF LoopReady, LargeFits
  <2> QED BY <2>1, LargeHereFacts DEF LargeHere
<1>2. s.lck.low \in Nat /\ s.lck.high \in Nat
  BY <1>1, LcksumIsInt DEF LoopReady, RollingAt
<1> DEFINE x == s.lck.high + s.lck.low
<1>3. x \in Int /\ LargeSlots \in Nat \ {0}
  BY <1>2, ConstantFacts
<1>4. LargeHash(s.lck) = x % LargeSlots
  BY DEF LargeHash
<1> HIDE DEF x
<1>5. LargeHash(s.lck) \in 0..(LargeSlots - 1)
  BY <1>3, <1>4, Division
<1>6. s.large \in [0..(LargeSlots - 1) -> 0..(Len(s.source) + 1)]
  BY DEF LoopReady, Ready, Good, Core, SourcePositions
<1> QED
  BY <1>5, <1>6

\* What a match from the source, or none, may change.
LargeFields == SetupFields \cup MatchFields
LEMMA LargeMatchKeeps ==
  ASSUME NEW s, LoopReady(s), LargeFits(s)
  PROVE  LET t == LargeMatch(s)
         IN  /\ OnlyChanges(s, t, LargeFields) /\ Good(t)
             /\ t.fwd \in Nat /\ t.fwd <= AvailIn(s) - s.inp
             /\ t.fwd = 0 \/ t.fwd >= s.min_match
<1> DEFINE at == s.large[LargeHash(s.lck)]
           u == SourceMatchSetup(s, at - HASH_CKOFFSET)
           t == LargeMatch(s)
<1>0. SUFFICES /\ OnlyChanges(s, t, LargeFields) /\ Good(t)
               /\ t.fwd \in Nat /\ t.fwd <= AvailIn(s) - s.inp
               /\ t.fwd = 0 \/ t.fwd >= s.min_match
  OBVIOUS
<1>1. /\ Good(s) /\ Core(s) /\ Names \subseteq DOMAIN s /\ AvailIn(s) - s.inp \in Nat
      /\ Len(s.source) \in Nat
  <2>1. Ready(s)
    BY DEF LoopReady
  <2>2. Base(s) /\ AvailIn(s) = Len(s.win) /\ s.inp <= Len(s.win) /\ s.inp \in Nat /\ Len(s.win) \in Nat
    BY <2>1, ReadyFacts
  <2> QED BY <2>1, <2>2 DEF Ready, Good, Base
<1>2. CASE s.error \/ at = 0
  <2>1. t = [s EXCEPT !.fwd = 0]
    BY <1>2 DEF LargeMatch
  <2>2. OnlyChanges(s, t, {"fwd"}) /\ t.fwd = 0
    BY <1>1, <2>1 DEF OnlyChanges, Names
  <2> HIDE DEF t
  <2>3. Core(t)
    BY <1>1, <2>2, CoreKept DEF CoreFields
  <2>4. t.match_state = s.match_state
    BY <1>1, <2>2 DEF OnlyChanges, Names
  <2>5. OnlyChanges(s, t, LargeFields)
    BY <2>2 DEF OnlyChanges, LargeFields, MatchFields
  <2> QED BY <1>1, <2>2, <2>3, <2>4, <2>5 DEF Good
<1>3. CASE ~ (s.error \/ at = 0)
  <2>1. t = IF u.match_state = "backward" THEN SourceExtendMatch(u) ELSE u
    BY <1>3 DEF LargeMatch
  <2>2. at - HASH_CKOFFSET \in Nat /\ at - HASH_CKOFFSET <= Len(s.source)
    <3>1. at \in 0..(Len(s.source) + 1)
      BY LargeHashFacts
    <3> HIDE DEF at
    <3> QED BY <1>1, <1>3, <3>1 DEF HASH_CKOFFSET
  <2>3. /\ OnlyChanges(s, u, SetupFields) /\ Core(u)
        /\ MatchLimits(u) /\ u.match_state \in {"searching", "backward"} /\ u.fwd = 0
    <3> HIDE DEF at
    <3> QED BY <1>1, <2>2, SetupKeeps
  <2> HIDE DEF t, u
  <2>4. u.win = s.win /\ u.inp = s.inp /\ u.min_match = s.min_match
    BY <1>1, <2>3 DEF OnlyChanges, Names, SetupFields
  <2>5. CASE u.match_state = "backward"
    <3>1. t = SourceExtendMatch(u)
      BY <2>1, <2>5
    <3>2. /\ OnlyChanges(u, t, MatchFields) /\ Good(t)
          /\ t.fwd \in Nat /\ t.fwd <= AvailIn(u) - u.inp
          /\ t.fwd = 0 \/ t.fwd >= u.min_match
      BY <2>3, <3>1, SourceExtendMatchKeeps
    <3>3. OnlyChanges(s, t, LargeFields)
      BY <2>3, <3>2, ChangesTwice DEF LargeFields
    <3> QED BY <2>4, <3>2, <3>3 DEF AvailIn
  <2>6. CASE u.match_state # "backward"
    <3>1. t = u
      BY <2>1, <2>6
    <3>2. Good(t)
      BY <2>3, <2>6, <3>1 DEF Good
    <3>3. OnlyChanges(s, t, LargeFields)
      BY <2>3, <3>1 DEF OnlyChanges, LargeFields
    <3> QED BY <1>1, <2>3, <3>1, <3>2, <3>3
  <2> QED BY <2>5, <2>6
<1> QED
  BY <1>2, <1>3

SearchFields == MoveFields \cup LargeFields
LEMMA TrySourceKeeps ==
  ASSUME NEW s, LoopReady(s)
  PROVE  LET t == TrySource(s)
         IN  /\ OnlyChanges(s, t, SearchFields) /\ LoopReady(t)
             /\ t.fwd \in Nat /\ s.inp + t.fwd <= AvailIn(s)
             /\ t.fwd = 0 \/ t.fwd >= s.min_match
<1> DEFINE t == TrySource(s)
           u == IF s.inp >= s.next_move THEN MovePoint(s) ELSE s
<1>0. SUFFICES /\ OnlyChanges(s, t, SearchFields) /\ LoopReady(t)
               /\ t.fwd \in Nat /\ s.inp + t.fwd <= AvailIn(s)
               /\ t.fwd = 0 \/ t.fwd >= s.min_match
  OBVIOUS
<1>1. /\ Ready(s) /\ RollingAt(s) /\ Names \subseteq DOMAIN s /\ s.inp \in Nat /\ AvailIn(s) \in Nat
      /\ s.inp + SLOOK <= AvailIn(s) /\ s.inp <= AvailIn(s)
  BY ReadyFacts DEF LoopReady
<1>2. CASE ~ LargeFits(s)
  <2>1. t = [s EXCEPT !.fwd = 0]
    BY <1>2 DEF TrySource
  <2>2. OnlyChanges(s, t, {"fwd"}) /\ t.fwd = 0
    BY <1>1, <2>1 DEF OnlyChanges, Names
  <2> HIDE DEF t
  <2>3. Ready(t)
    BY <1>1, <2>2, ReadyKept DEF CoreFields, TableFields, MovingFields
  <2>4. RollingAt(t) /\ t.inp = s.inp /\ AvailIn(t) = AvailIn(s)
    BY <1>1, <2>2, RollingKept
  <2>5. OnlyChanges(s, t, SearchFields)
    BY <2>2 DEF OnlyChanges, SearchFields, LargeFields, MatchFields
  <2> QED BY <1>1, <2>2, <2>3, <2>4, <2>5 DEF LoopReady
<1>3. CASE LargeFits(s)
  <2>1. t = LargeMatch(u)
    BY <1>3 DEF TrySource
  <2>2. OnlyChanges(s, u, MoveFields) /\ Ready(u)
    BY <1>1, MoveReady, ChangesNothing
  <2> HIDE DEF u, t
  <2>3. /\ RollingAt(u) /\ u.inp = s.inp /\ AvailIn(u) = AvailIn(s) /\ LargeFits(u)
    BY <1>1, <1>3, <2>2, RollingKept DEF MoveFields, SourceFields
  <2>4. LoopReady(u) /\ u.min_match = s.min_match /\ Names \subseteq DOMAIN u
    BY <1>1, <2>2, <2>3 DEF LoopReady, OnlyChanges, Names, MoveFields, SourceFields
  <2>5. /\ OnlyChanges(u, t, LargeFields) /\ Good(t)
        /\ t.fwd \in Nat /\ t.fwd <= AvailIn(u) - u.inp
        /\ t.fwd = 0 \/ t.fwd >= u.min_match
    BY <2>1, <2>3, <2>4, LargeMatchKeeps
  <2>6. RollingAt(t) /\ t.inp = s.inp /\ AvailIn(t) = AvailIn(s)
    BY <2>3, <2>4, <2>5, RollingKept
    DEF LargeFields, SetupFields, MatchFields, TakeFields, SlotFields, CodeFields, SourceFields
  <2>7. Tables(t)
    BY <2>2, <2>4, <2>5, TablesKept
    DEF Ready, LargeFields, SetupFields, MatchFields, TakeFields, SlotFields, CodeFields, SourceFields, TableFields
  <2>8. OnlyChanges(s, t, SearchFields)
    BY <2>2, <2>5, ChangesTwice DEF SearchFields
  <2>9. LoopReady(t)
    BY <1>1, <2>5, <2>6, <2>7 DEF LoopReady, Ready
  <2> QED BY <1>1, <2>3, <2>4, <2>5, <2>8, <2>9
<1> QED
  BY <1>2, <1>3

\* An instruction is entered at the head of the loop.
LEMMA LoopEnters ==
  ASSUME NEW s, LoopReady(s), NEW t, Entered(s, t)
  PROVE  LoopReady(t) /\ t.inp = s.inp /\ AvailIn(t) = AvailIn(s)
<1>1. /\ Ready(s) /\ Core(s) /\ RollingAt(s) /\ Names \subseteq DOMAIN s
      /\ s.match_state \in {"target", "searching"} /\ Tables(s)
  BY ReadyFacts DEF LoopReady, Ready, Good
<1>2. Core(t) /\ t.match_state = s.match_state
  BY <1>1, CoreEnters
<1>3. OnlyChanges(s, t, SlotFields)
  BY DEF Entered
<1>4. RollingAt(t) /\ t.inp = s.inp /\ AvailIn(t) = AvailIn(s)
  BY <1>1, <1>3, RollingKept DEF SlotFields, CodeFields
<1>5. Tables(t)
  BY <1>1, <1>3, TablesKept DEF SlotFields, CodeFields, TableFields
<1> QED
  BY <1>1, <1>2, <1>4, <1>5 DEF LoopReady, Ready, Good

\* Runs and copies from the window are no copies from the source.
LEMMA NoSourceCopy ==
  ASSUME NEW s, LoopReady(s), NEW i \in Instrs, ~ (i.type = CPY /\ i.xtra = 1)
  PROVE  LoopReady(TakeSlot(s, i)) /\ TakeSlot(s, i).inp = s.inp /\ AvailIn(TakeSlot(s, i)) = AvailIn(s)
<1>1. Core(s)
  BY ReadyFacts DEF LoopReady
<1>2. i \in CopiesWithin(0, Len(s.source)) /\ i \in CopiesWithin(Lo(s), Hi(s))
  BY DEF CopiesWithin
<1>3. Entered(s, TakeSlot(s, i))
  BY <1>1, <1>2, TakeSlotKeeps DEF Core
<1> QED
  BY <1>3, LoopEnters


-----------------------------------------------------------------------------
(* Copies from the window. *)

LEMMA SmallHashFacts ==
  ASSUME NEW s, LoopReady(s)
  PROVE  SmallHash(s) \in 0..(SmallSlots - 1)
<1>1. /\ s.win \in Seq(Nat) /\ Len(s.win) \in Nat /\ s.inp \in Nat /\ s.inp + 4 <= Len(s.win)
  BY ReadyFacts DEF LoopReady, SLOOK
<1> DEFINE a == Byte(s, s.inp)
           b == Byte(s, s.inp + 1)
           c == Byte(s, s.inp + 2)
           f == Byte(s, s.inp + 3)
           x == a + 2 * b + 4 * c + 7 * f
<1>2. a \in Nat /\ b \in Nat /\ c \in Nat /\ f \in Nat
  <2>1. \A k \in 0..3 : s.inp + k \in Nat /\ s.inp + k < Len(s.win)
    BY <1>1, SMTT(60)
  <2>2. \A k \in 0..3 : Byte(s, s.inp + k) \in Nat
    BY <1>1, <2>1, ByteIsNat
  <2>3. s.inp = s.inp + 0
    BY <1>1
  <2> QED BY <2>2, <2>3
<1>3. SmallHash(s) = x % SmallSlots
  BY DEF SmallHash
<1> HIDE DEF a, b, c, f
<1>4. x \in Int /\ SmallSlots \in Nat \ {0}
  BY <1>2, ConstantFacts
<1> HIDE DEF x
<1> QED
  BY <1>3, <1>4, Division

\* xd3_scksum_insert
LEMMA ScksumInsertKeeps ==
  ASSUME NEW s, LoopReady(s)
  PROVE  LET t == ScksumInsert(s)
         IN  LoopReady(t) /\ OnlyChanges(s, t, {"prev", "small"})
<1> DEFINE t == ScksumInsert(s)
           h == SmallHash(s)
           p == s.inp % s.sprevsz
           prev == [s.prev EXCEPT ![p] = s.small[h]]
           small == [s.small EXCEPT ![h] = s.inp + HASH_CKOFFSET]
<1>0. SUFFICES LoopReady(t) /\ OnlyChanges(s, t, {"prev", "small"})
  OBVIOUS
<1>1. /\ Ready(s) /\ Core(s) /\ Names \subseteq DOMAIN s /\ RollingAt(s) /\ s.inp + SLOOK <= AvailIn(s)
      /\ s.inp \in Nat /\ s.match_state \in {"target", "searching"}
      /\ s.small \in [0..(SmallSlots - 1) -> Nat] /\ s.prev \in [0..(SprevSize - 1) -> Nat]
      /\ s.sprevsz = SprevSize
  BY ReadyFacts DEF LoopReady, Ready, Good, Tables
<1>2. h \in 0..(SmallSlots - 1)
  BY SmallHashFacts
<1>3. t = [s EXCEPT !.prev = prev, !.small = small]
  BY DEF ScksumInsert
<1> HIDE DEF h
<1>4. prev \in [0..(SprevSize - 1) -> Nat]
  <2>1. s.small[h] \in Nat
    BY <1>1, <1>2
  <2> QED BY <1>1, <2>1
<1>5. small \in [0..(SmallSlots - 1) -> Nat]
  <2>1. s.inp + HASH_CKOFFSET \in Nat
    BY <1>1 DEF HASH_CKOFFSET
  <2> QED BY <1>1, <2>1
<1> HIDE DEF t, prev, small, p
<1>6. OnlyChanges(s, t, {"prev", "small"}) /\ t.prev = prev /\ t.small = small
  BY <1>1, <1>3 DEF OnlyChanges, Names
<1>7. t.sprevsz = SprevSize /\ t.match_state = s.match_state
  BY <1>1, <1>6 DEF OnlyChanges, Names
<1>8. Core(t)
  BY <1>1, <1>6, CoreKept DEF CoreFields
<1>9. RollingAt(t) /\ t.inp = s.inp /\ AvailIn(t) = AvailIn(s)
  BY <1>1, <1>6, RollingKept
<1> QED
  BY <1>1, <1>4, <1>5, <1>6, <1>7, <1>8, <1>9 DEF LoopReady, Ready, Good, Tables

LEMMA MatchLengthFacts ==
  ASSUME NEW s, LoopReady(s), NEW base
  PROVE  /\ MatchLength(s, base) \in Nat /\ MatchLength(s, base) <= AvailIn(s) - s.inp
         /\ \A k \in 0..(MatchLength(s, base) - 1) : Byte(s, base + k) = Byte(s, s.inp + k)
<1> DEFINE n == AvailIn(s) - s.inp
           T == {m \in 0..n : \A k \in 0..(m - 1) : Byte(s, base + k) = Byte(s, s.inp + k)}
<1>1. n \in Nat
  BY ReadyFacts DEF LoopReady
<1>2. MatchLength(s, base) = Max(T)
  BY DEF MatchLength
<1> HIDE DEF n
<1>3. 0 \in T /\ T \subseteq Nat /\ \A x \in T : x <= n
  <2>1. 0..(0 - 1) = {}
    OBVIOUS
  <2> QED BY <1>1, <2>1
<1>6. \A x \in T : \A k \in 0..(x - 1) : Byte(s, base + k) = Byte(s, s.inp + k)
  OBVIOUS
<1> HIDE DEF T
<1>4. T \subseteq Int /\ T # {} /\ n \in Int
  BY <1>1, <1>3
<1>5. Max(T) \in T
  BY <1>3, <1>4, MaxBounded
<1> QED
  BY <1>2, <1>3, <1>5, <1>6 DEF n

\* A match of the window, or none.
MatchOK(s, m) == m.length \in Nat /\ m.length <= AvailIn(s) - s.inp /\ m.offset \in Int
ChainOK(s, c) == MatchOK(s, c.best) /\ c.base \in Int

LEMMA LookAtKeeps ==
  ASSUME NEW s, LoopReady(s), NEW c, ChainOK(s, c)
  PROVE  ChainOK(s, LookAt(s, c))
<1> DEFINE len == MatchLength(s, c.base)
           longer == len > c.best.length
           last == s.prev[c.base % s.sprevsz]
           prev == last - HASH_CKOFFSET
           stop == \/ longer /\ (s.inp + len = AvailIn(s) \/ len >= s.cfg.long_enough)
                   \/ last = 0 \/ prev > c.base \/ s.inp - prev >= s.sprevsz
           found == [length |-> len, offset |-> c.base]
           next == [best |-> IF longer THEN found ELSE c.best, base |-> prev, done |-> stop]
<1>1. LookAt(s, c) = IF c.done THEN c ELSE next
  BY DEF LookAt
<1>2. len \in Nat /\ len <= AvailIn(s) - s.inp
  BY MatchLengthFacts
<1>3. prev \in Int
  <2>1. s.sprevsz = SprevSize /\ s.prev \in [0..(SprevSize - 1) -> Nat]
    BY DEF LoopReady, Ready, Tables
  <2>2. c.base \in Int /\ SprevSize \in Nat \ {0}
    BY ConstantFacts DEF ChainOK
  <2>3. c.base % SprevSize \in 0..(SprevSize - 1)
    BY <2>2, Division
  <2>4. last \in Nat
    BY <2>1, <2>3
  <2> HIDE DEF last
  <2> QED BY <2>4 DEF HASH_CKOFFSET
<1> HIDE DEF len, prev, stop
<1>4. MatchOK(s, found)
  BY <1>2 DEF MatchOK, ChainOK
<1> HIDE DEF found, longer
<1>5. ChainOK(s, next)
  BY <1>3, <1>4 DEF ChainOK
<1> HIDE DEF next
<1> QED
  BY <1>1, <1>5

LEMMA LongestFacts ==
  ASSUME NEW s, LoopReady(s), NEW base \in Int, NEW n \in Nat
  PROVE  MatchOK(s, LongestOf(s, base, n))
<1>1. PICK f : /\ f[0] = NoneYet(base) /\ LongestOf(s, base, n) = f[n].best
               /\ \A k \in Nat : k < n => f[k + 1] = LookAt(s, f[k])
  BY LongestByRounds
<1> DEFINE T == {k \in Nat : k <= n => ChainOK(s, f[k])}
<1>2. 0 \in T
  <2>1. AvailIn(s) - s.inp \in Nat
    BY ReadyFacts DEF LoopReady
  <2>2. 0 <= AvailIn(s) - s.inp
    BY <2>1
  <2> QED BY <1>1, <2>2 DEF ChainOK, MatchOK, NoneYet
<1>3. ASSUME NEW k \in Nat, k \in T
      PROVE  k + 1 \in T
  <2>1. CASE k + 1 <= n
    <3>1. k < n /\ k <= n
      BY <2>1
    <3>2. f[k + 1] = LookAt(s, f[k]) /\ ChainOK(s, f[k])
      BY <1>1, <1>3, <3>1
    <3>3. ChainOK(s, f[k + 1])
      BY <3>2, LookAtKeeps
    <3> QED BY <3>3
  <2> QED BY <2>1
<1> HIDE DEF T
<1>4. n \in T
  BY <1>2, <1>3, NatInduct
<1> QED
  BY <1>1, <1>4 DEF T, ChainOK

\* xd3_smatch
LEMMA SmatchFacts ==
  ASSUME NEW s, LoopReady(s)
  PROVE  MatchOK(s, Smatch(s))
<1> DEFINE base == s.small[SmallHash(s)] - HASH_CKOFFSET
           chain == IF s.min_match = MIN_MATCH THEN s.cfg.schain ELSE s.cfg.slchain
           best == LongestOf(s, base, chain)
           none == [best EXCEPT !.length = 0]
<1>1. base \in Int /\ chain \in Nat
  <2>1. s.small \in [0..(SmallSlots - 1) -> Nat] /\ s.cfg \in Matchers
    BY ReadyFacts DEF LoopReady, Ready, Tables
  <2>2. s.small[SmallHash(s)] \in Nat
    BY <2>1, SmallHashFacts
  <2> QED BY <2>1, <2>2, MatcherFacts DEF HASH_CKOFFSET
<1>2. Smatch(s) \in {best, none}
  BY DEF Smatch
<1> HIDE DEF base, chain
<1>3. MatchOK(s, best)
  BY <1>1, LongestFacts
<1>4. best.length \in Nat /\ AvailIn(s) - s.inp >= 0 /\ best.offset \in Int
  <2>1. AvailIn(s) - s.inp \in Nat
    BY ReadyFacts DEF LoopReady
  <2> QED BY <1>3, <2>1 DEF MatchOK
<1> HIDE DEF best
<1>5. none.length \in {0, best.length} /\ none.offset = best.offset
  OBVIOUS
<1> HIDE DEF none
<1>6. MatchOK(s, none)
  BY <1>3, <1>4, <1>5 DEF MatchOK
<1> QED
  BY <1>2, <1>3, <1>6


-----------------------------------------------------------------------------
(* The steps, one window after the other. *)

LEMMA FirstEncoder ==
  ASSUME NEW i \in Inputs, NEW cfg \in Matchers, NEW size \in IoptSizes
  PROVE  Ready(NewEncoder(i, cfg, size))
<1> DEFINE t == NewEncoder(i, cfg, size)
           slots == IF size = 0 THEN IoptElts ELSE size
<1>0. SUFFICES Ready(t)
  OBVIOUS
<1>1. i.source \in Seq(Nat) /\ i.has_src \in BOOLEAN /\ i.eof_known \in BOOLEAN
  BY InputsAssumption
<1>2. slots \in Nat /\ size \in Nat /\ (size # 0 => slots = size)
  BY SizesAssumption, ConstantFacts
<1>3. /\ t.source = i.source /\ t.blksize = BlkSize /\ t.eof_known = i.eof_known
      /\ t.max_blkno = LastBlock(i) /\ t.onlastblk = OnLastBlock(i)
      /\ t.win = <<>> /\ t.inp = 0 /\ t.total_in = 0 /\ t.min_match = MIN_MATCH
      /\ t.cfg = cfg /\ t.has_src = i.has_src /\ t.max_winsize = BlkSize * MaxBlocks
      /\ t.cksum_pos = 0 /\ Names \subseteq DOMAIN t
  BY DEF NewEncoder, Names
<1>4. /\ t.off = 0 /\ t.used = <<>> /\ t.iout = <<>> /\ t.iopt_size = slots /\ t.free = slots
      /\ t.unlimited = (size = 0) /\ t.elts = IoptElts /\ t.acache = EmptyCache
      /\ t.decided = FALSE /\ t.srcbase = 0 /\ t.srclen = 0 /\ t.minaddr = 0 /\ t.maxaddr = 0
  BY DEF NewEncoder
<1>5. /\ t.maxsrcaddr = 0 /\ t.match_state = "target" /\ t.match_srcpos = 0
      /\ t.large = [h \in 0..(LargeSlots - 1) |-> 0] /\ t.small = [h \in 0..(SmallSlots - 1) |-> 0]
      /\ t.prev = [p \in 0..(SprevSize - 1) |-> 0] /\ t.sprevsz = SprevSize
      /\ t.run_l = 0 /\ t.run_c = 0
  BY DEF NewEncoder
<1> HIDE DEF t, slots
<1>6. Base(t)
  <2>1. t.win \in Seq(Nat) /\ Len(t.win) = 0
    BY <1>3
  <2> QED BY <1>1, <1>3, <2>1 DEF Base, MIN_MATCH
<1>7. SourceKnown(t)
  <2> DEFINE n == Len(i.source)
  <2>1. n \in Int /\ n \in Nat /\ BlkSize \in Nat \ {0}
    BY <1>1, ConstantFacts
  <2>2. CASE i.eof_known
    <3>1. t.max_blkno = n \div BlkSize /\ t.onlastblk = n % BlkSize
      BY <1>3, <2>2 DEF LastBlock, OnLastBlock
    <3> HIDE DEF n
    <3>2. n \div BlkSize \in Nat /\ n % BlkSize \in Nat
      BY <2>1
    <3> QED BY <1>3, <2>2, <3>1, <3>2 DEF SourceKnown, KnownEnd, n
  <2>3. CASE ~ i.eof_known
    <3>1. t.max_blkno = 0 /\ t.onlastblk = 0
      BY <1>3, <2>3 DEF LastBlock, OnLastBlock
    <3>2. UnknownEnd(n, 0, 0)
      BY <2>1 DEF UnknownEnd
    <3> QED BY <1>1, <1>3, <2>3, <3>1, <3>2 DEF SourceKnown
  <2> QED BY <2>2, <2>3
<1>8. SourcePositions(t)
  <2>1. Len(i.source) \in Nat
    BY <1>1
  <2>2. 0 \in 0..(Len(i.source) + 1) /\ 0 \in 0..Len(i.source)
    BY <2>1
  <2> QED BY <1>3, <1>5, <2>2 DEF SourcePositions
<1>9. CodeOK(t)
  <2>1. NearKnown(EmptyCache)
    BY DEF NearKnown, EmptyCache
  <2>2. Len(t.source) \in Nat
    BY <1>1, <1>3
  <2>3. NearKnown(t.acache) /\ t.maxaddr <= Len(t.source) /\ t.decided \in BOOLEAN
    <3>1. t.decided \in BOOLEAN
      BY <1>4, Zenon
    <3>2. NearKnown(t.acache)
      BY <1>4, <2>1
    <3>3. t.maxaddr <= Len(t.source)
      <4> DEFINE n == Len(t.source)
      <4>1. n \in Nat
        BY <2>2
      <4> HIDE DEF n
      <4>2. 0 <= n
        BY <4>1
      <4> QED BY <1>4, <4>2 DEF n
    <3> QED BY <3>1, <3>2, <3>3
  <2>4. t.free \in Int /\ t.off \in Int /\ t.srclen \in Int
        /\ t.srcbase \in Nat /\ t.minaddr \in Nat /\ t.maxaddr \in Nat
    BY <1>2, <1>4
  <2> QED BY <1>4, <2>3, <2>4 DEF CodeOK
<1>10. BufferOK(t)
  <2>1. \A X : t.used \in Seq(X)
    BY <1>4
  <2>2. Waits(t) = 0 /\ Len(t.used) = 0
    BY <1>4 DEF Waits
  <2>3. t.free + Len(t.used) + Waits(t) = t.iopt_size /\ t.free >= 0 /\ t.iopt_size \in Nat
    BY <1>2, <1>4, <2>2
  <2>4. t.unlimited \in BOOLEAN /\ t.elts = IoptElts
    BY <1>4
  <2>5. t.unlimited = FALSE => t.iopt_size \in IoptSizes \ {0}
    <3>1. SUFFICES ASSUME size # 0
                   PROVE  t.iopt_size \in IoptSizes \ {0}
      BY <1>4
    <3> QED BY <1>2, <1>4, <3>1
  <2> QED BY <2>1, <2>3, <2>4, <2>5 DEF BufferOK
<1>11. Tables(t)
  BY <1>5 DEF Tables
<1> QED
  BY <1>5, <1>6, <1>7, <1>8, <1>9, <1>10, <1>11 DEF Ready, Good, Core, CanSend

\* The next window, w.
NextWindow(s, w) ==
  [s EXCEPT !.win = w, !.acache = EmptyCache, !.inp = 0, !.min_match = MIN_MATCH, !.off = 0]

LEMMA NextWindowKeeps ==
  ASSUME NEW s, Ready(s), NEW w \in Seq(Nat)
  PROVE  Ready(NextWindow(s, w))
<1> DEFINE t == NextWindow(s, w)
           F == {"win", "acache", "inp", "min_match", "off"}
<1>0. SUFFICES Ready(t)
  OBVIOUS
<1>1. /\ Names \subseteq DOMAIN s /\ Core(s) /\ Base(s) /\ Tables(s) /\ SourceKnown(s) /\ CodeOK(s)
      /\ SourcePositions(s) /\ BufferOK(s) /\ s.match_state \in {"target", "searching"}
      /\ s.run_c \in Nat /\ s.run_l \in Nat
  BY ReadyFacts DEF Ready, Good, Core, CanSend
<1>2. /\ OnlyChanges(s, t, F) /\ t.win = w /\ t.acache = EmptyCache /\ t.inp = 0
      /\ t.min_match = MIN_MATCH /\ t.off = 0
  BY <1>1 DEF OnlyChanges, Names, NextWindow
<1> HIDE DEF t
<1>3. /\ t.source = s.source /\ t.cfg = s.cfg /\ t.has_src = s.has_src /\ t.blksize = s.blksize
      /\ t.max_winsize = s.max_winsize /\ t.total_in = s.total_in /\ Names \subseteq DOMAIN t
  BY <1>1, <1>2 DEF OnlyChanges, Names
<1>4. /\ t.iout = s.iout /\ t.decided = s.decided /\ t.srcbase = s.srcbase /\ t.srclen = s.srclen
      /\ t.minaddr = s.minaddr /\ t.maxaddr = s.maxaddr /\ t.free = s.free /\ t.used = s.used
      /\ t.iopt_size = s.iopt_size /\ t.elts = s.elts /\ t.unlimited = s.unlimited
  BY <1>1, <1>2 DEF OnlyChanges, Names
<1>5. /\ t.large = s.large /\ t.maxsrcaddr = s.maxsrcaddr /\ t.match_srcpos = s.match_srcpos
      /\ t.match_state = s.match_state /\ t.run_c = s.run_c /\ t.run_l = s.run_l
  BY <1>1, <1>2 DEF OnlyChanges, Names
<1>6. Base(t)
  BY <1>1, <1>2, <1>3 DEF Base, MIN_MATCH
<1>7. SourceKnown(t)
  BY <1>1, <1>2, KnownKept DEF SourceFields
<1>8. SourcePositions(t)
  BY <1>1, <1>3, <1>5 DEF SourcePositions
<1>9. CodeOK(t)
  <2>1. NearKnown(EmptyCache)
    BY DEF NearKnown, EmptyCache
  <2> QED BY <1>1, <1>2, <1>3, <1>4, <2>1 DEF CodeOK
<1>10. BufferOK(t)
  <2>1. Lo(t) = Lo(s) /\ Hi(t) = Hi(s) /\ Waits(t) = Waits(s)
    BY <1>4 DEF Lo, Hi, Waits
  <2> QED BY <1>1, <1>3, <1>4, <2>1 DEF BufferOK
<1>11. Tables(t)
  BY <1>1, <1>2, TablesKept DEF TableFields
<1> QED
  BY <1>1, <1>5, <1>6, <1>7, <1>8, <1>9, <1>10, <1>11 DEF Ready, Good, Core, CanSend

\* The window is sent: the buffer is emptied, and nothing waits to be paired.
LEMMA AddFinalizeKeeps ==
  ASSUME NEW s, CanSend(s)
  PROVE  LET t == AddFinalize(s)
         IN  /\ OnlyChanges(s, t, CodeFields) /\ CodeOK(t) /\ t.iout = <<>>
             /\ t.free = s.free + Waits(s)
<1> DEFINE u == AddUpTo(s, AvailIn(s))
           v == [EmitSingle(u, u.iout[1]) EXCEPT !.iout = <<>>]
           t == AddFinalize(s)
<1>0. SUFFICES /\ OnlyChanges(s, t, CodeFields) /\ CodeOK(t) /\ t.iout = <<>>
               /\ t.free = s.free + Waits(s)
  OBVIOUS
<1>1. t = IF u.iout = <<>> THEN u ELSE FreeNonAdd(v, u.iout[1])
  BY DEF AddFinalize, SendLast
<1>2. Sent(s, u, 0)
  <2>1. AvailIn(s) \in Int
    BY DEF CanSend, Base, AvailIn
  <2> QED BY <2>1, AddUpToKeeps
<1> HIDE DEF u
<1>3. /\ CanSend(u) /\ CodeOK(u) /\ OnlyChanges(s, u, CodeFields) /\ Names \subseteq DOMAIN u
      /\ u.free + Waits(u) = s.free + Waits(s) + 0 /\ u.free \in Int
  BY <1>2, SentKeeps DEF CanSend, Base, Sent, CodeOK
<1>4. s.free \in Int /\ Waits(s) \in Int
  BY DEF CanSend, CodeOK, Waits
<1>5. CASE u.iout = <<>>
  <2>1. t = u /\ Waits(u) = 0
    BY <1>1, <1>5 DEF Waits
  <2>2. u.free = s.free + Waits(s)
    BY <1>3, <1>4, <2>1
  <2> HIDE DEF t
  <2> QED BY <1>3, <1>5, <2>1, <2>2
<1>6. CASE u.iout # <<>>
  <2>1. OnlyChanges(u, v, {"inst", "iout"}) /\ v.iout = <<>> /\ Names \subseteq DOMAIN v
    BY <1>3 DEF EmitSingle, OnlyChanges, Names
  <2>2. t = FreeNonAdd(v, u.iout[1])
    BY <1>1, <1>6
  <2> HIDE DEF t, v
  <2>3. v.free = u.free
    BY <1>3, <2>1 DEF OnlyChanges, Names
  <2>4. OnlyChanges(v, t, {"free"}) /\ t.free = v.free + Slot(u.iout[1]) /\ t.iout = v.iout
    BY <1>3, <2>1, <2>2, <2>3, FreeNonAddFacts
  <2>5. Slot(u.iout[1]) = Waits(u) /\ Waits(u) \in Int
    BY <1>6 DEF Slot, Waits
  <2>6. t.free = s.free + Waits(s)
    BY <1>3, <1>4, <2>3, <2>4, <2>5
  <2>7. OnlyChanges(u, t, {"inst", "iout", "free"})
    BY <2>1, <2>4, ChangesTwice
  <2>8. OnlyChanges(s, t, CodeFields)
    BY <1>3, <2>7, ChangesTwice DEF CodeFields
  <2>9. CodeOK(t)
    <3>1. /\ t.acache = u.acache /\ t.decided = u.decided /\ t.srcbase = u.srcbase
          /\ t.srclen = u.srclen /\ t.minaddr = u.minaddr /\ t.maxaddr = u.maxaddr
          /\ t.source = u.source /\ t.off = u.off
      BY <1>3, <2>7 DEF OnlyChanges, Names
    <3>2. t.iout = <<>> /\ t.free \in Int
      BY <1>4, <2>1, <2>4, <2>6
    <3> QED BY <1>3, <3>1, <3>2 DEF CodeOK
  <2> QED BY <2>1, <2>4, <2>6, <2>8, <2>9
<1> QED
  BY <1>5, <1>6

LEMMA FinishKeeps ==
  ASSUME NEW s, Ready(s)
  PROVE  LET t == EncodeReset(AddFinalize(FlushInstructions(s, TRUE)))
         IN  Ready(t) /\ t.used = <<>> /\ t.win = s.win
<1> DEFINE kept == Compact(s.used, TRUE)
           u == FlushKept(s, kept, TRUE)
           v == AddFinalize(u)
           t == EncodeReset(v)
           F == {"total_in", "instr", "small_reset", "data", "inst", "addr", "decided", "srcbase",
                 "srclen", "minaddr", "maxaddr"}
<1>1. /\ Names \subseteq DOMAIN s /\ Core(s) /\ Base(s) /\ Tables(s) /\ SourceKnown(s) /\ CodeOK(s)
      /\ SourcePositions(s) /\ BufferOK(s) /\ s.match_state \in {"target", "searching"}
      /\ s.run_c \in Nat /\ s.run_l \in Nat /\ CanSend(s)
  BY ReadyFacts DEF Ready, Good, Core, CanSend
<1>2. FlushInstructions(s, TRUE) = u
  BY DEF FlushInstructions
<1>3. /\ Len(kept) <= Len(s.used) /\ kept \in Seq(CopiesWithin(0, Len(s.source)))
      /\ kept \in Seq(CopiesWithin(Lo(s), Hi(s)))
  <2>1. 0 \in Int /\ Len(s.source) \in Int /\ Lo(s) \in Int /\ Hi(s) \in Int
    BY <1>1, LoHi DEF Base
  <2>2. s.used \in Seq(CopiesWithin(0, Len(s.source))) /\ s.used \in Seq(CopiesWithin(Lo(s), Hi(s)))
    BY <1>1 DEF BufferOK
  <2> QED BY <2>1, <2>2, WithinIsCuttable, CompactKeeps
<1> HIDE DEF kept
<1>4. /\ OnlyChanges(s, u, CodeFields \cup {"used"}) /\ CodeOK(u) /\ u.used = <<>>
      /\ u.free + Len(u.used) + Waits(u) = u.iopt_size
  <2>1. TRUE \in BOOLEAN
    OBVIOUS
  <2> QED BY <1>1, <1>3, <2>1, FlushKeptKeeps
<1> HIDE DEF u
<1>5. CanSend(u)
  <2>1. Base(u)
    BY <1>1, <1>4, BaseKept DEF CodeFields, BaseFields
  <2>2. SourceKnown(u)
    BY <1>1, <1>4, KnownKept DEF CodeFields, SourceFields
  <2> QED BY <1>4, <2>1, <2>2 DEF CanSend
<1>6. /\ OnlyChanges(u, v, CodeFields) /\ CodeOK(v) /\ v.iout = <<>> /\ v.free = u.free + Waits(u)
  BY <1>5, AddFinalizeKeeps
<1> HIDE DEF v
<1>7. OnlyChanges(s, v, CodeFields \cup {"used"})
  BY <1>4, <1>6, ChangesTwice
<1>8. Names \subseteq DOMAIN v
  BY <1>1, <1>7 DEF OnlyChanges
<1>9. /\ OnlyChanges(v, t, F) /\ t.total_in = v.total_in + AvailIn(v) /\ t.decided = FALSE
      /\ t.srcbase = 0 /\ t.srclen = 0 /\ t.minaddr = 0 /\ t.maxaddr = 0
  BY <1>8 DEF EncodeReset, OnlyChanges, Names
<1> HIDE DEF t
<1> DEFINE G == CodeFields \cup F \cup {"used"}
<1>10. OnlyChanges(s, t, G)
  BY <1>7, <1>9, ChangesTwice
<1>11. /\ t.win = s.win /\ t.source = s.source /\ t.cfg = s.cfg /\ t.has_src = s.has_src
       /\ t.blksize = s.blksize /\ t.max_winsize = s.max_winsize /\ t.inp = s.inp
       /\ t.min_match = s.min_match /\ Names \subseteq DOMAIN t
  BY <1>1, <1>10 DEF OnlyChanges, Names, CodeFields
<1>12. /\ t.iopt_size = s.iopt_size /\ t.elts = s.elts /\ t.unlimited = s.unlimited
       /\ t.large = s.large /\ t.maxsrcaddr = s.maxsrcaddr /\ t.match_srcpos = s.match_srcpos
       /\ t.match_state = s.match_state /\ t.run_c = s.run_c /\ t.run_l = s.run_l
  BY <1>1, <1>10 DEF OnlyChanges, Names, CodeFields
<1>13. /\ t.used = u.used /\ t.iout = <<>> /\ t.free = u.free + Waits(u) /\ t.acache = v.acache
       /\ t.off = v.off /\ t.source = v.source
  <2>1. Names \subseteq DOMAIN u
    BY <1>1, <1>4 DEF OnlyChanges
  <2>2. v.used = u.used
    BY <1>6, <2>1 DEF OnlyChanges, Names, CodeFields
  <2> QED BY <1>6, <1>8, <1>9, <2>2 DEF OnlyChanges, Names
<1>14. Base(t)
  <2>1. v.total_in = s.total_in /\ v.win = s.win
    BY <1>1, <1>7 DEF OnlyChanges, Names, CodeFields
  <2>2. t.total_in \in Nat
    BY <1>1, <1>9, <2>1 DEF Base, AvailIn
  <2> QED BY <1>1, <1>11, <2>2 DEF Base
<1>15. SourceKnown(t)
  BY <1>1, <1>10, KnownKept DEF CodeFields, SourceFields
<1>16. SourcePositions(t)
  BY <1>1, <1>11, <1>12 DEF SourcePositions
<1>17. CodeOK(t)
  <2>1. u.free \in Int /\ Waits(u) \in Int /\ Len(t.source) \in Nat
    BY <1>1, <1>4, <1>11 DEF CodeOK, Waits, Base
  <2>2. t.free \in Int
    BY <1>13, <2>1
  <2>3. NearKnown(t.acache) /\ t.off \in Int
    BY <1>6, <1>13 DEF CodeOK
  <2>4. /\ t.decided \in BOOLEAN /\ t.srcbase \in Nat /\ t.srclen \in Int
        /\ t.minaddr \in Nat /\ t.maxaddr \in Nat /\ t.maxaddr <= Len(t.source)
    <3>1. t.decided \in BOOLEAN
      BY <1>9, Zenon
    <3>2. t.srcbase \in Nat /\ t.srclen \in Int /\ t.minaddr \in Nat /\ t.maxaddr \in Nat
      BY <1>9
    <3>3. t.maxaddr <= Len(t.source)
      <4> DEFINE n == Len(t.source)
      <4>1. n \in Nat
        BY <2>1
      <4> HIDE DEF n
      <4>2. 0 <= n
        BY <4>1
      <4> QED BY <1>9, <4>2 DEF n
    <3> QED BY <3>1, <3>2, <3>3
  <2> QED BY <1>13, <2>2, <2>3, <2>4 DEF CodeOK
<1>18. BufferOK(t)
  <2>1. \A X : t.used \in Seq(X)
    BY <1>4, <1>13
  <2>2. Waits(t) = 0 /\ Len(t.used) = 0 /\ Len(u.used) = 0
    BY <1>4, <1>13 DEF Waits
  <2>3. u.iopt_size = s.iopt_size
    BY <1>1, <1>4 DEF OnlyChanges, Names, CodeFields
  <2>4. t.iopt_size \in Nat /\ u.free \in Int /\ Waits(u) \in Int
    BY <1>1, <1>4, <1>12 DEF BufferOK, CodeOK, Waits
  <2>5. t.free = t.iopt_size
    BY <1>4, <1>12, <1>13, <2>2, <2>3, <2>4
  <2> QED BY <1>1, <1>12, <2>1, <2>2, <2>4, <2>5 DEF BufferOK
<1>19. Tables(t)
  BY <1>1, <1>10, TablesKept DEF CodeFields, TableFields
<1>20. Ready(t)
  BY <1>1, <1>12, <1>14, <1>15, <1>16, <1>17, <1>18, <1>19 DEF Ready, Good, Core, CanSend
<1> QED
  BY <1>2, <1>4, <1>11, <1>13, <1>20 DEF t, v


-----------------------------------------------------------------------------
(* The steps of the search, as they change the encoder. *)

\* What a shorter match may still be taken for.
LEMMA MinMatchMoves ==
  ASSUME NEW s, LoopReady(s), NEW m \in Nat, m >= MIN_MATCH
  PROVE  LoopReady([s EXCEPT !.min_match = m])
<1> DEFINE u == [s EXCEPT !.min_match = m]
<1>0. SUFFICES LoopReady(u)
  OBVIOUS
<1>1. /\ Ready(s) /\ Names \subseteq DOMAIN s /\ s.inp \in Nat /\ s.inp <= Len(s.win)
      /\ s.run_c \in Nat /\ s.run_l \in Nat /\ RollingAt(s) /\ s.inp + SLOOK <= AvailIn(s)
  BY ReadyFacts DEF LoopReady
<1>2. OnlyChanges(s, u, {"min_match"}) /\ u.min_match = m
  BY <1>1 DEF OnlyChanges, Names
<1> HIDE DEF u
<1>3. u.inp = s.inp /\ u.run_c = s.run_c /\ u.run_l = s.run_l
  BY <1>1, <1>2 DEF OnlyChanges, Names
<1>4. {"min_match"} \cap (CoreFields \cup TableFields \cup {"match_state"}) = {}
  BY DEF CoreFields, TableFields
<1>5. Ready(u)
  BY <1>1, <1>2, <1>3, <1>4, ReadyMoves
<1>6. RollingAt(u) /\ AvailIn(u) = AvailIn(s)
  BY <1>1, <1>2, RollingKept
<1> QED
  BY <1>1, <1>3, <1>5, <1>6 DEF LoopReady

Begun(s) ==
  LET c == Continued(s)
  IN  IF NoRoom(c) THEN [c EXCEPT !.instr = TRUE] ELSE Restart(MatchInit(c))

LEMMA BegunKeeps ==
  ASSUME NEW s, Ready(s)
  PROVE  After(Begun(s))
<1> DEFINE c == Continued(s)
           over == [c EXCEPT !.instr = TRUE]
           on == Restart(MatchInit(c))
<1>1. Ready(c)
  BY ContinuedKeeps
<1>2. Begun(s) = over \/ Begun(s) = on
  BY DEF Begun
<1> HIDE DEF c
<1>3. After(over)
  BY <1>1, Ends
<1>4. After(on)
  BY <1>1, MatchInitKeeps, RestartKeeps
<1> HIDE DEF over, on
<1> QED
  BY <1>2, <1>3, <1>4

\* The run r.run_l at the input position is taken.
RunFound(r) == HandleLazy(EmitRun(r, r.run_l, r.run_c), r.run_l)

\* The run taken: the instruction entered for it and the step over it.
LEMMA RunSteps ==
  ASSUME NEW s, LoopReady(s), RunTaken(s)
  PROVE  LET r == TryRun(s)
             i == Inst(RUN, s.inp, WholeRun(s), 0, s.run_c)
         IN  /\ RunFound(r) = HandleLazy(TakeSlot(r, i), i.size)
             /\ i \in Instrs /\ i.type = RUN /\ i.pos = s.inp /\ i.xtra = s.run_c
             /\ ~ (i.type = CPY /\ i.xtra = 1)
             /\ i.size = WholeRun(s) /\ i.size \in Nat \ {0} /\ i.size >= MIN_MATCH
             /\ i.size >= s.min_match /\ s.inp + i.size <= AvailIn(s)
             /\ LoopReady(r) /\ OnlyChanges(s, r, {"run_l"})
             /\ r.inp = s.inp /\ r.win = s.win /\ AvailIn(r) = AvailIn(s) /\ r.inp \in Nat
<1> DEFINE r == TryRun(s)
           len == WholeRun(s)
           i == Inst(RUN, s.inp, len, 0, s.run_c)
           m == s.min_match
<1>1. /\ s.run_l = SLOOK /\ len >= Max({m, MIN_RUN}) /\ Names \subseteq DOMAIN s
      /\ m \in Nat /\ m >= MIN_MATCH /\ s.inp \in Nat /\ s.run_c \in Nat
  BY ReadyFacts DEF RunTaken, LoopReady
<1>2. len \in Nat /\ s.inp + len <= AvailIn(s)
  BY <1>1, WholeRunFacts
<1>3. LoopReady(r) /\ OnlyChanges(s, r, {"run_l"})
  BY TryRunKeeps
<1>4. r.run_l = len
  BY <1>1 DEF TryRun, Names
<1> HIDE DEF r, len, m
<1>5. len >= m /\ len >= MIN_MATCH /\ len \in Nat \ {0}
  <2>1. Max({m, MIN_RUN}) \in Int /\ Max({m, MIN_RUN}) >= m
    BY <1>1, RunsAndSplits, MaxTwo
  <2> QED BY <1>1, <1>2, <2>1 DEF MIN_MATCH
<1>6. r.inp = s.inp /\ r.win = s.win /\ AvailIn(r) = AvailIn(s) /\ r.run_c = s.run_c
  BY <1>1, <1>3 DEF OnlyChanges, Names, AvailIn
<1>7. /\ i \in Instrs /\ i.type = RUN /\ i.pos = s.inp /\ i.xtra = s.run_c /\ i.size = len
      /\ ~ (i.type = CPY /\ i.xtra = 1)
  BY <1>1, <1>5 DEF Instrs, Inst, RUN, CPY
<1>8. EmitRun(r, r.run_l, r.run_c) = TakeSlot(r, i)
  BY <1>4, <1>6 DEF EmitRun
<1> HIDE DEF i
<1>9. RunFound(r) = HandleLazy(TakeSlot(r, i), i.size)
  BY <1>4, <1>7, <1>8 DEF RunFound
<1> QED
  BY <1>1, <1>2, <1>3, <1>5, <1>6, <1>7, <1>9 DEF r, len, i, m

LEMMA RunFoundKeeps ==
  ASSUME NEW s, LoopReady(s), RunTaken(s)
  PROVE  After(RunFound(TryRun(s)))
<1> DEFINE r == TryRun(s)
           i == Inst(RUN, s.inp, WholeRun(s), 0, s.run_c)
           t == TakeSlot(r, i)
<1>1. /\ RunFound(r) = HandleLazy(t, i.size)
      /\ i \in Instrs /\ ~ (i.type = CPY /\ i.xtra = 1) /\ LoopReady(r)
      /\ i.size \in Nat /\ i.size >= MIN_MATCH /\ r.inp + i.size <= AvailIn(r)
  BY RunSteps
<1> HIDE DEF i, r
<1>2. LoopReady(t) /\ t.inp = r.inp /\ AvailIn(t) = AvailIn(r)
  BY <1>1, NoSourceCopy
<1> HIDE DEF t
<1>3. After(HandleLazy(t, i.size))
  BY <1>1, <1>2, HandleLazyKeeps
<1> QED
  BY <1>1, <1>3 DEF r

\* A copy from the source, one of length m.length from the window, or none.
SourceFound(s) == IF s.error THEN s ELSE HandleLazy(s, s.fwd)
WindowFound(s, m) ==
  HandleLazy(FoundMatch(ScksumInsert(s), s.inp, m.length, m.offset, 0), m.length)
NotFound(s) ==
  LET t == ScksumInsert(s)
  IN  UpdateOne([t EXCEPT !.min_match = Max({MIN_MATCH, @ - 1})])
BestOf(s) == IF s.small[SmallHash(s)] = 0 THEN [length |-> 0, offset |-> 0] ELSE Smatch(s)

LEMMA TrySourceFacts ==
  ASSUME NEW s, LoopReady(s)
  PROVE  LET t == TrySource(TryRun(s))
         IN  /\ LoopReady(t) /\ t.fwd \in Nat /\ t.inp + t.fwd <= AvailIn(t)
             /\ t.fwd = 0 \/ t.fwd >= MIN_MATCH
<1> DEFINE r == TryRun(s)
           t == TrySource(r)
<1>1. LoopReady(r)
  BY TryRunKeeps
<1> HIDE DEF r
<1>2. /\ OnlyChanges(r, t, SearchFields) /\ LoopReady(t) /\ t.fwd \in Nat
      /\ r.inp + t.fwd <= AvailIn(r)
      /\ t.fwd = 0 \/ t.fwd >= r.min_match
  BY <1>1, TrySourceKeeps
<1>3. Names \subseteq DOMAIN r /\ r.min_match \in Nat /\ r.min_match >= MIN_MATCH
  BY <1>1, ReadyFacts DEF LoopReady
<1> HIDE DEF t
<1>4. t.inp = r.inp /\ AvailIn(t) = AvailIn(r)
  BY <1>2, <1>3
  DEF OnlyChanges, Names, AvailIn, SearchFields, MoveFields, LargeFields, SetupFields, MatchFields,
      TakeFields, SlotFields, CodeFields, SourceFields
<1>5. t.fwd = 0 \/ t.fwd >= MIN_MATCH
  BY <1>2, <1>3 DEF MIN_MATCH
<1> QED
  BY <1>2, <1>4, <1>5 DEF t, r

LEMMA SourceFoundKeeps ==
  ASSUME NEW s, LoopReady(s), s.fwd \in Nat, s.inp + s.fwd <= AvailIn(s),
         s.fwd = 0 \/ s.fwd >= MIN_MATCH, s.fwd > 0 \/ s.error
  PROVE  After(SourceFound(s))
<1>1. CASE s.error
  BY <1>1 DEF SourceFound, After, LoopReady
<1>2. CASE ~ s.error
  <2>1. s.fwd >= MIN_MATCH
    BY <1>2
  <2>2. After(HandleLazy(s, s.fwd))
    BY <2>1, HandleLazyKeeps
  <2> QED BY <1>2, <2>2 DEF SourceFound
<1> QED
  BY <1>1, <1>2

\* The copy from the window taken: the instruction entered for it and the step over it.
LEMMA WindowSteps ==
  ASSUME NEW s, LoopReady(s), NEW m, m = BestOf(s), m.length >= s.min_match
  PROVE  LET u == ScksumInsert(s)
             i == Inst(CPY, s.inp, m.length, m.offset, 0)
         IN  /\ WindowFound(s, m) = HandleLazy(TakeSlot(u, i), i.size)
             /\ i \in Instrs /\ i.type = CPY /\ i.pos = s.inp /\ i.addr = m.offset /\ i.xtra = 0
             /\ i.size = m.length /\ i.size \in Nat \ {0} /\ i.size >= MIN_MATCH
             /\ i.size >= s.min_match /\ s.inp + i.size <= AvailIn(s)
             /\ LoopReady(u) /\ OnlyChanges(s, u, {"prev", "small"})
             /\ u.inp = s.inp /\ u.win = s.win /\ AvailIn(u) = AvailIn(s)
             /\ Names \subseteq DOMAIN s
<1> DEFINE u == ScksumInsert(s)
           i == Inst(CPY, s.inp, m.length, m.offset, 0)
           len == m.length
           n == AvailIn(s)
<1>1. /\ Names \subseteq DOMAIN s /\ s.min_match \in Nat /\ s.min_match >= MIN_MATCH /\ s.inp \in Nat
      /\ n - s.inp \in Nat /\ n \in Int
  BY ReadyFacts DEF LoopReady
<1>2. MatchOK(s, m)
  <2>1. CASE m = Smatch(s)
    BY <2>1, SmatchFacts
  <2>2. CASE m = [length |-> 0, offset |-> 0]
    <3>1. m.length = 0 /\ m.offset = 0
      BY <2>2
    <3> QED BY <1>1, <3>1 DEF MatchOK
  <2> QED BY <2>1, <2>2 DEF BestOf
<1>3. len \in Nat \ {0} /\ len >= MIN_MATCH /\ m.offset \in Int /\ s.inp + len <= n
  <2>1. len \in Nat /\ m.offset \in Int /\ len <= n - s.inp /\ len >= s.min_match
    BY <1>2 DEF MatchOK
  <2> HIDE DEF len, n
  <2> QED BY <1>1, <2>1 DEF MIN_MATCH
<1>4. LoopReady(u) /\ OnlyChanges(s, u, {"prev", "small"})
  BY ScksumInsertKeeps
<1> HIDE DEF u
<1>5. u.inp = s.inp /\ u.win = s.win /\ AvailIn(u) = AvailIn(s)
  BY <1>1, <1>4 DEF OnlyChanges, Names, AvailIn
<1>6. /\ i \in Instrs /\ i.type = CPY /\ i.pos = s.inp /\ i.size = m.length
      /\ i.addr = m.offset /\ i.xtra = 0
  BY <1>1, <1>3 DEF Instrs, Inst
<1>7. FoundMatch(u, s.inp, m.length, m.offset, 0) = TakeSlot(u, i)
  BY DEF FoundMatch
<1> HIDE DEF i
<1>8. WindowFound(s, m) = HandleLazy(TakeSlot(u, i), i.size)
  BY <1>6, <1>7 DEF WindowFound, u
<1> QED
  BY <1>1, <1>3, <1>4, <1>5, <1>6, <1>8 DEF u, i

LEMMA WindowFoundKeeps ==
  ASSUME NEW s, LoopReady(s), NEW m, m = BestOf(s), m.length >= s.min_match
  PROVE  After(WindowFound(s, m))
<1> DEFINE u == ScksumInsert(s)
           i == Inst(CPY, s.inp, m.length, m.offset, 0)
           t == TakeSlot(u, i)
<1>1. /\ WindowFound(s, m) = HandleLazy(t, i.size)
      /\ i \in Instrs /\ ~ (i.type = CPY /\ i.xtra = 1) /\ LoopReady(u)
      /\ i.size \in Nat /\ i.size >= MIN_MATCH /\ u.inp + i.size <= AvailIn(u)
  BY WindowSteps
<1> HIDE DEF i, u
<1>2. LoopReady(t) /\ t.inp = u.inp /\ AvailIn(t) = AvailIn(u)
  BY <1>1, NoSourceCopy
<1> HIDE DEF t
<1>3. After(HandleLazy(t, i.size))
  BY <1>1, <1>2, HandleLazyKeeps
<1> QED
  BY <1>1, <1>3

LEMMA NotFoundKeeps ==
  ASSUME NEW s, LoopReady(s)
  PROVE  After(NotFound(s))
<1> DEFINE t == ScksumInsert(s)
           x == t.min_match - 1
           m == Max({MIN_MATCH, x})
           u == [t EXCEPT !.min_match = m]
<1>1. LoopReady(t)
  BY ScksumInsertKeeps
<1>2. NotFound(s) = UpdateOne(u)
  BY DEF NotFound
<1> HIDE DEF t
<1>3. m \in Nat /\ m >= MIN_MATCH
  <2>1. x \in Int /\ MIN_MATCH \in Nat
    BY <1>1, ReadyFacts DEF LoopReady, MIN_MATCH
  <2> HIDE DEF x
  <2> QED BY <2>1, MaxTwo
<1> HIDE DEF m
<1>4. LoopReady(u)
  BY <1>1, <1>3, MinMatchMoves
<1> HIDE DEF u
<1> QED
  BY <1>2, <1>4, UpdateOneKeeps


-----------------------------------------------------------------------------
(* The inductive invariant. *)

\* The encoder is ready for the next window or instruction, and at the head of the search's
\* loop its checksum is that of the bytes there.
EncoderInv ==
  /\ text \in Seq(Nat)
  /\ Ready(e)
  /\ pc = "loop" => LoopReady(e)

LEMMA GotoKeeps ==
  ASSUME EncoderInv, NEW s, After(s), Goto(s)
  PROVE  EncoderInv'
<1>1. text' = text /\ e' = s /\ Ready(s)
  BY DEF Goto, After
<1>2. ASSUME pc' = "loop"
      PROVE  LoopReady(e')
  <2>1. ~ s.instr
    BY <1>2 DEF Goto
  <2> QED BY <1>1, <2>1 DEF After
<1>3. text' \in Seq(Nat) /\ Ready(e')
  BY <1>1 DEF EncoderInv
<1> QED
  BY <1>2, <1>3 DEF EncoderInv

\* What leaves text and encoder alone, and does not begin a round of the search.
LEMMA ElsewhereKeeps ==
  ASSUME EncoderInv, UNCHANGED <<text, e>>, pc' = pc \/ pc' # "loop"
  PROVE  EncoderInv'
<1>1. text' = text /\ e' = e
  OBVIOUS
<1> QED
  BY <1>1 DEF EncoderInv

LEMMA EncoderInit ==
  ASSUME Init
  PROVE  EncoderInv
<1>1. PICK i \in Inputs, cfg \in Matchers, size \in IoptSizes :
        text = i.text /\ e = NewEncoder(i, cfg, size) /\ pc = "input"
  BY DEF Init
<1>2. text \in Seq(Nat)
  BY <1>1, InputsAssumption
<1>3. Ready(e)
  BY <1>1, FirstEncoder
<1> QED
  BY <1>1, <1>2, <1>3 DEF EncoderInv

LEMMA TakeWindowKeeps ==
  ASSUME EncoderInv, TakeWindow
  PROVE  EncoderInv'
<1> DEFINE n == e.total_in
           top == Min({n + WinSize, Len(text)})
           w == SubSeq(text, n + 1, top)
<1>1. text \in Seq(Nat) /\ Ready(e) /\ n \in Nat /\ Len(text) \in Nat
  BY ReadyFacts DEF EncoderInv, Base
<1>2. top \in Int /\ top <= Len(text)
  <2>1. n + WinSize \in Int /\ Len(text) \in Int
    BY <1>1, ConstantFacts
  <2> QED BY <2>1, MinTwo
<1> HIDE DEF top
<1>3. w \in Seq(Nat)
  <2>1. \A k \in (n + 1)..top : text[k] \in Nat
    BY <1>1, <1>2
  <2> HIDE DEF n
  <2> QED BY <1>1, <1>2, <2>1, SubSeqProperties
<1>4. e' = NextWindow(e, w) /\ pc' = "search" /\ text' = text
  BY DEF TakeWindow, NextWindow, top
<1> HIDE DEF w
<1>5. Ready(e')
  BY <1>1, <1>3, <1>4, NextWindowKeeps
<1> QED
  BY <1>1, <1>4, <1>5 DEF EncoderInv

LEMMA BeginSearchKeeps ==
  ASSUME EncoderInv, BeginSearch
  PROVE  EncoderInv'
<1>1. Goto(Begun(e))
  BY DEF BeginSearch, Begun
<1>2. After(Begun(e))
  BY BegunKeeps DEF EncoderInv
<1> QED
  BY <1>1, <1>2, GotoKeeps

LEMMA FindRunKeeps ==
  ASSUME EncoderInv, FindRun
  PROVE  EncoderInv'
<1>1. Goto(RunFound(TryRun(e))) /\ RunTaken(e) /\ LoopReady(e)
  BY DEF FindRun, RunFound, EncoderInv
<1>2. After(RunFound(TryRun(e)))
  BY <1>1, RunFoundKeeps
<1> QED
  BY <1>1, <1>2, GotoKeeps

LEMMA FindCopyKeeps ==
  ASSUME EncoderInv, FindCopy
  PROVE  EncoderInv'
<1> DEFINE s == TrySource(TryRun(e))
           m == BestOf(s)
<1>1. /\ LoopReady(e)
      /\ \/ (s.fwd > 0 \/ s.error) /\ Goto(SourceFound(s))
         \/ m.length >= s.min_match /\ Goto(WindowFound(s, m))
         \/ Goto(NotFound(s))
  BY DEF FindCopy, EncoderInv, SourceFound, WindowFound, NotFound, BestOf
<1>2. /\ LoopReady(s) /\ s.fwd \in Nat /\ s.inp + s.fwd <= AvailIn(s)
      /\ s.fwd = 0 \/ s.fwd >= MIN_MATCH
  BY <1>1, TrySourceFacts
<1> HIDE DEF s
<1>3. CASE (s.fwd > 0 \/ s.error) /\ Goto(SourceFound(s))
  <2>1. After(SourceFound(s))
    BY <1>2, <1>3, SourceFoundKeeps
  <2> QED BY <1>3, <2>1, GotoKeeps
<1>4. CASE m.length >= s.min_match /\ Goto(WindowFound(s, m))
  <2>1. After(WindowFound(s, m))
    BY <1>2, <1>4, WindowFoundKeeps
  <2> QED BY <1>4, <2>1, GotoKeeps
<1>5. CASE Goto(NotFound(s))
  <2>1. After(NotFound(s))
    BY <1>2, NotFoundKeeps
  <2> QED BY <1>5, <2>1, GotoKeeps
<1> QED
  BY <1>1, <1>3, <1>4, <1>5

LEMMA FinishWindowKeeps ==
  ASSUME EncoderInv, FinishWindow
  PROVE  EncoderInv'
<1>1. e' = EncodeReset(AddFinalize(FlushInstructions(e, TRUE))) /\ pc' # "loop" /\ text' = text
  BY DEF FinishWindow
<1>2. Ready(e')
  BY <1>1, FinishKeeps DEF EncoderInv
<1> QED
  BY <1>1, <1>2 DEF EncoderInv

\* Every other step is the decoder's and leaves the encoder alone.
LEMMA EncoderOrDecoder ==
  ASSUME [Next]_vars
  PROVE  \/ TakeWindow \/ BeginSearch \/ FindRun \/ FindCopy \/ FinishWindow
         \/ UNCHANGED <<text, e>> /\ (pc' = pc \/ pc' \in {"emit", "failed", "header", "done"})
<1>1. DecodeHeader \/ DecodeInstruction \/ OutputHalf =>
        UNCHANGED <<text, e>> /\ pc' \in {"emit", "failed"}
  BY DEF DecodeHeader, DecodeInstruction, OutputHalf
<1>2. EndWindow => UNCHANGED <<text, e>> /\ pc' \in {"failed", "header", "done"}
  BY DEF EndWindow
<1> QED
  BY <1>1, <1>2 DEF Next, Done, vars

LEMMA EncoderNext ==
  ASSUME EncoderInv, [Next]_vars
  PROVE  EncoderInv'
<1>1. CASE UNCHANGED <<text, e>> /\ (pc' = pc \/ pc' \in {"emit", "failed", "header", "done"})
  BY <1>1, ElsewhereKeeps
<1>2. CASE TakeWindow
  BY <1>2, TakeWindowKeeps
<1>3. CASE BeginSearch
  BY <1>3, BeginSearchKeeps
<1>4. CASE FindRun
  BY <1>4, FindRunKeeps
<1>5. CASE FindCopy
  BY <1>5, FindCopyKeeps
<1>6. CASE FinishWindow
  BY <1>6, FinishWindowKeeps
<1> QED
  BY <1>1, <1>2, <1>3, <1>4, <1>5, <1>6, EncoderOrDecoder

\* Whatever text, source and settings, and wherever windows, blocks and matches end: the
\* encoder keeps what each step of the search and of the flush relies on.
THEOREM EncoderInvariant == Spec => []EncoderInv
<1>1. Init => EncoderInv
  BY EncoderInit
<1>2. EncoderInv /\ [Next]_vars => EncoderInv'
  BY EncoderNext
<1> QED
  BY <1>1, <1>2, PTL DEF Spec

\* The rolling checksum is that of the bytes at the input position, after runs, copies and
\* lazy steps (xd3_large_cksum_update in xd3_string_match), whatever the bytes, the look and
\* the modulus.
THEOREM RollingHolds == Spec => []Rolling
<1>1. EncoderInv => Rolling
  BY DEF EncoderInv, LoopReady, RollingAt, Rolling
<1> QED
  BY <1>1, EncoderInvariant, PTL

\* A buffered copy from the source stays within the source, and within the source window
\* once that is decided.
LEMMA CopiesAreCovered ==
  ASSUME EncoderInv, NEW k \in 1..Len(e.used)
  PROVE  Covered(e, e.used[k])
<1> DEFINE i == e.used[k]
<1>0. SUFFICES ASSUME i.type = CPY, i.xtra = 1
               PROVE  /\ i.addr >= 0 /\ EndOfCopy(i) <= Len(e.source)
                      /\ e.decided => e.srcbase <= i.addr /\ EndOfCopy(i) <= e.srcbase + e.srclen
  BY DEF Covered
<1>1. /\ e.used \in Seq(CopiesWithin(0, Len(e.source)))
      /\ e.used \in Seq(CopiesWithin(Lo(e), Hi(e)))
  BY DEF EncoderInv, Ready, Good, Core, BufferOK
<1>2. i \in CopiesWithin(0, Len(e.source)) /\ i \in CopiesWithin(Lo(e), Hi(e))
  BY <1>1
<1> HIDE DEF i
<1>3. i \in Instrs /\ 0 <= i.addr /\ EndOfCopy(i) <= Len(e.source) /\ Lo(e) <= i.addr /\ EndOfCopy(i) <= Hi(e)
  BY <1>0, <1>2 DEF CopiesWithin
<1>4. i.addr >= 0
  BY <1>3, InstrFacts
<1>5. e.decided => Lo(e) = e.srcbase /\ Hi(e) = e.srcbase + e.srclen
  BY DEF Lo, Hi
<1> QED
  BY <1>3, <1>4, <1>5

\* Each element of the instruction buffer is free, in use, or waits to be paired: none is lost
\* or given back twice by overlaps, flushes, growth and ends of windows.  A limited buffer
\* needs four elements: one of two or three may have none free after a flush that is not
\* forced, where the code asserts that there is one (xd3_iopt_get_slot, xdelta3.c:2563).
THEOREM SlotsCounted ==
  ASSUME Roomy
  PROVE  Spec => []SlotsAreCounted
<1>1. EncoderInv => SlotsAreCounted
  <2> SUFFICES ASSUME EncoderInv
               PROVE  /\ e.free >= 0 /\ Len(e.iout) <= 1
                      /\ e.free + Len(e.used) + Waits(e) = e.iopt_size
    BY DEF SlotsAreCounted
  <2>1. BufferOK(e) /\ CodeOK(e)
    BY DEF EncoderInv, Ready, Good, Core, CanSend
  <2>2. e.iout = <<>> \/ \E i : e.iout = <<i>>
    BY <2>1 DEF CodeOK
  <2>3. Len(e.iout) <= 1
    <3>1. CASE e.iout = <<>>
      <4>1. Len(e.iout) = 0
        BY <3>1
      <4> QED BY <4>1
    <3>2. ASSUME NEW i, e.iout = <<i>>
          PROVE  Len(e.iout) <= 1
      <4>1. Len(e.iout) = 1
        BY <3>2
      <4> QED BY <4>1
    <3> QED BY <2>2, <3>1, <3>2
  <2> QED BY <2>1, <2>3 DEF BufferOK
<1> QED
  BY <1>1, EncoderInvariant, PTL

-----------------------------------------------------------------------------
(* The order of the instructions in the buffer. *)

\* They lie between two positions, each begins and ends after the one before it.
InOrder(u, low, high) ==
  /\ low >= 0
  /\ \A k \in 1..Len(u) : low <= u[k].pos /\ EndOf(u[k]) <= high /\ u[k].size >= MIN_MATCH
  /\ \A j, k \in 1..Len(u) : j < k => u[j].pos < u[k].pos /\ EndOf(u[j]) < EndOf(u[k])

\* They begin before pos and end before end.
Short(u, pos, end) == \A k \in 1..Len(u) : u[k].pos < pos /\ EndOf(u[k]) < end

LEMMA PushInOrder ==
  ASSUME NEW u \in Seq(Instrs), NEW low \in Int, NEW high \in Int, InOrder(u, low, high),
         NEW i \in Instrs, Short(u, i.pos, EndOf(i)), low <= i.pos, EndOf(i) <= high, i.size >= MIN_MATCH
  PROVE  /\ InOrder(Append(u, i), low, high)
         /\ \A p, q \in Int : i.pos < p /\ EndOf(i) < q => Short(Append(u, i), p, q)
<1> DEFINE v == Append(u, i)
           n == Len(u)
<1>1. n \in Nat /\ Len(v) = n + 1 /\ v[n + 1] = i /\ \A k \in 1..n : v[k] = u[k] /\ u[k] \in Instrs
  BY PushFacts
<1>2. i.pos \in Int /\ EndOf(i) \in Int /\ \A k \in 1..n : u[k].pos \in Int /\ EndOf(u[k]) \in Int
  BY <1>1, InstrFacts
<1> HIDE DEF v, n
<1>3. ASSUME NEW k \in 1..(n + 1)
      PROVE  k \in 1..n \/ k = n + 1
  BY <1>1
<1>4. \A k \in 1..n : /\ low <= u[k].pos /\ EndOf(u[k]) <= high /\ u[k].size >= MIN_MATCH
                      /\ u[k].pos < i.pos /\ EndOf(u[k]) < EndOf(i)
  BY DEF InOrder, Short, n
<1>5. \A j, k \in 1..n : j < k => u[j].pos < u[k].pos /\ EndOf(u[j]) < EndOf(u[k])
  BY DEF InOrder, n
<1>6. \A k \in 1..(n + 1) : low <= v[k].pos /\ EndOf(v[k]) <= high /\ v[k].size >= MIN_MATCH
  BY <1>1, <1>3, <1>4
<1>7. ASSUME NEW j \in 1..(n + 1), NEW k \in 1..(n + 1), j < k
      PROVE  v[j].pos < v[k].pos /\ EndOf(v[j]) < EndOf(v[k])
  <2>1. j \in 1..n
    BY <1>1, <1>7
  <2>2. CASE k \in 1..n
    BY <1>1, <1>5, <1>7, <2>1, <2>2
  <2>3. CASE k = n + 1
    BY <1>1, <1>4, <2>1, <2>3
  <2> QED BY <1>3, <2>2, <2>3
<1>8. ASSUME NEW p \in Int, NEW q \in Int, i.pos < p, EndOf(i) < q, NEW k \in 1..(n + 1)
      PROVE  v[k].pos < p /\ EndOf(v[k]) < q
  <2>1. CASE k \in 1..n
    <3>1. u[k].pos < i.pos /\ EndOf(u[k]) < EndOf(i) /\ u[k].pos \in Int /\ EndOf(u[k]) \in Int /\ v[k] = u[k]
      BY <1>1, <1>2, <1>4, <2>1
    <3> QED BY <1>2, <1>8, <3>1
  <2>2. CASE k = n + 1
    BY <1>1, <1>8, <2>2
  <2> QED BY <1>3, <2>1, <2>2
<1>9. InOrder(v, low, high)
  BY <1>1, <1>6, <1>7 DEF InOrder
<1>10. \A p, q \in Int : i.pos < p /\ EndOf(i) < q => Short(v, p, q)
  BY <1>1, <1>8 DEF Short
<1> QED
  BY <1>9, <1>10 DEF v

\* The first k of them, and the others.
LEMMA PartInOrder ==
  ASSUME NEW u \in Seq(Instrs), NEW low \in Int, NEW high \in Int, InOrder(u, low, high),
         NEW k \in Nat, k <= Len(u)
  PROVE  /\ InOrder(SubSeq(u, 1, k), low, high)
         /\ \A p, q \in Int : Short(u, p, q) => Short(SubSeq(u, 1, k), p, q)
         /\ \A m \in Int : 0 <= m /\ (\A j \in (k + 1)..Len(u) : m <= u[j].pos)
                             => InOrder(SubSeq(u, k + 1, Len(u)), m, high)
         /\ \A p, q \in Int : Short(u, p, q) => Short(SubSeq(u, k + 1, Len(u)), p, q)
<1> DEFINE n == Len(u)
           a == SubSeq(u, 1, k)
           b == SubSeq(u, k + 1, n)
<1>1. /\ n \in Nat /\ Len(a) = k /\ Len(b) = n - k
      /\ \A j \in 1..k : a[j] = u[j]
      /\ \A j \in 1..(n - k) : b[j] = u[j + k]
  BY PartFacts
<1> HIDE DEF a, b, n
<1>2. k <= n
  BY DEF n
<1>3. \A j \in 1..k : j \in 1..n
  BY <1>1, <1>2
<1>4. \A j \in 1..(n - k) : j + k \in 1..n /\ j + k \in (k + 1)..n
  BY <1>1, <1>2
<1>5. \A j \in 1..n : low <= u[j].pos /\ EndOf(u[j]) <= high /\ u[j].size >= MIN_MATCH
  BY DEF InOrder, n
<1>6. \A i, j \in 1..n : i < j => u[i].pos < u[j].pos /\ EndOf(u[i]) < EndOf(u[j])
  BY DEF InOrder, n
<1>7. InOrder(a, low, high)
  BY <1>1, <1>3, <1>5, <1>6 DEF InOrder
<1>8. \A p, q \in Int : Short(u, p, q) => Short(a, p, q)
  BY <1>1, <1>3 DEF Short, n
<1>9. \A p, q \in Int : Short(u, p, q) => Short(b, p, q)
  BY <1>1, <1>4 DEF Short, n
<1>10. ASSUME NEW m \in Int, 0 <= m, \A j \in (k + 1)..n : m <= u[j].pos
       PROVE  InOrder(b, m, high)
  <2>1. \A j \in 1..(n - k) : m <= b[j].pos /\ EndOf(b[j]) <= high /\ b[j].size >= MIN_MATCH
    BY <1>1, <1>4, <1>5, <1>10
  <2>2. ASSUME NEW i \in 1..(n - k), NEW j \in 1..(n - k), i < j
        PROVE  b[i].pos < b[j].pos /\ EndOf(b[i]) < EndOf(b[j])
    <3>1. i + k \in 1..n /\ j + k \in 1..n /\ i + k < j + k
      BY <1>4, <2>2
    <3> QED BY <1>1, <1>6, <3>1
  <2>3. m >= 0
    BY <1>10
  <2> QED BY <1>1, <2>1, <2>2, <2>3 DEF InOrder
<1> QED
  BY <1>7, <1>8, <1>9, <1>10 DEF a, b, n

\* The buffer's instructions as far as the window's text goes.
Ordered(s) == InOrder(s.used, s.off, AvailIn(s))

\* xd3_iopt_erase: the instructions left begin before pos.
LEMMA EraseOrder ==
  ASSUME NEW s, Core(s), Ordered(s), NEW pos \in Int
  PROVE  LET t == Erase(s, pos)
         IN  /\ InOrder(t.used, s.off, AvailIn(s))
             /\ \A p, q \in Int : Short(s.used, p, q) => Short(t.used, pos, q) /\ Short(t.used, p, q)
             /\ (t.used = s.used /\ t.free = s.free) \/ t.free > s.free
<1> DEFINE n == Len(s.used)
           J == {0} \cup {j \in 1..n : s.used[j].pos < pos}
           k == Max(J)
           t == Erase(s, pos)
           u == SubSeq(s.used, 1, k)
<1>0. SUFFICES /\ InOrder(t.used, s.off, AvailIn(s))
               /\ \A p, q \in Int : Short(s.used, p, q) => Short(t.used, pos, q) /\ Short(t.used, p, q)
               /\ (t.used = s.used /\ t.free = s.free) \/ t.free > s.free
  OBVIOUS
<1>1. /\ Names \subseteq DOMAIN s /\ s.free \in Int /\ n \in Nat /\ s.off \in Int /\ AvailIn(s) \in Int
      /\ s.used \in Seq(Instrs)
  <2>1. s.used \in Seq(CopiesWithin(0, Len(s.source)))
    BY DEF Core, BufferOK
  <2>2. s.used \in Seq(Instrs)
    BY <2>1, SeqGrows DEF CopiesWithin
  <2> QED BY <2>2, SMTT(60) DEF Core, CanSend, Base, CodeOK, AvailIn
<1>2. k \in J /\ k \in Nat /\ k <= n
  <2>1. J \subseteq Nat /\ 0 \in J /\ \A x \in J : x <= n
    BY <1>1
  <2>2. J \subseteq Int /\ J # {} /\ n \in Int
    BY <1>1, <2>1
  <2> HIDE DEF J, n
  <2>3. Max(J) \in J
    BY <2>1, <2>2, MaxBounded
  <2> QED BY <2>1, <2>3
<1>3. t = [s EXCEPT !.used = u, !.free = @ + n - k]
  BY DEF Erase
<1>4. k = 0 \/ (k \in 1..n /\ s.used[k].pos < pos)
  BY <1>2
<1> HIDE DEF k, t, u
<1>5. t.used = u /\ t.free = s.free + n - k
  BY <1>1, <1>3 DEF Names
<1>6. /\ InOrder(u, s.off, AvailIn(s))
      /\ \A p, q \in Int : Short(s.used, p, q) => Short(u, p, q)
  BY <1>1, <1>2, PartInOrder DEF Ordered, u, n
<1>7. Len(u) = k /\ \A j \in 1..k : u[j] = s.used[j] /\ u[j] \in Instrs
  <2>1. Len(u) = k /\ \A j \in 1..k : u[j] = s.used[j]
    BY <1>1, <1>2, PartFacts DEF u, n
  <2>2. \A j \in 1..k : j \in 1..n
    BY <1>1, <1>2
  <2>3. \A j \in 1..k : s.used[j] \in Instrs
    BY <1>1, <2>2
  <2> QED BY <2>1, <2>3
<1>8. ASSUME NEW p \in Int, NEW q \in Int, Short(s.used, p, q)
      PROVE  Short(u, pos, q)
  <2>1. ASSUME NEW j \in 1..k
        PROVE  u[j].pos < pos
    <3>1. k \in 1..n /\ j \in 1..n /\ s.used[k].pos < pos
      BY <1>1, <1>2, <1>4, <2>1
    <3>0. s.used[j] \in Instrs /\ s.used[k] \in Instrs
      BY <1>1, <3>1 DEF n
    <3>2. s.used[j].pos \in Int /\ s.used[k].pos \in Int
      BY <3>0, InstrFacts
    <3>3. CASE j = k
      BY <1>7, <3>1, <3>3
    <3>4. CASE j < k
      <4>1. s.used[j].pos < s.used[k].pos
        BY <3>1, <3>4 DEF Ordered, InOrder, n
      <4> QED BY <1>7, <3>1, <3>2, <4>1
    <3> QED BY <1>2, <3>3, <3>4
  <2>2. Short(u, p, q)
    BY <1>6, <1>8
  <2> QED BY <1>7, <2>1, <2>2 DEF Short
<1>9. (u = s.used /\ t.free = s.free) \/ t.free > s.free
  <2>1. CASE k = n
    <3>1. u = s.used
      BY <1>1, <2>1 DEF u, n
    <3>2. t.free = s.free
      BY <1>1, <1>5, <2>1
    <3> QED BY <3>1, <3>2
  <2>2. CASE k < n
    BY <1>1, <1>2, <1>5, <2>2
  <2> QED BY <1>1, <1>2, <2>1, <2>2
<1> QED
  BY <1>5, <1>6, <1>8, <1>9

\* Each ends where the next one begins, or before.
Apart(u) == \A j, k \in 1..Len(u) : j < k => EndOf(u[j]) <= u[k].pos

\* One more behind those that are apart.
LEMMA PushApart ==
  ASSUME NEW u \in Seq(Instrs), NEW low \in Int, NEW m \in Int, low <= m, InOrder(u, low, m), Apart(u),
         NEW i \in Instrs, m <= i.pos, i.size >= MIN_MATCH
  PROVE  /\ Append(u, i) \in Seq(Instrs) /\ Len(Append(u, i)) = Len(u) + 1
         /\ InOrder(Append(u, i), low, EndOf(i)) /\ Apart(Append(u, i))
         /\ \A p, q \in Int : Short(u, p, q) /\ i.pos < p /\ EndOf(i) < q => Short(Append(u, i), p, q)
<1> DEFINE v == Append(u, i)
           n == Len(u)
<1>1. n \in Nat /\ v \in Seq(Instrs) /\ Len(v) = n + 1 /\ v[n + 1] = i /\ \A k \in 1..n : v[k] = u[k] /\ u[k] \in Instrs
  BY PushFacts
<1>2. /\ i.pos \in Int /\ EndOf(i) \in Int /\ i.pos < EndOf(i)
      /\ \A k \in 1..n : u[k].pos \in Int /\ EndOf(u[k]) \in Int /\ u[k].pos < EndOf(u[k])
  BY <1>1, InstrFacts
<1> HIDE DEF v, n
<1>3. \A k \in 1..n : low <= u[k].pos /\ EndOf(u[k]) <= m /\ u[k].size >= MIN_MATCH
  BY DEF InOrder, n
<1>4. ASSUME NEW k \in 1..n
      PROVE  EndOf(u[k]) <= i.pos /\ u[k].pos < i.pos /\ EndOf(u[k]) <= EndOf(i) /\ EndOf(u[k]) < EndOf(i)
  BY <1>2, <1>3
<1>5. Short(u, i.pos, EndOf(i)) /\ low <= i.pos
  BY <1>2, <1>4 DEF Short, n
<1>6. InOrder(u, low, EndOf(i))
  <2>1. \A k \in 1..n : low <= u[k].pos /\ EndOf(u[k]) <= EndOf(i) /\ u[k].size >= MIN_MATCH
    BY <1>3, <1>4
  <2>2. \A j, k \in 1..n : j < k => u[j].pos < u[k].pos /\ EndOf(u[j]) < EndOf(u[k])
    BY DEF InOrder, n
  <2> QED BY <2>1, <2>2 DEF InOrder, n
<1>7. InOrder(v, low, EndOf(i))
  <2>1. EndOf(i) <= EndOf(i)
    BY <1>2
  <2> QED BY <1>2, <1>5, <1>6, <2>1, PushInOrder DEF v
<1>8. ASSUME NEW j \in 1..(n + 1), NEW k \in 1..(n + 1), j < k
      PROVE  EndOf(v[j]) <= v[k].pos
  <2>1. j \in 1..n
    BY <1>1, <1>8
  <2>2. CASE k \in 1..n
    <3>1. EndOf(u[j]) <= u[k].pos
      BY <1>8, <2>1, <2>2 DEF Apart, n
    <3> QED BY <1>1, <2>1, <2>2, <3>1
  <2>3. CASE k = n + 1
    BY <1>1, <1>4, <2>1, <2>3
  <2> QED BY <1>1, <1>8, <2>2, <2>3
<1>9. Apart(v)
  BY <1>1, <1>8 DEF Apart
<1>10. ASSUME NEW p \in Int, NEW q \in Int, Short(u, p, q), i.pos < p, EndOf(i) < q
       PROVE  Short(v, p, q)
  <2>1. ASSUME NEW k \in 1..(n + 1)
        PROVE  v[k].pos < p /\ EndOf(v[k]) < q
    <3>1. CASE k \in 1..n
      BY <1>1, <1>10, <3>1 DEF Short, n
    <3>2. CASE k = n + 1
      BY <1>1, <1>10, <3>2
    <3> QED BY <1>1, <3>1, <3>2
  <2> QED BY <1>1, <2>1 DEF Short
<1> QED
  BY <1>1, <1>7, <1>9, <1>10 DEF v, n

\* One in front of those in order.
LEMMA FrontInOrder ==
  ASSUME NEW u \in Seq(Instrs), NEW low \in Int, NEW high \in Int, InOrder(u, low, high),
         NEW i \in Instrs, low <= i.pos, EndOf(i) <= high, i.size >= MIN_MATCH,
         \A k \in 1..Len(u) : i.pos < u[k].pos /\ EndOf(i) < EndOf(u[k])
  PROVE  /\ <<i>> \o u \in Seq(Instrs) /\ Len(<<i>> \o u) = Len(u) + 1 /\ InOrder(<<i>> \o u, low, high)
         /\ \A p, q \in Int : Short(u, p, q) /\ i.pos < p /\ EndOf(i) < q => Short(<<i>> \o u, p, q)
<1> DEFINE v == <<i>> \o u
           n == Len(u)
<1>1. n \in Nat /\ v \in Seq(Instrs) /\ Len(v) = n + 1 /\ v[1] = i /\ \A k \in 1..n : v[k + 1] = u[k]
  BY PushFacts
<1> HIDE DEF v, n
<1>2. ASSUME NEW k \in 1..(n + 1), k # 1
      PROVE  k - 1 \in 1..n /\ v[k] = u[k - 1]
  <2>1. k - 1 \in 1..n /\ (k - 1) + 1 = k
    BY <1>1, <1>2
  <2> QED BY <1>1, <2>1
<1>3. \A k \in 1..n : low <= u[k].pos /\ EndOf(u[k]) <= high /\ u[k].size >= MIN_MATCH
  BY DEF InOrder, n
<1>4. \A k \in 1..(n + 1) : low <= v[k].pos /\ EndOf(v[k]) <= high /\ v[k].size >= MIN_MATCH
  BY <1>1, <1>2, <1>3
<1>5. ASSUME NEW j \in 1..(n + 1), NEW k \in 1..(n + 1), j < k
      PROVE  v[j].pos < v[k].pos /\ EndOf(v[j]) < EndOf(v[k])
  <2>1. k # 1 /\ k - 1 \in 1..n /\ v[k] = u[k - 1]
    BY <1>2, <1>5
  <2>2. CASE j = 1
    BY <1>1, <2>1, <2>2 DEF n
  <2>3. CASE j # 1
    <3>1. j - 1 \in 1..n /\ v[j] = u[j - 1] /\ j - 1 < k - 1
      BY <1>2, <1>5, <2>3
    <3>2. u[j - 1].pos < u[k - 1].pos /\ EndOf(u[j - 1]) < EndOf(u[k - 1])
      BY <2>1, <3>1 DEF InOrder, n
    <3> QED BY <2>1, <3>1, <3>2
  <2> QED BY <2>2, <2>3
<1>6. InOrder(v, low, high)
  BY <1>1, <1>4, <1>5 DEF InOrder
<1>7. ASSUME NEW p \in Int, NEW q \in Int, Short(u, p, q), i.pos < p, EndOf(i) < q
      PROVE  Short(v, p, q)
  <2>1. ASSUME NEW k \in 1..(n + 1)
        PROVE  v[k].pos < p /\ EndOf(v[k]) < q
    <3>1. CASE k = 1
      BY <1>1, <1>7, <3>1
    <3>2. CASE k # 1
      BY <1>2, <1>7, <3>2 DEF Short, n
    <3> QED BY <3>1, <3>2
  <2> QED BY <1>1, <2>1 DEF Short
<1> QED
  BY <1>1, <1>6, <1>7 DEF v, n

LEMMA ShortGrows ==
  ASSUME NEW u \in Seq(Instrs), NEW p \in Int, NEW q \in Int, Short(u, p, q),
         NEW p2 \in Int, NEW q2 \in Int, p <= p2, q <= q2
  PROVE  Short(u, p2, q2)
<1>1. ASSUME NEW k \in 1..Len(u)
      PROVE  u[k].pos \in Int /\ EndOf(u[k]) \in Int
  <2>1. u[k] \in Instrs
    OBVIOUS
  <2> QED BY <2>1, InstrFacts
<1> QED
  BY <1>1 DEF Short

\* How far the first loop of xd3_iopt_flush_instructions has come with u: what is passed
\* does not overlap, and ends before what is not passed.
Sorted(c, u, low, high) ==
  /\ c.done \in Seq(Instrs) /\ c.todo \in Seq(Instrs) /\ DOMAIN c = {"done", "todo"} /\ Len(c.todo) >= 1
  /\ \E m \in Int : low <= m /\ InOrder(c.done, low, m) /\ InOrder(c.todo, m, high)
  /\ Apart(c.done)
  /\ \A p, q \in Int : Short(u, p, q) => Short(c.done, p, q) /\ Short(c.todo, p, q)

\* Its next state, given by what is passed and what is left.
LEMMA SortedNext ==
  ASSUME NEW u, NEW low \in Int, NEW high \in Int, NEW done \in Seq(Instrs), NEW todo \in Seq(Instrs), Len(todo) >= 1,
         NEW m \in Int, low <= m, InOrder(done, low, m), InOrder(todo, m, high), Apart(done),
         \A p, q \in Int : Short(u, p, q) => Short(done, p, q) /\ Short(todo, p, q)
  PROVE  Sorted([done |-> done, todo |-> todo], u, low, high)
<1> DEFINE c == [done |-> done, todo |-> todo]
<1>1. c.done = done /\ c.todo = todo /\ DOMAIN c = {"done", "todo"}
  OBVIOUS
<1> HIDE DEF c
<1>2. Sorted(c, u, low, high)
  BY <1>1 DEF Sorted
<1> QED
  BY <1>2 DEF c

\* A round of that loop, unless the flush is forced.
LEMMA ResolveOrder ==
  ASSUME NEW u, NEW low \in Int, NEW high \in Int, NEW c, Sorted(c, u, low, high)
  PROVE  LET b == Resolve(c, FALSE)
         IN  /\ Sorted(b, u, low, high)
             /\ Len(c.done) + Len(c.todo) >= 2 => Len(b.done) + Len(b.todo) >= 2
             /\ Resolved(c, FALSE) => b = c
             /\ ~ Resolved(c, FALSE) => Len(b.todo) < Len(c.todo)
<1> DEFINE b == Resolve(c, FALSE)
           D == c.done
           T == c.todo
           r1 == T[1]
           r2 == T[2]
           rest == SubSeq(T, 3, Len(T))
           s == Split(r1, r2)
<1>0. SUFFICES /\ Sorted(b, u, low, high)
               /\ Len(D) + Len(T) >= 2 => Len(b.done) + Len(b.todo) >= 2
               /\ Resolved(c, FALSE) => b = c
               /\ ~ Resolved(c, FALSE) => Len(b.todo) < Len(T)
  OBVIOUS
<1>1. /\ D \in Seq(Instrs) /\ T \in Seq(Instrs) /\ DOMAIN c = {"done", "todo"} /\ Len(T) >= 1 /\ Apart(D)
      /\ Len(D) \in Nat /\ Len(T) \in Nat
      /\ \A p, q \in Int : Short(u, p, q) => Short(D, p, q) /\ Short(T, p, q)
  BY DEF Sorted
<1>2. PICK m \in Int : low <= m /\ InOrder(D, low, m) /\ InOrder(T, m, high)
  BY DEF Sorted
<1>3. CASE Resolved(c, FALSE)
  BY <1>3 DEF Resolve
<1>4. CASE ~ Resolved(c, FALSE)
  <2>1. Len(T) >= 2 /\ (Len(T) = 2 => EndOf(r1) <= r2.pos)
    <3>1. ~ (Len(T) < 2) /\ ~ (Len(T) = 2 /\ EndOf(r1) > r2.pos)
      BY <1>4 DEF Resolved
    <3>2. Len(T) >= 2
      BY <1>1, <3>1
    <3>3. r1 \in Instrs /\ r2 \in Instrs
      BY <1>1, <3>2, RestFacts
    <3>4. r2.pos \in Int /\ EndOf(r1) \in Int
      BY <3>3, InstrFacts
    <3> QED BY <3>1, <3>2, <3>4
  <2>2. /\ r1 \in Instrs /\ r2 \in Instrs /\ rest \in Seq(Instrs) /\ Len(rest) = Len(T) - 2
        /\ \A k \in 1..(Len(T) - 2) : rest[k] = T[k + 2]
        /\ Tail(T) \in Seq(Instrs) /\ Len(Tail(T)) = Len(T) - 1
        /\ \A k \in 1..(Len(T) - 1) : Tail(T)[k] = T[k + 1]
    BY <1>1, <2>1, RestFacts
  <2>3. /\ r1.pos \in Int /\ EndOf(r1) \in Int /\ r1.pos < EndOf(r1) /\ m <= r1.pos /\ EndOf(r1) <= high /\ r1.size >= MIN_MATCH
        /\ r2.pos \in Int /\ EndOf(r2) \in Int /\ r2.pos < EndOf(r2) /\ EndOf(r2) <= high /\ r2.size >= MIN_MATCH
        /\ r1.pos < r2.pos /\ EndOf(r1) < EndOf(r2) /\ m >= 0
    <3>1. /\ m >= 0 /\ m <= r1.pos /\ EndOf(r1) <= high /\ r1.size >= MIN_MATCH
          /\ EndOf(r2) <= high /\ r2.size >= MIN_MATCH /\ r1.pos < r2.pos /\ EndOf(r1) < EndOf(r2)
      <4>1. 1 \in 1..Len(T) /\ 2 \in 1..Len(T) /\ 1 < 2
        BY <1>1, <2>1
      <4> QED BY <1>2, <4>1 DEF InOrder
    <3> QED BY <2>2, <3>1, InstrFacts
  <2>4. ASSUME NEW k \in 1..Len(rest)
        PROVE  /\ rest[k] \in Instrs /\ rest[k].pos \in Int /\ EndOf(rest[k]) \in Int
               /\ r2.pos < rest[k].pos /\ EndOf(r2) < EndOf(rest[k])
               /\ k = 1 \/ (1 \in 1..Len(rest) /\ rest[1].pos \in Int /\ rest[1].pos < rest[k].pos)
    <3>1. rest[k] \in Instrs
      BY <2>2
    <3>2. k + 2 \in 1..Len(T) /\ 2 \in 1..Len(T) /\ 2 < k + 2 /\ rest[k] = T[k + 2]
      BY <1>1, <2>1, <2>2
    <3>3. r2.pos < rest[k].pos /\ EndOf(r2) < EndOf(rest[k])
      BY <1>2, <3>2 DEF InOrder
    <3>4. CASE k # 1
      <4>1. 1 \in 1..Len(rest) /\ 3 \in 1..Len(T) /\ 3 < k + 2 /\ 1 \in 1..(Len(T) - 2) /\ 1 + 2 = 3
        BY <1>1, <2>2, <3>4
      <4>2. rest[1] = T[3] /\ rest[1] \in Instrs
        BY <2>2, <4>1
      <4>3. rest[1].pos < rest[k].pos
        BY <1>2, <3>2, <4>1, <4>2 DEF InOrder
      <4> QED BY <3>1, <3>3, <4>1, <4>2, <4>3, InstrFacts
    <3> QED BY <3>1, <3>3, <3>4, InstrFacts
  <2>5. ASSUME NEW p \in Int, NEW q \in Int, Short(u, p, q)
        PROVE  /\ r1.pos < p /\ EndOf(r1) < q /\ r2.pos < p /\ EndOf(r2) < q
               /\ Short(rest, p, q) /\ Short(Tail(T), p, q)
    <3>1. Short(T, p, q)
      BY <1>1, <2>5
    <3>2. 1 \in 1..Len(T) /\ 2 \in 1..Len(T)
      BY <1>1, <2>1
    <3>3. \A k \in 1..(Len(T) - 2) : k + 2 \in 1..Len(T)
      BY <1>1
    <3>4. \A k \in 1..(Len(T) - 1) : k + 1 \in 1..Len(T)
      BY <1>1
    <3>5. Short(rest, p, q)
      BY <2>2, <3>1, <3>3 DEF Short
    <3>6. Short(Tail(T), p, q)
      BY <2>2, <3>1, <3>4 DEF Short
    <3> QED BY <3>1, <3>2, <3>5, <3>6 DEF Short
  <2>6. ASSUME NEW x \in Int, 0 <= x, x <= r2.pos
        PROVE  InOrder(Tail(T), x, high) /\ InOrder(rest, x, high)
    <3>1. ASSUME NEW k \in 1..Len(Tail(T))
          PROVE  x <= Tail(T)[k].pos /\ EndOf(Tail(T)[k]) <= high /\ Tail(T)[k].size >= MIN_MATCH
      <4>1. k + 1 \in 1..Len(T) /\ Tail(T)[k] = T[k + 1] /\ 2 \in 1..Len(T) /\ T[k + 1] \in Instrs
        BY <1>1, <2>1, <2>2
      <4>2. EndOf(T[k + 1]) <= high /\ T[k + 1].size >= MIN_MATCH /\ (2 < k + 1 => r2.pos < T[k + 1].pos)
        BY <1>2, <4>1 DEF InOrder
      <4>3. T[k + 1].pos \in Int
        BY <4>1, InstrFacts
      <4>4. x <= T[k + 1].pos
        <5>1. CASE k = 1
          <6>1. T[k + 1] = r2
            BY <5>1
          <6> QED BY <2>6, <6>1
        <5>2. CASE k # 1
          BY <2>3, <2>6, <4>2, <4>3, <5>2, SMTT(60)
        <5> QED BY <5>1, <5>2
      <4> QED BY <4>1, <4>2, <4>4
    <3>2. ASSUME NEW j \in 1..Len(Tail(T)), NEW k \in 1..Len(Tail(T)), j < k
          PROVE  Tail(T)[j].pos < Tail(T)[k].pos /\ EndOf(Tail(T)[j]) < EndOf(Tail(T)[k])
      <4>1. j + 1 \in 1..Len(T) /\ k + 1 \in 1..Len(T) /\ j + 1 < k + 1 /\ Tail(T)[j] = T[j + 1] /\ Tail(T)[k] = T[k + 1]
        BY <1>1, <2>1, <2>2, <3>2
      <4> QED BY <1>2, <4>1 DEF InOrder
    <3>3. InOrder(Tail(T), x, high)
      BY <2>6, <3>1, <3>2 DEF InOrder
    <3>4. \A k \in 1..Len(rest) : k + 2 \in 1..Len(T) /\ rest[k] = T[k + 2]
      BY <1>1, <2>2
    <3>5. ASSUME NEW k \in 1..Len(rest)
          PROVE  x <= rest[k].pos /\ EndOf(rest[k]) <= high /\ rest[k].size >= MIN_MATCH
      <4>1. EndOf(rest[k]) <= high /\ rest[k].size >= MIN_MATCH
        BY <1>2, <3>4 DEF InOrder
      <4>2. x <= rest[k].pos
        <5>1. r2.pos < rest[k].pos /\ rest[k].pos \in Int
          BY <2>4
        <5> HIDE DEF r2, rest
        <5> QED BY <2>3, <2>6, <5>1
      <4> QED BY <4>1, <4>2
    <3>6. ASSUME NEW j \in 1..Len(rest), NEW k \in 1..Len(rest), j < k
          PROVE  rest[j].pos < rest[k].pos /\ EndOf(rest[j]) < EndOf(rest[k])
      <4>1. j + 2 < k + 2
        BY <3>6
      <4> QED BY <1>2, <3>4, <4>1 DEF InOrder
    <3>7. InOrder(rest, x, high)
      BY <2>6, <3>5, <3>6 DEF InOrder
    <3> QED BY <3>3, <3>7
  <2> HIDE DEF D, T, r1, r2, rest, s
  <2> DEFINE Fine(v) == /\ Sorted(v, u, low, high) /\ Len(v.todo) < Len(T)
                        /\ Len(D) + Len(T) >= 2 => Len(v.done) + Len(v.todo) >= 2
  <2>7. CASE EndOf(r1) <= r2.pos
    <3> DEFINE v == [done |-> Append(D, r1), todo |-> Tail(T)]
    <3>1. b = v
      BY <1>4, <2>7 DEF Resolve, D, T, r1, r2
    <3>2. /\ Append(D, r1) \in Seq(Instrs) /\ Len(Append(D, r1)) = Len(D) + 1
          /\ InOrder(Append(D, r1), low, EndOf(r1)) /\ Apart(Append(D, r1))
          /\ \A p, q \in Int : Short(D, p, q) /\ r1.pos < p /\ EndOf(r1) < q => Short(Append(D, r1), p, q)
      BY <1>1, <1>2, <2>2, <2>3, PushApart
    <3>3. InOrder(Tail(T), EndOf(r1), high) /\ low <= EndOf(r1) /\ Len(Tail(T)) >= 1
      BY <1>1, <1>2, <2>1, <2>2, <2>3, <2>6, <2>7
    <3>4. \A p, q \in Int : Short(u, p, q) => Short(Append(D, r1), p, q) /\ Short(Tail(T), p, q)
      BY <1>1, <2>5, <3>2
    <3>5. Sorted(v, u, low, high)
      BY <2>2, <2>3, <3>2, <3>3, <3>4, SortedNext
    <3>6. Fine(v)
      BY <1>1, <2>1, <2>2, <3>2, <3>5
    <3> QED BY <1>4, <3>1, <3>6
  <2>8. CASE ~ (EndOf(r1) <= r2.pos)
    <3>0. EndOf(r1) > r2.pos /\ Len(T) >= 3 /\ rest # <<>> /\ 1 \in 1..Len(rest)
      <4>1. EndOf(r1) > r2.pos
        BY <2>3, <2>8
      <4>2. Len(T) >= 3
        <5> DEFINE n == Len(T)
        <5>1. n \in Nat
          BY <1>1
        <5>2. n >= 2 /\ n # 2
          BY <2>1, <2>8
        <5> HIDE DEF n
        <5>3. n >= 3
          BY <5>1, <5>2
        <5> QED BY <5>3 DEF n
      <4>3. Len(rest) >= 1
        BY <1>1, <2>2, <4>2
      <4>4. rest # <<>> /\ 1 \in 1..Len(rest)
        BY <2>2, <4>3
      <4> QED BY <4>1, <4>2, <4>4
    <3>1. CASE rest[1].pos <= EndOf(r1) + 1
      <4> DEFINE w == <<r1>> \o rest
                 v == [done |-> D, todo |-> w]
      <4>1. b = v
        <5>1. b = [c EXCEPT !.todo = w]
          BY <1>4, <2>8, <3>0, <3>1 DEF Resolve, T, r1, r2, rest
        <5> QED BY <1>1, <5>1 DEF D
      <4>2. /\ w \in Seq(Instrs) /\ Len(w) = Len(rest) + 1 /\ InOrder(w, m, high)
            /\ \A p, q \in Int : Short(rest, p, q) /\ r1.pos < p /\ EndOf(r1) < q => Short(w, p, q)
        <5>1. InOrder(rest, m, high)
          BY <1>2, <2>3, <2>6
        <5>2. \A k \in 1..Len(rest) : r1.pos < rest[k].pos /\ EndOf(r1) < EndOf(rest[k])
          BY <2>3, <2>4
        <5> QED BY <1>2, <2>2, <2>3, <5>1, <5>2, FrontInOrder
      <4> HIDE DEF w
      <4>3. \A p, q \in Int : Short(u, p, q) => Short(D, p, q) /\ Short(w, p, q)
        BY <1>1, <2>5, <4>2
      <4>4. Len(w) = Len(T) - 1 /\ Len(w) >= 2
        BY <1>1, <2>2, <3>0, <4>2
      <4>5. Sorted(v, u, low, high)
        <5>1. Len(w) >= 1
          BY <4>2, <4>4
        <5> QED BY <1>1, <1>2, <4>2, <4>3, <5>1, SortedNext
      <4>6. Fine(v)
        BY <1>1, <4>4, <4>5
      <4> QED BY <1>4, <4>1, <4>6
    <3>2. CASE ~ (rest[1].pos <= EndOf(r1) + 1)
      <4>0. EndOf(r1) < rest[1].pos /\ \A k \in 1..Len(rest) : EndOf(r1) < rest[k].pos
        <5>1. EndOf(r1) < rest[1].pos /\ rest[1].pos \in Int
          BY <2>3, <2>4, <3>0, <3>2
        <5>2. ASSUME NEW k \in 1..Len(rest)
              PROVE  EndOf(r1) < rest[k].pos
          BY <2>3, <2>4, <5>1, SMTT(60)
        <5> QED BY <5>1, <5>2
      <4>1. CASE ~ TooClose(r1, r2)
        <5>1. PICK cut1, cut2 : Cuts(r1, r2, cut1, cut2)
          BY <2>2, <3>0, <4>1, SplitCuts
        <5> DEFINE w == <<s[2]>> \o rest
                   v == [done |-> Append(D, s[1]), todo |-> w]
        <5>2. b = v
          BY <1>4, <2>8, <3>0, <3>2, <4>1 DEF Resolve, D, T, r1, r2, rest, s
        <5>3. /\ cut1 \in Nat /\ cut2 \in Nat /\ cut1 < r1.size /\ cut2 < r2.size
              /\ EndOf(r1) - cut1 = r2.pos + cut2
              /\ r1.size - cut1 >= MIN_MATCH /\ r2.size - cut2 >= MIN_MATCH
              /\ s[1] = [r1 EXCEPT !.size = @ - cut1]
              /\ s[2] = [r2 EXCEPT !.size = @ - cut2, !.pos = @ + cut2, !.addr = @ + cut2]
          BY <2>3, <5>1 DEF Cuts, s
        <5>4. /\ s[1].pos = r1.pos /\ s[1].size = r1.size - cut1
              /\ s[2].pos = r2.pos + cut2 /\ s[2].size = r2.size - cut2
          BY <2>2, <5>3 DEF Instrs
        <5>5. /\ r1.size \in Nat /\ r2.size \in Nat /\ EndOf(r1) = r1.pos + r1.size /\ EndOf(r2) = r2.pos + r2.size
          BY <2>2, InstrFacts
        <5>6. EndOf(s[1]) = EndOf(r1) - cut1 /\ EndOf(s[2]) = EndOf(r2)
          <6>1. EndOf(s[1]) = r1.pos + (r1.size - cut1) /\ EndOf(s[2]) = (r2.pos + cut2) + (r2.size - cut2)
            BY <5>4 DEF EndOf
          <6> QED BY <2>3, <5>3, <5>5, <6>1
        <5>7. s[1] \in Instrs /\ s[2] \in Instrs
          <6>1. r1.size - cut1 \in Nat \ {0} /\ r2.size - cut2 \in Nat \ {0} /\ r2.pos + cut2 \in Int /\ r2.addr + cut2 \in Int
            <7>1. r2.addr \in Int
              BY <2>2, InstrFacts
            <7> QED BY <2>3, <5>3, <5>5, <7>1
          <6>2. r1.size - cut1 \in Nat \ {0} => [r1 EXCEPT !.size = @ - cut1] \in Instrs
            BY <2>2 DEF Instrs
          <6>3. r2.size - cut2 \in Nat \ {0} /\ r2.pos + cut2 \in Int /\ r2.addr + cut2 \in Int
                  => [r2 EXCEPT !.size = @ - cut2, !.pos = @ + cut2, !.addr = @ + cut2] \in Instrs
            BY <2>2 DEF Instrs
          <6> QED BY <5>3, <6>1, <6>2, <6>3
        <5>8. /\ m <= s[1].pos /\ s[1].size >= MIN_MATCH /\ s[2].size >= MIN_MATCH
              /\ EndOf(s[1]) = s[2].pos /\ EndOf(s[2]) <= high /\ s[2].pos <= EndOf(r1) /\ s[2].pos >= r2.pos
              /\ s[2].pos < EndOf(s[2]) /\ s[1].pos < EndOf(s[1]) /\ EndOf(s[1]) <= EndOf(r1)
              /\ EndOf(s[1]) \in Int /\ s[2].pos \in Int /\ EndOf(s[2]) \in Int /\ s[1].pos \in Int
          <6>1. EndOf(s[1]) = s[2].pos /\ s[2].pos \in Int /\ EndOf(s[2]) \in Int /\ s[1].pos \in Int /\ s[2].pos < EndOf(s[2]) /\ s[1].pos < EndOf(s[1])
            BY <5>3, <5>4, <5>6, <5>7, InstrFacts
          <6>2. EndOf(r1) - cut1 <= EndOf(r1) /\ r2.pos + cut2 >= r2.pos
            BY <2>3, <5>3
          <6> QED BY <2>3, <5>3, <5>4, <5>6, <6>1, <6>2
        <5> HIDE DEF s
        <5>9. /\ Append(D, s[1]) \in Seq(Instrs) /\ Len(Append(D, s[1])) = Len(D) + 1
              /\ InOrder(Append(D, s[1]), low, EndOf(s[1])) /\ Apart(Append(D, s[1]))
              /\ \A p, q \in Int : Short(D, p, q) /\ s[1].pos < p /\ EndOf(s[1]) < q => Short(Append(D, s[1]), p, q)
          BY <1>1, <1>2, <5>7, <5>8, PushApart
        <5>10. /\ w \in Seq(Instrs) /\ Len(w) = Len(rest) + 1 /\ InOrder(w, s[2].pos, high)
               /\ \A p, q \in Int : Short(rest, p, q) /\ s[2].pos < p /\ EndOf(s[2]) < q => Short(w, p, q)
          <6>1. \A k \in 1..Len(rest) : s[2].pos < rest[k].pos /\ EndOf(s[2]) < EndOf(rest[k])
            <7>1. ASSUME NEW k \in 1..Len(rest)
                  PROVE  s[2].pos < rest[k].pos /\ EndOf(s[2]) < EndOf(rest[k])
              <8>1. EndOf(r1) < rest[k].pos /\ EndOf(r2) < EndOf(rest[k]) /\ rest[k].pos \in Int
                BY <2>4, <4>0
              <8>2. EndOf(s[2]) = EndOf(r2)
                BY <5>6
              <8> QED BY <2>3, <5>8, <8>1, <8>2
            <7> QED BY <7>1
          <6>2. InOrder(rest, r2.pos, high) /\ Len(rest) \in Nat
            BY <2>2, <2>3, <2>6
          <6>3. InOrder(rest, s[2].pos, high)
            <7>1. \A k \in 1..Len(rest) : s[2].pos <= rest[k].pos
              BY <2>4, <5>8, <6>1
            <7>2. s[2].pos >= 0
              BY <2>3, <5>8
            <7> QED BY <6>2, <7>1, <7>2 DEF InOrder
          <6>4. s[2].pos <= s[2].pos
            BY <5>8
          <6> QED BY <2>2, <5>7, <5>8, <6>1, <6>3, <6>4, FrontInOrder
        <5> HIDE DEF w
        <5>11. \A p, q \in Int : Short(u, p, q) => Short(Append(D, s[1]), p, q) /\ Short(w, p, q)
          <6>1. ASSUME NEW p \in Int, NEW q \in Int, Short(u, p, q)
                PROVE  Short(Append(D, s[1]), p, q) /\ Short(w, p, q)
            <7>1. /\ r1.pos < p /\ EndOf(r1) < q /\ r2.pos < p /\ EndOf(r2) < q /\ Short(rest, p, q) /\ Short(D, p, q)
              BY <1>1, <2>5, <6>1
            <7>2. s[1].pos < p /\ EndOf(s[1]) < q /\ EndOf(s[2]) < q
              <8>1. s[1].pos = r1.pos /\ EndOf(s[2]) = EndOf(r2)
                BY <5>4, <5>6
              <8> QED BY <2>3, <5>8, <7>1, <8>1
            <7>3. PICK z \in 1..Len(rest) : z = 1
              BY <3>0
            <7>4. s[2].pos < p
              <8>1. rest[z].pos < p
                BY <7>1 DEF Short
              <8>2. rest[z].pos \in Int /\ EndOf(r1) < rest[z].pos
                BY <2>4, <4>0
              <8> QED BY <2>3, <5>8, <8>1, <8>2
            <7> QED BY <5>9, <5>10, <7>1, <7>2, <7>4
          <6> QED BY <6>1
        <5>12. Len(w) = Len(T) - 1 /\ Len(w) >= 2
          BY <1>1, <2>2, <3>0, <5>10
        <5>13. low <= EndOf(s[1]) /\ InOrder(w, EndOf(s[1]), high)
          <6>1. low <= EndOf(s[1])
            BY <1>2, <5>8
          <6>2. EndOf(s[1]) = s[2].pos
            BY <5>8
          <6> QED BY <5>10, <6>1, <6>2
        <5>14. Sorted(v, u, low, high)
          <6>1. Len(w) >= 1
            BY <5>12, <5>10
          <6> QED BY <5>8, <5>9, <5>10, <5>11, <5>13, <6>1, SortedNext
        <5>15. Fine(v)
          BY <1>1, <5>9, <5>12, <5>14
        <5> QED BY <1>4, <5>2, <5>15
      <4>2. CASE TooClose(r1, r2) /\ r1.size < r2.size
        <5> DEFINE v == [done |-> D, todo |-> Tail(T)]
        <5>1. b = v
          <6>1. b = [c EXCEPT !.todo = Tail(@)]
            BY <1>4, <2>8, <3>0, <3>2, <4>2 DEF Resolve, T, r1, r2, rest
          <6> QED BY <1>1, <6>1 DEF D, T
        <5>2. InOrder(Tail(T), m, high) /\ Len(Tail(T)) >= 2
          BY <1>1, <1>2, <2>2, <2>3, <2>6, <3>0
        <5>3. \A p, q \in Int : Short(u, p, q) => Short(D, p, q) /\ Short(Tail(T), p, q)
          BY <1>1, <2>5
        <5>4. Sorted(v, u, low, high)
          <6>1. Len(Tail(T)) >= 1
            BY <1>1, <2>2, <5>2
          <6> QED BY <1>1, <1>2, <2>2, <5>2, <5>3, <6>1, SortedNext
        <5>5. Fine(v)
          BY <1>1, <2>2, <5>2, <5>4
        <5> QED BY <1>4, <5>1, <5>5
      <4>3. CASE TooClose(r1, r2) /\ ~ (r1.size < r2.size)
        <5> DEFINE v == [done |-> Append(D, r1), todo |-> rest]
        <5>1. b = v
          BY <1>4, <2>8, <3>0, <3>2, <4>3 DEF Resolve, D, T, r1, r2, rest
        <5>2. /\ Append(D, r1) \in Seq(Instrs) /\ Len(Append(D, r1)) = Len(D) + 1
              /\ InOrder(Append(D, r1), low, EndOf(r1)) /\ Apart(Append(D, r1))
              /\ \A p, q \in Int : Short(D, p, q) /\ r1.pos < p /\ EndOf(r1) < q => Short(Append(D, r1), p, q)
          BY <1>1, <1>2, <2>2, <2>3, PushApart
        <5>3. InOrder(rest, EndOf(r1), high) /\ low <= EndOf(r1) /\ Len(rest) >= 1
          <6>1. InOrder(rest, r2.pos, high)
            BY <2>3, <2>6
          <6>2. \A k \in 1..Len(rest) : EndOf(r1) <= rest[k].pos
            BY <2>3, <2>4, <4>0
          <6>3. InOrder(rest, EndOf(r1), high)
            <7>1. EndOf(r1) >= 0
              BY <1>2, <2>3
            <7> QED BY <6>1, <6>2, <7>1 DEF InOrder
          <6> QED BY <1>1, <1>2, <2>2, <2>3, <3>0, <6>3
        <5>4. \A p, q \in Int : Short(u, p, q) => Short(Append(D, r1), p, q) /\ Short(rest, p, q)
          BY <1>1, <2>5, <5>2
        <5>5. Sorted(v, u, low, high)
          BY <2>2, <2>3, <5>2, <5>3, <5>4, SortedNext
        <5>6. Fine(v)
          BY <1>1, <2>1, <2>2, <5>2, <5>3, <5>5
        <5> QED BY <1>4, <5>1, <5>6
      <4> QED BY <4>1, <4>2, <4>3
    <3> QED BY <3>1, <3>2
  <2> QED BY <2>7, <2>8
<1> QED
  BY <1>3, <1>4

\* What is passed and the last ones, together.
LEMMA JoinOrder ==
  ASSUME NEW D \in Seq(Instrs), NEW T \in Seq(Instrs), NEW low \in Int, NEW m \in Int, NEW high \in Int,
         low <= m, InOrder(D, low, m), Apart(D), InOrder(T, m, high), Len(T) >= 1, Len(T) <= 2
  PROVE  /\ D \o T \in Seq(Instrs) /\ Len(D \o T) = Len(D) + Len(T) /\ InOrder(D \o T, low, high)
         /\ \A p, q \in Int : Short(D, p, q) /\ Short(T, p, q) => Short(D \o T, p, q)
         /\ \A j, k \in 1..Len(D \o T) : j < k /\ j + 2 <= Len(D \o T) => EndOf((D \o T)[j]) <= (D \o T)[k].pos
<1> DEFINE v == D \o T
           a == Len(D)
           b == Len(T)
<1>1. /\ a \in Nat /\ b \in Nat /\ v \in Seq(Instrs) /\ Len(v) = a + b
      /\ \A k \in 1..a : v[k] = D[k]
      /\ \A k \in 1..b : v[k + a] = T[k]
  OBVIOUS
<1>2. \A k \in 1..a : D[k].pos \in Int /\ EndOf(D[k]) \in Int /\ D[k].pos < EndOf(D[k])
  <2>1. ASSUME NEW k \in 1..a
        PROVE  D[k].pos \in Int /\ EndOf(D[k]) \in Int /\ D[k].pos < EndOf(D[k])
    <3>1. D[k] \in Instrs
      OBVIOUS
    <3> QED BY <3>1, InstrFacts
  <2> QED BY <2>1
<1>3. \A k \in 1..b : T[k].pos \in Int /\ EndOf(T[k]) \in Int /\ T[k].pos < EndOf(T[k])
  <2>1. ASSUME NEW k \in 1..b
        PROVE  T[k].pos \in Int /\ EndOf(T[k]) \in Int /\ T[k].pos < EndOf(T[k])
    <3>1. T[k] \in Instrs
      OBVIOUS
    <3> QED BY <3>1, InstrFacts
  <2> QED BY <2>1
<1> HIDE DEF v, a, b
<1>4. \A k \in 1..a : low <= D[k].pos /\ EndOf(D[k]) <= m /\ D[k].size >= MIN_MATCH
  BY DEF InOrder, a
<1>5. \A k \in 1..b : m <= T[k].pos /\ EndOf(T[k]) <= high /\ T[k].size >= MIN_MATCH
  BY DEF InOrder, b
<1>6. 1 \in 1..b
  BY <1>1 DEF b
<1>7. m < high
  BY <1>3, <1>5, <1>6
<1>8. ASSUME NEW k \in 1..(a + b), k \notin 1..a
      PROVE  k - a \in 1..b /\ v[k] = T[k - a]
  <2>1. k - a \in 1..b /\ (k - a) + a = k
    BY <1>1, <1>8
  <2> QED BY <1>1, <2>1
<1>9. ASSUME NEW k \in 1..(a + b)
      PROVE  low <= v[k].pos /\ EndOf(v[k]) <= high /\ v[k].size >= MIN_MATCH
  <2>1. CASE k \in 1..a
    <3>1. low <= D[k].pos /\ EndOf(D[k]) <= m /\ D[k].size >= MIN_MATCH /\ EndOf(D[k]) \in Int
      BY <1>2, <1>4, <2>1
    <3> QED BY <1>1, <1>7, <2>1, <3>1
  <2>2. CASE k \notin 1..a
    <3>1. k - a \in 1..b /\ v[k] = T[k - a]
      BY <1>8, <2>2
    <3>2. m <= T[k - a].pos /\ EndOf(T[k - a]) <= high /\ T[k - a].size >= MIN_MATCH /\ T[k - a].pos \in Int
      BY <1>3, <1>5, <3>1
    <3> QED BY <3>1, <3>2
  <2> QED BY <2>1, <2>2
<1>10. ASSUME NEW j \in 1..a, NEW k \in 1..(a + b), j < k
       PROVE  EndOf(v[j]) <= v[k].pos /\ v[j].pos < v[k].pos /\ EndOf(v[j]) < EndOf(v[k])
  <2>1. v[j] = D[j] /\ D[j].pos \in Int /\ EndOf(D[j]) \in Int /\ D[j].pos < EndOf(D[j]) /\ EndOf(D[j]) <= m
    BY <1>1, <1>2, <1>4
  <2>2. CASE k \in 1..a
    <3>1. v[k] = D[k] /\ D[k].pos \in Int /\ EndOf(D[k]) \in Int /\ D[k].pos < EndOf(D[k])
      BY <1>1, <1>2, <2>2
    <3>2. EndOf(D[j]) <= D[k].pos
      BY <1>10, <2>2 DEF Apart, a
    <3> QED BY <2>1, <3>1, <3>2
  <2>3. CASE k \notin 1..a
    <3>1. k - a \in 1..b /\ v[k] = T[k - a]
      BY <1>8, <2>3
    <3>2. /\ T[k - a].pos \in Int /\ EndOf(T[k - a]) \in Int /\ T[k - a].pos < EndOf(T[k - a])
          /\ m <= T[k - a].pos
      BY <1>3, <1>5, <3>1
    <3> QED BY <2>1, <3>1, <3>2, SMTT(60)
  <2> QED BY <2>2, <2>3
<1>11. ASSUME NEW j \in 1..(a + b), NEW k \in 1..(a + b), j < k
       PROVE  v[j].pos < v[k].pos /\ EndOf(v[j]) < EndOf(v[k])
  <2>1. CASE j \in 1..a
    BY <1>10, <1>11, <2>1
  <2>2. CASE j \notin 1..a
    <3>1. k \notin 1..a
      BY <1>1, <1>11, <2>2
    <3>2. j - a \in 1..b /\ v[j] = T[j - a] /\ k - a \in 1..b /\ v[k] = T[k - a] /\ j - a < k - a
      BY <1>1, <1>8, <1>11, <2>2, <3>1, SMTT(60)
    <3> QED BY <3>2 DEF InOrder, b
  <2> QED BY <2>1, <2>2
<1>12. InOrder(v, low, high)
  BY <1>1, <1>9, <1>11 DEF InOrder
<1>13. ASSUME NEW p \in Int, NEW q \in Int, Short(D, p, q), Short(T, p, q)
       PROVE  Short(v, p, q)
  <2>1. ASSUME NEW k \in 1..(a + b)
        PROVE  v[k].pos < p /\ EndOf(v[k]) < q
    <3>1. CASE k \in 1..a
      BY <1>1, <1>13, <3>1 DEF Short, a
    <3>2. CASE k \notin 1..a
      <4>1. k - a \in 1..b /\ v[k] = T[k - a]
        BY <1>8, <3>2
      <4> QED BY <1>13, <4>1 DEF Short, b
    <3> QED BY <3>1, <3>2
  <2> QED BY <1>1, <2>1 DEF Short
<1>14. ASSUME NEW j \in 1..(a + b), NEW k \in 1..(a + b), j < k, j + 2 <= a + b
       PROVE  EndOf(v[j]) <= v[k].pos
  <2>1. b <= 2
    BY DEF b
  <2>2. j \in 1..a
    BY <1>1, <1>14, <2>1
  <2> QED BY <1>10, <1>14, <2>2
<1> QED
  BY <1>1, <1>12, <1>13, <1>14 DEF v, a, b

\* After k rounds.
Come(c, u, low, high, k) ==
  /\ Sorted(c, u, low, high)
  /\ Len(u) >= 2 => Len(c.done) + Len(c.todo) >= 2
  /\ Resolved(c, FALSE) \/ Len(c.todo) + k <= Len(u)

\* The first loop, when the flush is not forced: instructions keep their order, none
\* reaches further than those before did, and only the last two may overlap.
LEMMA CompactOrder ==
  ASSUME NEW u \in Seq(Instrs), NEW low \in Int, NEW high \in Int, InOrder(u, low, high), Len(u) >= 1
  PROVE  LET kept == Compact(u, FALSE)
         IN  /\ kept \in Seq(Instrs) /\ InOrder(kept, low, high)
             /\ Len(kept) >= 1 /\ (Len(u) >= 2 => Len(kept) >= 2)
             /\ \A p, q \in Int : Short(u, p, q) => Short(kept, p, q)
             /\ \A j, k \in 1..Len(kept) : j < k /\ j + 2 <= Len(kept) => EndOf(kept[j]) <= kept[k].pos
<1> DEFINE kept == Compact(u, FALSE)
           n == Len(u)
<1>0. SUFFICES /\ kept \in Seq(Instrs) /\ InOrder(kept, low, high)
               /\ Len(kept) >= 1 /\ (Len(u) >= 2 => Len(kept) >= 2)
               /\ \A p, q \in Int : Short(u, p, q) => Short(kept, p, q)
               /\ \A j, k \in 1..Len(kept) : j < k /\ j + 2 <= Len(kept) => EndOf(kept[j]) <= kept[k].pos
  OBVIOUS
<1>1. n \in Nat /\ n >= 1
  OBVIOUS
<1>2. PICK f : /\ f[0] = NonePassed(u)
               /\ kept = f[n].done \o f[n].todo
               /\ \A k \in Nat : k < n => f[k + 1] = Resolve(f[k], FALSE)
  <2>1. Len(u) \in Nat
    BY <1>1
  <2> QED BY <2>1, CompactByRounds
<1> HIDE DEF kept, n
<1> DEFINE X == {k \in Nat : k <= n => Come(f[k], u, low, high, k)}
<1>3. 0 \in X
  <2> DEFINE w == NonePassed(u)
  <2>1. w.done = <<>> /\ w.todo = u /\ DOMAIN w = {"done", "todo"}
    BY DEF NonePassed
  <2>2. f[0] = w
    BY <1>2
  <2> HIDE DEF w
  <2>3. <<>> \in Seq(Instrs) /\ Len(<<>>) = 0
    OBVIOUS
  <2>4. InOrder(<<>>, low, low) /\ Apart(<<>>) /\ \A p, q \in Int : Short(<<>>, p, q)
    <3> DEFINE z == Len(<<>>)
    <3>1. z = 0
      OBVIOUS
    <3> HIDE DEF z
    <3>2. 1..z = {}
      BY <3>1
    <3> QED BY <3>2 DEF InOrder, Apart, Short, z
  <2>5. Sorted(w, u, low, high)
    <3>1. \E m \in Int : low <= m /\ InOrder(w.done, low, m) /\ InOrder(w.todo, m, high)
      <4>1. low <= low
        OBVIOUS
      <4> QED BY <2>1, <2>4, <4>1
    <3>2. Len(w.todo) >= 1 /\ w.done \in Seq(Instrs) /\ w.todo \in Seq(Instrs)
      BY <1>1, <2>1, <2>3 DEF n
    <3>3. Apart(w.done) /\ \A p, q \in Int : Short(u, p, q) => Short(w.done, p, q) /\ Short(w.todo, p, q)
      BY <2>1, <2>4
    <3> QED BY <2>1, <3>1, <3>2, <3>3 DEF Sorted
  <2>6. Len(w.todo) = n /\ Len(w.done) = 0
    BY <2>1, <2>3 DEF n
  <2>7. Come(w, u, low, high, 0)
    <3>1. Len(u) = n /\ 0 + n = n /\ n + 0 <= n
      BY <1>1 DEF n
    <3> QED BY <1>1, <2>5, <2>6, <3>1 DEF Come
  <2> QED BY <2>2, <2>7
<1>4. ASSUME NEW k \in Nat, k \in X
      PROVE  k + 1 \in X
  <2>1. SUFFICES ASSUME k + 1 <= n
                 PROVE  Come(f[k + 1], u, low, high, k + 1)
    OBVIOUS
  <2> DEFINE c == f[k]
             b == Resolve(c, FALSE)
  <2>2. Come(c, u, low, high, k) /\ f[k + 1] = b
    <3>1. k < n /\ k <= n
      BY <1>1, <2>1
    <3>2. Come(f[k], u, low, high, k)
      BY <1>4, <3>1
    <3>3. f[k + 1] = Resolve(f[k], FALSE)
      BY <1>2, <3>1
    <3> QED BY <3>2, <3>3
  <2> HIDE DEF c
  <2>3. /\ Sorted(c, u, low, high) /\ (n >= 2 => Len(c.done) + Len(c.todo) >= 2)
        /\ Resolved(c, FALSE) \/ Len(c.todo) + k <= n
    BY <2>2 DEF Come, n
  <2>4. /\ Sorted(b, u, low, high)
        /\ Len(c.done) + Len(c.todo) >= 2 => Len(b.done) + Len(b.todo) >= 2
        /\ Resolved(c, FALSE) => b = c
        /\ ~ Resolved(c, FALSE) => Len(b.todo) < Len(c.todo)
    BY <2>3, ResolveOrder
  <2> HIDE DEF b
  <2>5. Resolved(b, FALSE) \/ Len(b.todo) + (k + 1) <= n
    <3>1. CASE Resolved(c, FALSE)
      BY <2>4, <3>1
    <3>2. CASE ~ Resolved(c, FALSE)
      <4> DEFINE x == Len(c.todo)
                 y == Len(b.todo)
      <4>0. c.todo \in Seq(Instrs) /\ b.todo \in Seq(Instrs)
        BY <2>3, <2>4 DEF Sorted
      <4>1. x \in Nat /\ y \in Nat
        BY <4>0
      <4>5. y < x /\ x + k <= n
        BY <2>3, <2>4, <3>2
      <4> HIDE DEF x, y
      <4>2. y + (k + 1) <= n
        BY <1>1, <4>1, <4>5
      <4> QED BY <4>2 DEF y
    <3> QED BY <3>1, <3>2
  <2>6. n >= 2 => Len(b.done) + Len(b.todo) >= 2
    BY <2>3, <2>4
  <2>7. Come(b, u, low, high, k + 1)
    BY <2>4, <2>5, <2>6 DEF Come, n
  <2> QED BY <2>2, <2>7
<1>5. \A k \in Nat : k \in X
  <2> HIDE DEF X
  <2> QED BY <1>3, <1>4, NatInduct
<1>6. Come(f[n], u, low, high, n)
  <2> HIDE DEF X
  <2>1. n \in X
    BY <1>1, <1>5
  <2>2. n <= n
    BY <1>1
  <2> QED BY <2>1, <2>2 DEF X
<1> DEFINE c == f[n]
           a == Len(c.done)
           b == Len(c.todo)
<1>7. /\ Sorted(c, u, low, high) /\ (n >= 2 => a + b >= 2)
      /\ Resolved(c, FALSE) \/ b + n <= n
      /\ kept = c.done \o c.todo
  BY <1>2, <1>6 DEF Come, n
<1> HIDE DEF X, c
<1>8. c.done \in Seq(Instrs) /\ c.todo \in Seq(Instrs) /\ b >= 1 /\ a \in Nat /\ b \in Nat
  BY <1>7 DEF Sorted
<1>9. b <= 2
  <2>1. CASE Resolved(c, FALSE)
    <3>1. b < 2 \/ b = 2
      BY <2>1 DEF Resolved
    <3> HIDE DEF b
    <3> QED BY <1>8, <3>1
  <2>2. CASE b + n <= n
    <3> HIDE DEF b
    <3> QED BY <1>1, <1>8, <2>2
  <2> QED BY <1>7, <2>1, <2>2
<1>10. /\ kept \in Seq(Instrs) /\ Len(kept) = a + b /\ InOrder(kept, low, high)
       /\ \A p, q \in Int : Short(c.done, p, q) /\ Short(c.todo, p, q) => Short(kept, p, q)
       /\ \A j, k \in 1..Len(kept) : j < k /\ j + 2 <= Len(kept) => EndOf(kept[j]) <= kept[k].pos
  <2>1. PICK m \in Int : low <= m /\ InOrder(c.done, low, m) /\ InOrder(c.todo, m, high)
    BY <1>7 DEF Sorted
  <2>2. Apart(c.done)
    BY <1>7 DEF Sorted
  <2> QED BY <1>7, <1>8, <1>9, <2>1, <2>2, JoinOrder
<1>11. \A p, q \in Int : Short(u, p, q) => Short(kept, p, q)
  BY <1>7, <1>10 DEF Sorted
<1>12. Len(kept) >= 1 /\ (n >= 2 => Len(kept) >= 2)
  <2> HIDE DEF a, b
  <2> QED BY <1>7, <1>8, <1>10
<1> QED
  BY <1>10, <1>11, <1>12 DEF n

\* The offset is where the last instruction encoded ends, if none overlaps the next one.
LEMMA AddEncodingOrder ==
  ASSUME NEW s, CanSend(s), NEW i \in Instrs, s.off <= i.pos
  PROVE  LET t == AddEncoding(s, i)
         IN  Sent(s, t, 1) /\ t.off = EndOf(i)
<1> DEFINE t == AddEncoding(s, i)
<1>1. Sent(s, t, 1) /\ t.off = (IF i.pos > s.off THEN i.pos ELSE s.off) + i.size
  BY AddEncodingKeeps
<1>2. s.off \in Int /\ i.pos \in Int /\ i.size \in Int /\ EndOf(i) = i.pos + i.size
  BY InstrFacts DEF CanSend, CodeOK
<1> HIDE DEF t
<1>3. t.off = EndOf(i)
  BY <1>1, <1>2
<1> QED
  BY <1>1, <1>3 DEF t

\* The first n instructions lie after the offset, none overlaps the next one.
Follow(s, kept, n) ==
  s.off <= kept[1].pos /\ \A j \in 1..n : j + 1 <= n => EndOf(kept[j]) <= kept[j + 1].pos

LEMMA EncodeFirstOrder ==
  ASSUME NEW s, CanSend(s), NEW kept \in Seq(Instrs), NEW n \in Nat, n <= Len(kept),
         n >= 1, Follow(s, kept, n)
  PROVE  EncodeFirst(s, kept, n).off = EndOf(kept[n])
<1>1. PICK f : /\ f[0] = s /\ EncodeFirst(s, kept, n) = f[n]
               /\ \A k \in Nat : k < n => f[k + 1] = AddEncoding(f[k], kept[k + 1])
  BY EncodeByRounds, SMTT(60)
<1> DEFINE T == {k \in Nat : k + 1 <= n => CanSend(f[k + 1]) /\ f[k + 1].off = EndOf(kept[k + 1])}
<1>2. 0 \in T
  <2>1. kept[1] \in Instrs
    OBVIOUS
  <2>2. f[1] = AddEncoding(s, kept[1])
    <3>1. f[0 + 1] = AddEncoding(f[0], kept[0 + 1])
      BY <1>1
    <3> QED BY <1>1, <3>1
  <2>3. Sent(s, f[1], 1) /\ f[1].off = EndOf(kept[1])
    BY <2>1, <2>2, AddEncodingOrder DEF Follow
  <2>4. CanSend(f[1])
    BY <2>3, SentKeeps
  <2> QED BY <2>3, <2>4
<1>3. ASSUME NEW k \in Nat, k \in T
      PROVE  k + 1 \in T
  <2> DEFINE m == k + 1
  <2>1. SUFFICES ASSUME m + 1 <= n
                 PROVE  CanSend(f[m + 1]) /\ f[m + 1].off = EndOf(kept[m + 1])
    OBVIOUS
  <2>2. CanSend(f[m]) /\ f[m].off = EndOf(kept[m])
    BY <1>3, <2>1
  <2>3. m \in Nat /\ m < n /\ m \in 1..n /\ m + 1 \in 1..Len(kept)
    BY <2>1
  <2> HIDE DEF m
  <2>4. kept[m + 1] \in Instrs /\ EndOf(kept[m]) <= kept[m + 1].pos
    BY <2>1, <2>3 DEF Follow
  <2>5. f[m + 1] = AddEncoding(f[m], kept[m + 1])
    BY <1>1, <2>3
  <2>6. Sent(f[m], f[m + 1], 1) /\ f[m + 1].off = EndOf(kept[m + 1])
    BY <2>2, <2>4, <2>5, AddEncodingOrder
  <2> QED BY <2>2, <2>6, SentKeeps
<1> HIDE DEF T
<1>4. \A k \in Nat : k \in T
  BY <1>2, <1>3, NatInduct
<1>5. f[n].off = EndOf(kept[n])
  <2>1. n - 1 \in Nat /\ (n - 1) + 1 = n /\ n <= n
    OBVIOUS
  <2>2. n - 1 \in T
    BY <1>4, <2>1
  <2> QED BY <2>1, <2>2 DEF T
<1> QED
  BY <1>1, <1>5

\* How many instructions are encoded if the flush is not forced: the last two stay.
LEMMA FlushCountOrder ==
  ASSUME NEW s, s.iopt_size \in Nat, NEW n \in Nat, n >= 1
  PROVE  LET k == FlushCount(s, n, FALSE)
         IN  k \in Nat /\ 1 <= k /\ k <= n /\ (k = 1 \/ k + 2 <= n)
<1> DEFINE k == FlushCount(s, n, FALSE)
           half == s.iopt_size \div 2 + 1
           two == Max({1, n - 2})
<1>1. k = Min({n, half, two})
  BY DEF FlushCount
<1>2. half \in Nat /\ half >= 1
  OBVIOUS
<1>3. two = IF 1 >= n - 2 THEN 1 ELSE n - 2
  BY MaxTwo
<1> HIDE DEF half, two, k
<1>4. two \in Nat /\ two >= 1 /\ (two = 1 \/ two + 2 <= n)
  BY <1>3
<1>5. k \in {n, half, two} /\ k <= n /\ k <= two
  <2>1. n \in Int /\ half \in Int /\ two \in Int
    BY <1>2, <1>4
  <2>2. /\ Min({n, half, two}) \in {n, half, two}
        /\ \A y \in {n, half, two} : Min({n, half, two}) <= y
    BY <2>1, MinThree, Zenon
  <2> QED BY <1>1, <2>2
<1>6. k \in Nat /\ 1 <= k
  BY <1>2, <1>4, <1>5
<1>7. k = 1 \/ k + 2 <= n
  BY <1>4, <1>5, <1>6
<1> QED
  BY <1>5, <1>6, <1>7 DEF k

-----------------------------------------------------------------------------
(* A flush that is not forced. *)

\* It does not end with two instructions left, one on the other: the first one would be
\* encoded and the second one begin before the offset.
Room(u) ==
  LET kept == Compact(u, FALSE)
  IN  Len(kept) = 2 => EndOf(kept[1]) <= kept[2].pos

LEMMA LeftKeeps ==
  ASSUME NEW s, CanSend(s), NEW left, NEW x \in Int
  PROVE  LET f == [s EXCEPT !.used = left, !.free = x]
         IN  CanSend(f) /\ f.off = s.off
<1> DEFINE f == [s EXCEPT !.used = left, !.free = x]
<1>1. Base(s) /\ SourceKnown(s) /\ CodeOK(s) /\ Names \subseteq DOMAIN s
  BY DEF CanSend, Base
<1>2. OnlyChanges(s, f, {"used", "free"}) /\ f.free = x
  BY <1>1 DEF OnlyChanges, Names
<1> HIDE DEF f
<1>3. Base(f) /\ SourceKnown(f)
  BY <1>1, <1>2, BaseKept, KnownKept DEF BaseFields, SourceFields
<1>4. /\ f.iout = s.iout /\ f.acache = s.acache /\ f.decided = s.decided /\ f.srcbase = s.srcbase
      /\ f.srclen = s.srclen /\ f.minaddr = s.minaddr /\ f.maxaddr = s.maxaddr
      /\ f.source = s.source /\ f.off = s.off
  BY <1>1, <1>2 DEF OnlyChanges, Names
<1>5. CodeOK(f)
  BY <1>1, <1>2, <1>4 DEF CodeOK
<1> QED
  BY <1>3, <1>4, <1>5 DEF CanSend, f

\* What the flush leaves lies after the new offset, and neither the offset nor an
\* instruction is further than the instructions before it were.
Tighter(s, t) ==
  /\ t.off \in Int /\ InOrder(t.used, t.off, AvailIn(s))
  /\ \A p, q \in Int : Short(s.used, p, q) /\ s.off <= p => Short(t.used, p, q) /\ t.off <= p

\* The numbers of that: of n instructions kept, k are encoded.
LEMMA KeptOrder ==
  ASSUME NEW kept \in Seq(Instrs), NEW low \in Int, NEW high \in Int, InOrder(kept, low, high),
         NEW n \in Nat, n = Len(kept), n >= 2, n = 2 => EndOf(kept[1]) <= kept[2].pos,
         \A i, j \in 1..n : i < j /\ i + 2 <= n => EndOf(kept[i]) <= kept[j].pos,
         NEW k \in Nat, 1 <= k, k <= n, k = 1 \/ k + 2 <= n
  PROVE  /\ k + 1 \in 1..n /\ low <= kept[1].pos
         /\ \A j \in 1..k : EndOf(kept[j]) <= kept[j + 1].pos
         /\ EndOf(kept[k]) \in Nat /\ \A j \in (k + 1)..n : EndOf(kept[k]) <= kept[j].pos
         /\ \A p, q \in Int : Short(kept, p, q) => EndOf(kept[k]) <= p
<1>1. \A j \in 1..n : kept[j].pos \in Int /\ EndOf(kept[j]) \in Int
  <2>1. ASSUME NEW j \in 1..n
        PROVE  kept[j].pos \in Int /\ EndOf(kept[j]) \in Int
    <3>1. kept[j] \in Instrs
      OBVIOUS
    <3> QED BY <3>1, InstrFacts
  <2> QED BY <2>1
<1>2. low <= kept[1].pos
  <2>1. 1 \in 1..Len(kept)
    OBVIOUS
  <2> QED BY <2>1 DEF InOrder
<1>3. k + 1 \in 1..n
  OBVIOUS
<1>4. ASSUME NEW i \in 1..k, NEW j \in 1..n, i < j
      PROVE  EndOf(kept[i]) <= kept[j].pos
  <2>1. CASE n = 2
    <3>1. i = 1 /\ j = 2
      BY <1>4, <2>1
    <3> QED BY <2>1, <3>1
  <2>2. CASE n # 2
    <3>1. i \in 1..n /\ i + 2 <= n
      BY <2>2
    <3> QED BY <1>4, <3>1
  <2> QED BY <2>1, <2>2
<1>5. \A j \in 1..k : EndOf(kept[j]) <= kept[j + 1].pos
  <2>1. ASSUME NEW j \in 1..k
        PROVE  j + 1 \in 1..n /\ j < j + 1
    OBVIOUS
  <2> QED BY <1>4, <2>1
<1>6. k \in 1..k /\ k \in 1..n
  OBVIOUS
<1>7. \A j \in (k + 1)..n : EndOf(kept[k]) <= kept[j].pos
  <2>1. ASSUME NEW j \in (k + 1)..n
        PROVE  j \in 1..n /\ k < j
    OBVIOUS
  <2> QED BY <1>4, <1>6, <2>1
<1>8. ASSUME NEW p \in Int, NEW q \in Int, Short(kept, p, q)
      PROVE  EndOf(kept[k]) <= p
  <2>1. EndOf(kept[k]) <= kept[k + 1].pos
    BY <1>5, <1>6
  <2>2. kept[k + 1].pos < p
    BY <1>3, <1>8 DEF Short
  <2> QED BY <1>1, <1>3, <1>6, <2>1, <2>2
<1>9. EndOf(kept[k]) \in Nat
  <2>1. kept[k] \in Instrs
    BY <1>6
  <2>2. low >= 0 /\ low <= kept[k].pos
    BY <1>6 DEF InOrder
  <2>3. kept[k].pos \in Int /\ kept[k].size \in Nat /\ EndOf(kept[k]) = kept[k].pos + kept[k].size
    BY <2>1, InstrFacts
  <2> QED BY <2>2, <2>3
<1> QED
  BY <1>2, <1>3, <1>5, <1>6, <1>7, <1>8, <1>9

LEMMA FlushOrder ==
  ASSUME NEW s, CanSend(s), BufferOK(s), Ordered(s), Len(s.used) >= 2, Room(s.used)
  PROVE  Tighter(s, FlushInstructions(s, FALSE))
<1> DEFINE kept == Compact(s.used, FALSE)
           n == Len(kept)
           k == FlushCount(s, n, FALSE)
           left == SubSeq(kept, k + 1, n)
           f == [s EXCEPT !.used = left, !.free = @ + Len(s.used) - n]
           t == FlushInstructions(s, FALSE)
           m == EndOf(kept[k])
<1>0. SUFFICES Tighter(s, t)
  OBVIOUS
<1>1. /\ s.used \in Seq(Instrs) /\ Len(s.used) \in Nat /\ s.off \in Int /\ AvailIn(s) \in Int
      /\ s.free \in Int /\ s.iopt_size \in Nat
  <2>1. s.used \in Seq(CopiesWithin(0, Len(s.source)))
    BY DEF BufferOK
  <2>2. s.used \in Seq(Instrs)
    BY <2>1, SeqGrows DEF CopiesWithin
  <2>3. s.off \in Int /\ AvailIn(s) \in Int /\ s.free \in Int /\ s.iopt_size \in Nat
    BY DEF CanSend, Base, CodeOK, AvailIn, BufferOK
  <2> QED BY <2>2, <2>3
<1>2. /\ kept \in Seq(Instrs) /\ InOrder(kept, s.off, AvailIn(s)) /\ n >= 2
      /\ \A p, q \in Int : Short(s.used, p, q) => Short(kept, p, q)
      /\ \A i, j \in 1..n : i < j /\ i + 2 <= n => EndOf(kept[i]) <= kept[j].pos
  <2> DEFINE u == s.used
             low == s.off
             high == AvailIn(s)
  <2>1. u \in Seq(Instrs) /\ low \in Int /\ high \in Int /\ InOrder(u, low, high)
    BY <1>1 DEF Ordered
  <2>2. Len(u) >= 1 /\ Len(u) >= 2
    BY <1>1
  <2>3. kept = Compact(u, FALSE)
    OBVIOUS
  <2> HIDE DEF u, low, high, kept
  <2>4. LET v == Compact(u, FALSE)
        IN  /\ v \in Seq(Instrs) /\ InOrder(v, low, high)
            /\ Len(v) >= 1 /\ (Len(u) >= 2 => Len(v) >= 2)
            /\ \A p, q \in Int : Short(u, p, q) => Short(v, p, q)
            /\ \A i, j \in 1..Len(v) : i < j /\ i + 2 <= Len(v) => EndOf(v[i]) <= v[j].pos
    BY <2>1, <2>2, CompactOrder
  <2> QED BY <2>2, <2>3, <2>4 DEF u, low, high
<1>3. n = 2 => EndOf(kept[1]) <= kept[2].pos
  BY DEF Room
<1>4. t = EncodeFirst(f, kept, k)
  BY DEF FlushInstructions, FlushKept
<1> HIDE DEF kept, t
<1>5. n \in Nat
  BY <1>2
<1>6. k \in Nat /\ 1 <= k /\ k <= n /\ (k = 1 \/ k + 2 <= n)
  <2>1. s.iopt_size \in Nat /\ n >= 1
    BY <1>1, <1>2, <1>5
  <2> HIDE DEF n
  <2> QED BY <1>5, <2>1, FlushCountOrder
<1> HIDE DEF k
<1>7. /\ k + 1 \in 1..n /\ s.off <= kept[1].pos
      /\ \A j \in 1..k : EndOf(kept[j]) <= kept[j + 1].pos
      /\ m \in Nat /\ \A j \in (k + 1)..n : m <= kept[j].pos
      /\ \A p, q \in Int : Short(kept, p, q) => m <= p
  <2> HIDE DEF n
  <2>1. n = Len(kept)
    BY DEF n
  <2> QED BY <1>1, <1>2, <1>3, <1>5, <1>6, <2>1, KeptOrder
<1>8. CanSend(f) /\ f.off = s.off
  <2> DEFINE x == s.free + Len(s.used) - n
  <2>1. x \in Int
    BY <1>1, <1>5
  <2> HIDE DEF n, x
  <2>2. CanSend([s EXCEPT !.used = left, !.free = x]) /\ [s EXCEPT !.used = left, !.free = x].off = s.off
    BY <2>1, LeftKeeps
  <2> QED BY <2>2 DEF x
<1> HIDE DEF f, left, m
<1>9. t.off = m
  <2>1. Follow(f, kept, k)
    BY <1>7, <1>8 DEF Follow
  <2> QED BY <1>2, <1>4, <1>6, <1>8, <2>1, EncodeFirstOrder DEF m
<1>10. t.used = left
  <2>1. Sent(f, t, k)
    BY <1>2, <1>4, <1>6, <1>8, EncodeFirstKeeps
  <2>2. t.used = f.used
    BY <1>8, <2>1, SentKeeps
  <2>3. Names \subseteq DOMAIN s
    BY DEF CanSend, Base
  <2> QED BY <2>2, <2>3 DEF f, Names
<1>11. /\ InOrder(left, m, AvailIn(s))
       /\ \A p, q \in Int : Short(kept, p, q) => Short(left, p, q)
  <2>1. k <= Len(kept) /\ m \in Int /\ 0 <= m
    BY <1>6, <1>7
  <2> QED BY <1>1, <1>2, <1>6, <1>7, <2>1, PartInOrder DEF left
<1> QED
  BY <1>2, <1>7, <1>9, <1>10, <1>11 DEF Tighter

-----------------------------------------------------------------------------
(* An instruction is entered. *)

\* If the buffer is full, the flush leaves no two instructions on one another.
SlotOK(s) == s.free > 0 \/ s.unlimited = TRUE \/ Room(s.used)

LEMMA GetSlotOrder ==
  ASSUME Roomy, NEW s, CanSend(s), BufferOK(s), Ordered(s), SlotOK(s)
  PROVE  Tighter(s, GetSlot(s))
<1> DEFINE t == GetSlot(s)
<1>0. SUFFICES Tighter(s, t)
  OBVIOUS
<1>1. /\ Names \subseteq DOMAIN s /\ s.off \in Int /\ s.free \in Int /\ s.iopt_size \in Nat
      /\ Waits(s) \in {0, 1} /\ Len(s.used) \in Nat
  BY DEF CanSend, Base, CodeOK, BufferOK, Waits
<1>2. CASE s.free > 0
  <2>1. t = s
    BY <1>2 DEF GetSlot
  <2> HIDE DEF t
  <2> QED BY <1>1, <2>1 DEF Tighter, Ordered
<1>3. CASE ~ (s.free > 0) /\ s.unlimited = TRUE
  <2>1. t = [s EXCEPT !.free = @ + s.elts, !.iopt_size = @ + s.elts]
    BY <1>3 DEF GetSlot
  <2> HIDE DEF t
  <2>2. t.used = s.used /\ t.off = s.off
    BY <1>1, <2>1 DEF Names
  <2> QED BY <1>1, <2>2 DEF Tighter, Ordered
<1>4. CASE ~ (s.free > 0) /\ s.unlimited = FALSE
  <2>1. t = FlushInstructions(s, FALSE)
    BY <1>4 DEF GetSlot
  <2>2. Room(s.used)
    BY <1>4 DEF SlotOK
  <2>3. s.iopt_size >= 4 /\ s.free >= 0 /\ s.free + Len(s.used) + Waits(s) = s.iopt_size
    BY <1>4 DEF BufferOK, Roomy
  <2>4. Len(s.used) >= 2
    <3> DEFINE n == Len(s.used)
               a == s.free
               w == Waits(s)
               z == s.iopt_size
    <3>1. n \in Nat /\ a \in Int /\ w \in {0, 1} /\ z \in Nat /\ z >= 4 /\ a + n + w = z /\ ~ (a > 0)
      BY <1>1, <1>4, <2>3
    <3> HIDE DEF n, a, w, z
    <3>2. n >= 2
      BY <3>1
    <3> QED BY <3>2 DEF n
  <2> QED BY <2>1, <2>2, <2>4, FlushOrder
<1> QED
  BY <1>2, <1>3, <1>4 DEF BufferOK

\* It can be entered in its order.
Fits(s, i) ==
  /\ i \in Instrs /\ i.size >= MIN_MATCH
  /\ s.off <= i.pos /\ EndOf(i) <= AvailIn(s)
  /\ Short(s.used, i.pos, EndOf(i))

\* It is the last one now.
Placed(s, t, i) ==
  /\ Names \subseteq DOMAIN t
  /\ t.off \in Int /\ InOrder(t.used, t.off, AvailIn(s)) /\ t.off <= i.pos
  /\ \A p, q \in Int : i.pos < p /\ EndOf(i) < q => Short(t.used, p, q)

LEMMA TakeSlotOrder ==
  ASSUME Roomy, NEW s, CanSend(s), BufferOK(s), Ordered(s), SlotOK(s), NEW i, Fits(s, i)
  PROVE  Placed(s, TakeSlot(s, i), i)
<1> DEFINE u == GetSlot(s)
           t == TakeSlot(s, i)
<1>0. SUFFICES Placed(s, t, i)
  OBVIOUS
<1>1. Tighter(s, u) /\ Entered(s, u)
  BY GetSlotOrder, GetSlotKeeps
<1>2. t = [u EXCEPT !.free = @ - 1, !.used = Append(@, i)]
  BY DEF TakeSlot
<1> HIDE DEF u, t
<1>3. CanSend(u) /\ BufferOK(u)
  BY <1>1, EnteredKeeps
<1>4. Names \subseteq DOMAIN u /\ u.used \in Seq(Instrs)
  <2>1. u.used \in Seq(CopiesWithin(0, Len(u.source)))
    BY <1>3 DEF BufferOK
  <2> QED BY <1>3, <2>1, SeqGrows DEF CopiesWithin, CanSend, Base
<1>5. t.used = Append(u.used, i) /\ t.off = u.off /\ Names \subseteq DOMAIN t
  BY <1>2, <1>4 DEF Names
<1>6. i \in Instrs /\ i.pos \in Int /\ EndOf(i) \in Int /\ AvailIn(s) \in Int
  BY InstrFacts DEF Fits, CanSend, Base, AvailIn
<1>7. u.off \in Int /\ u.off <= i.pos /\ Short(u.used, i.pos, EndOf(i)) /\ InOrder(u.used, u.off, AvailIn(s))
  BY <1>1, <1>6 DEF Tighter, Fits
<1>8. i.size >= MIN_MATCH /\ EndOf(i) <= AvailIn(s)
  BY DEF Fits
<1>9. /\ InOrder(Append(u.used, i), u.off, AvailIn(s))
      /\ \A p, q \in Int : i.pos < p /\ EndOf(i) < q => Short(Append(u.used, i), p, q)
  BY <1>4, <1>6, <1>7, <1>8, PushInOrder
<1> QED
  BY <1>5, <1>7, <1>9 DEF Placed

-----------------------------------------------------------------------------
(* A match with the source. *)

\* As the search goes on at the input position: a match of min_match bytes that begins
\* there or before reaches further than the last instruction.
LoopOrdered(s) ==
  Ordered(s) /\ s.off <= s.inp /\ Short(s.used, s.inp, s.inp + s.min_match)

\* After a match from the input position on that is len long.
AfterMatch(s, t, len) ==
  /\ t.off \in Int /\ InOrder(t.used, t.off, AvailIn(s)) /\ t.off <= s.inp
  /\ Short(t.used, s.inp + 1, s.inp + len + 1)

\* The match at pos, length bytes long, is free to be entered once those it covers are erased.
LEMMA ErasedFits ==
  ASSUME Roomy, NEW s, Core(s), LoopOrdered(s), SlotOK(s), NEW back \in Nat, s.off <= s.inp - back
  PROVE  LET f == IF back > 0 THEN Erase(s, s.inp - back) ELSE s
         IN  /\ InOrder(f.used, s.off, AvailIn(s)) /\ SlotOK(f)
             /\ Short(f.used, s.inp - back, s.inp + s.min_match)
             /\ f.off = s.off
<1> DEFINE pos == s.inp - back
           q == s.inp + s.min_match
           f == IF back > 0 THEN Erase(s, pos) ELSE s
<1>1. /\ s.inp \in Int /\ s.min_match \in Int /\ s.free \in Int /\ Names \subseteq DOMAIN s
      /\ (Roomy => s.free >= 0)
  BY SMTT(60) DEF Core, CanSend, Base, CodeOK, BufferOK
<1>2. pos \in Int /\ q \in Int
  BY <1>1
<1>3. CASE back > 0
  <2>1. f = Erase(s, pos)
    BY <1>3
  <2>2. /\ InOrder(f.used, s.off, AvailIn(s))
        /\ \A x, y \in Int : Short(s.used, x, y) => Short(f.used, pos, y) /\ Short(f.used, x, y)
        /\ (f.used = s.used /\ f.free = s.free) \/ f.free > s.free
    <3> HIDE DEF pos, f
    <3> QED BY <1>2, <2>1, EraseOrder DEF LoopOrdered
  <2>3. OnlyChanges(s, f, {"used", "free"}) /\ CodeOK(f)
    BY <2>1, EraseKeeps DEF Core
  <2> HIDE DEF f
  <2>4. f.off = s.off /\ f.unlimited = s.unlimited /\ f.free \in Int
    BY <1>1, <2>3 DEF OnlyChanges, Names, CodeOK
  <2>5. SlotOK(f)
    <3>1. CASE f.used = s.used /\ f.free = s.free
      BY <2>4, <3>1 DEF SlotOK
    <3>2. CASE f.free > s.free
      BY <1>1, <2>4, <3>2 DEF SlotOK
    <3> QED BY <2>2, <3>1, <3>2
  <2>6. Short(f.used, pos, q)
    <3>1. Short(s.used, s.inp, q)
      BY DEF LoopOrdered
    <3> HIDE DEF pos, q
    <3> QED BY <1>1, <1>2, <2>2, <3>1
  <2> QED BY <2>2, <2>4, <2>5, <2>6 DEF f
<1>4. CASE ~ (back > 0)
  <2>1. f = s /\ pos = s.inp
    BY <1>1, <1>4
  <2> QED BY <2>1 DEF LoopOrdered, Ordered
<1> QED
  BY <1>3, <1>4

LEMMA TakeMatchOrder ==
  ASSUME Roomy, NEW s, Core(s), Found(s), LoopOrdered(s), SlotOK(s),
         s.back <= s.inp - s.off, s.fwd >= s.min_match, s.fwd <= AvailIn(s) - s.inp
  PROVE  AfterMatch(s, TakeMatch(s), s.fwd)
<1> DEFINE pos == s.inp - s.back
           f == Uncovered(s)
           i == CopyFound(s)
           t == TakeMatch(s)
<1>0. SUFFICES AfterMatch(s, t, s.fwd)
  OBVIOUS
<1>1. PICK g : TakesIn(s, g)
  BY TakeMatchSteps
<1> DEFINE u == TakeSlot(g, i)
<1>2. /\ Names \subseteq DOMAIN s /\ s.inp \in Int /\ s.match_srcpos \in Int
      /\ s.off \in Int /\ s.min_match \in Nat /\ s.min_match >= MIN_MATCH /\ AvailIn(s) \in Int
  BY SMTT(60) DEF Core, CanSend, Base, CodeOK, AvailIn, SourcePositions
<1>3. /\ OnlyChanges(s, f, {"used", "free"}) /\ Core(f) /\ OnlyChanges(f, g, TakenFields)
      /\ Core(g) /\ Core(u) /\ OnlyChanges(u, t, {"match_state", "match_srcpos"})
  BY <1>1, TakeMatchSteps DEF TakesIn
<1>4. s.back \in Nat /\ s.fwd \in Nat /\ s.fwd > 0 /\ pos \in Int
  BY <1>2 DEF Found
<1>5. /\ s.off <= pos /\ pos <= s.inp /\ pos < s.inp + 1 /\ s.back + s.fwd \in Nat \ {0}
       /\ pos + (s.back + s.fwd) = s.inp + s.fwd /\ s.back + s.fwd >= MIN_MATCH
       /\ s.inp + s.fwd <= AvailIn(s) /\ s.inp + s.min_match <= s.inp + s.fwd
       /\ s.inp + s.fwd \in Int /\ s.inp + s.min_match \in Int
       /\ s.inp + 1 \in Int /\ s.inp + s.fwd + 1 \in Int /\ s.inp + s.fwd < s.inp + s.fwd + 1
  <2> DEFINE a == s.inp
             b == s.back
             c == s.fwd
             o == s.off
             m == s.min_match
             z == AvailIn(s)
  <2>1. a \in Int /\ b \in Nat /\ c \in Nat /\ c > 0 /\ o \in Int /\ m \in Nat /\ z \in Int
    BY <1>2, <1>4
  <2>2. b <= a - o /\ c >= m /\ c <= z - a /\ m >= MIN_MATCH /\ MIN_MATCH = 4
    BY <1>2 DEF MIN_MATCH
  <2>3. pos = a - b
    OBVIOUS
  <2> HIDE DEF a, b, c, o, m, z, pos, MIN_MATCH
  <2>4. /\ o <= pos /\ pos <= a /\ pos < a + 1 /\ b + c \in Nat \ {0}
        /\ pos + (b + c) = a + c /\ b + c >= MIN_MATCH /\ a + c <= z /\ a + m <= a + c
        /\ a + c \in Int /\ a + m \in Int /\ a + 1 \in Int /\ a + c + 1 \in Int /\ a + c < a + c + 1
    BY <2>1, <2>2, <2>3
  <2> QED BY <2>4 DEF a, b, c, o, m, z
<1>7. /\ InOrder(f.used, s.off, AvailIn(s)) /\ SlotOK(f) /\ Short(f.used, pos, s.inp + s.min_match)
      /\ f.off = s.off
  <2>1. s.off <= s.inp - s.back
    BY <1>5
  <2> QED BY <1>4, <2>1, ErasedFits DEF Uncovered
<1> HIDE DEF f
<1>8. f.win = s.win /\ Names \subseteq DOMAIN f
  BY <1>2, <1>3 DEF OnlyChanges, Names
<1>10. g.used = f.used /\ g.free = f.free /\ g.unlimited = f.unlimited /\ g.off = s.off /\ AvailIn(g) = AvailIn(s)
  BY <1>3, <1>7, <1>8 DEF OnlyChanges, Names, TakenFields, AvailIn
<1>11. SlotOK(g) /\ Ordered(g)
  BY <1>7, <1>10 DEF SlotOK, Ordered
<1>12. i \in Instrs /\ i.pos = pos /\ i.size = s.back + s.fwd /\ EndOf(i) = s.inp + s.fwd
  <2> DEFINE b == s.back + s.fwd
             addr == s.match_srcpos - s.back
  <2>1. b \in Nat \ {0} /\ pos + b = s.inp + s.fwd /\ addr \in Int
    BY <1>2, <1>4, <1>5
  <2>2. i = Inst(CPY, pos, b, addr, 1) /\ pos \in Int
    BY <1>4 DEF CopyFound
  <2> HIDE DEF b, pos, addr, i
  <2>3. i = [type |-> CPY, pos |-> pos, size |-> b, addr |-> addr, xtra |-> 1]
    BY <2>2 DEF Inst
  <2>4. i \in Instrs /\ i.pos = pos /\ i.size = b
    BY <2>1, <2>2, <2>3 DEF Instrs
  <2> QED BY <2>1, <2>4 DEF b, EndOf
<1> HIDE DEF i
<1>13. Fits(g, i)
  <2>1. i.size >= MIN_MATCH /\ s.off <= pos /\ EndOf(i) <= AvailIn(s)
    BY <1>12, <1>5
  <2>2. Short(f.used, pos, s.inp + s.fwd)
    <3>1. f.used \in Seq(Instrs)
      <4>1. f.used \in Seq(CopiesWithin(0, Len(f.source)))
        BY <1>3 DEF Core, BufferOK
      <4> QED BY <4>1, SeqGrows DEF CopiesWithin
    <3> DEFINE q == s.inp + s.min_match
               q2 == s.inp + s.fwd
    <3>2. q \in Int /\ q2 \in Int /\ q <= q2 /\ pos <= pos
      BY <1>4, <1>5
    <3>3. Short(f.used, pos, q)
      BY <1>7
    <3> HIDE DEF q, q2, pos
    <3>4. Short(f.used, pos, q2)
      BY <1>4, <3>1, <3>2, <3>3, ShortGrows
    <3> QED BY <3>4 DEF q2
  <2> QED BY <1>10, <1>12, <2>1, <2>2 DEF Fits
<1>14. Placed(g, u, i)
  BY <1>3, <1>11, <1>13, TakeSlotOrder DEF Core
<1> HIDE DEF u, t
<1>15. t.used = u.used /\ t.off = u.off
  BY <1>3 DEF OnlyChanges, Names, Core, CanSend, Base
<1>16. /\ u.off \in Int /\ InOrder(u.used, u.off, AvailIn(s)) /\ u.off <= pos
       /\ \A p, q \in Int : pos < p /\ s.inp + s.fwd < q => Short(u.used, p, q)
  BY <1>10, <1>12, <1>14 DEF Placed
<1>17. u.off <= s.inp /\ Short(u.used, s.inp + 1, s.inp + s.fwd + 1)
  <2>1. s.inp + 1 \in Int /\ s.inp + s.fwd + 1 \in Int /\ pos < s.inp + 1 /\ s.inp + s.fwd < s.inp + s.fwd + 1
    BY <1>5
  <2>2. u.off <= s.inp
    <3>1. u.off <= pos /\ pos <= s.inp /\ u.off \in Int /\ pos \in Int /\ s.inp \in Int
      BY <1>2, <1>4, <1>16, <1>5
    <3> HIDE DEF pos
    <3> QED BY <3>1
  <2> QED BY <1>16, <2>1, <2>2
<1> QED
  BY <1>15, <1>16, <1>17 DEF AfterMatch

\* What the order needs as a match is looked for.
CanMatch(s) == LoopOrdered(s) /\ SlotOK(s)
OrderFields == {"used", "off", "free", "unlimited", "win", "inp", "min_match"}

\* Nothing is entered.
SlotsSame(s, t) == t.used = s.used /\ t.off = s.off /\ t.free = s.free /\ t.unlimited = s.unlimited

LEMMA CanMatchKept ==
  ASSUME NEW s, Names \subseteq DOMAIN s, CanMatch(s), NEW t, NEW F, OnlyChanges(s, t, F),
         F \cap OrderFields = {}
  PROVE  /\ CanMatch(t) /\ SlotsSame(s, t) /\ t.inp = s.inp /\ t.min_match = s.min_match
         /\ AvailIn(t) = AvailIn(s)
<1>1. /\ t.used = s.used /\ t.off = s.off /\ t.free = s.free /\ t.unlimited = s.unlimited
      /\ t.inp = s.inp /\ t.min_match = s.min_match /\ t.win = s.win
  BY DEF OnlyChanges, Names, OrderFields
<1>2. AvailIn(t) = AvailIn(s)
  BY <1>1 DEF AvailIn
<1> QED
  BY <1>1, <1>2 DEF CanMatch, SlotsSame, LoopOrdered, Ordered, SlotOK

\* A match was entered, or there is none.
Matched(s, t) ==
  /\ t.fwd = 0 => SlotsSame(s, t)
  /\ t.fwd > 0 => AfterMatch(s, t, t.fwd)

LEMMA SourceExtendMatchOrder ==
  ASSUME Roomy, NEW s, Core(s), MatchLimits(s), CanMatch(s), s.maxback <= s.inp - s.off
  PROVE  Matched(s, SourceExtendMatch(s))
<1> DEFINE t == SourceExtendMatch(s)
<1>0. SUFFICES Matched(s, t)
  OBVIOUS
<1>1. PICK w : /\ t = TakeIfLong(w)
               /\ OnlyChanges(s, w, ExtendFields) /\ Core(w) /\ w.match_state = "searching"
               /\ w.fwd \in Nat /\ w.fwd <= AvailIn(s) - s.inp
               /\ w.back \in Nat /\ w.back <= s.maxback
               /\ w.fwd >= w.min_match => Found(w)
  BY MatchGrows
<1> HIDE DEF t
<1>2. /\ Names \subseteq DOMAIN s /\ Names \subseteq DOMAIN w /\ s.inp \in Int /\ s.off \in Int
      /\ w.min_match \in Nat /\ w.min_match >= MIN_MATCH
  <2>1. Names \subseteq DOMAIN s /\ s.inp \in Int /\ s.off \in Int
    BY DEF Core, CanSend, Base, CodeOK
  <2>2. Names \subseteq DOMAIN w /\ w.min_match \in Nat /\ w.min_match >= MIN_MATCH
    BY <1>1 DEF Core, CanSend, Base
  <2> QED BY <2>1, <2>2
<1>3. /\ CanMatch(w) /\ SlotsSame(s, w) /\ w.inp = s.inp /\ w.min_match = s.min_match
      /\ AvailIn(w) = AvailIn(s)
  BY <1>1, <1>2, CanMatchKept DEF ExtendFields, SourceFields, OrderFields
<1>4. CASE w.fwd < w.min_match
  <2>1. t = [w EXCEPT !.fwd = 0]
    BY <1>1, <1>4 DEF TakeIfLong
  <2>2. t.fwd = 0 /\ SlotsSame(w, t)
    BY <1>2, <2>1 DEF Names, SlotsSame
  <2>3. SlotsSame(s, t)
    BY <1>3, <2>2 DEF SlotsSame
  <2> QED BY <2>2, <2>3 DEF Matched
<1>5. CASE ~ (w.fwd < w.min_match)
  <2>1. t = TakeMatch(w)
    BY <1>1, <1>5 DEF TakeIfLong
  <2>2. w.fwd > 0 /\ w.fwd >= w.min_match
    BY <1>1, <1>2, <1>5 DEF MIN_MATCH
  <2>3. w.back <= w.inp - w.off
    <3>1. w.back <= s.maxback /\ s.maxback <= s.inp - s.off /\ s.maxback \in Nat
      BY <1>1 DEF MatchLimits
    <3>2. w.inp - w.off = s.inp - s.off
      BY <1>3 DEF SlotsSame
    <3>3. s.inp - s.off \in Int
      BY <1>2
    <3> QED BY <1>1, <3>1, <3>2, <3>3
  <2>4. AfterMatch(w, t, w.fwd)
    BY <1>1, <1>3, <2>1, <2>2, <2>3, TakeMatchOrder DEF CanMatch
  <2>5. t.fwd = w.fwd
    <3>1. OnlyChanges(w, t, TakeFields)
      BY <1>1, <2>1, <2>2, TakeMatchKeeps
    <3> QED BY <1>2, <3>1 DEF OnlyChanges, Names, TakeFields, SlotFields, CodeFields
  <2> QED BY <1>3, <2>2, <2>4, <2>5 DEF Matched, AfterMatch
<1> QED
  BY <1>4, <1>5

\* A match may not grow back over what is encoded.
LEMMA SetupOrder ==
  ASSUME NEW s, Core(s), CanMatch(s), NEW p \in Nat, p <= Len(s.source)
  PROVE  LET t == SourceMatchSetup(s, p)
         IN  /\ CanMatch(t) /\ SlotsSame(s, t) /\ t.inp = s.inp /\ AvailIn(t) = AvailIn(s)
             /\ t.maxback <= t.inp - t.off
<1> DEFINE t == SourceMatchSetup(s, p)
           low == IF s.decided THEN p - s.srcbase ELSE p
           rest == s.inp - s.off
           bad == LoopsOrTooFar(s, p) \/ OutsideWindow(s, p)
<1>0. SUFFICES /\ CanMatch(t) /\ SlotsSame(s, t) /\ t.inp = s.inp /\ AvailIn(t) = AvailIn(s)
               /\ t.maxback <= t.inp - t.off
  OBVIOUS
<1>1. /\ Names \subseteq DOMAIN s /\ s.inp \in Int /\ s.off \in Int /\ s.srcbase \in Nat
      /\ s.off <= s.inp
  BY DEF Core, CanSend, Base, CodeOK, CanMatch, LoopOrdered
<1>2. t.maxback = IF bad THEN 0 ELSE IF s.off <= s.inp THEN Min({rest, low}) ELSE low
  BY <1>1 DEF SourceMatchSetup, Names
<1>3. rest \in Int /\ low \in Int /\ rest >= 0
  BY <1>1
<1>4. OnlyChanges(s, t, SetupFields)
  BY SetupChanges
<1> HIDE DEF t, low, bad
<1>5. CanMatch(t) /\ SlotsSame(s, t) /\ t.inp = s.inp /\ AvailIn(t) = AvailIn(s)
  BY <1>1, <1>4, CanMatchKept DEF SetupFields, OrderFields
<1>6. t.maxback <= rest
  <2> HIDE DEF rest
  <2>1. Min({rest, low}) <= rest
    BY <1>3, MinTwo
  <2> QED BY <1>1, <1>2, <1>3, <2>1
<1>7. t.inp - t.off = rest
  BY <1>5 DEF SlotsSame
<1> QED
  BY <1>5, <1>6, <1>7

LEMMA LargeMatchOrder ==
  ASSUME Roomy, NEW s, LoopReady(s), LargeFits(s), CanMatch(s)
  PROVE  Matched(s, LargeMatch(s))
<1> DEFINE at == s.large[LargeHash(s.lck)]
           u == SourceMatchSetup(s, at - HASH_CKOFFSET)
           t == LargeMatch(s)
<1>0. SUFFICES Matched(s, t)
  OBVIOUS
<1>1. Core(s) /\ Names \subseteq DOMAIN s /\ Len(s.source) \in Nat
  BY ReadyFacts DEF LoopReady, Base
<1>2. CASE s.error \/ at = 0
  <2>1. t = [s EXCEPT !.fwd = 0]
    BY <1>2 DEF LargeMatch
  <2> HIDE DEF t
  <2> QED BY <1>1, <2>1 DEF Names, Matched, SlotsSame
<1>3. CASE ~ (s.error \/ at = 0)
  <2>1. t = IF u.match_state = "backward" THEN SourceExtendMatch(u) ELSE u
    BY <1>3 DEF LargeMatch
  <2>2. at - HASH_CKOFFSET \in Nat /\ at - HASH_CKOFFSET <= Len(s.source)
    <3>1. at \in 0..(Len(s.source) + 1)
      BY LargeHashFacts
    <3> HIDE DEF at
    <3> QED BY <1>1, <1>3, <3>1 DEF HASH_CKOFFSET
  <2>3. Core(u) /\ MatchLimits(u) /\ u.fwd = 0
    <3> HIDE DEF at
    <3> QED BY <1>1, <2>2, SetupKeeps
  <2>4. /\ CanMatch(u) /\ SlotsSame(s, u) /\ u.inp = s.inp /\ AvailIn(u) = AvailIn(s)
        /\ u.maxback <= u.inp - u.off
    <3> HIDE DEF at
    <3> QED BY <1>1, <2>2, SetupOrder
  <2> HIDE DEF t, u
  <2>5. CASE u.match_state = "backward"
    <3>1. Matched(u, t)
      BY <2>1, <2>3, <2>4, <2>5, SourceExtendMatchOrder
    <3> QED BY <2>4, <3>1 DEF Matched, SlotsSame, AfterMatch
  <2>6. CASE u.match_state # "backward"
    BY <2>1, <2>3, <2>4, <2>6 DEF Matched
  <2> QED BY <2>5, <2>6
<1> QED
  BY <1>2, <1>3

LEMMA TrySourceOrder ==
  ASSUME Roomy, NEW s, LoopReady(s), CanMatch(s)
  PROVE  Matched(s, TrySource(s))
<1> DEFINE t == TrySource(s)
           u == IF s.inp >= s.next_move THEN MovePoint(s) ELSE s
<1>0. SUFFICES Matched(s, t)
  OBVIOUS
<1>1. Ready(s) /\ RollingAt(s) /\ Names \subseteq DOMAIN s /\ s.inp + SLOOK <= AvailIn(s)
  BY ReadyFacts DEF LoopReady
<1>2. CASE ~ LargeFits(s)
  <2>1. t = [s EXCEPT !.fwd = 0]
    BY <1>2 DEF TrySource
  <2> HIDE DEF t
  <2> QED BY <1>1, <2>1 DEF Names, Matched, SlotsSame
<1>3. CASE LargeFits(s)
  <2>1. t = LargeMatch(u)
    BY <1>3 DEF TrySource
  <2>2. OnlyChanges(s, u, MoveFields) /\ Ready(u)
    BY <1>1, MoveReady, ChangesNothing
  <2> HIDE DEF u, t
  <2>3. RollingAt(u) /\ LargeFits(u)
    BY <1>1, <1>3, <2>2, RollingKept DEF MoveFields, SourceFields
  <2>4. CanMatch(u) /\ SlotsSame(s, u) /\ u.inp = s.inp /\ AvailIn(u) = AvailIn(s)
    BY <1>1, <2>2, CanMatchKept DEF MoveFields, SourceFields, OrderFields
  <2>5. LoopReady(u)
    BY <1>1, <2>2, <2>3, <2>4 DEF LoopReady
  <2>6. Matched(u, t)
    BY <2>1, <2>3, <2>4, <2>5, LargeMatchOrder
  <2> QED BY <2>4, <2>6 DEF Matched, SlotsSame, AfterMatch
<1> QED
  BY <1>2, <1>3
-----------------------------------------------------------------------------
(* From one position of the search to the next. *)

\* As a step from s ends: the search of the window is over, or goes on.
NextOrder(s, t) ==
  AvailIn(t) = AvailIn(s) /\ Ordered(t) /\ (t.instr = TRUE \/ LoopOrdered(t))

\* The next position: a match that begins there or before must be longer than len.
LEMMA UpdateOneOrder ==
  ASSUME NEW s, LoopReady(s), Ordered(s), s.off <= s.inp, Short(s.used, s.inp + 1, s.inp + 1 + s.min_match)
  PROVE  NextOrder(s, UpdateOne(s))
<1> DEFINE t == UpdateOne(s)
<1>0. SUFFICES NextOrder(s, t)
  OBVIOUS
<1>1. Names \subseteq DOMAIN s /\ s.inp \in Nat /\ s.off \in Int
  BY ReadyFacts DEF LoopReady, Core, CanSend, CodeOK
<1>2. CASE s.inp + SLOOK = AvailIn(s)
  <2>1. t = [s EXCEPT !.instr = TRUE]
    BY <1>2 DEF UpdateOne
  <2> HIDE DEF t
  <2>2. t.instr = TRUE /\ t.used = s.used /\ t.off = s.off /\ t.win = s.win
    BY <1>1, <2>1 DEF Names
  <2> QED BY <2>2 DEF NextOrder, Ordered, AvailIn
<1>3. CASE s.inp + SLOOK # AvailIn(s)
  <2> DEFINE c == Byte(s, s.inp + SLOOK)
             n == NextRun(s, c)
             l == IF s.has_src /\ s.inp + s.cfg.llook < AvailIn(s)
                  THEN LargeCksumUpdate(n.lck, Byte(s, s.inp), Byte(s, s.inp + s.cfg.llook), s.cfg.llook)
                  ELSE n.lck
  <2>1. t = [n EXCEPT !.inp = @ + 1, !.lck = l]
    BY <1>3 DEF UpdateOne
  <2>2. OnlyChanges(s, n, {"run_l", "run_c"})
    BY DEF NextRun, OnlyChanges
  <2> HIDE DEF l, n, t
  <2>3. Names \subseteq DOMAIN n /\ n.inp = s.inp /\ n.used = s.used /\ n.off = s.off /\ n.win = s.win
        /\ n.min_match = s.min_match
    BY <1>1, <2>2 DEF OnlyChanges, Names
  <2>4. t.inp = s.inp + 1 /\ t.used = s.used /\ t.off = s.off /\ t.win = s.win /\ t.min_match = s.min_match
    BY <2>1, <2>3 DEF Names
  <2>5. Ordered(t) /\ t.off <= t.inp /\ AvailIn(t) = AvailIn(s)
    BY <1>1, <2>4 DEF Ordered, AvailIn
  <2>6. Short(t.used, t.inp, t.inp + t.min_match)
    BY <2>4
  <2> QED BY <2>5, <2>6 DEF NextOrder, LoopOrdered
<1> QED
  BY <1>2, <1>3

\* The instructions of the buffer begin before the input position.
Behind(s) == \A k \in 1..Len(s.used) : s.used[k].pos < s.inp

\* As the search begins at a position, a match must reach further than the last one did.
LEMMA RestartOrder ==
  ASSUME NEW s, Ready(s), Ordered(s), s.off <= s.inp, Behind(s)
  PROVE  NextOrder(s, Restart(s))
<1> DEFINE t == Restart(s)
           last == LastMatched(s)
           x == 1 + last - s.inp
           m == Max({MIN_MATCH, x})
           u == [s EXCEPT !.min_match = m]
           a == Comprun(u)
           v == MovePoint(a)
<1>0. SUFFICES NextOrder(s, t)
  OBVIOUS
<1>1. /\ Core(s) /\ Names \subseteq DOMAIN s /\ s.inp \in Nat /\ s.inp <= Len(s.win)
      /\ AvailIn(s) = Len(s.win) /\ s.run_c \in Nat /\ s.run_l \in Nat /\ last \in Int
  BY ReadyFacts, LastMatchedIsInt
<1>2. m \in Nat /\ m >= MIN_MATCH /\ m >= x
  <2>1. x \in Int /\ MIN_MATCH \in Nat
    BY <1>1 DEF MIN_MATCH
  <2> HIDE DEF x
  <2> QED BY <2>1, MaxTwo
<1>3. last < s.inp + m
  <2> HIDE DEF last, m
  <2> QED BY <1>1, <1>2
<1> HIDE DEF m, x
<1>4. CASE NoRoom(s)
  <2>1. t = [s EXCEPT !.instr = TRUE]
    BY <1>4 DEF Restart
  <2> HIDE DEF t
  <2>2. t.instr = TRUE /\ t.used = s.used /\ t.off = s.off /\ t.win = s.win
    BY <1>1, <2>1 DEF Names
  <2> QED BY <2>2 DEF NextOrder, Ordered, AvailIn
<1>5. CASE ~ NoRoom(s)
  <2>1. t = IF LargeFits(s) THEN [v EXCEPT !.lck = Lcksum(LargeHere(s))] ELSE a
    BY <1>5 DEF Restart, m, x
  <2>2. OnlyChanges(s, u, {"min_match"}) /\ u.min_match = m
    BY <1>1 DEF OnlyChanges, Names
  <2> HIDE DEF u
  <2>3. u.inp = s.inp /\ u.win = s.win /\ u.run_c = s.run_c /\ u.run_l = s.run_l
    BY <1>1, <2>2 DEF OnlyChanges, Names
  <2>4. Ready(u)
    <3>1. {"min_match"} \cap (CoreFields \cup TableFields \cup {"match_state"}) = {}
      BY DEF CoreFields, TableFields
    <3> QED BY <1>1, <1>2, <2>2, <2>3, <3>1, ReadyMoves
  <2>5. s.inp + SLOOK <= AvailIn(s)
    BY <1>1, <1>5 DEF NoRoom, SLOOK
  <2>6. OnlyChanges(u, a, {"run_c", "run_l"}) /\ Ready(a)
    BY <2>3, <2>4, <2>5, ComprunKeeps DEF AvailIn
  <2> HIDE DEF a
  <2>7. OnlyChanges(a, v, MoveFields)
    BY <2>6, MoveReady
  <2> HIDE DEF v
  <2>8. OnlyChanges(s, a, {"min_match", "run_c", "run_l"}) /\ a.min_match = m
    BY <1>1, <2>2, <2>6, ChangesTwice DEF OnlyChanges, Names
  <2>9. /\ a.inp = s.inp /\ a.used = s.used /\ a.off = s.off /\ a.win = s.win
        /\ Names \subseteq DOMAIN a
    BY <1>1, <2>8 DEF OnlyChanges, Names
  <2>10. /\ v.inp = s.inp /\ v.used = s.used /\ v.off = s.off /\ v.win = s.win /\ v.min_match = m
         /\ Names \subseteq DOMAIN v
    BY <2>7, <2>8, <2>9 DEF OnlyChanges, Names, MoveFields, SourceFields
  <2>11. t.inp = s.inp /\ t.used = s.used /\ t.off = s.off /\ t.win = s.win /\ t.min_match = m
    BY <2>1, <2>8, <2>9, <2>10 DEF Names
  <2>12. ASSUME NEW k \in 1..Len(s.used)
         PROVE  EndOf(s.used[k]) < s.inp + m
    <3>1. s.used \in Seq(Instrs)
      <4>1. s.used \in Seq(CopiesWithin(0, Len(s.source)))
        BY <1>1 DEF Core, BufferOK
      <4> QED BY <4>1, SeqGrows DEF CopiesWithin
    <3> DEFINE n == Len(s.used)
               c == EndOf(s.used[k])
    <3>2. n \in 1..n /\ k \in 1..n /\ s.used # <<>>
      BY <3>1
    <3>3. last = EndOf(s.used[n])
      BY <3>1, <3>2 DEF LastMatched, Last
    <3>4. c \in Int /\ EndOf(s.used[n]) \in Int
      <4>1. s.used[k] \in Instrs /\ s.used[n] \in Instrs
        BY <3>1, <3>2
      <4> QED BY <4>1, InstrFacts
    <3>5. k = n \/ c < EndOf(s.used[n])
      BY <3>2 DEF Ordered, InOrder
    <3>6. c <= last
      <4>1. CASE k = n
        BY <3>3, <3>4, <4>1
      <4>2. CASE c < EndOf(s.used[n])
        BY <1>1, <3>3, <3>4, <4>2
      <4> QED BY <3>5, <4>1, <4>2
    <3> HIDE DEF c, last
    <3>7. c < s.inp + m
      BY <1>1, <1>2, <1>3, <3>4, <3>6
    <3> QED BY <3>7 DEF c
  <2> HIDE DEF t
  <2>13. Ordered(t) /\ t.off <= t.inp /\ AvailIn(t) = AvailIn(s)
    BY <2>11 DEF Ordered, AvailIn
  <2>14. Short(t.used, t.inp, t.inp + t.min_match)
    BY <2>11, <2>12 DEF Short, Behind
  <2> QED BY <2>13, <2>14 DEF NextOrder, LoopOrdered
<1> QED
  BY <1>4, <1>5

\* After a match of length len at the input position.
LEMMA HandleLazyOrder ==
  ASSUME NEW s, LoopReady(s), NEW len \in Nat, len >= MIN_MATCH, s.inp + len <= AvailIn(s),
         AfterMatch(s, s, len)
  PROVE  NextOrder(s, HandleLazy(s, len))
<1> DEFINE u == [s EXCEPT !.min_match = len]
           v == [s EXCEPT !.inp = @ + len]
<1>1. /\ Ready(s) /\ Core(s) /\ Names \subseteq DOMAIN s /\ s.inp \in Nat /\ s.inp <= Len(s.win)
      /\ AvailIn(s) = Len(s.win) /\ s.run_c \in Nat /\ s.run_l \in Nat
      /\ s.min_match \in Nat /\ s.min_match >= MIN_MATCH
  BY ReadyFacts DEF LoopReady
<1>2. HandleLazy(s, len) = UpdateOne(u) \/ HandleLazy(s, len) = Restart(v)
  BY DEF HandleLazy
<1>3. /\ Ordered(s) /\ s.off \in Int /\ s.off <= s.inp /\ Short(s.used, s.inp + 1, s.inp + len + 1)
      /\ s.used \in Seq(Instrs)
  <2>1. s.used \in Seq(CopiesWithin(0, Len(s.source)))
    BY <1>1 DEF Core, BufferOK
  <2> QED BY <2>1, SeqGrows DEF CopiesWithin, AfterMatch, Ordered
<1>4. NextOrder(s, UpdateOne(u))
  <2>1. LoopReady(u)
    BY MinMatchMoves
  <2>2. u.min_match = len /\ u.inp = s.inp /\ u.used = s.used /\ u.off = s.off /\ u.win = s.win
    BY <1>1 DEF Names
  <2> HIDE DEF u
  <2>3. u.inp + 1 + u.min_match = s.inp + len + 1 /\ u.inp + 1 = s.inp + 1
    BY <1>1, <2>2
  <2>4. Ordered(u) /\ u.off <= u.inp /\ Short(u.used, u.inp + 1, u.inp + 1 + u.min_match)
    BY <1>3, <2>2, <2>3 DEF Ordered, AvailIn
  <2>5. NextOrder(u, UpdateOne(u)) /\ AvailIn(u) = AvailIn(s)
    BY <2>1, <2>2, <2>4, UpdateOneOrder DEF AvailIn
  <2> QED BY <2>5 DEF NextOrder
<1>5. NextOrder(s, Restart(v))
  <2>1. OnlyChanges(s, v, {"inp"}) /\ v.inp = s.inp + len
    BY <1>1 DEF OnlyChanges, Names
  <2> HIDE DEF v
  <2>2. v.min_match = s.min_match /\ v.run_c = s.run_c /\ v.run_l = s.run_l
        /\ v.used = s.used /\ v.off = s.off /\ v.win = s.win
    BY <1>1, <2>1 DEF OnlyChanges, Names
  <2>3. v.inp \in Nat /\ v.inp <= Len(s.win) /\ v.off <= v.inp /\ s.inp + 1 <= v.inp
    <3>1. len >= 1
      BY DEF MIN_MATCH
    <3> QED BY <1>1, <1>3, <2>1, <2>2, <3>1, SMTT(60)
  <2>4. {"inp"} \cap (CoreFields \cup TableFields \cup {"match_state"}) = {}
    BY DEF CoreFields, TableFields
  <2>5. Ready(v)
    BY <1>1, <2>1, <2>2, <2>3, <2>4, ReadyMoves
  <2>6. ASSUME NEW k \in 1..Len(s.used)
        PROVE  s.used[k].pos < v.inp
    <3>1. s.used[k] \in Instrs /\ s.used[k].pos < s.inp + 1
      BY <1>3 DEF Short
    <3>2. s.used[k].pos \in Int
      BY <3>1, InstrFacts
    <3> QED BY <1>1, <2>3, <3>1, <3>2, SMTT(60)
  <2>7. Ordered(v) /\ Behind(v)
    BY <1>3, <2>2, <2>6 DEF Ordered, AvailIn, Behind
  <2>8. NextOrder(v, Restart(v)) /\ AvailIn(v) = AvailIn(s)
    BY <2>2, <2>3, <2>5, <2>7, RestartOrder DEF AvailIn
  <2> QED BY <2>8 DEF NextOrder
<1> HIDE DEF u, v
<1> QED
  BY <1>2, <1>4, <1>5

\* A run or a copy from the window is entered at the input position.
LEMMA EnterOrder ==
  ASSUME Roomy, NEW s, LoopReady(s), CanMatch(s),
         NEW i \in Instrs, ~ (i.type = CPY /\ i.xtra = 1), i.pos = s.inp,
         i.size >= s.min_match, s.inp + i.size <= AvailIn(s)
  PROVE  NextOrder(s, HandleLazy(TakeSlot(s, i), i.size))
<1> DEFINE t == TakeSlot(s, i)
           len == i.size
<1>1. /\ Core(s) /\ s.inp \in Nat /\ AvailIn(s) \in Nat /\ s.min_match \in Nat /\ s.min_match >= MIN_MATCH
      /\ len \in Nat /\ EndOf(i) = s.inp + len /\ s.off \in Int
  <2>1. Core(s) /\ s.inp \in Nat /\ AvailIn(s) \in Nat /\ s.min_match \in Nat /\ s.min_match >= MIN_MATCH
    BY ReadyFacts DEF LoopReady
  <2>2. i.size \in Nat /\ s.off \in Int
    BY <2>1 DEF Instrs, Core, CanSend, CodeOK
  <2> QED BY <2>1, <2>2 DEF EndOf
<1>2. LoopReady(t) /\ t.inp = s.inp /\ AvailIn(t) = AvailIn(s)
  BY NoSourceCopy
<1>3. s.used \in Seq(Instrs)
  <2>1. s.used \in Seq(CopiesWithin(0, Len(s.source)))
    BY <1>1 DEF Core, BufferOK
  <2> QED BY <2>1, SeqGrows DEF CopiesWithin
<1> DEFINE p == s.inp
           q == s.inp + s.min_match
           y == s.inp + len
<1>4. p \in Int /\ q \in Int /\ y \in Int /\ q <= y /\ p <= p /\ p < p + 1 /\ y < y + 1 /\ len >= MIN_MATCH
  <2> HIDE DEF len
  <2>1. len >= s.min_match
    BY DEF len
  <2> QED BY <1>1, <2>1 DEF MIN_MATCH
<1>5. Fits(s, i)
  <2>1. Short(s.used, p, q)
    BY DEF CanMatch, LoopOrdered
  <2> HIDE DEF p, q, y
  <2>2. Short(s.used, p, y)
    BY <1>3, <1>4, <2>1, ShortGrows
  <2>3. s.off <= i.pos /\ EndOf(i) <= AvailIn(s) /\ i.size >= MIN_MATCH
    BY <1>1, <1>4 DEF CanMatch, LoopOrdered
  <2> QED BY <1>1, <2>2, <2>3 DEF Fits, p, y
<1>6. Placed(s, t, i)
  BY <1>1, <1>5, TakeSlotOrder DEF Core, CanMatch, LoopOrdered
<1> HIDE DEF t
<1>7. /\ t.off \in Int /\ InOrder(t.used, t.off, AvailIn(t)) /\ t.off <= t.inp
      /\ Short(t.used, t.inp + 1, t.inp + len + 1)
  <2>1. Short(t.used, p + 1, y + 1)
    <3>1. p + 1 \in Int /\ y + 1 \in Int /\ i.pos < p + 1 /\ EndOf(i) < y + 1
      BY <1>1, <1>4
    <3> QED BY <1>6, <3>1 DEF Placed
  <2> QED BY <1>2, <1>6, <2>1 DEF Placed
<1>8. AfterMatch(t, t, len)
  BY <1>7 DEF AfterMatch
<1>9. t.inp + len <= AvailIn(t)
  BY <1>2
<1> QED
  <2> HIDE DEF len
  <2>1. NextOrder(t, HandleLazy(t, len))
    BY <1>1, <1>2, <1>4, <1>8, <1>9, HandleLazyOrder
  <2>2. NextOrder(s, HandleLazy(t, len))
    BY <1>2, <2>1 DEF NextOrder
  <2> QED BY <2>2 DEF t, len

LEMMA RunFoundOrder ==
  ASSUME Roomy, NEW s, LoopReady(s), CanMatch(s), RunTaken(s)
  PROVE  NextOrder(s, RunFound(TryRun(s)))
<1> DEFINE r == TryRun(s)
           i == Inst(RUN, s.inp, WholeRun(s), 0, s.run_c)
           t == HandleLazy(TakeSlot(r, i), i.size)
<1>1. /\ RunFound(r) = t /\ i \in Instrs /\ ~ (i.type = CPY /\ i.xtra = 1)
      /\ i.size >= s.min_match /\ r.inp + i.size <= AvailIn(r) /\ i.pos = r.inp
      /\ LoopReady(r) /\ OnlyChanges(s, r, {"run_l"})
  BY RunSteps
<1> HIDE DEF i, r
<1>2. Names \subseteq DOMAIN s
  BY ReadyFacts DEF LoopReady
<1>3. CanMatch(r) /\ r.inp = s.inp /\ r.min_match = s.min_match /\ AvailIn(r) = AvailIn(s)
  BY <1>1, <1>2, CanMatchKept DEF OrderFields
<1>4. NextOrder(r, t)
  BY <1>1, <1>3, EnterOrder
<1> QED
  BY <1>1, <1>3, <1>4 DEF NextOrder, r

LEMMA WindowFoundOrder ==
  ASSUME Roomy, NEW s, LoopReady(s), CanMatch(s), NEW m, m = BestOf(s), m.length >= s.min_match
  PROVE  NextOrder(s, WindowFound(s, m))
<1> DEFINE u == ScksumInsert(s)
           i == Inst(CPY, s.inp, m.length, m.offset, 0)
           t == HandleLazy(TakeSlot(u, i), i.size)
<1>1. /\ WindowFound(s, m) = t /\ i \in Instrs /\ ~ (i.type = CPY /\ i.xtra = 1)
      /\ i.size >= s.min_match /\ u.inp + i.size <= AvailIn(u) /\ i.pos = u.inp
      /\ LoopReady(u) /\ OnlyChanges(s, u, {"prev", "small"}) /\ Names \subseteq DOMAIN s
  BY WindowSteps
<1> HIDE DEF i, u
<1>2. CanMatch(u) /\ u.inp = s.inp /\ u.min_match = s.min_match /\ AvailIn(u) = AvailIn(s)
  BY <1>1, CanMatchKept DEF OrderFields
<1>3. NextOrder(u, t)
  BY <1>1, <1>2, EnterOrder
<1> QED
  BY <1>1, <1>2, <1>3 DEF NextOrder

\* Without a match, one that begins at the next position may be a byte shorter.
LEMMA NotFoundOrder ==
  ASSUME NEW s, LoopReady(s), CanMatch(s)
  PROVE  NextOrder(s, NotFound(s))
<1> DEFINE t == ScksumInsert(s)
           x == t.min_match - 1
           m == Max({MIN_MATCH, x})
           u == [t EXCEPT !.min_match = m]
<1>1. LoopReady(t) /\ OnlyChanges(s, t, {"prev", "small"}) /\ Names \subseteq DOMAIN s
  BY ScksumInsertKeeps, ReadyFacts DEF LoopReady
<1>2. NotFound(s) = UpdateOne(u)
  BY DEF NotFound
<1> HIDE DEF t
<1>3. CanMatch(t) /\ AvailIn(t) = AvailIn(s)
  BY <1>1, CanMatchKept DEF OrderFields
<1>4. Names \subseteq DOMAIN t /\ Core(t) /\ t.inp \in Nat /\ t.min_match \in Nat /\ t.off \in Int
  BY <1>1, ReadyFacts DEF LoopReady, Core, CanSend, CodeOK
<1>5. m \in Nat /\ m >= MIN_MATCH /\ m >= x
  <2>1. x \in Int /\ MIN_MATCH \in Nat
    BY <1>4 DEF MIN_MATCH
  <2> HIDE DEF x
  <2> QED BY <2>1, MaxTwo
<1> HIDE DEF m
<1>6. LoopReady(u)
  BY <1>1, <1>5, MinMatchMoves
<1>7. u.min_match = m /\ u.inp = t.inp /\ u.used = t.used /\ u.off = t.off /\ u.win = t.win
  BY <1>4 DEF Names
<1> HIDE DEF u
<1>8. Short(t.used, t.inp + 1, t.inp + 1 + m)
  <2> DEFINE p == t.inp
             q == t.inp + t.min_match
             p2 == t.inp + 1
             q2 == t.inp + 1 + m
  <2>1. p \in Int /\ q \in Int /\ p2 \in Int /\ q2 \in Int /\ p <= p2 /\ q <= q2
    BY <1>4, <1>5
  <2>2. t.used \in Seq(Instrs) /\ Short(t.used, p, q)
    <3>1. t.used \in Seq(CopiesWithin(0, Len(t.source)))
      BY <1>4 DEF Core, BufferOK
    <3> QED BY <1>3, <3>1, SeqGrows DEF CopiesWithin, CanMatch, LoopOrdered
  <2> HIDE DEF p, q, p2, q2
  <2>3. Short(t.used, p2, q2)
    BY <2>1, <2>2, ShortGrows
  <2> QED BY <2>3 DEF p2, q2
<1>9. /\ Ordered(u) /\ u.off <= u.inp /\ Short(u.used, u.inp + 1, u.inp + 1 + u.min_match)
      /\ AvailIn(u) = AvailIn(s)
  BY <1>3, <1>7, <1>8 DEF CanMatch, LoopOrdered, Ordered, AvailIn
<1>10. NextOrder(u, UpdateOne(u))
  BY <1>6, <1>9, UpdateOneOrder
<1> QED
  BY <1>2, <1>9, <1>10 DEF NextOrder

\* A match with the source was entered before the input position, or none was found.
LEMMA SearchedOrder ==
  ASSUME Roomy, NEW s, LoopReady(s), CanMatch(s)
  PROVE  LET t == TrySource(TryRun(s))
         IN  /\ AvailIn(t) = AvailIn(s)
             /\ t.fwd = 0 => CanMatch(t)
             /\ t.fwd > 0 => AfterMatch(t, t, t.fwd)
<1> DEFINE r == TryRun(s)
           t == TrySource(r)
<1>1. LoopReady(r) /\ OnlyChanges(s, r, {"run_l"}) /\ Names \subseteq DOMAIN s
  BY TryRunKeeps, ReadyFacts DEF LoopReady
<1> HIDE DEF r
<1>2. CanMatch(r) /\ Names \subseteq DOMAIN r /\ AvailIn(r) = AvailIn(s)
  BY <1>1, CanMatchKept, ReadyFacts DEF OrderFields, LoopReady
<1>3. Matched(r, t) /\ OnlyChanges(r, t, SearchFields)
  BY <1>1, <1>2, TrySourceOrder, TrySourceKeeps
<1> HIDE DEF t
<1>4. t.inp = r.inp /\ t.min_match = r.min_match /\ AvailIn(t) = AvailIn(r)
  BY <1>2, <1>3
  DEF OnlyChanges, Names, AvailIn, SearchFields, MoveFields, LargeFields, SetupFields, MatchFields,
      TakeFields, SlotFields, CodeFields, SourceFields
<1>5. t.fwd = 0 => CanMatch(t)
  BY <1>2, <1>3, <1>4 DEF Matched, SlotsSame, CanMatch, LoopOrdered, Ordered, SlotOK
<1>6. t.fwd > 0 => AfterMatch(t, t, t.fwd)
  BY <1>3, <1>4 DEF Matched, AfterMatch
<1> QED
  BY <1>2, <1>4, <1>5, <1>6 DEF t, r

-----------------------------------------------------------------------------
(* The steps keep the order. *)

\* As the search of a window begins.
Fresh(s) == s.used = <<>> /\ s.off = 0 /\ s.inp = 0 /\ s.min_match = MIN_MATCH

\* There is room for the first instruction.
LEMMA FreshFacts ==
  ASSUME Roomy, NEW s, Ready(s), Fresh(s)
  PROVE  CanMatch(s)
<1>1. Core(s) /\ AvailIn(s) \in Nat
  BY ReadyFacts
<1>2. Len(s.used) = 0 /\ 1..Len(s.used) = {}
  BY DEF Fresh
<1>3. LoopOrdered(s)
  <2>1. InOrder(s.used, s.off, AvailIn(s)) /\ Short(s.used, s.inp, s.inp + s.min_match)
    BY <1>2 DEF InOrder, Short, Fresh
  <2> QED BY <2>1 DEF LoopOrdered, Ordered, Fresh
<1>4. s.free > 0 \/ s.unlimited = TRUE
  <2> DEFINE f == s.free
             w == Waits(s)
             z == s.iopt_size
  <2>1. /\ f + Len(s.used) + w = z /\ w \in {0, 1} /\ f \in Int /\ z \in Nat /\ s.unlimited \in BOOLEAN
        /\ s.unlimited = FALSE => z \in IoptSizes \ {0}
    BY <1>1 DEF Core, CanSend, CodeOK, BufferOK, Waits
  <2>2. CASE s.unlimited = FALSE
    <3>1. z >= 4 /\ f + 0 + w = z
      BY <1>2, <2>1, <2>2 DEF Roomy
    <3> HIDE DEF f, w, z
    <3>2. f > 0
      BY <2>1, <3>1
    <3> QED BY <3>2 DEF f
  <2> QED BY <2>1, <2>2
<1> QED
  BY <1>3, <1>4 DEF CanMatch, SlotOK

LEMMA ContinuedOrder ==
  ASSUME Roomy, NEW s, Ready(s), Fresh(s)
  PROVE  LET t == Continued(s)
         IN  Ordered(t) /\ t.off <= t.inp /\ Behind(t) /\ AvailIn(t) = AvailIn(s)
<1> DEFINE t == Continued(s)
           u == SourceMatchSetup(s, s.match_srcpos)
<1>0. SUFFICES Ordered(t) /\ t.off <= t.inp /\ Behind(t) /\ AvailIn(t) = AvailIn(s)
  OBVIOUS
<1>1. /\ Core(s) /\ Names \subseteq DOMAIN s /\ s.inp = 0 /\ s.off = 0 /\ s.used = <<>>
      /\ AvailIn(s) \in Nat /\ CanMatch(s) /\ s.match_state \in {"target", "searching"}
  BY ReadyFacts, FreshFacts DEF Fresh, Ready, Good
<1>2. CASE t.used = <<>> /\ t.off = 0 /\ t.inp = 0 /\ AvailIn(t) = AvailIn(s)
  <2> HIDE DEF t
  <2>1. Len(t.used) = 0 /\ 1..Len(t.used) = {}
    BY <1>2
  <2> QED BY <1>2, <2>1 DEF InOrder, Behind, Ordered
<1>3. ASSUME t = s \/ t = [s EXCEPT !.match_state = "searching", !.fwd = 0]
      PROVE  t.used = <<>> /\ t.off = 0 /\ t.inp = 0 /\ AvailIn(t) = AvailIn(s)
  <2> HIDE DEF t
  <2> QED BY <1>1, <1>3 DEF Names, AvailIn
<1>4. CASE \E v : /\ t = SkipMatch(SourceExtendMatch(v))
                  /\ OnlyChanges(s, v, SetupFields) /\ Core(v) /\ MatchLimits(v)
                  /\ v.maxback = u.maxback
  <2>1. PICK v : /\ t = SkipMatch(SourceExtendMatch(v))
                 /\ OnlyChanges(s, v, SetupFields) /\ Core(v) /\ MatchLimits(v)
                 /\ v.maxback = u.maxback
    BY <1>4
  <2> DEFINE w == SourceExtendMatch(v)
  <2>2. s.match_srcpos \in Nat /\ s.match_srcpos <= Len(s.source)
    BY <1>1 DEF Core, SourcePositions, CanSend, Base
  <2>3. u.maxback <= u.inp - u.off /\ SlotsSame(s, u) /\ u.inp = s.inp
    BY <1>1, <2>2, SetupOrder
  <2>4. CanMatch(v) /\ SlotsSame(s, v) /\ v.inp = s.inp /\ AvailIn(v) = AvailIn(s)
    BY <1>1, <2>1, CanMatchKept DEF SetupFields, OrderFields
  <2>5. Names \subseteq DOMAIN v
    BY <2>1 DEF Core, CanSend, Base
  <2>6. t = SkipMatch(w)
    BY <2>1
  <2> HIDE DEF u, t
  <2>7. v.used = <<>> /\ v.off = 0 /\ v.inp = 0 /\ AvailIn(v) = AvailIn(s) /\ v.maxback <= v.inp - v.off
    BY <1>1, <2>1, <2>3, <2>4 DEF SlotsSame
  <2>8. Matched(v, w)
    BY <2>1, <2>4, <2>7, SourceExtendMatchOrder
  <2>9. OnlyChanges(v, w, MatchFields) /\ Good(w) /\ w.fwd \in Nat
    BY <2>1, SourceExtendMatchKeeps
  <2> HIDE DEF w
  <2>10. w.inp = v.inp /\ AvailIn(w) = AvailIn(v) /\ Names \subseteq DOMAIN w
    BY <2>5, <2>9
    DEF AvailIn, OnlyChanges, Names, MatchFields, TakeFields, SlotFields, CodeFields, SourceFields
  <2>11. t.used = w.used /\ t.off = w.off /\ t.inp = w.fwd /\ AvailIn(t) = AvailIn(w)
    <3>1. t.inp = 0 + w.fwd /\ t.used = w.used /\ t.off = w.off /\ t.win = w.win
      BY <2>6, <2>7, <2>10 DEF SkipMatch, Names
    <3> QED BY <2>9, <3>1 DEF AvailIn
  <2>12. CASE w.fwd = 0
    <3>1. t.used = <<>> /\ t.off = 0 /\ t.inp = 0 /\ AvailIn(t) = AvailIn(s)
      BY <2>7, <2>8, <2>10, <2>11, <2>12 DEF Matched, SlotsSame
    <3> QED BY <1>2, <3>1
  <2>13. CASE w.fwd > 0
    <3>1. /\ w.off \in Int /\ InOrder(w.used, w.off, AvailIn(w)) /\ w.off <= 0
          /\ Short(w.used, 0 + 1, 0 + w.fwd + 1)
      BY <2>7, <2>8, <2>10, <2>13 DEF Matched, AfterMatch
    <3>2. w.used \in Seq(Instrs)
      <4>1. w.used \in Seq(CopiesWithin(0, Len(w.source)))
        BY <2>9 DEF Good, Core, BufferOK
      <4> QED BY <4>1, SeqGrows DEF CopiesWithin
    <3>3. ASSUME NEW k \in 1..Len(w.used)
          PROVE  w.used[k].pos < w.fwd
      <4>1. w.used[k] \in Instrs /\ w.used[k].pos < 0 + 1
        BY <3>1, <3>2 DEF Short
      <4>2. w.used[k].pos \in Int
        BY <4>1, InstrFacts
      <4> QED BY <2>9, <2>13, <4>1, <4>2
    <3>4. Ordered(t) /\ t.off <= t.inp /\ Behind(t)
      BY <2>9, <2>11, <3>1, <3>3 DEF Ordered, Behind
    <3> QED BY <2>7, <2>10, <2>11, <3>4
  <2> QED BY <2>9, <2>12, <2>13
<1> HIDE DEF t
<1> QED
  BY <1>2, <1>3, <1>4, ContinuedSteps DEF t

LEMMA BegunOrder ==
  ASSUME Roomy, NEW s, Ready(s), Fresh(s)
  PROVE  NextOrder(s, Begun(s))
<1> DEFINE c == Continued(s)
           i == MatchInit(c)
           none == [h \in DOMAIN c.small |-> 0]
<1>1. /\ Ready(c) /\ Ordered(c) /\ c.off <= c.inp /\ Behind(c) /\ Names \subseteq DOMAIN c
      /\ AvailIn(c) = AvailIn(s)
  <2>1. Ready(c)
    BY ContinuedKeeps
  <2> QED BY <2>1, ContinuedOrder, ReadyFacts
<1>2. Begun(s) = IF NoRoom(c) THEN [c EXCEPT !.instr = TRUE] ELSE Restart(i)
  BY DEF Begun
<1> HIDE DEF c
<1>3. CASE NoRoom(c)
  <2> DEFINE t == [c EXCEPT !.instr = TRUE]
  <2>1. t.instr = TRUE /\ t.used = c.used /\ t.off = c.off /\ t.win = c.win
    BY <1>1 DEF Names
  <2> HIDE DEF t
  <2>2. NextOrder(s, t)
    BY <1>1, <2>1 DEF NextOrder, Ordered, AvailIn
  <2> QED BY <1>2, <1>3, <2>2 DEF t
<1>4. CASE ~ NoRoom(c)
  <2>1. i = c \/ i = [c EXCEPT !.small = none, !.small_reset = FALSE]
    BY DEF MatchInit
  <2>2. Ready(i)
    BY <1>1, MatchInitKeeps
  <2> HIDE DEF i, none
  <2>3. i.used = c.used /\ i.off = c.off /\ i.win = c.win /\ i.inp = c.inp
    BY <1>1, <2>1, ZenonT(60) DEF Names
  <2>4. Ordered(i) /\ i.off <= i.inp /\ Behind(i) /\ AvailIn(i) = AvailIn(s)
    BY <1>1, <2>3 DEF Ordered, AvailIn, Behind
  <2>5. NextOrder(i, Restart(i))
    BY <2>2, <2>4, RestartOrder
  <2>6. NextOrder(s, Restart(i))
    BY <2>4, <2>5 DEF NextOrder
  <2> QED BY <1>2, <1>4, <2>6
<1> QED
  BY <1>3, <1>4

\* A full buffer has room after a flush, whatever overlaps in it, as the search enters the
\* next instruction.
FlushHasRoom == pc = "loop" => SlotOK(e)

\* The instructions are in order as the search goes on, and none is left over from a window.
OrderInv ==
  /\ EncoderInv
  /\ AvailIn(e) <= WinSize
  /\ pc \in {"input", "search"} => e.used = <<>>
  /\ pc = "search" => Fresh(e)
  /\ pc = "loop" => LoopOrdered(e)
  /\ pc = "instr" => Ordered(e)

LEMMA GotoOrder ==
  ASSUME OrderInv, EncoderInv', NEW s, NextOrder(e, s), Goto(s)
  PROVE  OrderInv'
<1>1. e' = s /\ pc' \in {"failed", "instr", "loop"} /\ (pc' = "loop" => ~ s.instr)
  BY DEF Goto
<1>2. Ordered(e') /\ (pc' = "loop" => LoopOrdered(e'))
  BY <1>1 DEF NextOrder
<1>3. AvailIn(e') <= WinSize
  BY <1>1 DEF OrderInv, NextOrder
<1> QED
  BY <1>1, <1>2, <1>3 DEF OrderInv

LEMMA OrderInit ==
  ASSUME Init
  PROVE  OrderInv
<1>1. PICK i \in Inputs, cfg \in Matchers, size \in IoptSizes :
        e = NewEncoder(i, cfg, size) /\ pc = "input"
  BY DEF Init
<1>2. e.used = <<>> /\ e.win = <<>>
  BY <1>1 DEF NewEncoder
<1>3. AvailIn(e) <= WinSize
  BY <1>2, SizesAssumption DEF AvailIn
<1> QED
  BY <1>1, <1>2, <1>3, EncoderInit DEF OrderInv

LEMMA TakeWindowOrder ==
  ASSUME OrderInv, TakeWindow
  PROVE  OrderInv'
<1>1. EncoderInv' /\ Names \subseteq DOMAIN e /\ e.used = <<>>
  BY TakeWindowKeeps, ReadyFacts DEF OrderInv, EncoderInv, TakeWindow
<1>2. pc' = "search" /\ \E w : e' = NextWindow(e, w)
  BY DEF TakeWindow, NextWindow
<1>3. Fresh(e')
  BY <1>1, <1>2 DEF NextWindow, Names, Fresh
<1>4. AvailIn(e') <= WinSize
  <2> DEFINE n == e.total_in
             m == Min({n + WinSize, Len(text)})
  <2>1. e'.win = SubSeq(text, n + 1, m)
    BY <1>1 DEF TakeWindow, Names
  <2>2. n \in Nat /\ text \in Seq(Nat) /\ Len(text) \in Nat /\ WinSize \in Nat
    BY SizesAssumption DEF OrderInv, EncoderInv, Ready, Good, Core, CanSend, Base
  <2>3. m \in Int /\ m <= n + WinSize /\ m <= Len(text)
    <3> DEFINE x == n + WinSize
               y == Len(text)
    <3>1. x \in Int /\ y \in Int /\ m = Min({x, y})
      BY <2>2
    <3> HIDE DEF x, y, m
    <3>2. m = IF x <= y THEN x ELSE y
      BY <3>1, MinTwo
    <3>3. m \in Int /\ m <= x /\ m <= y
      BY <3>1, <3>2
    <3> QED BY <3>3 DEF x, y
  <2> HIDE DEF n, m
  <2>4. Len(e'.win) = IF n + 1 <= m THEN m - n ELSE 0
    BY <2>1, <2>2, <2>3
  <2> QED BY <2>2, <2>3, <2>4 DEF AvailIn
<1> QED
  BY <1>1, <1>2, <1>3, <1>4 DEF OrderInv, Fresh

LEMMA BeginSearchOrder ==
  ASSUME Roomy, OrderInv, BeginSearch
  PROVE  OrderInv'
<1>1. EncoderInv' /\ Ready(e) /\ Fresh(e)
  BY BeginSearchKeeps DEF OrderInv, EncoderInv, BeginSearch
<1>2. Goto(Begun(e))
  BY DEF BeginSearch, Begun
<1> QED
  BY <1>1, <1>2, BegunOrder, GotoOrder

LEMMA FindRunOrder ==
  ASSUME Roomy, OrderInv, FlushHasRoom, FindRun
  PROVE  OrderInv'
<1>1. EncoderInv' /\ LoopReady(e) /\ CanMatch(e)
  BY FindRunKeeps DEF OrderInv, EncoderInv, FindRun, FlushHasRoom, CanMatch
<1>2. Goto(RunFound(TryRun(e))) /\ RunTaken(e)
  BY DEF FindRun, RunFound
<1> QED
  BY <1>1, <1>2, RunFoundOrder, GotoOrder

LEMMA FindCopyOrder ==
  ASSUME Roomy, OrderInv, FlushHasRoom, FindCopy
  PROVE  OrderInv'
<1> DEFINE s == TrySource(TryRun(e))
           m == BestOf(s)
<1>1. EncoderInv' /\ LoopReady(e) /\ CanMatch(e)
  BY FindCopyKeeps DEF OrderInv, EncoderInv, FindCopy, FlushHasRoom, CanMatch
<1>2. \/ (s.fwd > 0 \/ s.error) /\ Goto(SourceFound(s))
      \/ s.fwd = 0 /\ m.length >= s.min_match /\ Goto(WindowFound(s, m))
      \/ s.fwd = 0 /\ Goto(NotFound(s))
  BY DEF FindCopy, SourceFound, WindowFound, NotFound, BestOf
<1>3. /\ LoopReady(s) /\ s.fwd \in Nat /\ s.inp + s.fwd <= AvailIn(s)
      /\ s.fwd = 0 \/ s.fwd >= MIN_MATCH
  BY <1>1, TrySourceFacts
<1>4. /\ (s.fwd = 0 => CanMatch(s)) /\ (s.fwd > 0 => AfterMatch(s, s, s.fwd))
      /\ AvailIn(s) = AvailIn(e)
  BY <1>1, SearchedOrder
<1> HIDE DEF s
<1>5. CASE s.error /\ Goto(SourceFound(s))
  <2>1. pc' = "failed" /\ e' = s
    BY <1>5 DEF Goto, SourceFound
  <2>2. AvailIn(e') <= WinSize
    BY <1>4, <2>1 DEF OrderInv
  <2> QED BY <1>1, <2>1, <2>2 DEF OrderInv
<1>6. CASE ~ s.error /\ s.fwd > 0 /\ Goto(SourceFound(s))
  <2>1. s.fwd >= MIN_MATCH
    BY <1>3, <1>6
  <2>2. NextOrder(s, HandleLazy(s, s.fwd))
    BY <1>3, <1>4, <1>6, <2>1, HandleLazyOrder
  <2>3. NextOrder(e, HandleLazy(s, s.fwd))
    BY <1>4, <2>2 DEF NextOrder
  <2> QED BY <1>1, <1>6, <2>3, GotoOrder DEF SourceFound
<1>7. CASE s.fwd = 0 /\ m.length >= s.min_match /\ Goto(WindowFound(s, m))
  <2>1. NextOrder(s, WindowFound(s, m))
    BY <1>3, <1>4, <1>7, WindowFoundOrder
  <2>2. NextOrder(e, WindowFound(s, m))
    BY <1>4, <2>1 DEF NextOrder
  <2> QED BY <1>1, <1>7, <2>2, GotoOrder
<1>8. CASE s.fwd = 0 /\ Goto(NotFound(s))
  <2>1. NextOrder(s, NotFound(s))
    BY <1>3, <1>4, <1>8, NotFoundOrder
  <2>2. NextOrder(e, NotFound(s))
    BY <1>4, <2>1 DEF NextOrder
  <2> QED BY <1>1, <1>8, <2>2, GotoOrder
<1> QED
  BY <1>2, <1>5, <1>6, <1>7, <1>8

LEMMA FinishWindowOrder ==
  ASSUME OrderInv, FinishWindow
  PROVE  OrderInv'
<1>1. e' = EncodeReset(AddFinalize(FlushInstructions(e, TRUE))) /\ pc' \in {"input", "header"}
  BY DEF FinishWindow
<1>2. EncoderInv' /\ e'.used = <<>> /\ e'.win = e.win
  BY <1>1, FinishWindowKeeps, FinishKeeps DEF OrderInv, EncoderInv
<1>3. AvailIn(e') <= WinSize
  BY <1>2 DEF OrderInv, AvailIn
<1> QED
  BY <1>1, <1>2, <1>3 DEF OrderInv

\* The decoder's steps.
LEMMA DecoderKeepsOrder ==
  ASSUME OrderInv, UNCHANGED <<text, e>>, pc' = pc \/ pc' \in {"emit", "failed", "header", "done"}
  PROVE  OrderInv'
<1>1. e' = e
  OBVIOUS
<1>2. EncoderInv'
  BY ElsewhereKeeps DEF OrderInv
<1> QED
  BY <1>1, <1>2 DEF OrderInv

LEMMA OrderNext ==
  ASSUME Roomy, OrderInv, FlushHasRoom, [Next]_vars
  PROVE  OrderInv'
<1>1. CASE UNCHANGED <<text, e>> /\ (pc' = pc \/ pc' \in {"emit", "failed", "header", "done"})
  BY <1>1, DecoderKeepsOrder
<1>2. CASE TakeWindow
  BY <1>2, TakeWindowOrder
<1>3. CASE BeginSearch
  BY <1>3, BeginSearchOrder
<1>4. CASE FindRun
  BY <1>4, FindRunOrder
<1>5. CASE FindCopy
  BY <1>5, FindCopyOrder
<1>6. CASE FinishWindow
  BY <1>6, FinishWindowOrder
<1> QED
  BY <1>1, <1>2, <1>3, <1>4, <1>5, <1>6, EncoderOrDecoder

LEMMA OrderImplies ==
  ASSUME OrderInv
  PROVE  BufferIsOrdered
<1>1. CASE pc \in {"loop", "instr"}
  <2>1. InOrder(e.used, e.off, AvailIn(e))
    BY <1>1 DEF OrderInv, LoopOrdered, Ordered
  <2>2. e.used \in Seq(Instrs) /\ Len(e.used) \in Nat
    <3>1. e.used \in Seq(CopiesWithin(0, Len(e.source)))
      BY DEF OrderInv, EncoderInv, Ready, Good, Core, BufferOK
    <3> QED BY <3>1, SeqGrows DEF CopiesWithin
  <2>3. e.off \in Int
    BY DEF OrderInv, EncoderInv, Ready, Good, Core, CanSend, CodeOK
  <2>4. ASSUME NEW k \in 1..Len(e.used)
        PROVE  e.used[k].pos >= e.off /\ EndOf(e.used[k]) <= AvailIn(e) /\ e.used[k].size >= MIN_MATCH
    <3>1. e.used[k] \in Instrs
      BY <2>2
    <3>2. e.used[k].pos \in Int
      BY <3>1, InstrFacts
    <3>3. e.off <= e.used[k].pos /\ EndOf(e.used[k]) <= AvailIn(e) /\ e.used[k].size >= MIN_MATCH
      BY <2>1 DEF InOrder
    <3> QED BY <2>3, <3>2, <3>3
  <2>5. ASSUME NEW k \in 2..Len(e.used)
        PROVE  e.used[k-1].pos < e.used[k].pos /\ EndOf(e.used[k-1]) < EndOf(e.used[k])
    <3>1. k - 1 \in 1..Len(e.used) /\ k \in 1..Len(e.used) /\ k - 1 < k
      BY <2>2
    <3> QED BY <2>1, <3>1 DEF InOrder
  <2> QED BY <2>4, <2>5 DEF BufferIsOrdered
<1> QED
  BY <1>1 DEF BufferIsOrdered

\* The instructions in the buffer lie in the part of the window that is not encoded yet, each
\* beginning and ending after the one before it, whatever is entered, erased, shortened,
\* dropped and sent ("the min_match adjustments prevent this").  A limited buffer that is full
\* must not be left with just two that overlap by the flush that makes room: the search may go
\* on with either of them then.
THEOREM BufferOrdered ==
  ASSUME Roomy
  PROVE  Spec /\ []FlushHasRoom => []BufferIsOrdered
<1>1. Init => OrderInv
  BY OrderInit
<1>2. OrderInv /\ FlushHasRoom /\ [Next]_vars => OrderInv'
  BY OrderNext
<1>3. OrderInv => BufferIsOrdered
  BY OrderImplies
<1> QED
  BY <1>1, <1>2, <1>3, PTL DEF Spec

\* Instructions in order are no more than the positions where a match may begin.
LEMMA OrderedAreFew ==
  ASSUME NEW u \in Seq(Instrs), NEW low \in Int, NEW high \in Nat, InOrder(u, low, high)
  PROVE  Len(u) = 0 \/ Len(u) + MIN_MATCH <= high + 1
<1> DEFINE n == Len(u)
           A == {k \in Nat : 1 <= k /\ k <= n => u[k].pos >= k - 1}
<1>1. n \in Nat /\ low >= 0
  BY DEF InOrder
<1>2. ASSUME NEW k \in 1..n
      PROVE  /\ u[k].pos \in Int /\ u[k].size \in Nat /\ u[k].size >= MIN_MATCH
             /\ low <= u[k].pos /\ u[k].pos + u[k].size <= high
  <2>1. u[k] \in Instrs
    OBVIOUS
  <2>2. u[k].pos \in Int /\ u[k].size \in Nat /\ u[k].size > 0 /\ EndOf(u[k]) = u[k].pos + u[k].size
    BY <2>1, InstrFacts
  <2>3. low <= u[k].pos /\ EndOf(u[k]) <= high /\ u[k].size >= MIN_MATCH
    BY DEF InOrder
  <2> QED BY <2>2, <2>3
<1>3. ASSUME NEW k \in 1..n, k + 1 \in 1..n
      PROVE  u[k].pos < u[k+1].pos
  <2>1. k < k + 1
    BY <1>1
  <2> QED BY <1>3, <2>1 DEF InOrder
<1> HIDE DEF n
<1>4. 0 \in A
  OBVIOUS
<1>5. ASSUME NEW k \in A
      PROVE  k + 1 \in A
  <2> SUFFICES ASSUME k + 1 <= n
               PROVE  u[k+1].pos >= k
    OBVIOUS
  <2>1. k \in Nat /\ k + 1 \in 1..n
    BY <1>1
  <2>2. CASE k = 0
    <3>1. u[k+1].pos \in Int /\ low <= u[k+1].pos
      BY <1>2, <2>1
    <3> QED BY <1>1, <2>2, <3>1
  <2>3. CASE k # 0
    <3>1. k \in 1..n /\ u[k].pos >= k - 1
      BY <1>1, <2>1, <2>3
    <3>2. u[k].pos \in Int /\ u[k+1].pos \in Int /\ u[k].pos < u[k+1].pos
      BY <1>2, <1>3, <2>1, <3>1
    <3> QED BY <2>1, <3>1, <3>2
  <2> QED BY <2>2, <2>3
<1>6. \A k \in Nat : k \in A => k + 1 \in A
  BY <1>5
<1> HIDE DEF A
<1>7. \A k \in Nat : k \in A
  BY <1>4, <1>6, NatInduct
<1> USE DEF A
<1>8. CASE n = 0
  BY <1>8 DEF n
<1>9. CASE n # 0
  <2>1. n \in 1..n /\ n \in A
    BY <1>1, <1>7, <1>9
  <2>2. u[n].pos >= n - 1
    BY <1>1, <2>1
  <2>3. n + MIN_MATCH <= high + 1
    <3>1. u[n].pos \in Int /\ u[n].size \in Nat /\ u[n].size >= MIN_MATCH /\ u[n].pos + u[n].size <= high
      BY <1>2, <2>1
    <3>2. MIN_MATCH \in Nat
      BY DEF MIN_MATCH
    <3> QED BY <1>1, <2>2, <3>1, <3>2
  <2> QED BY <2>3 DEF n
<1> QED
  BY <1>8, <1>9

\* The buffer holds no more instructions than the window has bytes.
LEMMA OrderGivesRoom ==
  ASSUME \A size \in IoptSizes : size = 0 \/ size >= WinSize, Roomy, OrderInv
  PROVE  FlushHasRoom
<1> SUFFICES ASSUME pc = "loop", e.unlimited # TRUE
             PROVE  e.free > 0
  BY DEF FlushHasRoom, SlotOK
<1>1. Core(e) /\ BufferOK(e) /\ Ordered(e) /\ AvailIn(e) <= WinSize
  BY DEF OrderInv, EncoderInv, Ready, Good, Core, LoopOrdered
<1>2. e.used \in Seq(Instrs) /\ Len(e.used) \in Nat
  <2>1. e.used \in Seq(CopiesWithin(0, Len(e.source)))
    BY <1>1 DEF BufferOK
  <2> QED BY <2>1, SeqGrows DEF CopiesWithin
<1>3. e.off \in Int /\ AvailIn(e) \in Nat /\ e.free \in Int
  BY <1>1 DEF Core, CanSend, CodeOK, Base, AvailIn
<1>4. Len(e.used) = 0 \/ Len(e.used) + 3 <= AvailIn(e)
  BY <1>1, <1>2, <1>3, OrderedAreFew DEF Ordered, MIN_MATCH
<1>5. e.iopt_size \in IoptSizes \ {0} /\ e.free + Len(e.used) + Waits(e) = e.iopt_size
  BY <1>1 DEF BufferOK
<1>6. Waits(e) \in {0, 1}
  BY DEF Waits
<1>7. e.iopt_size \in Nat /\ e.iopt_size >= WinSize /\ e.iopt_size >= 4 /\ WinSize \in Nat
  BY <1>1, <1>5, SizesAssumption DEF BufferOK, Roomy
<1> HIDE DEF OrderInv
<1> QED
  BY <1>1, <1>2, <1>3, <1>4, <1>5, <1>6, <1>7

\* A buffer that grows as it fills up, or with as many elements as a window has bytes (the
\* extension's 32768, for windows of that size or less), has always room: its instructions are in
\* order, whatever the text, the source and the matcher.
THEOREM LargeBufferOrdered ==
  ASSUME Roomy, \A size \in IoptSizes : size = 0 \/ size >= WinSize
  PROVE  Spec => []BufferIsOrdered
<1>1. Init => OrderInv
  BY OrderInit
<1>2. OrderInv => FlushHasRoom
  BY OrderGivesRoom
<1>3. OrderInv /\ [Next]_vars => OrderInv'
  BY <1>2, OrderNext
<1>4. OrderInv => BufferIsOrdered
  BY OrderImplies
<1> QED
  BY <1>1, <1>3, <1>4, PTL DEF Spec

-----------------------------------------------------------------------------
(* What the instructions in the buffer say of the window. *)

\* Those that are true of a window and a source.
Telling(win, source) ==
  {i \in Instrs :
     /\ i.type = CPY /\ i.xtra # 1 => 0 <= i.addr /\ i.addr < i.pos
     /\ \A k \in 0..(i.size - 1) :
          win[i.pos + k + 1] = IF i.type = RUN THEN i.xtra
                               ELSE IF i.xtra = 1 THEN source[i.addr + k + 1] ELSE win[i.addr + k + 1]}

Told(s) == s.used \in Seq(Telling(s.win, s.source))

\* What is left of a match says what it said of that part of the window.
LEMMA TellingIsCuttable ==
  ASSUME NEW win, NEW source
  PROVE  Cuttable(Telling(win, source))
<1> DEFINE X == Telling(win, source)
           Says(i) == \A k \in 0..(i.size - 1) :
                        win[i.pos + k + 1] = IF i.type = RUN THEN i.xtra
                                             ELSE IF i.xtra = 1 THEN source[i.addr + k + 1] ELSE win[i.addr + k + 1]
           Before(i) == i.type = CPY /\ i.xtra # 1 => 0 <= i.addr /\ i.addr < i.pos
<1>1. \A i : i \in X <=> i \in Instrs /\ Before(i) /\ Says(i)
  BY DEF Telling
<1>0. SUFFICES ASSUME NEW r1 \in X, NEW r2 \in X, EndOf(r1) > r2.pos, ~ TooClose(r1, r2)
               PROVE  Split(r1, r2)[1] \in X /\ Split(r1, r2)[2] \in X
  <2>0. SUFFICES Cuttable(X)
    OBVIOUS
  <2>1. X \subseteq Instrs
    BY <1>1
  <2> HIDE DEF X
  <2> QED BY <2>1 DEF Cuttable
<1> HIDE DEF X
<1>2. r1 \in Instrs /\ r2 \in Instrs /\ Before(r1) /\ Before(r2) /\ Says(r1) /\ Says(r2)
  BY <1>1
<1>3. PICK cut1, cut2 : Cuts(r1, r2, cut1, cut2)
  BY <1>0, <1>2, SplitCuts
<1>4. /\ cut1 \in Nat /\ cut2 \in Nat /\ cut1 < r1.size /\ cut2 < r2.size
      /\ Split(r1, r2)[1] = [r1 EXCEPT !.size = @ - cut1]
      /\ Split(r1, r2)[2] = [r2 EXCEPT !.size = @ - cut2, !.pos = @ + cut2, !.addr = @ + cut2]
  BY <1>3 DEF Cuts
<1>5. /\ r1.type \in {RUN, CPY} /\ r1.pos \in Int /\ r1.size \in Nat /\ r1.addr \in Int /\ r1.xtra \in Int
      /\ r2.type \in {RUN, CPY} /\ r2.pos \in Int /\ r2.size \in Nat /\ r2.addr \in Int /\ r2.xtra \in Int
      /\ r1 = [type |-> r1.type, pos |-> r1.pos, size |-> r1.size, addr |-> r1.addr, xtra |-> r1.xtra]
      /\ r2 = [type |-> r2.type, pos |-> r2.pos, size |-> r2.size, addr |-> r2.addr, xtra |-> r2.xtra]
  BY <1>2, InstrFacts
<1> DEFINE a == [type |-> r1.type, pos |-> r1.pos, size |-> r1.size - cut1, addr |-> r1.addr, xtra |-> r1.xtra]
           b == [type |-> r2.type, pos |-> r2.pos + cut2, size |-> r2.size - cut2, addr |-> r2.addr + cut2,
                 xtra |-> r2.xtra]
<1>6. Split(r1, r2)[1] = a
  BY <1>4, <1>5
<1>7. Split(r1, r2)[2] = b
  BY <1>4, <1>5
<1>8. a \in Instrs /\ b \in Instrs
  <2>1. r1.size - cut1 \in Nat \ {0} /\ r2.size - cut2 \in Nat \ {0} /\ r2.pos + cut2 \in Int /\ r2.addr + cut2 \in Int
    BY <1>4, <1>5
  <2> QED BY <1>5, <2>1 DEF Instrs
<1>9. /\ a.type = r1.type /\ a.pos = r1.pos /\ a.size = r1.size - cut1 /\ a.addr = r1.addr /\ a.xtra = r1.xtra
      /\ b.type = r2.type /\ b.pos = r2.pos + cut2 /\ b.size = r2.size - cut2 /\ b.addr = r2.addr + cut2
      /\ b.xtra = r2.xtra
  OBVIOUS
<1> HIDE DEF a, b
<1>10. Before(a) /\ Before(b)
  BY <1>2, <1>4, <1>5, <1>9
<1>11. Says(a)
  <2> SUFFICES ASSUME NEW k \in 0..(a.size - 1)
               PROVE  win[a.pos + k + 1] = IF a.type = RUN THEN a.xtra
                                           ELSE IF a.xtra = 1 THEN source[a.addr + k + 1] ELSE win[a.addr + k + 1]
    OBVIOUS
  <2>1. k \in 0..(r1.size - 1)
    BY <1>4, <1>5, <1>9
  <2> QED BY <1>2, <1>9, <2>1
<1>12. Says(b)
  <2> SUFFICES ASSUME NEW k \in 0..(b.size - 1)
               PROVE  win[b.pos + k + 1] = IF b.type = RUN THEN b.xtra
                                           ELSE IF b.xtra = 1 THEN source[b.addr + k + 1] ELSE win[b.addr + k + 1]
    OBVIOUS
  <2> DEFINE j == cut2 + k
  <2>1. j \in 0..(r2.size - 1) /\ b.pos + k + 1 = r2.pos + j + 1 /\ b.addr + k + 1 = r2.addr + j + 1
    BY <1>4, <1>5, <1>9
  <2> HIDE DEF j
  <2> QED BY <1>2, <1>9, <2>1
<1> HIDE DEF Before, Says
<1> QED
  BY <1>1, <1>6, <1>7, <1>8, <1>10, <1>11, <1>12

LEMMA GetSlotTells ==
  ASSUME NEW s, CanSend(s), BufferOK(s), Told(s)
  PROVE  Told(GetSlot(s))
<1> DEFINE X == Telling(s.win, s.source)
           t == GetSlot(s)
<1>1. /\ Names \subseteq DOMAIN s /\ s.used \in Seq(X) /\ Lo(s) \in Int /\ Hi(s) \in Int
      /\ Len(s.source) \in Int /\ 0 \in Int
  <2>1. CodeOK(s) /\ Names \subseteq DOMAIN s /\ s.source \in Seq(Nat)
    BY DEF CanSend, Base
  <2> QED BY <2>1, LoHi DEF Told
<1>2. Entered(s, t)
  BY GetSlotKeeps
<1>3. t.win = s.win /\ t.source = s.source
  BY <1>2, EnteredKeeps
<1>0. SUFFICES t.used \in Seq(X)
  BY <1>3 DEF Told
<1> HIDE DEF X
<1>4. CASE s.free > 0
  BY <1>1, <1>4 DEF GetSlot
<1>5. CASE ~ (s.free > 0) /\ s.unlimited = TRUE
  BY <1>1, <1>5 DEF GetSlot, Names
<1>6. CASE ~ (s.free > 0) /\ s.unlimited = FALSE
  <2> DEFINE kept == Compact(s.used, FALSE)
             k == FlushCount(s, Len(kept), FALSE)
  <2>1. t = FlushKept(s, kept, FALSE)
    BY <1>6 DEF GetSlot, FlushInstructions
  <2>2. Len(kept) <= Len(s.used) /\ kept \in Seq(CopiesWithin(0, Len(s.source)))
    <3>1. s.used \in Seq(CopiesWithin(0, Len(s.source)))
      BY DEF BufferOK
    <3> QED BY <1>1, <3>1, WithinIsCuttable, CompactKeeps
  <2>3. kept \in Seq(CopiesWithin(Lo(s), Hi(s)))
    <3>1. s.used \in Seq(CopiesWithin(Lo(s), Hi(s)))
      BY DEF BufferOK
    <3> QED BY <1>1, <3>1, WithinIsCuttable, CompactKeeps
  <2>4. kept \in Seq(X)
    BY <1>1, TellingIsCuttable, CompactKeeps DEF X
  <2> HIDE DEF kept, t
  <2>5. t.used = SubSeq(kept, k + 1, Len(kept)) /\ k \in 0..Len(kept)
    <3>1. FALSE \in BOOLEAN
      OBVIOUS
    <3> QED BY <2>1, <2>2, <2>3, <3>1, FlushKeptKeeps
  <2> HIDE DEF k
  <2>6. k \in Nat /\ k <= Len(kept)
    BY <2>4, <2>5
  <2> QED BY <2>4, <2>5, <2>6, PartFacts
<1> QED
  BY <1>4, <1>5, <1>6 DEF BufferOK

LEMMA TakeSlotTells ==
  ASSUME NEW s, CanSend(s), BufferOK(s), Told(s), NEW i,
         i \in CopiesWithin(0, Len(s.source)), i \in CopiesWithin(Lo(s), Hi(s)),
         i \in Telling(s.win, s.source)
  PROVE  Told(TakeSlot(s, i))
<1> DEFINE X == Telling(s.win, s.source)
           u == GetSlot(s)
           t == TakeSlot(s, i)
<1>1. Entered(s, u) /\ Told(u)
  BY GetSlotKeeps, GetSlotTells
<1>2. CanSend(u) /\ u.win = s.win /\ u.source = s.source
  BY <1>1, EnteredKeeps
<1>3. u.used \in Seq(X) /\ Names \subseteq DOMAIN u
  BY <1>1, <1>2 DEF Told, CanSend, Base
<1>4. t = [u EXCEPT !.free = @ - 1, !.used = Append(@, i)]
  BY DEF TakeSlot
<1> HIDE DEF u, t
<1>5. t.used = Append(u.used, i) /\ t.win = s.win /\ t.source = s.source
  BY <1>2, <1>3, <1>4 DEF Names
<1>6. i \in X
  OBVIOUS
<1> HIDE DEF X
<1>7. t.used \in Seq(X)
  BY <1>3, <1>5, <1>6, PushFacts
<1> QED
  BY <1>5, <1>7 DEF Told, X, t

LEMMA EraseTells ==
  ASSUME NEW s, CanSend(s), BufferOK(s), Told(s), NEW pos
  PROVE  Told(Erase(s, pos))
<1> DEFINE X == Telling(s.win, s.source)
           J == {0} \cup {j \in 1..Len(s.used) : s.used[j].pos < pos}
           k == Max(J)
           t == Erase(s, pos)
<1>1. Names \subseteq DOMAIN s /\ s.used \in Seq(X)
  BY DEF CanSend, Base, Told
<1> HIDE DEF X
<1>2. k \in Nat /\ k <= Len(s.used)
  <2> DEFINE n == Len(s.used)
  <2>1. J \subseteq Nat /\ 0 \in J /\ n \in Nat /\ \A x \in J : x <= n
    BY <1>1
  <2>2. J \subseteq Int /\ J # {} /\ n \in Int
    BY <2>1
  <2> HIDE DEF J, n
  <2>3. Max(J) \in J
    BY <2>1, <2>2, MaxBounded
  <2> QED BY <2>1, <2>3 DEF n
<1>3. t = [s EXCEPT !.used = SubSeq(@, 1, k), !.free = @ + Len(s.used) - k]
  BY DEF Erase
<1> HIDE DEF k, t
<1>4. t.used = SubSeq(s.used, 1, k) /\ t.win = s.win /\ t.source = s.source
  BY <1>1, <1>3 DEF Names
<1>5. t.used \in Seq(X)
  BY <1>1, <1>2, <1>4, PartFacts
<1> QED
  BY <1>4, <1>5 DEF Told, X, t

LEMMA ToldKept ==
  ASSUME NEW s, Names \subseteq DOMAIN s, Told(s), NEW t, NEW F, OnlyChanges(s, t, F),
         F \cap {"used", "win", "source"} = {}
  PROVE  Told(t)
<1>1. t.used = s.used /\ t.win = s.win /\ t.source = s.source
  BY DEF OnlyChanges, Names
<1> QED
  BY <1>1 DEF Told

\* What was compared with the source before and after the input position is one copy.
LEMMA CopyTells ==
  ASSUME NEW s, Core(s), Found(s), BackAgrees(s), ForwardAgrees(s)
  PROVE  CopyFound(s) \in Telling(s.win, s.source)
<1> DEFINE i == CopyFound(s)
<1>1. /\ s.inp \in Nat /\ s.match_srcpos \in Nat
      /\ s.back \in Nat /\ s.fwd \in Nat /\ s.fwd > 0
  BY DEF Core, CanSend, Base, SourcePositions, Found
<1>2. /\ i.type = CPY /\ i.pos = s.inp - s.back /\ i.size = s.back + s.fwd
      /\ i.addr = s.match_srcpos - s.back /\ i.xtra = 1
  BY DEF CopyFound, Inst
<1>3. i \in Instrs
  BY <1>1 DEF CopyFound, Inst, Instrs
<1> HIDE DEF i
<1>4. ASSUME NEW k \in 0..(i.size - 1)
      PROVE  s.win[i.pos + k + 1] = s.source[i.addr + k + 1]
  <2>1. CASE k < s.back
    <3> DEFINE j == s.back - k
    <3>1. j \in 1..s.back /\ i.pos + k + 1 = s.inp - j + 1 /\ i.addr + k + 1 = s.match_srcpos - j + 1
      BY <1>1, <1>2, <2>1
    <3> HIDE DEF j
    <3>2. s.source[s.match_srcpos - j + 1] = s.win[s.inp - j + 1]
      BY <3>1 DEF BackAgrees, Byte
    <3> QED BY <3>1, <3>2
  <2>2. CASE k >= s.back
    <3> DEFINE j == k - s.back
    <3>1. j \in 0..(s.fwd - 1) /\ i.pos + k + 1 = s.inp + j + 1 /\ i.addr + k + 1 = s.match_srcpos + j + 1
      BY <1>1, <1>2, <2>2
    <3> HIDE DEF j
    <3>2. s.source[s.match_srcpos + j + 1] = s.win[s.inp + j + 1]
      BY <3>1 DEF ForwardAgrees, Byte
    <3> QED BY <3>1, <3>2
  <2> QED BY <1>1, <2>1, <2>2
<1>5. i \in Telling(s.win, s.source)
  BY <1>2, <1>3, <1>4 DEF Telling, RUN, CPY
<1> QED
  BY <1>5 DEF i

LEMMA TakeMatchTells ==
  ASSUME NEW s, Core(s), Found(s), BackAgrees(s), ForwardAgrees(s), Told(s)
  PROVE  Told(TakeMatch(s))
<1> DEFINE f == Uncovered(s)
           i == CopyFound(s)
           t == TakeMatch(s)
<1>1. PICK g : TakesIn(s, g)
  BY TakeMatchSteps
<1> DEFINE u == TakeSlot(g, i)
<1>2. /\ OnlyChanges(s, f, {"used", "free"}) /\ OnlyChanges(f, g, TakenFields)
      /\ Core(g) /\ Core(u) /\ OnlyChanges(u, t, {"match_state", "match_srcpos"})
      /\ i \in CopiesWithin(0, Len(g.source)) /\ i \in CopiesWithin(Lo(g), Hi(g))
  BY <1>1, TakeMatchSteps DEF TakesIn
<1>3. CanSend(s) /\ BufferOK(s) /\ Names \subseteq DOMAIN s /\ Names \subseteq DOMAIN u
  BY <1>2 DEF Core, CanSend, Base
<1>4. Told(f)
  BY <1>3, EraseTells DEF Uncovered
<1>5. i \in Telling(s.win, s.source)
  BY CopyTells
<1> HIDE DEF f, i
<1>6. /\ f.source = s.source /\ f.win = s.win /\ Names \subseteq DOMAIN f
  BY <1>2, <1>3 DEF OnlyChanges, Names
<1>7. Told(g)
  BY <1>2, <1>4, <1>6, ToldKept DEF TakenFields
<1>8. g.source = s.source /\ g.win = s.win
  BY <1>2, <1>6 DEF OnlyChanges, Names, TakenFields
<1>9. Told(u)
  BY <1>2, <1>5, <1>7, <1>8, TakeSlotTells DEF Core
<1> HIDE DEF u, t
<1>10. Told(t)
  BY <1>2, <1>3, <1>9, ToldKept
<1> QED
  BY <1>10 DEF t

\* xd3_source_extend_match
LEMMA SourceExtendMatchTells ==
  ASSUME NEW s, Core(s), MatchLimits(s), Told(s)
  PROVE  Told(SourceExtendMatch(s))
<1> DEFINE t == SourceExtendMatch(s)
<1>0. SUFFICES Told(t)
  OBVIOUS
<1>1. PICK w : /\ t = TakeIfLong(w)
               /\ OnlyChanges(s, w, ExtendFields) /\ Core(w)
               /\ w.fwd \in Nat
               /\ w.fwd >= w.min_match => Found(w)
               /\ BackAgrees(w) /\ ForwardAgrees(w)
  BY MatchGrows
<1> HIDE DEF t
<1>2. /\ Names \subseteq DOMAIN s /\ Names \subseteq DOMAIN w /\ w.min_match \in Nat
  BY <1>1 DEF Core, CanSend, Base
<1>3. Told(w)
  BY <1>1, <1>2, ToldKept DEF ExtendFields, SourceFields
<1>4. CASE w.fwd < w.min_match
  <2>1. t = [w EXCEPT !.fwd = 0]
    BY <1>1, <1>4 DEF TakeIfLong
  <2>2. OnlyChanges(w, t, {"fwd"})
    BY <2>1 DEF OnlyChanges
  <2> QED BY <1>2, <1>3, <2>2, ToldKept
<1>5. CASE ~ (w.fwd < w.min_match)
  <2>1. t = TakeMatch(w) /\ w.fwd >= w.min_match
    BY <1>1, <1>2, <1>5 DEF TakeIfLong
  <2> QED BY <1>1, <1>3, <2>1, TakeMatchTells
<1> QED
  BY <1>4, <1>5

LEMMA LargeMatchTells ==
  ASSUME NEW s, LoopReady(s), LargeFits(s), Told(s)
  PROVE  Told(LargeMatch(s))
<1> DEFINE at == s.large[LargeHash(s.lck)]
           u == SourceMatchSetup(s, at - HASH_CKOFFSET)
           t == LargeMatch(s)
<1>0. SUFFICES Told(t)
  OBVIOUS
<1>1. Core(s) /\ Names \subseteq DOMAIN s /\ Len(s.source) \in Nat
  BY ReadyFacts DEF LoopReady, Base
<1>2. CASE s.error \/ at = 0
  <2>1. t = [s EXCEPT !.fwd = 0]
    BY <1>2 DEF LargeMatch
  <2>2. OnlyChanges(s, t, {"fwd"})
    BY <2>1 DEF OnlyChanges
  <2> HIDE DEF t
  <2> QED BY <1>1, <2>2, ToldKept
<1>3. CASE ~ (s.error \/ at = 0)
  <2>1. t = IF u.match_state = "backward" THEN SourceExtendMatch(u) ELSE u
    BY <1>3 DEF LargeMatch
  <2>2. at - HASH_CKOFFSET \in Nat /\ at - HASH_CKOFFSET <= Len(s.source)
    <3>1. at \in 0..(Len(s.source) + 1)
      BY LargeHashFacts
    <3> HIDE DEF at
    <3> QED BY <1>1, <1>3, <3>1 DEF HASH_CKOFFSET
  <2>3. OnlyChanges(s, u, SetupFields) /\ Core(u) /\ MatchLimits(u)
    <3> HIDE DEF at
    <3> QED BY <1>1, <2>2, SetupKeeps
  <2> HIDE DEF t, u
  <2>4. Told(u)
    BY <1>1, <2>3, ToldKept DEF SetupFields
  <2> QED BY <2>1, <2>3, <2>4, SourceExtendMatchTells
<1> QED
  BY <1>2, <1>3

LEMMA TrySourceTells ==
  ASSUME NEW s, LoopReady(s), Told(s)
  PROVE  Told(TrySource(s))
<1> DEFINE t == TrySource(s)
           u == IF s.inp >= s.next_move THEN MovePoint(s) ELSE s
<1>0. SUFFICES Told(t)
  OBVIOUS
<1>1. Ready(s) /\ RollingAt(s) /\ Names \subseteq DOMAIN s /\ s.inp + SLOOK <= AvailIn(s)
  BY ReadyFacts DEF LoopReady
<1>2. CASE ~ LargeFits(s)
  <2>1. t = [s EXCEPT !.fwd = 0]
    BY <1>2 DEF TrySource
  <2>2. OnlyChanges(s, t, {"fwd"})
    BY <2>1 DEF OnlyChanges
  <2> HIDE DEF t
  <2> QED BY <1>1, <2>2, ToldKept
<1>3. CASE LargeFits(s)
  <2>1. t = LargeMatch(u)
    BY <1>3 DEF TrySource
  <2>2. OnlyChanges(s, u, MoveFields) /\ Ready(u)
    BY <1>1, MoveReady, ChangesNothing
  <2> HIDE DEF u, t
  <2>3. RollingAt(u) /\ LargeFits(u)
    BY <1>1, <1>3, <2>2, RollingKept DEF MoveFields, SourceFields
  <2>4. Told(u) /\ u.inp = s.inp /\ AvailIn(u) = AvailIn(s)
    <3>1. Told(u)
      BY <1>1, <2>2, ToldKept DEF MoveFields, SourceFields
    <3> QED BY <1>1, <2>2, <3>1 DEF OnlyChanges, Names, MoveFields, SourceFields, AvailIn
  <2>5. LoopReady(u)
    BY <1>1, <2>2, <2>3, <2>4 DEF LoopReady
  <2> QED BY <2>1, <2>3, <2>4, <2>5, LargeMatchTells
<1> QED
  BY <1>2, <1>3

-----------------------------------------------------------------------------
(* Runs, and the positions that the tables of the window hold. *)

\* The run that ends with the bytes in sight has as many bytes as run_l says.
RunsTell(s) ==
  s.run_l <= SLOOK => s.run_l >= 1 /\ \A k \in 1..s.run_l : Byte(s, s.inp + SLOOK - k) = s.run_c

\* The positions that chains begin at have been passed.
ChainedTo(s, n) == \A h \in 0..(SmallSlots - 1) : s.small[h] <= n

LoopTells(s) == Told(s) /\ RunsTell(s) /\ ChainedTo(s, s.inp)
NextTells(s) == Told(s) /\ (s.instr = TRUE \/ LoopTells(s))

LEMMA LoopTellsKept ==
  ASSUME NEW s, Names \subseteq DOMAIN s, NEW t, NEW F, OnlyChanges(s, t, F),
         F \cap {"win", "inp", "run_l", "run_c", "small"} = {}
  PROVE  /\ RunsTell(s) => RunsTell(t)
         /\ \A n : ChainedTo(s, n) => ChainedTo(t, n)
<1>1. t.win = s.win /\ t.inp = s.inp /\ t.run_l = s.run_l /\ t.run_c = s.run_c /\ t.small = s.small
  BY DEF OnlyChanges, Names
<1>2. RunsTell(s) => RunsTell(t)
  BY <1>1 DEF RunsTell, Byte
<1>3. ASSUME NEW n, ChainedTo(s, n)
      PROVE  ChainedTo(t, n)
  BY <1>1, <1>3 DEF ChainedTo
<1> QED
  BY <1>2, <1>3

LEMMA UpdateOneTells ==
  ASSUME NEW s, LoopReady(s), Told(s), RunsTell(s), ChainedTo(s, s.inp + 1)
  PROVE  NextTells(UpdateOne(s))
<1> DEFINE t == UpdateOne(s)
           i == s.inp
           c == Byte(s, i + SLOOK)
<1>0. SUFFICES NextTells(t)
  OBVIOUS
<1>1. /\ Ready(s) /\ Names \subseteq DOMAIN s /\ i \in Nat /\ s.run_l \in Nat
  BY ReadyFacts DEF LoopReady
<1>2. CASE i + SLOOK = AvailIn(s)
  <2>1. t = [s EXCEPT !.instr = TRUE]
    BY <1>2 DEF UpdateOne
  <2>2. OnlyChanges(s, t, {"instr"}) /\ t.instr = TRUE
    BY <1>1, <2>1 DEF OnlyChanges, Names
  <2> HIDE DEF t
  <2>3. Told(t)
    BY <1>1, <2>2, ToldKept
  <2> QED BY <2>2, <2>3 DEF NextTells
<1>3. CASE i + SLOOK # AvailIn(s)
  <2> DEFINE u == NextRun(s, c)
             l == IF s.has_src /\ i + s.cfg.llook < AvailIn(s)
                  THEN LargeCksumUpdate(u.lck, Byte(s, i), Byte(s, i + s.cfg.llook), s.cfg.llook)
                  ELSE u.lck
  <2>1. t = [u EXCEPT !.inp = @ + 1, !.lck = l]
    BY <1>3 DEF UpdateOne
  <2>2. /\ OnlyChanges(s, u, {"run_l", "run_c"}) /\ u.run_c = c
        /\ u.run_l = IF c = s.run_c THEN s.run_l + 1 ELSE 1
    BY <1>1 DEF NextRun, OnlyChanges, Names
  <2> HIDE DEF c, u, l, t
  <2>3. u.inp = i /\ Names \subseteq DOMAIN u
    BY <1>1, <2>2 DEF OnlyChanges, Names
  <2>4. OnlyChanges(u, t, {"inp", "lck"}) /\ t.inp = i + 1
    BY <2>1, <2>3 DEF OnlyChanges, Names
  <2>5. t.run_c = c /\ t.run_l = (IF c = s.run_c THEN s.run_l + 1 ELSE 1)
    BY <2>2, <2>3, <2>4 DEF OnlyChanges, Names
  <2>6. OnlyChanges(s, t, {"run_l", "run_c", "inp", "lck"})
    BY <2>2, <2>4, ChangesTwice
  <2>7. Told(t) /\ t.win = s.win /\ t.small = s.small
    <3>1. Told(t)
      BY <1>1, <2>6, ToldKept
    <3> QED BY <1>1, <2>6, <3>1 DEF OnlyChanges, Names
  <2>8. ChainedTo(t, t.inp)
    BY <2>4, <2>7 DEF ChainedTo
  <2>9. RunsTell(t)
    <3>1. \A k \in Nat : Byte(t, k) = Byte(s, k)
      BY <2>7 DEF Byte
    <3>2. c = Byte(s, i + 4)
      BY DEF c, SLOOK
    <3>3. s.run_l <= 4 => s.run_l >= 1 /\ \A k \in 1..s.run_l : Byte(s, i + 4 - k) = s.run_c
      BY DEF RunsTell, SLOOK
    <3> HIDE DEF i
    <3>4. ASSUME t.run_l <= 4
          PROVE  t.run_l >= 1 /\ \A k \in 1..t.run_l : Byte(t, t.inp + 4 - k) = t.run_c
      <4>1. t.run_l \in Nat /\ t.run_l >= 1
        BY <1>1, <2>5
      <4>2. ASSUME NEW k \in 1..t.run_l
            PROVE  Byte(t, t.inp + 4 - k) = t.run_c
        <5> DEFINE j == k - 1
        <5>1. j \in 0..(t.run_l - 1) /\ t.inp + 4 - k = i + 4 - j /\ i + 4 - j \in Nat
          BY <1>1, <2>4, <3>4, <4>1
        <5> HIDE DEF j
        <5>2. Byte(t, t.inp + 4 - k) = Byte(s, i + 4 - j)
          BY <3>1, <5>1
        <5>3. CASE j = 0
          <6>1. i + 4 - j = i + 4
            BY <1>1, <5>3
          <6> QED BY <2>5, <3>2, <5>2, <6>1
        <5>4. CASE j # 0
          <6>1. c = s.run_c /\ s.run_l <= 4 /\ j \in 1..s.run_l
            BY <1>1, <2>5, <3>4, <5>1, <5>4
          <6> QED BY <2>5, <3>3, <5>2, <6>1
        <5> QED BY <5>3, <5>4
      <4> QED BY <4>1, <4>2
    <3> QED BY <3>4 DEF RunsTell, SLOOK
  <2> QED BY <2>7, <2>8, <2>9 DEF NextTells, LoopTells
<1> QED
  BY <1>2, <1>3

\* xd3_comprun
LEMMA ComprunTells ==
  ASSUME NEW s, Ready(s), s.inp + SLOOK <= AvailIn(s)
  PROVE  RunsTell(Comprun(s))
<1> DEFINE t == Comprun(s)
           c == Byte(s, s.inp + SLOOK - 1)
           R == {n \in 1..SLOOK : \A k \in 1..n : Byte(s, s.inp + SLOOK - k) = c}
<1>0. SUFFICES RunsTell(t)
  OBVIOUS
<1>1. Names \subseteq DOMAIN s
  BY ReadyFacts
<1>2. Max(R) \in R
  <2>1. 1 \in R
    <3>1. \A k \in 1..1 : Byte(s, s.inp + SLOOK - k) = c
      OBVIOUS
    <3> QED BY <3>1 DEF SLOOK
  <2>2. R \subseteq Int /\ R # {} /\ \A x \in R : x <= 4
    BY <2>1 DEF SLOOK
  <2> HIDE DEF R
  <2>3. 4 \in Int
    OBVIOUS
  <2> QED BY <2>2, <2>3, MaxBounded
<1>3. t = [s EXCEPT !.run_c = c, !.run_l = Max(R)]
  BY DEF Comprun
<1> DEFINE m == Max(R)
<1>4. m \in 1..SLOOK /\ \A k \in 1..m : Byte(s, s.inp + SLOOK - k) = c
  BY <1>2
<1> HIDE DEF t, c, R, m
<1>5. t.run_c = c /\ t.run_l = m /\ t.inp = s.inp /\ t.win = s.win
  BY <1>1, <1>3 DEF Names, m
<1> QED
  BY <1>4, <1>5 DEF RunsTell, Byte, SLOOK

LEMMA RestartTells ==
  ASSUME NEW s, Ready(s), Told(s), ChainedTo(s, s.inp)
  PROVE  NextTells(Restart(s))
<1> DEFINE t == Restart(s)
           last == LastMatched(s)
           x == 1 + last - s.inp
           m == Max({MIN_MATCH, x})
           u == [s EXCEPT !.min_match = m]
           a == Comprun(u)
           v == MovePoint(a)
<1>0. SUFFICES NextTells(t)
  OBVIOUS
<1>1. /\ Core(s) /\ Names \subseteq DOMAIN s /\ s.inp \in Nat /\ s.inp <= Len(s.win)
      /\ AvailIn(s) = Len(s.win) /\ s.run_c \in Nat /\ s.run_l \in Nat /\ last \in Int
  BY ReadyFacts, LastMatchedIsInt
<1>2. m \in Nat /\ m >= MIN_MATCH
  <2>1. x \in Int /\ MIN_MATCH \in Nat
    BY <1>1 DEF MIN_MATCH
  <2> HIDE DEF x
  <2> QED BY <2>1, MaxTwo
<1> HIDE DEF m, x
<1>3. CASE NoRoom(s)
  <2>1. t = [s EXCEPT !.instr = TRUE]
    BY <1>3 DEF Restart
  <2>2. OnlyChanges(s, t, {"instr"}) /\ t.instr = TRUE
    BY <1>1, <2>1 DEF OnlyChanges, Names
  <2> HIDE DEF t
  <2>3. Told(t)
    BY <1>1, <2>2, ToldKept
  <2> QED BY <2>2, <2>3 DEF NextTells
<1>4. CASE ~ NoRoom(s)
  <2>1. t = IF LargeFits(s) THEN [v EXCEPT !.lck = Lcksum(LargeHere(s))] ELSE a
    BY <1>4 DEF Restart, m, x
  <2>2. OnlyChanges(s, u, {"min_match"}) /\ u.min_match = m
    BY <1>1 DEF OnlyChanges, Names
  <2> HIDE DEF u
  <2>3. u.inp = s.inp /\ u.win = s.win /\ u.run_c = s.run_c /\ u.run_l = s.run_l
    BY <1>1, <2>2 DEF OnlyChanges, Names
  <2>4. Ready(u)
    <3>1. {"min_match"} \cap (CoreFields \cup TableFields \cup {"match_state"}) = {}
      BY DEF CoreFields, TableFields
    <3> QED BY <1>1, <1>2, <2>2, <2>3, <3>1, ReadyMoves
  <2>5. s.inp + SLOOK <= AvailIn(s)
    BY <1>1, <1>4 DEF NoRoom, SLOOK
  <2>6. OnlyChanges(u, a, {"run_c", "run_l"}) /\ Ready(a) /\ RunsTell(a)
    BY <2>3, <2>4, <2>5, ComprunKeeps, ComprunTells DEF AvailIn
  <2> HIDE DEF a
  <2>7. OnlyChanges(s, a, {"min_match", "run_c", "run_l"}) /\ Names \subseteq DOMAIN a
    <3>1. OnlyChanges(s, a, {"min_match", "run_c", "run_l"})
      BY <2>2, <2>6, ChangesTwice
    <3> QED BY <1>1, <3>1 DEF OnlyChanges
  <2>8. Told(a) /\ ChainedTo(a, a.inp)
    <3>1. Told(a)
      BY <1>1, <2>7, ToldKept
    <3>2. a.small = s.small /\ a.inp = s.inp
      BY <1>1, <2>7 DEF OnlyChanges, Names
    <3> QED BY <3>1, <3>2 DEF ChainedTo
  <2>9. OnlyChanges(a, v, MoveFields)
    BY <2>6, MoveReady
  <2> HIDE DEF v
  <2>10. OnlyChanges(a, t, MoveFields \cup {"lck"})
    <3> DEFINE w == [v EXCEPT !.lck = Lcksum(LargeHere(s))]
    <3>1. OnlyChanges(v, w, {"lck"})
      BY DEF OnlyChanges
    <3>2. t = w \/ t = a
      BY <2>1
    <3> HIDE DEF w, t
    <3>3. OnlyChanges(a, w, MoveFields \cup {"lck"})
      BY <2>9, <3>1 DEF OnlyChanges
    <3> QED BY <3>2, <3>3, ChangesNothing
  <2> HIDE DEF t
  <2>11. LoopTells(t)
    <3>1. Told(t)
      BY <2>7, <2>8, <2>10, ToldKept DEF MoveFields, SourceFields
    <3>2. t.inp = a.inp
      BY <2>7, <2>10 DEF OnlyChanges, Names, MoveFields, SourceFields
    <3>3. RunsTell(t) /\ ChainedTo(t, a.inp)
      BY <2>6, <2>7, <2>8, <2>10, LoopTellsKept DEF MoveFields, SourceFields
    <3> QED BY <3>1, <3>2, <3>3 DEF LoopTells
  <2> QED BY <2>11 DEF NextTells, LoopTells
<1> QED
  BY <1>3, <1>4

\* After a match of length len.
LEMMA HandleLazyTells ==
  ASSUME NEW s, LoopReady(s), Told(s), RunsTell(s), ChainedTo(s, s.inp + 1),
         NEW len \in Nat, len >= MIN_MATCH, s.inp + len <= AvailIn(s)
  PROVE  NextTells(HandleLazy(s, len))
<1> DEFINE u == [s EXCEPT !.min_match = len]
           v == [s EXCEPT !.inp = @ + len]
<1>1. /\ Ready(s) /\ Names \subseteq DOMAIN s /\ s.inp \in Nat /\ s.inp <= Len(s.win)
      /\ AvailIn(s) = Len(s.win) /\ s.run_c \in Nat /\ s.run_l \in Nat
      /\ s.min_match \in Nat /\ s.min_match >= MIN_MATCH
      /\ s.small \in [0..(SmallSlots - 1) -> Nat]
  BY ReadyFacts DEF LoopReady, Ready, Tables
<1>2. HandleLazy(s, len) = UpdateOne(u) \/ HandleLazy(s, len) = Restart(v)
  BY DEF HandleLazy
<1>3. NextTells(UpdateOne(u))
  <2>1. LoopReady(u)
    BY MinMatchMoves
  <2>2. OnlyChanges(s, u, {"min_match"})
    BY <1>1 DEF OnlyChanges, Names
  <2> HIDE DEF u
  <2>3. Told(u) /\ RunsTell(u) /\ ChainedTo(u, s.inp + 1) /\ u.inp = s.inp
    <3>1. Told(u)
      BY <1>1, <2>2, ToldKept
    <3>2. RunsTell(u) /\ ChainedTo(u, s.inp + 1)
      BY <1>1, <2>2, LoopTellsKept
    <3>3. u.inp = s.inp
      BY <1>1, <2>2 DEF OnlyChanges, Names
    <3> QED BY <3>1, <3>2, <3>3
  <2> QED BY <2>1, <2>3, UpdateOneTells
<1>4. NextTells(Restart(v))
  <2>1. OnlyChanges(s, v, {"inp"}) /\ v.inp = s.inp + len
    BY <1>1 DEF OnlyChanges, Names
  <2> HIDE DEF v
  <2>2. v.min_match = s.min_match /\ v.run_c = s.run_c /\ v.run_l = s.run_l /\ v.small = s.small
    BY <1>1, <2>1 DEF OnlyChanges, Names
  <2>3. v.inp \in Nat /\ v.inp <= Len(s.win) /\ s.inp + 1 <= v.inp
    <3>1. len >= 1
      BY DEF MIN_MATCH
    <3> QED BY <1>1, <2>1, <3>1, SMTT(60)
  <2>4. {"inp"} \cap (CoreFields \cup TableFields \cup {"match_state"}) = {}
    BY DEF CoreFields, TableFields
  <2>5. Ready(v)
    BY <1>1, <2>1, <2>2, <2>3, <2>4, ReadyMoves
  <2>6. Told(v)
    BY <1>1, <2>1, ToldKept
  <2>7. ChainedTo(v, v.inp)
    <3> SUFFICES ASSUME NEW h \in 0..(SmallSlots - 1)
                 PROVE  s.small[h] <= v.inp
      BY <2>2 DEF ChainedTo
    <3>1. s.small[h] \in Nat /\ s.small[h] <= s.inp + 1
      BY <1>1 DEF ChainedTo
    <3> QED BY <1>1, <2>3, <3>1
  <2> QED BY <2>5, <2>6, <2>7, RestartTells
<1> HIDE DEF u, v
<1> QED
  BY <1>2, <1>3, <1>4

-----------------------------------------------------------------------------
(* The steps of the search, and what their instructions say. *)

\* All bytes of a run are the same.
LEMMA WholeRunTells ==
  ASSUME NEW s, LoopReady(s), RunsTell(s), s.run_l = SLOOK
  PROVE  \A k \in 0..(WholeRun(s) - 1) : Byte(s, s.inp + k) = s.run_c
<1> DEFINE n == WholeRun(s)
           i == s.inp
<1>1. n \in Nat /\ \A j \in 4..(n - 1) : Byte(s, i + j) = s.run_c
  BY WholeRunFacts DEF SLOOK
<1>2. \A k \in 1..4 : Byte(s, i + 4 - k) = s.run_c
  BY DEF RunsTell, SLOOK
<1>3. i \in Nat
  BY ReadyFacts DEF LoopReady
<1> HIDE DEF n, i
<1>4. ASSUME NEW k \in 0..(n - 1)
      PROVE  Byte(s, i + k) = s.run_c
  <2>1. CASE k < 4
    <3> DEFINE j == 4 - k
    <3>1. j \in 1..4 /\ i + 4 - j = i + k
      BY <1>1, <1>3, <2>1
    <3> HIDE DEF j
    <3> QED BY <1>2, <3>1
  <2>2. CASE k >= 4
    <3>1. k \in 4..(n - 1)
      BY <1>1, <2>2
    <3> QED BY <1>1, <3>1
  <2> QED BY <1>1, <2>1, <2>2
<1> QED
  BY <1>4 DEF n, i

LEMMA TryRunTells ==
  ASSUME NEW s, LoopReady(s), LoopTells(s)
  PROVE  LoopTells(TryRun(s))
<1> DEFINE r == TryRun(s)
<1>0. SUFFICES LoopTells(r)
  OBVIOUS
<1>1. Names \subseteq DOMAIN s /\ OnlyChanges(s, r, {"run_l"})
  BY TryRunKeeps, ReadyFacts DEF LoopReady
<1>2. CASE s.run_l # SLOOK
  BY <1>2 DEF TryRun
<1>3. CASE s.run_l = SLOOK
  <2>1. r = [s EXCEPT !.run_l = WholeRun(s)]
    BY <1>3 DEF TryRun
  <2>2. r.run_l = WholeRun(s)
    BY <1>1, <2>1 DEF Names
  <2> HIDE DEF r
  <2>3. r.win = s.win /\ r.inp = s.inp /\ r.run_c = s.run_c /\ r.small = s.small
    BY <1>1 DEF OnlyChanges, Names
  <2>4. r.run_l <= SLOOK => r.run_l = s.run_l
    <3> DEFINE n == WholeRun(s)
    <3>1. n \in Nat /\ n >= SLOOK
      BY <1>3, WholeRunFacts
    <3> HIDE DEF n
    <3> QED BY <1>3, <2>2, <3>1 DEF SLOOK, n
  <2>5. RunsTell(r)
    BY <2>3, <2>4 DEF LoopTells, RunsTell, Byte
  <2>6. Told(r)
    BY <1>1, ToldKept DEF LoopTells
  <2>7. ChainedTo(r, r.inp)
    BY <2>3 DEF LoopTells, ChainedTo
  <2> QED BY <2>5, <2>6, <2>7 DEF LoopTells
<1> QED
  BY <1>2, <1>3

LEMMA SearchedTells ==
  ASSUME NEW s, LoopReady(s), LoopTells(s)
  PROVE  LoopTells(TrySource(TryRun(s)))
<1> DEFINE r == TryRun(s)
           t == TrySource(r)
<1>1. LoopReady(r) /\ LoopTells(r)
  BY TryRunKeeps, TryRunTells
<1> HIDE DEF r
<1>2. OnlyChanges(r, t, SearchFields) /\ Told(t)
  BY <1>1, TrySourceKeeps, TrySourceTells DEF LoopTells
<1>3. Names \subseteq DOMAIN r
  BY <1>1, ReadyFacts DEF LoopReady
<1> HIDE DEF t
<1>4. RunsTell(t) /\ ChainedTo(t, r.inp)
  <2>1. SearchFields \cap {"win", "inp", "run_l", "run_c", "small"} = {}
    BY DEF SearchFields, MoveFields, LargeFields, SetupFields, MatchFields, TakeFields, SlotFields, CodeFields,
           SourceFields
  <2> QED BY <1>1, <1>2, <1>3, <2>1, LoopTellsKept DEF LoopTells
<1>5. t.inp = r.inp
  BY <1>2, <1>3
  DEF OnlyChanges, Names, SearchFields, MoveFields, LargeFields, SetupFields, MatchFields,
      TakeFields, SlotFields, CodeFields, SourceFields
<1> QED
  BY <1>2, <1>4, <1>5 DEF LoopTells, t, r

\* A run or a copy from the window is entered.
LEMMA EnterTells ==
  ASSUME NEW s, LoopReady(s), Told(s), RunsTell(s), NEW n, ChainedTo(s, n),
         NEW i \in Telling(s.win, s.source), ~ (i.type = CPY /\ i.xtra = 1)
  PROVE  LET t == TakeSlot(s, i)
         IN  LoopReady(t) /\ t.inp = s.inp /\ AvailIn(t) = AvailIn(s) /\ Told(t) /\ RunsTell(t) /\ ChainedTo(t, n)
<1> DEFINE t == TakeSlot(s, i)
<1>0. SUFFICES LoopReady(t) /\ t.inp = s.inp /\ AvailIn(t) = AvailIn(s) /\ Told(t) /\ RunsTell(t) /\ ChainedTo(t, n)
  OBVIOUS
<1>1. Core(s) /\ Names \subseteq DOMAIN s
  BY ReadyFacts DEF LoopReady
<1>2. i \in Instrs
  BY DEF Telling
<1>3. i \in CopiesWithin(0, Len(s.source)) /\ i \in CopiesWithin(Lo(s), Hi(s))
  BY <1>2 DEF CopiesWithin
<1>4. Told(t)
  BY <1>1, <1>3, TakeSlotTells DEF Core
<1>5. Entered(s, t)
  BY <1>1, <1>3, TakeSlotKeeps DEF Core
<1>6. LoopReady(t) /\ t.inp = s.inp /\ AvailIn(t) = AvailIn(s)
  BY <1>5, LoopEnters
<1> HIDE DEF t
<1>7. RunsTell(t) /\ ChainedTo(t, n)
  <2>1. OnlyChanges(s, t, SlotFields)
    BY <1>5 DEF Entered
  <2> QED BY <1>1, <2>1, LoopTellsKept DEF SlotFields, CodeFields
<1> QED
  BY <1>4, <1>6, <1>7

LEMMA RunFoundTells ==
  ASSUME NEW s, LoopReady(s), LoopTells(s), RunTaken(s)
  PROVE  NextTells(RunFound(TryRun(s)))
<1> DEFINE r == TryRun(s)
           i == Inst(RUN, s.inp, WholeRun(s), 0, s.run_c)
           t == TakeSlot(r, i)
<1>1. /\ RunFound(r) = HandleLazy(t, i.size)
      /\ i \in Instrs /\ ~ (i.type = CPY /\ i.xtra = 1) /\ LoopReady(r)
      /\ i.size \in Nat \ {0} /\ i.size >= MIN_MATCH /\ r.inp + i.size <= AvailIn(r)
      /\ r.inp = s.inp /\ r.win = s.win /\ r.inp \in Nat
      /\ i.type = RUN /\ i.pos = s.inp /\ i.size = WholeRun(s) /\ i.xtra = s.run_c /\ i.type # CPY
  BY RunSteps DEF RUN, CPY
<1>2. \A k \in 0..(i.size - 1) : Byte(s, s.inp + k) = s.run_c
  BY <1>1, WholeRunTells DEF LoopTells, RunTaken
<1>3. LoopTells(r)
  BY TryRunTells
<1> HIDE DEF i, r
<1>4. i \in Telling(r.win, r.source)
  <2>1. \A k \in 0..(i.size - 1) : r.win[i.pos + k + 1] = i.xtra
    BY <1>1, <1>2 DEF Byte
  <2> QED BY <1>1, <2>1 DEF Telling
<1>5. /\ LoopReady(t) /\ t.inp = r.inp /\ AvailIn(t) = AvailIn(r)
      /\ Told(t) /\ RunsTell(t) /\ ChainedTo(t, r.inp)
  BY <1>1, <1>3, <1>4, EnterTells DEF LoopTells
<1> HIDE DEF t
<1>6. ChainedTo(t, t.inp + 1)
  <2> SUFFICES ASSUME NEW h \in 0..(SmallSlots - 1)
               PROVE  t.small[h] <= t.inp + 1
    BY DEF ChainedTo
  <2>1. t.small[h] \in Nat
    BY <1>5 DEF LoopReady, Ready, Tables
  <2> QED BY <1>1, <1>5, <2>1 DEF ChainedTo
<1>7. NextTells(HandleLazy(t, i.size))
  BY <1>1, <1>5, <1>6, HandleLazyTells
<1> QED
  BY <1>1, <1>7 DEF r

\* A match of the window is an earlier place that agrees with the input position.
MatchTells(s, m) ==
  m.length > 0 => /\ 0 <= m.offset /\ m.offset < s.inp
                  /\ \A k \in 0..(m.length - 1) : Byte(s, m.offset + k) = Byte(s, s.inp + k)
ChainTells(s, c) == MatchTells(s, c.best) /\ (c.done \/ (0 <= c.base /\ c.base < s.inp))

LEMMA LookAtTells ==
  ASSUME NEW s, LoopReady(s), NEW c, ChainOK(s, c), ChainTells(s, c)
  PROVE  ChainTells(s, LookAt(s, c))
<1> DEFINE len == MatchLength(s, c.base)
           longer == len > c.best.length
           last == s.prev[c.base % s.sprevsz]
           prev == last - HASH_CKOFFSET
           stop == \/ longer /\ (s.inp + len = AvailIn(s) \/ len >= s.cfg.long_enough)
                   \/ last = 0 \/ prev > c.base \/ s.inp - prev >= s.sprevsz
           found == [length |-> len, offset |-> c.base]
           next == [best |-> IF longer THEN found ELSE c.best, base |-> prev, done |-> stop]
<1>1. LookAt(s, c) = IF c.done THEN c ELSE next
  BY DEF LookAt
<1>2. CASE c.done
  BY <1>1, <1>2
<1>3. CASE ~ c.done
  <2>1. 0 <= c.base /\ c.base < s.inp /\ c.base \in Int /\ s.inp \in Nat
    BY <1>3, ReadyFacts DEF ChainTells, ChainOK, LoopReady
  <2>2. len \in Nat /\ \A k \in 0..(len - 1) : Byte(s, c.base + k) = Byte(s, s.inp + k)
    BY MatchLengthFacts
  <2>3. last \in Nat
    <3>1. s.sprevsz = SprevSize /\ s.prev \in [0..(SprevSize - 1) -> Nat]
      BY DEF LoopReady, Ready, Tables
    <3>2. SprevSize \in Nat \ {0}
      BY ConstantFacts
    <3>3. c.base % SprevSize \in 0..(SprevSize - 1)
      BY <2>1, <3>2, Division
    <3> QED BY <3>1, <3>3
  <2>4. stop \/ (0 <= prev /\ prev < s.inp)
    <3>1. last = 0 \/ prev > c.base => stop
      OBVIOUS
    <3>2. prev = last - 1
      BY DEF HASH_CKOFFSET
    <3> HIDE DEF last, prev, stop
    <3> QED BY <2>1, <2>3, <3>1, <3>2
  <2> HIDE DEF len, last, prev, stop
  <2>5. MatchTells(s, found)
    BY <2>1, <2>2 DEF MatchTells
  <2> HIDE DEF found, longer
  <2>6. MatchTells(s, next.best)
    BY <2>5 DEF ChainTells
  <2>7. next.done \/ (0 <= next.base /\ next.base < s.inp)
    BY <2>4
  <2> HIDE DEF next
  <2> QED BY <1>1, <1>3, <2>6, <2>7 DEF ChainTells
<1> QED
  BY <1>2, <1>3

LEMMA LongestTells ==
  ASSUME NEW s, LoopReady(s), NEW base \in Int, 0 <= base, base < s.inp, NEW n \in Nat
  PROVE  MatchTells(s, LongestOf(s, base, n))
<1>1. PICK f : /\ f[0] = NoneYet(base) /\ LongestOf(s, base, n) = f[n].best
               /\ \A k \in Nat : k < n => f[k + 1] = LookAt(s, f[k])
  BY LongestByRounds
<1> DEFINE T == {k \in Nat : k <= n => ChainOK(s, f[k]) /\ ChainTells(s, f[k])}
<1>2. 0 \in T
  <2>1. AvailIn(s) - s.inp \in Nat
    BY ReadyFacts DEF LoopReady
  <2>2. 0 <= AvailIn(s) - s.inp
    BY <2>1
  <2>3. ChainOK(s, f[0])
    BY <1>1, <2>2 DEF ChainOK, MatchOK, NoneYet
  <2>4. ChainTells(s, f[0])
    BY <1>1 DEF ChainTells, MatchTells, NoneYet
  <2> QED BY <2>3, <2>4
<1>3. ASSUME NEW k \in Nat, k \in T
      PROVE  k + 1 \in T
  <2>1. CASE k + 1 <= n
    <3>1. k < n /\ k <= n
      BY <2>1
    <3>2. f[k + 1] = LookAt(s, f[k]) /\ ChainOK(s, f[k]) /\ ChainTells(s, f[k])
      BY <1>1, <1>3, <3>1
    <3>3. ChainOK(s, f[k + 1]) /\ ChainTells(s, f[k + 1])
      BY <3>2, LookAtKeeps, LookAtTells
    <3> QED BY <3>3
  <2> QED BY <2>1
<1> HIDE DEF T
<1>4. n \in T
  BY <1>2, <1>3, NatInduct
<1> QED
  BY <1>1, <1>4 DEF T, ChainTells

\* xd3_smatch
LEMMA BestTells ==
  ASSUME NEW s, LoopReady(s), ChainedTo(s, s.inp)
  PROVE  MatchTells(s, BestOf(s))
<1> DEFINE at == s.small[SmallHash(s)]
           base == at - HASH_CKOFFSET
           chain == IF s.min_match = MIN_MATCH THEN s.cfg.schain ELSE s.cfg.slchain
           best == LongestOf(s, base, chain)
           none == [best EXCEPT !.length = 0]
<1>1. CASE at = 0
  <2>1. BestOf(s).length = 0
    BY <1>1 DEF BestOf
  <2> QED BY <2>1 DEF MatchTells
<1>2. CASE at # 0
  <2>1. base \in Int /\ chain \in Nat /\ 0 <= base /\ base < s.inp
    <3>1. s.small \in [0..(SmallSlots - 1) -> Nat] /\ s.cfg \in Matchers /\ s.inp \in Nat
      BY ReadyFacts DEF LoopReady, Ready, Tables
    <3>2. at \in Nat /\ at <= s.inp
      BY <3>1, SmallHashFacts DEF ChainedTo
    <3>3. chain \in Nat
      BY <3>1, MatcherFacts
    <3> HIDE DEF at, chain
    <3> QED BY <1>2, <3>1, <3>2, <3>3 DEF HASH_CKOFFSET
  <2>2. BestOf(s) \in {best, none}
    BY <1>2 DEF BestOf, Smatch
  <2> HIDE DEF base, chain
  <2>3. MatchTells(s, best) /\ MatchOK(s, best)
    BY <2>1, LongestTells, LongestFacts
  <2>4. best.length \in Nat
    BY <2>3 DEF MatchOK
  <2> HIDE DEF best
  <2>5. none.length \in {0, best.length} /\ none.offset = best.offset
    OBVIOUS
  <2> HIDE DEF none
  <2>6. MatchTells(s, none)
    BY <2>3, <2>5 DEF MatchTells
  <2> QED BY <2>2, <2>3, <2>6
<1> QED
  BY <1>1, <1>2

\* xd3_scksum_insert
LEMMA ScksumInsertTells ==
  ASSUME NEW s, LoopReady(s), LoopTells(s)
  PROVE  LET t == ScksumInsert(s)
         IN  Told(t) /\ RunsTell(t) /\ ChainedTo(t, t.inp + 1)
<1> DEFINE t == ScksumInsert(s)
           h == SmallHash(s)
           small == [s.small EXCEPT ![h] = s.inp + 1]
<1>0. SUFFICES Told(t) /\ RunsTell(t) /\ ChainedTo(t, t.inp + 1)
  OBVIOUS
<1>1. /\ Names \subseteq DOMAIN s /\ s.inp \in Nat /\ OnlyChanges(s, t, {"prev", "small"})
      /\ s.small \in [0..(SmallSlots - 1) -> Nat]
  BY ScksumInsertKeeps, ReadyFacts DEF LoopReady, Ready, Tables
<1>2. t.small = small
  BY <1>1 DEF ScksumInsert, Names, HASH_CKOFFSET
<1> HIDE DEF t
<1>3. t.inp = s.inp /\ t.win = s.win /\ t.run_c = s.run_c /\ t.run_l = s.run_l
  BY <1>1 DEF OnlyChanges, Names
<1>4. Told(t)
  BY <1>1, ToldKept DEF LoopTells
<1>5. RunsTell(t)
  BY <1>3 DEF LoopTells, RunsTell, Byte
<1>6. ASSUME NEW k \in 0..(SmallSlots - 1)
      PROVE  t.small[k] <= t.inp + 1
  <2>1. s.small[k] \in Nat /\ s.small[k] <= s.inp
    BY <1>1 DEF LoopTells, ChainedTo
  <2>2. small[k] = s.small[k] \/ small[k] = s.inp + 1
    BY <1>1
  <2> HIDE DEF small
  <2> QED BY <1>1, <1>2, <1>3, <2>1, <2>2
<1> QED
  BY <1>4, <1>5, <1>6 DEF ChainedTo

LEMMA WindowFoundTells ==
  ASSUME NEW s, LoopReady(s), LoopTells(s), NEW m, m = BestOf(s), m.length >= s.min_match
  PROVE  NextTells(WindowFound(s, m))
<1> DEFINE u == ScksumInsert(s)
           i == Inst(CPY, s.inp, m.length, m.offset, 0)
           t == TakeSlot(u, i)
<1>1. /\ WindowFound(s, m) = HandleLazy(t, i.size)
      /\ i \in Instrs /\ i.type = CPY /\ i.type # RUN /\ i.xtra = 0 /\ LoopReady(u)
      /\ i.size \in Nat \ {0} /\ i.size >= MIN_MATCH /\ u.inp + i.size <= AvailIn(u)
      /\ u.inp = s.inp /\ u.win = s.win
      /\ i.pos = s.inp /\ i.size = m.length /\ i.addr = m.offset
  BY WindowSteps DEF RUN, CPY
<1>2. Told(u) /\ RunsTell(u) /\ ChainedTo(u, u.inp + 1)
  BY ScksumInsertTells
<1>3. MatchTells(s, m)
  BY BestTells DEF LoopTells
<1> HIDE DEF i, u
<1>4. i \in Telling(u.win, u.source)
  <2>1. 0 <= i.addr /\ i.addr < i.pos /\ \A k \in 0..(i.size - 1) : Byte(s, i.addr + k) = Byte(s, i.pos + k)
    BY <1>1, <1>3 DEF MatchTells
  <2>2. \A k \in 0..(i.size - 1) : u.win[i.pos + k + 1] = u.win[i.addr + k + 1]
    BY <1>1, <2>1 DEF Byte
  <2> QED BY <1>1, <2>1, <2>2 DEF Telling
<1>5. /\ LoopReady(t) /\ t.inp = u.inp /\ AvailIn(t) = AvailIn(u)
      /\ Told(t) /\ RunsTell(t) /\ ChainedTo(t, u.inp + 1)
  BY <1>1, <1>2, <1>4, EnterTells
<1> HIDE DEF t
<1>6. NextTells(HandleLazy(t, i.size))
  BY <1>1, <1>5, HandleLazyTells
<1> QED
  BY <1>1, <1>6

LEMMA NotFoundTells ==
  ASSUME NEW s, LoopReady(s), LoopTells(s)
  PROVE  NextTells(NotFound(s))
<1> DEFINE t == ScksumInsert(s)
           x == t.min_match - 1
           m == Max({MIN_MATCH, x})
           u == [t EXCEPT !.min_match = m]
<1>1. LoopReady(t) /\ Told(t) /\ RunsTell(t) /\ ChainedTo(t, t.inp + 1)
  BY ScksumInsertKeeps, ScksumInsertTells
<1>2. NotFound(s) = UpdateOne(u)
  BY DEF NotFound
<1> HIDE DEF t
<1>3. m \in Nat /\ m >= MIN_MATCH
  <2>1. x \in Int /\ MIN_MATCH \in Nat
    BY <1>1, ReadyFacts DEF LoopReady, MIN_MATCH
  <2> HIDE DEF x
  <2> QED BY <2>1, MaxTwo
<1> HIDE DEF m
<1>4. LoopReady(u) /\ Names \subseteq DOMAIN t
  BY <1>1, <1>3, MinMatchMoves, ReadyFacts DEF LoopReady
<1>5. OnlyChanges(t, u, {"min_match"})
  BY <1>4 DEF OnlyChanges, Names
<1> HIDE DEF u
<1>6. u.inp = t.inp
  BY <1>4, <1>5 DEF OnlyChanges, Names
<1>7. Told(u)
  BY <1>1, <1>4, <1>5, ToldKept
<1>8. RunsTell(u) /\ ChainedTo(u, t.inp + 1)
  BY <1>1, <1>4, <1>5, LoopTellsKept
<1>9. NextTells(UpdateOne(u))
  BY <1>4, <1>6, <1>7, <1>8, UpdateOneTells
<1> QED
  BY <1>2, <1>9

-----------------------------------------------------------------------------
(* The first instruction of a window. *)

\* No chain of an earlier window is left, or all are to be dropped.
NoChains(s) == \A h \in 0..(SmallSlots - 1) : s.small[h] = 0
Unchained(s) == s.small_reset = TRUE \/ NoChains(s)

LEMMA ContinuedTells ==
  ASSUME NEW s, Ready(s), Told(s), Unchained(s)
  PROVE  Told(Continued(s)) /\ Unchained(Continued(s))
<1> DEFINE t == Continued(s)
<1>0. SUFFICES Told(t) /\ Unchained(t)
  OBVIOUS
<1>1. Core(s) /\ Names \subseteq DOMAIN s
  BY ReadyFacts DEF Ready, Good
<1>2. CASE OnlyChanges(s, t, {"match_state", "fwd"})
  <2> HIDE DEF t
  <2>1. Told(t)
    BY <1>1, <1>2, ToldKept
  <2>2. t.small = s.small /\ t.small_reset = s.small_reset
    BY <1>1, <1>2 DEF OnlyChanges, Names
  <2> QED BY <2>1, <2>2 DEF Unchained, NoChains
<1>3. CASE \E v : /\ t = SkipMatch(SourceExtendMatch(v))
                  /\ OnlyChanges(s, v, SetupFields) /\ Core(v) /\ MatchLimits(v)
  <2>1. PICK v : /\ t = SkipMatch(SourceExtendMatch(v))
                 /\ OnlyChanges(s, v, SetupFields) /\ Core(v) /\ MatchLimits(v)
    BY <1>3
  <2> DEFINE w == SourceExtendMatch(v)
  <2>2. Told(v)
    BY <1>1, <2>1, ToldKept DEF SetupFields
  <2>3. OnlyChanges(v, w, MatchFields) /\ Told(w)
    BY <2>1, <2>2, SourceExtendMatchKeeps, SourceExtendMatchTells
  <2>4. t = SkipMatch(w)
    BY <2>1
  <2> HIDE DEF w, t
  <2>5. OnlyChanges(s, w, SetupFields \cup MatchFields)
    BY <2>1, <2>3, ChangesTwice
  <2>6. w.small = s.small /\ w.small_reset = s.small_reset /\ Names \subseteq DOMAIN w
    BY <1>1, <2>5
    DEF OnlyChanges, Names, SetupFields, MatchFields, TakeFields, SlotFields, CodeFields, SourceFields
  <2>7. OnlyChanges(w, t, {"inp"})
    BY <2>4, <2>6 DEF SkipMatch, OnlyChanges, Names
  <2>8. Told(t)
    BY <2>3, <2>6, <2>7, ToldKept
  <2>9. t.small = s.small /\ t.small_reset = s.small_reset
    BY <2>6, <2>7 DEF OnlyChanges, Names
  <2> QED BY <2>8, <2>9 DEF Unchained, NoChains
<1>4. CASE t = s
  BY <1>4
<1> HIDE DEF t
<1> QED
  BY <1>2, <1>3, <1>4, ContinuedSteps DEF t

\* xd3_string_match_init
LEMMA MatchInitTells ==
  ASSUME NEW s, Ready(s), Told(s), Unchained(s)
  PROVE  Told(MatchInit(s)) /\ ChainedTo(MatchInit(s), MatchInit(s).inp)
<1> DEFINE t == MatchInit(s)
           none == [h \in DOMAIN s.small |-> 0]
<1>0. SUFFICES Told(t) /\ ChainedTo(t, t.inp)
  OBVIOUS
<1>1. Names \subseteq DOMAIN s /\ s.small \in [0..(SmallSlots - 1) -> Nat] /\ s.inp \in Nat
  BY ReadyFacts DEF Ready, Tables
<1>2. (t = s /\ NoChains(s)) \/ t = [s EXCEPT !.small = none, !.small_reset = FALSE]
  BY DEF MatchInit, Unchained
<1>3. \A h \in 0..(SmallSlots - 1) : none[h] = 0
  BY <1>1
<1> HIDE DEF t, none
<1>4. OnlyChanges(s, t, {"small", "small_reset"}) /\ (t.small = none \/ (t.small = s.small /\ NoChains(s)))
  BY <1>1, <1>2 DEF OnlyChanges, Names
<1>5. Told(t)
  BY <1>1, <1>4, ToldKept
<1>6. t.inp = s.inp
  BY <1>1, <1>4 DEF OnlyChanges, Names
<1>7. \A h \in 0..(SmallSlots - 1) : t.small[h] = 0
  BY <1>3, <1>4 DEF NoChains
<1>8. ChainedTo(t, t.inp)
  BY <1>1, <1>6, <1>7 DEF ChainedTo
<1> QED
  BY <1>5, <1>8

LEMMA BegunTells ==
  ASSUME NEW s, Ready(s), Told(s), Unchained(s)
  PROVE  NextTells(Begun(s))
<1> DEFINE c == Continued(s)
           over == [c EXCEPT !.instr = TRUE]
           on == Restart(MatchInit(c))
<1>1. Ready(c) /\ Told(c) /\ Unchained(c)
  BY ContinuedKeeps, ContinuedTells
<1>2. Begun(s) = over \/ Begun(s) = on
  BY DEF Begun
<1> HIDE DEF c
<1>3. NextTells(over)
  <2>1. Names \subseteq DOMAIN c
    BY <1>1, ReadyFacts
  <2>2. OnlyChanges(c, over, {"instr"}) /\ over.instr = TRUE
    BY <2>1 DEF OnlyChanges, Names
  <2> HIDE DEF over
  <2>3. Told(over)
    BY <1>1, <2>1, <2>2, ToldKept
  <2> QED BY <2>2, <2>3 DEF NextTells
<1>4. NextTells(on)
  BY <1>1, MatchInitKeeps, MatchInitTells, RestartTells
<1> HIDE DEF over, on
<1> QED
  BY <1>2, <1>3, <1>4

-----------------------------------------------------------------------------
(* The inductive invariant. *)

\* What the buffered instructions say holds, and so does what the search goes by at the head
\* of its loop: the run it has in sight and the positions that chains begin at.
TellInv ==
  /\ EncoderInv
  /\ pc \in {"input", "search"} => e.used = <<>> /\ Unchained(e)
  /\ pc = "loop" => LoopTells(e)
  /\ pc = "instr" => Told(e)

LEMMA GotoTells ==
  ASSUME EncoderInv', NEW s, ~ s.error => NextTells(s), Goto(s)
  PROVE  TellInv'
<1>1. /\ e' = s /\ pc' \in {"failed", "instr", "loop"} /\ (pc' # "failed" => ~ s.error)
      /\ (pc' = "loop" => ~ s.instr)
  BY DEF Goto
<1>2. pc' # "failed" => Told(e') /\ (pc' = "loop" => LoopTells(e'))
  BY <1>1 DEF NextTells, LoopTells
<1> QED
  BY <1>1, <1>2 DEF TellInv

LEMMA TellInit ==
  ASSUME Init
  PROVE  TellInv
<1>1. PICK i \in Inputs, cfg \in Matchers, size \in IoptSizes :
        e = NewEncoder(i, cfg, size) /\ pc = "input"
  BY DEF Init
<1>2. e.used = <<>> /\ e.small = [h \in 0..(SmallSlots - 1) |-> 0]
  BY <1>1 DEF NewEncoder
<1>3. Unchained(e)
  BY <1>2 DEF Unchained, NoChains
<1> QED
  BY <1>1, <1>2, <1>3, EncoderInit DEF TellInv

LEMMA TakeWindowTells ==
  ASSUME TellInv, TakeWindow
  PROVE  TellInv'
<1>1. EncoderInv' /\ Names \subseteq DOMAIN e /\ e.used = <<>> /\ Unchained(e)
  BY TakeWindowKeeps, ReadyFacts DEF TellInv, EncoderInv, TakeWindow
<1>2. pc' = "search" /\ \E w : e' = NextWindow(e, w)
  BY DEF TakeWindow, NextWindow
<1>3. e'.used = <<>> /\ e'.small = e.small /\ e'.small_reset = e.small_reset
  BY <1>1, <1>2 DEF NextWindow, Names
<1>4. Unchained(e')
  BY <1>1, <1>3 DEF Unchained, NoChains
<1> QED
  BY <1>1, <1>2, <1>3, <1>4 DEF TellInv

LEMMA BeginSearchTells ==
  ASSUME TellInv, BeginSearch
  PROVE  TellInv'
<1>1. EncoderInv' /\ Ready(e) /\ e.used = <<>> /\ Unchained(e)
  BY BeginSearchKeeps DEF TellInv, EncoderInv, BeginSearch
<1>2. Told(e)
  <2> DEFINE X == Telling(e.win, e.source)
  <2>1. <<>> \in Seq(X)
    OBVIOUS
  <2> QED BY <1>1, <2>1 DEF Told
<1>3. Goto(Begun(e))
  BY DEF BeginSearch, Begun
<1> QED
  BY <1>1, <1>2, <1>3, BegunTells, GotoTells

LEMMA FindRunTells ==
  ASSUME TellInv, FindRun
  PROVE  TellInv'
<1>1. EncoderInv' /\ LoopReady(e) /\ LoopTells(e)
  BY FindRunKeeps DEF TellInv, EncoderInv, FindRun
<1>2. Goto(RunFound(TryRun(e))) /\ RunTaken(e)
  BY DEF FindRun, RunFound
<1> QED
  BY <1>1, <1>2, RunFoundTells, GotoTells

LEMMA FindCopyTells ==
  ASSUME TellInv, FindCopy
  PROVE  TellInv'
<1> DEFINE s == TrySource(TryRun(e))
           m == BestOf(s)
<1>1. EncoderInv' /\ LoopReady(e) /\ LoopTells(e)
  BY FindCopyKeeps DEF TellInv, EncoderInv, FindCopy
<1>2. \/ (s.fwd > 0 \/ s.error) /\ Goto(SourceFound(s))
      \/ m.length >= s.min_match /\ Goto(WindowFound(s, m))
      \/ Goto(NotFound(s))
  BY DEF FindCopy, SourceFound, WindowFound, NotFound, BestOf
<1>3. /\ LoopReady(s) /\ s.fwd \in Nat /\ s.inp + s.fwd <= AvailIn(s)
      /\ s.fwd = 0 \/ s.fwd >= MIN_MATCH
  BY <1>1, TrySourceFacts
<1>4. LoopTells(s)
  BY <1>1, SearchedTells
<1> HIDE DEF s
<1>5. CASE s.error /\ Goto(SourceFound(s))
  <2>1. SourceFound(s) = s
    BY <1>5 DEF SourceFound
  <2> QED BY <1>1, <1>5, <2>1, GotoTells
<1>6. CASE ~ s.error /\ s.fwd > 0 /\ Goto(SourceFound(s))
  <2>1. s.fwd >= MIN_MATCH
    BY <1>3, <1>6
  <2>2. ChainedTo(s, s.inp + 1)
    <3> SUFFICES ASSUME NEW h \in 0..(SmallSlots - 1)
                 PROVE  s.small[h] <= s.inp + 1
      BY DEF ChainedTo
    <3>1. s.small[h] \in Nat /\ s.inp \in Nat
      BY <1>3, ReadyFacts DEF LoopReady, Ready, Tables
    <3> QED BY <1>4, <3>1 DEF LoopTells, ChainedTo
  <2>3. NextTells(HandleLazy(s, s.fwd))
    BY <1>3, <1>4, <2>1, <2>2, HandleLazyTells DEF LoopTells
  <2>4. SourceFound(s) = HandleLazy(s, s.fwd)
    BY <1>6 DEF SourceFound
  <2> QED BY <1>1, <1>6, <2>3, <2>4, GotoTells
<1>7. CASE m.length >= s.min_match /\ Goto(WindowFound(s, m))
  BY <1>1, <1>3, <1>4, <1>7, WindowFoundTells, GotoTells
<1>8. CASE Goto(NotFound(s))
  BY <1>1, <1>3, <1>4, <1>8, NotFoundTells, GotoTells
<1> QED
  BY <1>2, <1>5, <1>6, <1>7, <1>8

LEMMA FinishWindowTells ==
  ASSUME TellInv, FinishWindow
  PROVE  TellInv'
<1> DEFINE v == AddFinalize(FlushInstructions(e, TRUE))
<1>1. e' = EncodeReset(v) /\ pc' \in {"input", "header"}
  BY DEF FinishWindow
<1>2. EncoderInv' /\ Ready(e') /\ e'.used = <<>>
  BY <1>1, FinishWindowKeeps, FinishKeeps DEF TellInv, EncoderInv
<1> HIDE DEF v
<1>3. Names \subseteq DOMAIN e'
  BY <1>2, ReadyFacts
<1>4. e'.small_reset = TRUE
  BY <1>1, <1>3 DEF EncodeReset, Names
<1> QED
  BY <1>1, <1>2, <1>4 DEF TellInv, Unchained

LEMMA DecoderKeepsTold ==
  ASSUME TellInv, UNCHANGED <<text, e>>, pc' = pc \/ pc' \in {"emit", "failed", "header", "done"}
  PROVE  TellInv'
<1>1. e' = e
  OBVIOUS
<1>2. EncoderInv'
  BY ElsewhereKeeps DEF TellInv
<1> QED
  BY <1>1, <1>2 DEF TellInv

LEMMA TellNext ==
  ASSUME TellInv, [Next]_vars
  PROVE  TellInv'
<1>1. CASE UNCHANGED <<text, e>> /\ (pc' = pc \/ pc' \in {"emit", "failed", "header", "done"})
  BY <1>1, DecoderKeepsTold
<1>2. CASE TakeWindow
  BY <1>2, TakeWindowTells
<1>3. CASE BeginSearch
  BY <1>3, BeginSearchTells
<1>4. CASE FindRun
  BY <1>4, FindRunTells
<1>5. CASE FindCopy
  BY <1>5, FindCopyTells
<1>6. CASE FinishWindow
  BY <1>6, FinishWindowTells
<1> QED
  BY <1>1, <1>2, <1>3, <1>4, <1>5, <1>6, EncoderOrDecoder

LEMMA ToldTells ==
  ASSUME EncoderInv, Told(e), NEW k \in 1..Len(e.used)
  PROVE  Tells(e, e.used[k])
<1> DEFINE X == Telling(e.win, e.source)
           i == e.used[k]
<1>1. i \in X
  BY DEF Told
<1> HIDE DEF i
<1> QED
  BY <1>1 DEF Telling, Tells, Byte, i

\* What the buffered instructions say of the window is so at every step of the search: a run
\* repeats its byte, a copy from the window (xd3_smatch and its chains, which outlive the
\* positions they came from) begins before it with the same bytes, and a copy from the
\* source, taken on a checksum, grown over blocks and windows and cut at overlaps, has the
\* bytes of the source and stays in the source window once that is decided.
THEOREM InstructionsTold == Spec => []InstructionsTell
<1>1. Init => TellInv
  BY TellInit
<1>2. TellInv /\ [Next]_vars => TellInv'
  BY TellNext
<1>3. TellInv => InstructionsTell
  <2> SUFFICES ASSUME TellInv, pc \in {"loop", "instr"}, NEW k \in 1..Len(e.used)
               PROVE  Tells(e, e.used[k]) /\ Covered(e, e.used[k])
    BY DEF InstructionsTell
  <2>1. EncoderInv /\ Told(e)
    BY DEF TellInv, LoopTells
  <2> QED BY <2>1, ToldTells, CopiesAreCovered
<1> QED
  BY <1>1, <1>2, <1>3, PTL DEF Spec
=============================================================================
