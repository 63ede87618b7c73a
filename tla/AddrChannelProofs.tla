------------------------- MODULE AddrChannelProofs -------------------------
(***************************************************************************)
(* The address channel is lossless for every number of modes, every lag    *)
(* and every length of window: the decoder's cache is the one the encoder  *)
(* had (InStep), so each decoded address is the one that was encoded       *)
(* (AddressesSurvive).  InStep is inductive with the types of what is on   *)
(* the wire; AddressesSurvive follows from it and RoundTrip at each copy.  *)
(* No other mode would have sent an address in fewer bytes: of any cache,  *)
(* because a smaller number has no more digits (EncodeIsShortest).         *)
(***************************************************************************)
EXTENDS AddrChannel, WellFoundedInduction, SequenceTheorems, TLAPS

-----------------------------------------------------------------------------
(* Induction: a property of every number, as the set of those that have it. *)

\* A nonempty set of natural numbers has a smallest one.
LEMMA NatMin ==
  ASSUME NEW T, T \subseteq Nat, T # {}
  PROVE  \E x \in T : \A y \in T : x <= y
<1> DEFINE Less == {p \in Nat \X Nat : p[1] < p[2]}
<1>1. OpToRel(<, Nat) = Less
  BY DEF OpToRel
<1>2. PICK x \in T : \A y \in T : ~ (<<y, x>> \in Less)
  <2>1. IsWellFoundedOn(Less, Nat)
    BY <1>1, NatLessThanWellFounded
  <2> HIDE DEF Less
  <2> QED BY <2>1, WFMin
<1>3. ASSUME NEW y \in T
      PROVE  x <= y
  <2>1. x \in Nat /\ y \in Nat /\ <<y, x>> \in Nat \X Nat
    OBVIOUS
  <2> QED BY <1>2, <2>1
<1> QED BY <1>3

\* A set of numbers that holds 0 and the successor of each of its elements is all.
LEMMA NatInduct ==
  ASSUME NEW T, 0 \in T, \A n \in Nat : n \in T => n + 1 \in T
  PROVE  \A n \in Nat : n \in T
<1> DEFINE Others == {n \in Nat : n \notin T}
<1>1. SUFFICES ASSUME Others # {}
               PROVE  FALSE
  OBVIOUS
<1>2. PICK x \in Others : \A y \in Others : x <= y
  BY <1>1, NatMin
<1>3. x - 1 \in Nat /\ x - 1 \notin Others
  BY <1>2
<1> QED
  BY <1>2, <1>3

-----------------------------------------------------------------------------

(* The address cache. *)

\* Division with remainder, for the number of a mode and the byte in its slot.
LEMMA Division ==
  ASSUME NEW a \in Nat, NEW b \in Nat \ {0}
  PROVE  /\ a \div b \in Nat
         /\ a % b \in 0..(b - 1)
         /\ a = (a \div b) * b + (a % b)
  OBVIOUS

\* Every address has a slot when there are SAME modes.
LEMMA SameSlotInRange ==
  ASSUME NEW addr \in Nat, SameModes > 0
  PROVE  SameSlot(addr) \in SameSlots
<1>1. SameModes * Buckets \in Nat \ {0}
  BY ModesAssumption
<1> QED
  BY <1>1 DEF SameSlot, SameSlots

\* The mode and the byte of a slot: the mode exists, and the byte is one.
LEMMA SlotSplits ==
  ASSUME NEW d \in SameSlots
  PROVE  /\ d \div Buckets \in 0..(SameModes - 1)
         /\ d % Buckets \in 0..(Buckets - 1)
         /\ (d \div Buckets) * Buckets + (d % Buckets) = d
<1> USE ModesAssumption
<1>1. d \in Nat /\ d < SameModes * Buckets
  BY DEF SameSlots
<1>2. /\ d \div Buckets \in Nat
      /\ d % Buckets \in 0..(Buckets - 1)
      /\ d = (d \div Buckets) * Buckets + (d % Buckets)
  BY <1>1, Division
<1>3. d \div Buckets < SameModes
  <2> DEFINE q == d \div Buckets
  <2>1. SUFFICES ASSUME q >= SameModes
                 PROVE  FALSE
    BY <1>2
  <2>2. q * Buckets >= SameModes * Buckets
    BY <1>2, <2>1
  <2> QED
    BY <1>1, <1>2, <2>2
<1> QED
  BY <1>2, <1>3

-----------------------------------------------------------------------------
\* Every usable mode sends a natural number, of which the address is recovered.
LEMMA UsableDecodes ==
  ASSUME NEW c \in Caches, NEW place \in Nat, NEW addr \in 0..(place - 1),
         NEW m \in Usable(c, addr)
  PROVE  /\ m \in 0..(FirstSame - 1)
         /\ Distance(c, addr, place, m) \in Nat
         /\ Decode(c, place, m, Distance(c, addr, place, m)) = addr
<1> USE ModesAssumption
<1>1. CASE m = VCD_SELF
  BY <1>1 DEF VCD_SELF, FirstSame, Distance, Decode
<1>2. CASE m = VCD_HERE
  BY <1>2 DEF VCD_SELF, VCD_HERE, FirstSame, Distance, Decode
<1>3. CASE m \notin {VCD_SELF, VCD_HERE}
  <2>1. PICK j \in NearSlots : m = FirstNear + j /\ c.near[j] <= addr
    BY <1>3 DEF Usable
  <2>2. j \in 0..(NearModes - 1) /\ m = 2 + j /\ c.near[j] \in Nat
    BY <2>1 DEF NearSlots, FirstNear, Caches
  <2>3. m \in 0..(FirstSame - 1) /\ m # 0 /\ m # 1 /\ m < FirstSame /\ m - FirstNear = j
    BY <2>2 DEF FirstSame, FirstNear
  <2>4. Distance(c, addr, place, m) = addr - c.near[j]
    BY <2>3 DEF Distance, VCD_SELF, VCD_HERE
  <2>5. \A v : Decode(c, place, m, v) = c.near[j] + v
    BY <2>3 DEF Decode, VCD_SELF, VCD_HERE
  <2> QED
    BY <2>1, <2>2, <2>3, <2>4, <2>5
<1> QED
  BY <1>1, <1>2, <1>3

\* Among the usable modes there is one of the smallest number, the first of those.
LEMMA ClosestExists ==
  ASSUME NEW c \in Caches, NEW place \in Nat, NEW addr \in 0..(place - 1)
  PROVE  /\ Usable(c, addr) \subseteq Nat
         /\ \E m \in Usable(c, addr) : \A n \in Usable(c, addr) :
              \/ Distance(c, addr, place, m) < Distance(c, addr, place, n)
              \/ Distance(c, addr, place, m) = Distance(c, addr, place, n) /\ m <= n
<1> DEFINE U == Usable(c, addr)
           D(m) == Distance(c, addr, place, m)
<1>1. /\ U \subseteq Nat
      /\ \A m \in U : D(m) \in Nat
      /\ U # {}
  <2>1. FirstSame \in Nat
    BY ModesAssumption DEF FirstSame
  <2>2. U # {}
    BY DEF Usable
  <2> QED
    BY <2>1, <2>2, UsableDecodes
<1> DEFINE Ds == {D(m) : m \in U}
<1>2. Ds \subseteq Nat /\ Ds # {}
  BY <1>1
<1>3. PICK d \in Ds : \A e \in Ds : d <= e
  <2> HIDE DEF Ds
  <2> QED BY <1>2, NatMin
<1> DEFINE Ms == {m \in U : D(m) = d}
<1>4. Ms \subseteq Nat /\ Ms # {}
  BY <1>1, <1>3
<1>5. PICK m \in Ms : \A n \in Ms : m <= n
  <2> HIDE DEF Ms
  <2> QED BY <1>4, NatMin
<1>6. ASSUME NEW n \in U
      PROVE  D(m) < D(n) \/ (D(m) = D(n) /\ m <= n)
  <2>1. d <= D(n) /\ D(n) \in Nat /\ d \in Nat /\ D(m) = d
    BY <1>1, <1>2, <1>3, <1>5, <1>6
  <2>2. CASE D(n) = d
    BY <1>5, <1>6, <2>1, <2>2
  <2> QED
    <3> HIDE DEF D
    <3> QED BY <2>1, <2>2
<1>7. m \in U
  BY <1>5
<1> QED
  BY <1>1, <1>6, <1>7

\* The mode xd3_encode_address settles on when it does not name a SAME slot is
\* one it tried: both of its searches end.
LEMMA ChosenIsUsable ==
  ASSUME NEW c \in Caches, NEW place \in Nat, NEW addr \in 0..(place - 1)
  PROVE  /\ SmallModes(c, addr, place) # {} => FirstSmall(c, addr, place) \in Usable(c, addr)
         /\ Closest(c, addr, place) \in Usable(c, addr)
<1>1. ASSUME SmallModes(c, addr, place) # {}
      PROVE  FirstSmall(c, addr, place) \in Usable(c, addr)
  <2>1. SmallModes(c, addr, place) \subseteq Usable(c, addr)
    BY DEF SmallModes
  <2>2. \E m \in SmallModes(c, addr, place) : \A n \in SmallModes(c, addr, place) : m <= n
    BY <1>1, <2>1, ClosestExists, NatMin
  <2> QED
    BY <2>1, <2>2 DEF FirstSmall
<1>2. Closest(c, addr, place) \in Usable(c, addr)
  BY ClosestExists DEF Closest
<1> QED
  BY <1>1, <1>2

\* With the same cache at the same position, xd3_decode_address finds the address
\* that xd3_encode_address was given, whatever the cache holds; the mode is one of
\* the code table's, and the number sent in a SAME mode fits its byte.
THEOREM RoundTrip ==
  ASSUME NEW c \in Caches, NEW place \in Nat, NEW addr \in 0..(place - 1)
  PROVE  LET a == Encode(c, addr, place)
         IN  /\ a.mode \in 0..(TotalModes - 1)
             /\ a.value \in Nat
             /\ a.mode >= FirstSame => a.value < Buckets
             /\ Decode(c, place, a.mode, a.value) = addr
<1> DEFINE a == Encode(c, addr, place)
           hit == SmallModes(c, addr, place) = {} /\ SameHit(c, addr)
           d == SameSlot(addr)
<1>1. CASE hit
  <2>1. SameModes > 0 /\ c.same[d] = addr
    BY <1>1 DEF SameHit
  <2>2. d \in SameSlots
    BY <2>1, SameSlotInRange
  <2>3. /\ d \div Buckets \in 0..(SameModes - 1)
        /\ d % Buckets \in 0..(Buckets - 1)
        /\ (d \div Buckets) * Buckets + (d % Buckets) = d
    <3> HIDE DEF d
    <3> QED BY <2>2, SlotSplits
  <2>4. a = [mode |-> FirstSame + d \div Buckets, value |-> d % Buckets]
    BY <1>1 DEF Encode
  <2> DEFINE q == d \div Buckets
             r == d % Buckets
  <2> HIDE DEF a, d, q, r
  <2>5. a.mode = FirstSame + q /\ a.value = r
    BY <2>4 DEF q, r
  <2>6. q \in 0..(SameModes - 1) /\ r \in 0..(Buckets - 1) /\ q * Buckets + r = d
    BY <2>3 DEF q, r
  <2>7. FirstSame \in Nat /\ FirstSame >= 2 /\ TotalModes = FirstSame + SameModes
    BY ModesAssumption DEF FirstSame, TotalModes
  <2>8. /\ a.mode \in 0..(TotalModes - 1) /\ a.value \in Nat /\ a.value < Buckets
        /\ a.mode # 0 /\ a.mode # 1 /\ ~ (a.mode < FirstSame)
        /\ a.mode - FirstSame = q
    BY <2>5, <2>6, <2>7, ModesAssumption
  <2>9. Decode(c, place, a.mode, a.value) = c.same[q * Buckets + r]
    BY <2>5, <2>8 DEF Decode, VCD_SELF, VCD_HERE
  <2> QED
    BY <2>1, <2>6, <2>8, <2>9 DEF a
<1>2. CASE ~ hit
  <2> DEFINE m == IF SmallModes(c, addr, place) # {} THEN FirstSmall(c, addr, place)
                  ELSE Closest(c, addr, place)
  <2>1. m \in Usable(c, addr)
    BY ChosenIsUsable
  <2>2. a = [mode |-> m, value |-> Distance(c, addr, place, m)]
    BY <1>2 DEF Encode
  <2> HIDE DEF m, a
  <2>3. /\ m \in 0..(FirstSame - 1)
        /\ Distance(c, addr, place, m) \in Nat
        /\ Decode(c, place, m, Distance(c, addr, place, m)) = addr
    BY <2>1, UsableDecodes
  <2>4. FirstSame \in Nat /\ TotalModes \in Nat /\ FirstSame <= TotalModes
    BY ModesAssumption DEF FirstSame, TotalModes
  <2>5. /\ a.mode \in 0..(TotalModes - 1) /\ ~ (a.mode >= FirstSame)
        /\ a.value \in Nat /\ Decode(c, place, a.mode, a.value) = addr
    BY <2>2, <2>3, <2>4
  <2> QED
    BY <2>5 DEF a
<1> QED
  BY <1>1, <1>2

\* xd3_update_cache keeps a cache a cache, its next slot a slot of the NEAR array.
LEMMA UpdateType ==
  ASSUME NEW c \in Caches, NEW addr \in Nat
  PROVE  Update(c, addr) \in Caches
<1> USE ModesAssumption
<1> DEFINE near == IF NearModes > 0 THEN [c.near EXCEPT ![c.next_slot] = addr] ELSE c.near
           next == IF NearModes > 0 THEN (c.next_slot + 1) % NearModes ELSE c.next_slot
           same == IF SameModes > 0 THEN [c.same EXCEPT ![SameSlot(addr)] = addr] ELSE c.same
<1>1. /\ c.near \in [NearSlots -> Nat]
      /\ c.next_slot \in NearSlots \cup {0}
      /\ c.same \in [SameSlots -> Nat]
  BY DEF Caches
<1>2. near \in [NearSlots -> Nat]
  BY <1>1
<1>3. same \in [SameSlots -> Nat]
  BY <1>1
<1>4. next \in NearSlots \cup {0}
  BY <1>1 DEF NearSlots
<1>5. Update(c, addr) = [near |-> near, next_slot |-> next, same |-> same]
  BY DEF Update
<1> HIDE DEF near, next, same
<1> QED
  BY <1>2, <1>3, <1>4, <1>5 DEF Caches

\* xd3_init_cache yields a cache.
LEMMA EmptyCacheType == EmptyCache \in Caches
<1>1. /\ [i \in NearSlots |-> 0] \in [NearSlots -> Nat]
      /\ [i \in SameSlots |-> 0] \in [SameSlots -> Nat]
  OBVIOUS
<1> QED
  BY <1>1 DEF EmptyCache, Caches

-----------------------------------------------------------------------------
(* The length of a number. *)

\* f gives the digits of the numbers up to n.
IsDigits(f, n) == f = [v \in 0..n |-> IF v < Small THEN 1 ELSE 1 + f[v \div Small]]

\* A number without its last digit is smaller.
LEMMA Shorter ==
  ASSUME NEW v \in Nat, v >= Small
  PROVE  v \div Small \in 0..(v - 1)
<1>1. Small \in Nat \ {0} /\ Small >= 2
  BY ModesAssumption
<1> DEFINE q == v \div Small
<1>2. q \in Nat /\ v % Small \in 0..(Small - 1) /\ v = q * Small + (v % Small)
  BY <1>1, Division
<1>3. q * Small >= q * 2
  <2> HIDE DEF q
  <2> QED BY <1>1, <1>2
<1> HIDE DEF q
<1>4. q * Small <= v
  <2> DEFINE p == q * Small
  <2>1. p \in Nat
    BY <1>1, <1>2
  <2> HIDE DEF p
  <2>2. v = p + (v % Small)
    BY <1>2 DEF p
  <2>3. p <= v
    BY <2>1, <2>2, <1>2
  <2> QED BY <2>3 DEF p
<1>5. q < v
  BY <1>1, <1>2, <1>3, <1>4
<1> QED
  BY <1>2, <1>5 DEF q

\* Dividing keeps the order of two numbers.
LEMMA DivMonotone ==
  ASSUME NEW u \in Nat, NEW v \in Nat, u <= v
  PROVE  u \div Small <= v \div Small
<1>1. Small \in Nat \ {0}
  BY ModesAssumption
<1> DEFINE p == u \div Small
           q == v \div Small
<1>2. p \in Nat /\ u % Small \in 0..(Small - 1) /\ u = p * Small + (u % Small)
  BY <1>1, Division
<1>3. q \in Nat /\ v % Small \in 0..(Small - 1) /\ v = q * Small + (v % Small)
  BY <1>1, Division
<1> HIDE DEF p, q
<1>4. SUFFICES ASSUME p >= q + 1
               PROVE  FALSE
  BY <1>2, <1>3 DEF p, q
<1>5. p * Small >= (q + 1) * Small
  BY <1>1, <1>2, <1>3, <1>4
<1>6. (q + 1) * Small = q * Small + Small
  BY <1>1, <1>3
<1> DEFINE a == p * Small
           b == q * Small
<1>7. a \in Nat /\ b \in Nat
  BY <1>1, <1>2, <1>3
<1>8. a >= b + Small /\ u = a + (u % Small) /\ v = b + (v % Small)
  BY <1>2, <1>3, <1>5, <1>6
<1> HIDE DEF a, b
<1> QED
  BY <1>1, <1>2, <1>3, <1>7, <1>8

\* Every number has digits: each one more than those of a smaller number.
LEMMA DigitsExist ==
  ASSUME NEW n \in Nat
  PROVE  \E f : IsDigits(f, n)
<1> DEFINE T == {k \in Nat : \E f : IsDigits(f, k)}
<1>1. 0 \in T
  <2> DEFINE f == [v \in 0..0 |-> 1]
  <2>1. \A v \in 0..0 : v < Small
    BY ModesAssumption
  <2>2. IsDigits(f, 0)
    BY <2>1 DEF IsDigits
  <2> QED
    BY <2>2
<1>2. ASSUME NEW k \in Nat, k \in T
      PROVE  k + 1 \in T
  <2>1. PICK f : IsDigits(f, k)
    BY <1>2
  <2> DEFINE g == [v \in 0..(k + 1) |-> IF v \in 0..k THEN f[v]
                                        ELSE IF v < Small THEN 1 ELSE 1 + f[v \div Small]]
  <2>2. ASSUME NEW v \in 0..(k + 1)
        PROVE  g[v] = IF v < Small THEN 1 ELSE 1 + g[v \div Small]
    <3>1. CASE v < Small
      BY <2>1, <3>1 DEF IsDigits
    <3>2. CASE ~(v < Small)
      <4>1. v >= Small /\ v \in Nat
        BY <3>2, ModesAssumption
      <4>2. v \div Small \in 0..(v - 1)
        BY <4>1, Shorter
      <4>3. v \div Small \in 0..k /\ v \div Small \in 0..(k + 1)
        BY <4>2
      <4> DEFINE w == v \div Small
      <4>4. g[w] = f[w]
        BY <4>3
      <4>5. v \in 0..k => f[v] = 1 + f[w]
        BY <2>1, <3>2 DEF IsDigits
      <4>6. g[v] = 1 + f[w]
        BY <3>2, <4>5
      <4> HIDE DEF w, g
      <4> QED
        BY <3>2, <4>4, <4>6 DEF w
    <3> QED
      BY <3>1, <3>2
  <2>3. g = [v \in 0..(k + 1) |-> g[v]]
    OBVIOUS
  <2> HIDE DEF g
  <2>4. IsDigits(g, k + 1)
    BY <2>2, <2>3 DEF IsDigits
  <2> QED
    BY <2>4
<1> HIDE DEF T
<1>3. \A k \in Nat : k \in T
  BY <1>1, <1>2, NatInduct
<1> QED
  BY <1>3 DEF T

\* A smaller number has no more digits.
LEMMA DigitsMonotone ==
  ASSUME NEW n \in Nat, NEW m \in Nat, NEW f, NEW g, IsDigits(f, n), IsDigits(g, m)
  PROVE  \A u \in 0..n, v \in 0..m : /\ f[u] \in Nat \ {0}
                                     /\ g[v] \in Nat \ {0}
                                     /\ u <= v => f[u] <= g[v]
<1> DEFINE Goal(u, v) == /\ f[u] \in Nat \ {0}
                         /\ g[v] \in Nat \ {0}
                         /\ u <= v => f[u] <= g[v]
           T == {k \in Nat : \A u \in 0..n, v \in 0..m : u <= k /\ v <= k => Goal(u, v)}
<1>1. \A u \in 0..n : f[u] = IF u < Small THEN 1 ELSE 1 + f[u \div Small]
  BY DEF IsDigits
<1>2. \A v \in 0..m : g[v] = IF v < Small THEN 1 ELSE 1 + g[v \div Small]
  BY DEF IsDigits
<1>3. Small \in Nat /\ Small >= 2
  BY ModesAssumption
<1>4. 0 \in T
  <2>1. 0 \in 0..n /\ 0 \in 0..m /\ 0 < Small
    BY <1>3
  <2>2. f[0] = 1 /\ g[0] = 1
    BY <1>1, <1>2, <2>1
  <2>3. ASSUME NEW u \in 0..n, NEW v \in 0..m, u <= 0, v <= 0
        PROVE  Goal(u, v)
    <3>1. u = 0 /\ v = 0
      BY <2>3
    <3> QED
      BY <3>1, <2>2
  <2> HIDE DEF Goal
  <2> QED
    BY <2>3
<1>5. ASSUME NEW k \in Nat, k \in T
      PROVE  k + 1 \in T
  <2>1. ASSUME NEW u \in 0..n, NEW v \in 0..m, u <= k + 1, v <= k + 1
        PROVE  Goal(u, v)
    <3> DEFINE p == u \div Small
               q == v \div Small
    <3>1. u >= Small => p \in 0..n /\ p <= k
      BY Shorter, <2>1
    <3>2. v >= Small => q \in 0..m /\ q <= k
      BY Shorter, <2>1
    <3>3. u <= v => p <= q
      BY DivMonotone
    <3>4. \A a \in 0..n, b \in 0..m : a <= k /\ b <= k => Goal(a, b)
      BY <1>5
    <3>5. 0 \in 0..n /\ 0 \in 0..m /\ 0 <= k
      OBVIOUS
    <3>6. f[u] = IF u < Small THEN 1 ELSE 1 + f[p]
      BY <1>1
    <3>7. g[v] = IF v < Small THEN 1 ELSE 1 + g[q]
      BY <1>2
    <3> HIDE DEF p, q
    <3>8. u >= Small => f[p] \in Nat \ {0}
      BY <3>1, <3>4, <3>5
    <3>9. v >= Small => g[q] \in Nat \ {0}
      BY <3>2, <3>4, <3>5
    <3>10. u >= Small /\ v >= Small /\ u <= v => f[p] <= g[q]
      BY <3>1, <3>2, <3>3, <3>4
    <3> DEFINE fu == f[u]
               gv == g[v]
               fp == f[p]
               gq == g[q]
    <3>11. fu \in Nat \ {0}
      BY <1>3, <3>6, <3>8
    <3>12. gv \in Nat \ {0}
      BY <1>3, <3>7, <3>9
    <3>13. ASSUME u <= v PROVE fu <= gv
      <4>1. CASE u < Small
        BY <3>6, <3>12, <4>1
      <4>2. CASE ~(u < Small)
        <5>1. u >= Small /\ v >= Small /\ ~(v < Small)
          BY <3>13, <4>2, <1>3
        <5>2. fu = 1 + fp /\ gv = 1 + gq
          BY <5>1, <4>2, <3>6, <3>7
        <5>3. fp \in Nat /\ gq \in Nat /\ fp <= gq
          BY <5>1, <3>8, <3>9, <3>10, <3>13
        <5> HIDE DEF fu, gv, fp, gq
        <5> QED
          BY <5>2, <5>3
      <4> QED
        BY <4>1, <4>2
    <3> QED
      BY <3>11, <3>12, <3>13
  <2> HIDE DEF Goal
  <2> QED
    BY <2>1
<1> HIDE DEF T
<1>6. \A k \in Nat : k \in T
  BY <1>4, <1>5, NatInduct
<1>7. ASSUME NEW u \in 0..n, NEW v \in 0..m
      PROVE  Goal(u, v)
  <2> DEFINE k == IF u <= v THEN v ELSE u
  <2>1. k \in Nat /\ u <= k /\ v <= k
    OBVIOUS
  <2> HIDE DEF k, Goal
  <2> QED
    BY <2>1, <1>6 DEF T
<1> QED
  BY <1>7

\* In modes that send sizes, a smaller number takes no more bytes, and one below
\* Small takes one.
LEMMA BytesMonotone ==
  ASSUME NEW m, NEW n, NEW u \in Nat, NEW v \in Nat,
         ~(m >= FirstSame), ~(n >= FirstSame)
  PROVE  /\ Bytes(m, u) \in Nat \ {0}
         /\ Bytes(n, v) \in Nat \ {0}
         /\ u <= v => Bytes(m, u) <= Bytes(n, v)
         /\ u < Small => Bytes(m, u) = 1
<1> DEFINE F == CHOOSE f : IsDigits(f, u)
           G == CHOOSE f : IsDigits(f, v)
<1>1. IsDigits(F, u) /\ IsDigits(G, v)
  BY DigitsExist
<1>2. Bytes(m, u) = F[u] /\ Bytes(n, v) = G[v]
  BY DEF Bytes, IsDigits
<1> HIDE DEF F, G
<1>3. u \in 0..u /\ v \in 0..v
  OBVIOUS
<1>4. F[u] \in Nat \ {0} /\ G[v] \in Nat \ {0} /\ (u <= v => F[u] <= G[v])
  BY <1>1, <1>3, DigitsMonotone
<1>5. u < Small => F[u] = 1
  BY <1>1, <1>3 DEF IsDigits
<1> QED
  BY <1>2, <1>4, <1>5

\* Whatever the cache holds, no mode would have sent the address in fewer bytes, and one
\* that a SAME slot holds takes a single byte.
THEOREM EncodeIsShortest ==
  ASSUME NEW c \in Caches, NEW place \in Nat, NEW addr \in 0..(place - 1)
  PROVE  LET a == Encode(c, addr, place)
         IN  /\ \A m \in Usable(c, addr) :
                  Bytes(a.mode, a.value) <= Bytes(m, Distance(c, addr, place, m))
             /\ SameHit(c, addr) => Bytes(a.mode, a.value) = 1
<1> DEFINE U == Usable(c, addr)
           D(m) == Distance(c, addr, place, m)
           S == SmallModes(c, addr, place)
           m0 == IF S # {} THEN FirstSmall(c, addr, place) ELSE Closest(c, addr, place)
           a == Encode(c, addr, place)
<1>0. FirstSame \in Nat
  BY ModesAssumption DEF FirstSame
<1>1. \A m \in U : m \in Nat /\ ~(m >= FirstSame) /\ D(m) \in Nat
  BY <1>0, UsableDecodes
<1>2. m0 \in U
  BY ChosenIsUsable
<1>3. S # {} => D(m0) < Small
  <2>1. SUFFICES ASSUME S # {}
                 PROVE  D(m0) < Small
    OBVIOUS
  <2>2. S \subseteq Nat
    BY <1>1 DEF SmallModes
  <2>3. \E m \in S : \A n \in S : m <= n
    <3> HIDE DEF S
    <3> QED BY <2>1, <2>2, NatMin
  <2>4. m0 \in S
    BY <2>1, <2>3 DEF FirstSmall
  <2> QED
    BY <2>4 DEF SmallModes
<1>4. S = {} => \A m \in U : D(m0) <= D(m)
  <2>1. SUFFICES ASSUME S = {}
                 PROVE  \A m \in U : D(m0) <= D(m)
    OBVIOUS
  <2>2. \E m \in U : \A n \in U : D(m) < D(n) \/ (D(m) = D(n) /\ m <= n)
    BY ClosestExists
  <2>3. \A n \in U : D(m0) < D(n) \/ (D(m0) = D(n) /\ m0 <= n)
    BY <2>1, <2>2 DEF Closest
  <2> QED
    <3> HIDE DEF D, m0
    <3> QED BY <2>3, <1>1, <1>2
<1>5. CASE S = {} /\ SameHit(c, addr)
  <2>1. /\ SameModes > 0
        /\ a = [mode |-> FirstSame + SameSlot(addr) \div Buckets, value |-> SameSlot(addr) % Buckets]
    BY <1>5 DEF Encode, SameHit
  <2>2. SameSlot(addr) \div Buckets \in 0..(SameModes - 1)
    BY <2>1, SameSlotInRange, SlotSplits
  <2>3. a.mode >= FirstSame
    BY <1>0, <2>1, <2>2, ModesAssumption
  <2>4. Bytes(a.mode, a.value) = 1
    BY <2>3 DEF Bytes
  <2>5. ASSUME NEW m \in U
        PROVE  Bytes(m, D(m)) \in Nat \ {0}
    BY <1>1, <2>5, BytesMonotone
  <2> HIDE DEF a, D
  <2> QED
    BY <2>4, <2>5 DEF D, a
<1>6. CASE ~(S = {} /\ SameHit(c, addr))
  <2>1. a.mode = m0 /\ a.value = D(m0)
    BY <1>6 DEF Encode
  <2> HIDE DEF a, m0, D, S
  <2>2. ASSUME NEW m \in U
        PROVE  Bytes(m0, D(m0)) <= Bytes(m, D(m))
    <3>1. /\ Bytes(m0, D(m0)) \in Nat \ {0} /\ Bytes(m, D(m)) \in Nat \ {0}
          /\ D(m0) <= D(m) => Bytes(m0, D(m0)) <= Bytes(m, D(m))
          /\ D(m0) < Small => Bytes(m0, D(m0)) = 1
      BY <1>1, <1>2, <2>2, BytesMonotone
    <3>2. CASE S # {}
      BY <3>1, <3>2, <1>3
    <3>3. CASE S = {}
      BY <3>1, <3>3, <1>4
    <3> QED
      BY <3>2, <3>3
  <2>3. SameHit(c, addr) => Bytes(m0, D(m0)) = 1
    <3>1. D(m0) < Small => Bytes(m0, D(m0)) = 1
      BY <1>1, <1>2, BytesMonotone
    <3> QED
      BY <3>1, <1>3, <1>6
  <2> QED
    BY <2>1, <2>2, <2>3 DEF D, a
<1> QED
  BY <1>5, <1>6

-----------------------------------------------------------------------------
(* The channel. *)

Insts ==
  [kind : {"window", "add"}, size : Nat]
    \cup [kind : {"copy"}, size : Nat, mode : 0..(TotalModes - 1), value : Nat]

Moments == [cache : Caches, here : Nat, addr : Nat]

Types ==
  /\ enc \in Caches /\ here \in Nat
  /\ dec \in Caches /\ dhere \in Nat
  /\ wire \in Seq(Insts)
  /\ past \in Seq(Moments)
  /\ \A i \in 1..Len(wire) :
       wire[i].kind = "copy" => (wire[i].mode >= FirstSame => wire[i].value < Buckets)

IInv == Types /\ InStep /\ AddressesSurvive

\* The bounds of the model's counters are no part of the code.
LEMMA BoundsAreNat ==
  /\ \A n \in SourceLens : n \in Nat
  /\ \A n \in Sizes : n \in Nat
  BY ChannelAssumption

\* Encoder and decoder begin alike, with nothing on the wire.
LEMMA InitIInv ==
  ASSUME Init PROVE IInv
<1>1. PICK n \in SourceLens : here = n /\ dhere = n
  BY DEF Init
<1>2. enc = EmptyCache /\ dec = EmptyCache /\ wire = <<>> /\ past = <<>> /\ decoded = <<0, 0>>
  BY DEF Init
<1>3. Types
  BY <1>1, <1>2, BoundsAreNat, EmptyCacheType DEF Types
<1>4. InStep
  BY <1>1, <1>2 DEF InStep, EncoderAt
<1>5. AddressesSurvive
  BY <1>2 DEF AddressesSurvive
<1> QED
  BY <1>3, <1>4, <1>5 DEF IInv

\* Whatever the encoder sends, the invariant survives if the instruction leads from
\* the state it was sent in to the next one.
LEMMA EmitIInv ==
  ASSUME IInv, NEW inst \in Insts, NEW addr \in Nat, Emit(inst, addr),
         inst.kind = "copy" => (inst.mode >= FirstSame => inst.value < Buckets),
         enc' \in Caches, here' \in Nat, UNCHANGED decoder,
         Leads(inst, [cache |-> enc, here |-> here, addr |-> addr],
               [cache |-> enc', here |-> here'])
  PROVE  IInv'
<1> DEFINE moment == [cache |-> enc, here |-> here, addr |-> addr]
<1>1. /\ enc \in Caches /\ here \in Nat /\ dec \in Caches /\ dhere \in Nat
      /\ wire \in Seq(Insts) /\ past \in Seq(Moments)
  BY DEF IInv, Types
<1>2. /\ wire' = Append(wire, inst) /\ past' = Append(past, moment)
      /\ dec' = dec /\ dhere' = dhere /\ decoded' = decoded
  BY DEF Emit, decoder
<1>3. moment \in Moments
  BY <1>1 DEF Moments
<1>4. PICK n \in Nat : Len(wire) = n /\ Len(past) = n
  BY <1>1 DEF IInv, InStep
<1> HIDE DEF moment
<1>5. /\ wire' \in Seq(Insts) /\ past' \in Seq(Moments)
      /\ Len(wire') = n + 1 /\ Len(past') = n + 1
      /\ \A i \in 1..n : wire'[i] = wire[i] /\ past'[i] = past[i]
      /\ wire'[n + 1] = inst /\ past'[n + 1] = moment
  BY <1>1, <1>2, <1>3, <1>4
<1>6. moment.cache = enc /\ moment.here = here
  BY DEF moment
<1>7. Types'
  <2>1. ASSUME NEW i \in 1..(n + 1)
        PROVE  wire'[i].kind = "copy" => (wire'[i].mode >= FirstSame => wire'[i].value < Buckets)
    <3>1. CASE i = n + 1
      BY <1>5, <3>1
    <3>2. CASE i # n + 1
      <4>1. i \in 1..n
        BY <1>4, <3>2
      <4> QED
        BY <1>4, <1>5, <4>1 DEF IInv, Types
    <3> QED
      BY <3>1, <3>2
  <2> QED
    BY <1>1, <1>2, <1>5, <2>1 DEF Types
<1>8. \A i \in 1..(n + 1) : EncoderAt(i)' = EncoderAt(i)
  <2> TAKE i \in 1..(n + 1)
  <2>1. i <= Len(wire')
    BY <1>4, <1>5
  <2>2. CASE i <= n
    <3>1. i \in 1..n /\ past'[i] = past[i]
      BY <1>4, <1>5, <2>2
    <3> QED
      BY <1>4, <2>1, <2>2, <3>1 DEF EncoderAt
  <2>3. CASE i = n + 1
    <3>1. ~ (i <= Len(wire)) /\ past'[i] = moment
      BY <1>4, <1>5, <2>3
    <3> QED
      BY <1>6, <2>1, <3>1 DEF EncoderAt
  <2> QED
    BY <1>4, <2>2, <2>3
<1>9. EncoderAt(n + 2)' = [cache |-> enc', here |-> here']
  BY <1>4, <1>5 DEF EncoderAt
<1>10. InStep'
  <2>1. [cache |-> dec', here |-> dhere'] = EncoderAt(1)'
    BY <1>2, <1>4, <1>8 DEF IInv, InStep
  <2>2. ASSUME NEW i \in 1..(n + 1)
        PROVE  Leads(wire'[i], past'[i], EncoderAt(i + 1)')
    <3>1. CASE i = n + 1
      <4>1. i + 1 = n + 2
        BY <1>4, <3>1
      <4> QED
        BY <1>5, <1>9, <3>1, <4>1 DEF moment
    <3>2. CASE i # n + 1
      <4>1. i \in 1..n /\ i + 1 \in 1..(n + 1)
        BY <1>4, <3>2
      <4>2. Leads(wire[i], past[i], EncoderAt(i + 1))
        BY <1>4, <4>1 DEF IInv, InStep
      <4> QED
        BY <1>5, <1>8, <4>1, <4>2
    <3> QED
      BY <3>1, <3>2
  <2> QED
    BY <1>5, <2>1, <2>2 DEF InStep
<1>11. AddressesSurvive'
  BY <1>2 DEF IInv, AddressesSurvive
<1> QED
  BY <1>7, <1>10, <1>11 DEF IInv

\* Whatever the decoder reads, it stays in step if it makes the move that the
\* encoder made when it sent the instruction.
LEMMA ReceiveInStep ==
  ASSUME IInv, NEW kind, Receive(kind), UNCHANGED encoder,
         [cache |-> dec', here |-> dhere'] = EncoderAt(2)
  PROVE  (Types /\ InStep)'
<1> DEFINE n == Len(wire)
<1>1. /\ enc \in Caches /\ here \in Nat
      /\ wire \in Seq(Insts) /\ past \in Seq(Moments) /\ wire # <<>>
      /\ wire' = Tail(wire) /\ past' = Tail(past) /\ enc' = enc /\ here' = here
  BY DEF IInv, Types, Receive, encoder
<1>2. n \in Nat /\ n >= 1 /\ Len(past) = n /\ past # <<>>
  BY <1>1 DEF IInv, InStep
<1>3. /\ wire' \in Seq(Insts) /\ past' \in Seq(Moments)
      /\ Len(wire') = n - 1 /\ Len(past') = n - 1
      /\ \A i \in 1..(n - 1) : wire'[i] = wire[i + 1] /\ past'[i] = past[i + 1]
  BY <1>1, <1>2
<1> HIDE DEF n
<1>4. \A i \in 1..n : EncoderAt(i)' = EncoderAt(i + 1)
  <2> TAKE i \in 1..n
  <2>1. CASE i <= n - 1
    <3>1. i \in 1..(n - 1) /\ past'[i] = past[i + 1] /\ i + 1 <= n
      BY <1>2, <1>3, <2>1
    <3> QED
      BY <1>3, <2>1, <3>1 DEF EncoderAt, n
  <2>2. CASE i = n
    <3>1. ~ (i <= Len(wire')) /\ ~ (i + 1 <= Len(wire))
      BY <1>2, <1>3, <2>2 DEF n
    <3> QED
      BY <1>1, <3>1 DEF EncoderAt
  <2> QED
    BY <1>2, <2>1, <2>2
<1>5. [cache |-> dec', here |-> dhere'] = EncoderAt(1)'
  BY <1>2, <1>4
<1>6. EncoderAt(2) \in [cache : Caches, here : Nat]
  <2>1. CASE 2 <= n
    <3>1. past[2] \in Moments
      BY <1>1, <1>2, <2>1
    <3> QED
      BY <2>1, <3>1 DEF EncoderAt, Moments, n
  <2>2. CASE ~ (2 <= n)
    BY <1>1, <2>2 DEF EncoderAt, n
  <2> QED
    BY <2>1, <2>2
<1>7. dec' \in Caches /\ dhere' \in Nat
  <2> DEFINE r == [cache |-> dec', here |-> dhere']
  <2>1. r.cache \in Caches /\ r.here \in Nat
    BY <1>6
  <2> QED
    BY <2>1
<1>8. ASSUME NEW i \in 1..(n - 1)
      PROVE  /\ wire'[i].kind = "copy" => (wire'[i].mode >= FirstSame => wire'[i].value < Buckets)
             /\ Leads(wire'[i], past'[i], EncoderAt(i + 1)')
  <2>1. i \in 1..n /\ i + 1 \in 1..n
    BY <1>2
  <2>2. /\ wire[i + 1].kind = "copy" =>
             (wire[i + 1].mode >= FirstSame => wire[i + 1].value < Buckets)
        /\ Leads(wire[i + 1], past[i + 1], EncoderAt(i + 1 + 1))
    BY <2>1 DEF IInv, Types, InStep, n
  <2> QED
    BY <1>3, <1>4, <2>1, <2>2
<1>9. Types'
  BY <1>1, <1>3, <1>7, <1>8 DEF Types
<1>10. InStep'
  BY <1>3, <1>5, <1>8 DEF InStep
<1> QED
  BY <1>9, <1>10

\* The instruction at the head of the wire leads from the decoder's state to the
\* one the encoder had when it sent the next.
LEMMA HeadLeads ==
  ASSUME IInv, wire # <<>>
  PROVE  /\ Head(wire) = wire[1] /\ Head(past) = past[1]
         /\ wire[1] \in Insts /\ past[1] \in Moments
         /\ dec = past[1].cache /\ dhere = past[1].here
         /\ Leads(wire[1], past[1], EncoderAt(2))
<1>1. /\ wire \in Seq(Insts) /\ past \in Seq(Moments) /\ Len(past) = Len(wire)
      /\ [cache |-> dec, here |-> dhere] = EncoderAt(1)
      /\ \A i \in 1..Len(wire) : Leads(wire[i], past[i], EncoderAt(i + 1))
  BY DEF IInv, Types, InStep
<1>2. 1 \in 1..Len(wire) /\ 1 <= Len(wire) /\ past # <<>>
  BY <1>1
<1>3. [cache |-> dec, here |-> dhere] = [cache |-> past[1].cache, here |-> past[1].here]
  BY <1>1, <1>2 DEF EncoderAt
<1>4. dec = past[1].cache /\ dhere = past[1].here
  BY <1>3
<1>5. Leads(wire[1], past[1], EncoderAt(2))
  BY <1>1, <1>2
<1> QED
  BY <1>1, <1>2, <1>4, <1>5

\* A window the encoder begins.
LEMMA StartWindowIInv ==
  ASSUME IInv, NEW n \in SourceLens, StartWindow(n)
  PROVE  IInv'
<1>1. Window(n) \in Insts /\ Window(n).kind = "window" /\ Window(n).size = n
  BY BoundsAreNat DEF Window, Insts
<1>2. Emit(Window(n), 0) /\ enc' = EmptyCache /\ here' = n /\ UNCHANGED decoder
  BY DEF StartWindow
<1>3. Leads(Window(n), [cache |-> enc, here |-> here, addr |-> 0],
            [cache |-> enc', here |-> here'])
  BY <1>1, <1>2 DEF Leads
<1> QED
  BY <1>1, <1>2, <1>3, EmitIInv, EmptyCacheType, BoundsAreNat

\* An add the encoder sends.
LEMMA EmitNoCopyIInv ==
  ASSUME IInv, NEW n \in Sizes, EmitNoCopy(n)
  PROVE  IInv'
<1>1. NoCopy(n) \in Insts /\ NoCopy(n).kind = "add" /\ NoCopy(n).size = n
  BY BoundsAreNat DEF NoCopy, Insts
<1>2. Emit(NoCopy(n), 0) /\ enc' = enc /\ here' = here + n /\ UNCHANGED decoder
  BY DEF EmitNoCopy
<1>3. enc' \in Caches /\ here' \in Nat
  BY <1>2, BoundsAreNat DEF IInv, Types
<1>4. Leads(NoCopy(n), [cache |-> enc, here |-> here, addr |-> 0],
            [cache |-> enc', here |-> here'])
  BY <1>1, <1>2 DEF Leads
<1> QED
  BY <1>1, <1>2, <1>3, <1>4, EmitIInv

\* A copy the encoder sends, which changes its cache.
LEMMA EmitCopyIInv ==
  ASSUME IInv, NEW n \in Sizes, NEW addr \in 0..(MaxPos - 1), EmitCopy(n, addr)
  PROVE  IInv'
<1> DEFINE a == Encode(enc, addr, here)
           inst == Copy(n, a)
<1>1. enc \in Caches /\ here \in Nat /\ n \in Nat /\ addr \in Nat /\ MaxPos \in Nat
  BY BoundsAreNat, ChannelAssumption DEF IInv, Types
<1>2. /\ addr < here /\ Emit(inst, addr)
      /\ enc' = Update(enc, addr) /\ here' = here + n /\ UNCHANGED decoder
  BY DEF EmitCopy
<1>3. addr \in 0..(here - 1)
  BY <1>1, <1>2
<1>4. a.mode \in 0..(TotalModes - 1) /\ a.value \in Nat /\ (a.mode >= FirstSame => a.value < Buckets)
  BY <1>1, <1>3, RoundTrip
<1>5. /\ inst \in Insts /\ inst.size = n
      /\ inst.mode >= FirstSame => inst.value < Buckets
  <2> HIDE DEF a
  <2> QED BY <1>1, <1>4 DEF Copy, Insts
<1>6. enc' \in Caches /\ here' \in Nat
  BY <1>1, <1>2, UpdateType
<1>7. Leads(inst, [cache |-> enc, here |-> here, addr |-> addr],
            [cache |-> enc', here |-> here'])
  BY <1>2, <1>5 DEF Leads
<1> QED
  <2> HIDE DEF inst
  <2> QED BY <1>1, <1>2, <1>5, <1>6, <1>7, EmitIInv

\* A window the decoder begins.
LEMMA ReadWindowIInv ==
  ASSUME IInv, ReadWindow
  PROVE  IInv'
<1>1. /\ Receive("window") /\ UNCHANGED encoder /\ decoded' = decoded
      /\ dec' = EmptyCache /\ dhere' = Head(wire).size
  BY DEF ReadWindow
<1>2. wire # <<>> /\ wire[1].kind = "window" /\ Head(wire) = wire[1]
  BY <1>1, HeadLeads DEF Receive
<1>3. EncoderAt(2) = [cache |-> EmptyCache, here |-> wire[1].size]
  BY <1>2, HeadLeads DEF Leads, NoCopy, Copy
<1>4. (Types /\ InStep)'
  BY <1>1, <1>2, <1>3, ReceiveInStep
<1> QED
  BY <1>1, <1>4 DEF IInv, AddressesSurvive

\* An add the decoder reads.
LEMMA ReadNoCopyIInv ==
  ASSUME IInv, ReadNoCopy
  PROVE  IInv'
<1>1. /\ Receive("add") /\ UNCHANGED encoder /\ decoded' = decoded
      /\ dec' = dec /\ dhere' = dhere + Head(wire).size
  BY DEF ReadNoCopy
<1>2. wire # <<>> /\ wire[1].kind = "add" /\ Head(wire) = wire[1]
  BY <1>1, HeadLeads DEF Receive
<1>3. EncoderAt(2) = [cache |-> past[1].cache, here |-> past[1].here + wire[1].size]
  BY <1>2, HeadLeads DEF Leads, Window, Copy
<1>4. EncoderAt(2) = [cache |-> dec', here |-> dhere']
  BY <1>1, <1>2, <1>3, HeadLeads
<1>5. (Types /\ InStep)'
  BY <1>1, <1>4, ReceiveInStep
<1> QED
  BY <1>1, <1>5 DEF IInv, AddressesSurvive

\* A copy the decoder reads: RoundTrip gives the address that was meant.
LEMMA ReadCopyIInv ==
  ASSUME IInv, ReadCopy
  PROVE  IInv'
<1> DEFINE c == past[1].cache
           h == past[1].here
           addr == past[1].addr
           a == Encode(c, addr, h)
           inst == wire[1]
           found == Decode(dec, dhere, Head(wire).mode, Head(wire).value)
<1>1. /\ Receive("copy") /\ UNCHANGED encoder
      /\ dec' = Update(dec, found) /\ dhere' = dhere + Head(wire).size
      /\ decoded' = <<found, Head(past).addr>>
  BY DEF ReadCopy
<1>2. wire # <<>> /\ inst.kind = "copy" /\ Head(wire) = inst /\ Head(past) = past[1]
  BY <1>1, HeadLeads DEF Receive
<1>3. dec = c /\ dhere = h /\ past[1] \in Moments
  BY <1>2, HeadLeads
<1>4. /\ addr < h /\ inst = Copy(inst.size, a)
      /\ EncoderAt(2) = [cache |-> Update(c, addr), here |-> h + inst.size]
  BY <1>2, HeadLeads DEF Leads, Window, NoCopy
<1>5. c \in Caches /\ h \in Nat /\ addr \in 0..(h - 1)
  <2>1. c \in Caches /\ h \in Nat /\ addr \in Nat
    BY <1>3 DEF Moments
  <2> QED
    BY <1>4, <2>1
<1>6. inst.mode = a.mode /\ inst.value = a.value
  <2> HIDE DEF inst, a
  <2>1. inst = [kind |-> "copy", size |-> inst.size, mode |-> a.mode, value |-> a.value]
    BY <1>4 DEF Copy
  <2> QED
    BY <2>1
<1>7. found = addr
  <2>1. Decode(c, h, a.mode, a.value) = addr
    BY <1>5, RoundTrip
  <2> QED
    BY <1>2, <1>3, <1>6, <2>1
<1>8. EncoderAt(2) = [cache |-> dec', here |-> dhere']
  BY <1>1, <1>2, <1>3, <1>4, <1>7
<1>9. (Types /\ InStep)'
  BY <1>1, <1>8, ReceiveInStep
<1>10. AddressesSurvive'
  BY <1>1, <1>2, <1>7 DEF AddressesSurvive
<1> QED
  BY <1>9, <1>10 DEF IInv

\* Every step keeps the invariant.
LEMMA NextIInv ==
  ASSUME IInv, [Next]_vars
  PROVE  IInv'
<1>1. CASE UNCHANGED vars
  BY <1>1 DEF vars, IInv, Types, InStep, EncoderAt, AddressesSurvive
<1>2. CASE Next
  BY <1>2, StartWindowIInv, EmitNoCopyIInv, EmitCopyIInv, ReadWindowIInv, ReadNoCopyIInv,
     ReadCopyIInv DEF Next
<1> QED
  BY <1>1, <1>2

\* The invariant holds always.
LEMMA Invariance == Spec => []IInv
<1>1. Init => IInv
  BY InitIInv
<1>2. IInv /\ [Next]_vars => IInv'
  BY NextIInv
<1> QED
  BY <1>1, <1>2, PTL DEF Spec

\* The decoder's cache and position are those the encoder had, for every number of
\* modes, lag and window: nothing but the instructions has to be sent.
THEOREM CachesInStep == Spec => []InStep
<1>1. IInv => InStep
  BY DEF IInv
<1> QED
  BY <1>1, Invariance, PTL

\* Every address decoded is the one that was encoded.
THEOREM ChannelIsLossless == Spec => []AddressesSurvive
<1>1. IInv => AddressesSurvive
  BY DEF IInv
<1> QED
  BY <1>1, Invariance, PTL

\* The caches and the instructions keep their types: a mode is one of the code
\* table's, and what is sent in a SAME mode fits its byte.
THEOREM ChannelTypes == Spec => []TypeOK
<1>1. IInv => TypeOK
  <2> SUFFICES ASSUME IInv PROVE TypeOK
    OBVIOUS
  <2>1. ASSUME NEW i \in 1..Len(wire), wire[i].kind = "copy"
        PROVE  wire[i].mode \in 0..(TotalModes - 1) /\ wire[i].value \in Nat
    <3>1. wire[i] \in Insts
      BY DEF IInv, Types
    <3> QED
      BY <2>1, <3>1 DEF Insts
  <2> QED
    BY <2>1 DEF IInv, Types, TypeOK
<1> QED
  BY <1>1, Invariance, PTL

\* At every point of the channel: the search xd3_encode_address cuts short at the first
\* one-byte number never costs a byte, and neither does preferring a SAME slot.
THEOREM AddressesAreShort == Spec => []NoShorterForm
<1>1. IInv => NoShorterForm
  <2> SUFFICES ASSUME IInv PROVE NoShorterForm
    OBVIOUS
  <2>1. enc \in Caches /\ here \in Nat
    BY DEF IInv, Types
  <2> QED
    BY <2>1, EncodeIsShortest DEF NoShorterForm
<1> QED
  BY <1>1, Invariance, PTL
=============================================================================
