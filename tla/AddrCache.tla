----------------------------- MODULE AddrCache -----------------------------
(***************************************************************************)
(* The VCDIFF address cache of xdelta3.c and the two functions that use    *)
(* it.  A copy address is sent as a mode and a number: the address itself  *)
(* (SELF), its distance from the current position (HERE), its distance     *)
(* from one of the last few addresses (NEAR), or the low byte of an        *)
(* address seen before whose slot the mode and the byte name (SAME).       *)
(***************************************************************************)
EXTENDS Integers, FiniteSets

CONSTANTS
  NearModes,   \* s_near: 4 in the RFC 3284 code table
  SameModes,   \* s_same: 3
  Buckets,     \* slots per SAME mode: the values of a byte
  Small        \* numbers below this one take one byte: 128

ASSUME ModesAssumption ==
  /\ NearModes \in Nat
  /\ SameModes \in Nat
  /\ Buckets \in Nat \ {0}
  /\ Small \in Nat \ {0, 1}

VCD_SELF == 0
VCD_HERE == 1
FirstNear == 2
FirstSame == 2 + NearModes
TotalModes == 2 + NearModes + SameModes

NearSlots == 0..(NearModes - 1)
SameSlots == 0..(SameModes * Buckets - 1)

\* next_slot stays 0 without NEAR modes.
Caches ==
  [near : [NearSlots -> Nat], next_slot : NearSlots \cup {0}, same : [SameSlots -> Nat]]

\* xd3_init_cache
EmptyCache ==
  [near |-> [i \in NearSlots |-> 0], next_slot |-> 0, same |-> [i \in SameSlots |-> 0]]

\* The slot of the SAME array that addr belongs to.
SameSlot(addr) == addr % (SameModes * Buckets)

\* Mutant: the next near slot is not taken around the array.
Update_NoWrap(c, addr) ==
  [near |-> IF NearModes > 0 THEN [c.near EXCEPT ![c.next_slot] = addr] ELSE c.near,
   next_slot |-> c.next_slot + 1,
   same |-> IF SameModes > 0 THEN [c.same EXCEPT ![SameSlot(addr)] = addr] ELSE c.same]

\* xd3_update_cache
Update(c, addr) ==
  [near |-> IF NearModes > 0 THEN [c.near EXCEPT ![c.next_slot] = addr] ELSE c.near,
   next_slot |-> IF NearModes > 0 THEN (c.next_slot + 1) % NearModes ELSE c.next_slot,
   same |-> IF SameModes > 0 THEN [c.same EXCEPT ![SameSlot(addr)] = addr] ELSE c.same]

-----------------------------------------------------------------------------
\* The modes whose number is a size, and the number each would send.
Usable(c, addr) ==
  {VCD_SELF, VCD_HERE} \cup {FirstNear + i : i \in {j \in NearSlots : c.near[j] <= addr}}

Distance(c, addr, here, mode) ==
  IF mode = VCD_SELF THEN addr
  ELSE IF mode = VCD_HERE THEN here - addr
  ELSE addr - c.near[mode - FirstNear]

SameHit(c, addr) == SameModes > 0 /\ c.same[SameSlot(addr)] = addr

\* The first mode whose number takes one byte, and the first of the smallest number.
SmallModes(c, addr, here) == {m \in Usable(c, addr) : Distance(c, addr, here, m) < Small}
FirstSmall(c, addr, here) ==
  CHOOSE m \in SmallModes(c, addr, here) : \A n \in SmallModes(c, addr, here) : m <= n
Closest(c, addr, here) ==
  CHOOSE m \in Usable(c, addr) : \A n \in Usable(c, addr) :
    \/ Distance(c, addr, here, m) < Distance(c, addr, here, n)
    \/ Distance(c, addr, here, m) = Distance(c, addr, here, n) /\ m <= n

\* Mutant: the SAME array is never consulted.
Encode_IgnoresSame(c, addr, here) ==
  LET m == IF SmallModes(c, addr, here) # {} THEN FirstSmall(c, addr, here)
           ELSE Closest(c, addr, here)
  IN  [mode |-> m, value |-> Distance(c, addr, here, m)]

\* Mutant: a SAME slot is named without looking at what it holds.
Encode_WrongSame(c, addr, here) ==
  LET m == IF SmallModes(c, addr, here) # {} THEN FirstSmall(c, addr, here)
           ELSE Closest(c, addr, here)
  IN  IF SmallModes(c, addr, here) = {} /\ SameModes > 0
      THEN [mode |-> FirstSame + SameSlot(addr) \div Buckets, value |-> SameSlot(addr) % Buckets]
      ELSE [mode |-> m, value |-> Distance(c, addr, here, m)]

\* xd3_encode_address: what is sent for addr, of a copy at position here.
Encode(c, addr, here) ==
  LET m == IF SmallModes(c, addr, here) # {} THEN FirstSmall(c, addr, here)
           ELSE Closest(c, addr, here)
  IN  IF SmallModes(c, addr, here) = {} /\ SameHit(c, addr)
      THEN [mode |-> FirstSame + SameSlot(addr) \div Buckets, value |-> SameSlot(addr) % Buckets]
      ELSE [mode |-> m, value |-> Distance(c, addr, here, m)]

\* xd3_decode_address: the address that mode and value stand for.
Decode(c, here, mode, value) ==
  IF mode = VCD_SELF THEN value
  ELSE IF mode = VCD_HERE THEN here - value
  ELSE IF mode < FirstSame THEN c.near[mode - FirstNear] + value
  ELSE c.same[(mode - FirstSame) * Buckets + value]

-----------------------------------------------------------------------------
\* The number of bytes a number sent in a mode takes: a SAME value is one byte, the
\* others are sizes, of a byte per digit (EMIT_INTEGER_TYPE: num >>= 7 until it is 0).
Bytes(mode, value) ==
  LET digits[v \in 0..value] == IF v < Small THEN 1 ELSE 1 + digits[v \div Small]
  IN  IF mode >= FirstSame THEN 1 ELSE digits[value]
=============================================================================
