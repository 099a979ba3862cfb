----------------------------- MODULE HashElement -----------------------------
(***************************************************************************)
(* hashElement: from an element to its bin for each hash function and the  *)
(* value that stands for it in the bin, as leader and follower compute     *)
(* them, each from the element in its own memory.                          *)
(*                                                                         *)
(* A word or a string of bytes is the set of its 1 bits, bit 0 first.  The *)
(* widths are those of the code: a word has 32 bits, a byte 8.             *)
(***************************************************************************)
EXTENDS Integers, FiniteSets, FiniteSetsExt

CONSTANTS
  HfValue(_, _),   (* hf_values[i][nhfvals - 1][x], a word without its     *)
                   (* uppermost bits                                       *)
  None             (* not hashed yet                                       *)

VARIABLES
  hs,              (* [setsize, inbitlen], what hs_t is computed from      *)
  eleptr,          (* the element of each side                             *)
  behind,          (* what lies behind it: the next element, or the end of *)
                   (* the array                                            *)
  hashed           (* address and val of each side's element               *)

Side == {"leader", "follower"}
HF == 0 .. 2
WordBits == 32
ByteBits == 8
WordBytes == 4

MaxBins == 2 ^ 30   (* bound: of what the logarithms are taken            *)

CeilDivide(x, y) == IF x > 0 THEN ((x - 1) \div y) + 1 ELSE 0
CeilLog2(x) == IF x = 1 THEN 1 ELSE CHOOSE k \in 1 .. 30 : 2 ^ (k - 1) < x /\ x <= 2 ^ k
FloorLog2(x) == IF x = 1 THEN 1 ELSE CHOOSE k \in 1 .. 30 : 2 ^ k <= x /\ x < 2 ^ (k + 1)

Number(bits) == MapThenSumSet(LAMBDA b : 2 ^ b, bits)
Low(bits, n) == bits \cap (0 .. n - 1)
RightShift(bits, n) == {b - n : b \in {c \in bits : c >= n}}
LeftShift(bits, n) == {b + n : b \in bits}

-----------------------------------------------------------------------------
(***************************************************************************)
(* setBinsParameters and init_hashing_state.                               *)
(***************************************************************************)
NumBins == CeilDivide(6 * hs.setsize, 5)       \* EPSILON is 1.2

Shorter(x, y) == IF x < y THEN x ELSE y
AddrBitLen == Shorter(CeilLog2(NumBins), hs.inbitlen)
FloorAddrBitLen == Shorter(FloorLog2(NumBins), hs.inbitlen)

OutBitLen_NotRounded == hs.inbitlen - AddrBitLen   \* variant: no additional bit
OutBitLen == hs.inbitlen - AddrBitLen + 1

InByteLen == CeilDivide(hs.inbitlen, ByteBits)
OutByteLen == CeilDivide(OutBitLen, ByteBits)

(* How many bits of R the mask leaves.  For short elements it is shifted   *)
(* by the sum of both lengths, although R has only their difference.       *)
MaskBits == IF InByteLen < WordBytes THEN hs.inbitlen + AddrBitLen ELSE WordBits

ValidSetup(s) ==
  /\ s.setsize \in Nat \ {0} /\ CeilDivide(6 * s.setsize, 5) <= MaxBins
  /\ s.inbitlen \in Nat /\ s.inbitlen % ByteBits = 0
  /\ s.inbitlen < WordBits =>       \* otherwise the shift itself is undefined
       s.inbitlen + CeilLog2(CeilDivide(6 * s.setsize, 5)) <= WordBits

-----------------------------------------------------------------------------
Start(s, element, rest) ==
  /\ hs = s
  /\ eleptr = element
  /\ behind = rest
  /\ hashed = [side \in Side |-> None]

(* What a read that starts at the element finds.                           *)
Memory(side) == eleptr[side] \cup LeftShift(behind[side], hs.inbitlen)

Word(side) == Low(Memory(side), WordBits)
L(side) == Low(Word(side), AddrBitLen)
R(side) == Low(RightShift(Word(side), AddrBitLen), MaskBits)

(* hfmaskaddr has 16 bits.                                                 *)
HfMaskAddr(side) == Low(LeftShift(R(side), 2), 2 * ByteBits)

Address(side, i) == Number(SymDiff(L(side), HfValue(i, HfMaskAddr(side)))) % NumBins

(* Where in val the rest of the element goes.                              *)
RestAt_CeilBytes == WordBytes - CeilDivide(AddrBitLen, ByteBits)   \* variant
RestAt == WordBytes - (FloorAddrBitLen \div ByteBits)

(* The bytes of val that are used: R, in longer elements followed by the   *)
(* bytes behind the first word, without the first bits of the last byte.   *)
Val(side) ==
  IF hs.inbitlen <= WordBits
  THEN Low(R(side), OutByteLen * ByteBits)
  ELSE LET rest == Low(RightShift(Memory(side), WordBits), (OutByteLen - RestAt) * ByteBits)
       IN  Low(Low(R(side), RestAt * ByteBits) \cup LeftShift(rest, RestAt * ByteBits),
               (OutByteLen * ByteBits) - (OutBitLen % 4))

HashElement(side) ==
  /\ hashed[side] = None
  /\ hashed' = [hashed EXCEPT ![side] = [address |-> [i \in HF |-> Address(side, i)],
                                         val |-> Val(side)]]
  /\ UNCHANGED <<hs, eleptr, behind>>

Step == \E side \in Side : HashElement(side)

-----------------------------------------------------------------------------
Done == \A side \in Side : hashed[side] # None

SameIn(i) ==
  /\ hashed["leader"].address[i] = hashed["follower"].address[i]
  /\ hashed["leader"].val = hashed["follower"].val

(* With 256, 65536 or 2^24 bins the rest of a long element is taken to be  *)
(* a byte longer than it is; the mask leaves too much of short elements.   *)
ReadsBehind ==
  IF hs.inbitlen > WordBits THEN NumBins \in {2 ^ 8, 2 ^ 16, 2 ^ 24} ELSE hs.inbitlen < WordBits

(* The bits that neither bin nor value tell: the address is reduced modulo *)
(* a number of bins that is no power of two, and the last byte is masked   *)
(* by the length in bits modulo 4.                                         *)
Forgotten ==
  (IF NumBins = 2 ^ AddrBitLen THEN {} ELSE 0 .. AddrBitLen - 1)
  \cup (IF hs.inbitlen > WordBits THEN hs.inbitlen - (OutBitLen % 4) .. hs.inbitlen - 1 ELSE {})
=============================================================================
