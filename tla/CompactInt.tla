------------------------------ MODULE CompactInt ------------------------------
(***************************************************************************)
(* Compact integers: how Compact<u8>, Compact<u16>, Compact<u32>,          *)
(* Compact<u64> and Compact<u128> are written and read.                    *)
(*                                                                         *)
(* A uN is the little-endian tuple of its w = N/8 bytes, so that all       *)
(* widths, u128 included, stay exact.  The low two bits of the first byte  *)
(* on the wire select the mode: 0, 1 and 2 hold the value shifted left by  *)
(* two bits in 1, 2 or 4 bytes; 3 announces 4 or more plain bytes.         *)
(***************************************************************************)
EXTENDS Naturals, Sequences

Byte == 0..255

\* Bytes of the integer types that have a compact form.
Widths == {1, 2, 4, 8, 16}

Uint(w) == [1..w -> Byte]

\* Byte i of the value, zero-extended (u16::from, u32::from).
Digit(v, i) == IF i \in 1..Len(v) THEN v[i] ELSE 0

\* Mutant of Below: the boundary belongs to the smaller form.
BelowOrAt(v, k) == Digit(v, k) <= 64 /\ \A i \in (k+1)..Len(v) : v[i] = 0

\* The value is below 2^(8k-2): it fits k bytes next to the mode bits.
Below(v, k) == Digit(v, k) < 64 /\ \A i \in (k+1)..Len(v) : v[i] = 0

\* (v << 2) | mode in k little-endian bytes, and the inverse shift.
Shl2(v, mode, k) ==
  [i \in 1..k |-> (Digit(v, i) % 64) * 4 + (IF i = 1 THEN mode ELSE Digit(v, i-1) \div 64)]

Shr2(b, w) == [i \in 1..w |-> Digit(b, i) \div 4 + (Digit(b, i+1) % 4) * 64]

\* w - leading_zeros() / 8
BytesNeeded(v) ==
  CHOOSE n \in 0..Len(v) : (n = 0 \/ v[n] # 0) /\ \A i \in (n+1)..Len(v) : v[i] = 0

\* Plain little-endian bytes behind a length byte.
BigForm(v) == <<3 + (BytesNeeded(v) - 4) * 4>> \o SubSeq(v, 1, BytesNeeded(v))

\* CompactRef::encode_to.  No u8 reaches the third arm and no u16 the fourth.
EncodeTo(v) ==
  IF Below(v, 1) THEN Shl2(v, 0, 1)
  ELSE IF Below(v, 2) THEN Shl2(v, 1, 2)
  ELSE IF Below(v, 4) THEN Shl2(v, 2, 4)
  ELSE BigForm(v)

\* Mutant of CompactLen: forgets the length byte of the big form.
CompactLenNoPrefix(v) ==
  IF Below(v, 1) THEN 1
  ELSE IF Below(v, 2) THEN 2
  ELSE IF Below(v, 4) THEN 4
  ELSE BytesNeeded(v)

CompactLen(v) ==
  IF Below(v, 1) THEN 1
  ELSE IF Below(v, 2) THEN 2
  ELSE IF Below(v, 4) THEN 4
  ELSE BytesNeeded(v) + 1

\* Capacity of the stack buffer that using_encoded writes to.
BufferCapacity(w) == CASE w = 1 -> 2 [] w = 2 -> 4 [] w = 4 -> 5 [] w = 8 -> 9 [] w = 16 -> 17

\* What decode returns, after reads of n bytes: a value, an error for a form
\* that is not allowed, or the error of a read that found too few bytes.
Accept(v, n) == [ok |-> TRUE, short |-> FALSE, val |-> v, used |-> n]
Refuse(n) == [ok |-> FALSE, short |-> FALSE, val |-> <<>>, used |-> n]
Short(n) == [ok |-> FALSE, short |-> TRUE, val |-> <<>>, used |-> n]

\* Mutant of DecodeShifted: no check that the value needs the longer form.
DecodeShiftedAny(w, b, k, min) ==
  IF Len(b) < k THEN Short(1)
  ELSE LET x == Shr2(SubSeq(b, 1, k), k)
       IN IF \A i \in (w+1)..k : x[i] = 0
          THEN Accept([i \in 1..w |-> Digit(x, i)], k)
          ELSE Refuse(k)

\* Modes 1 and 2: the rest of the 2 or 4 bytes, read through PrefixInput; the
\* value must need them and fit the type.
DecodeShifted(w, b, k, min) ==
  IF Len(b) < k THEN Short(1)
  ELSE LET x == Shr2(SubSeq(b, 1, k), k)
       IN IF ~Below(x, min) /\ (\A i \in (w+1)..k : x[i] = 0)
          THEN Accept([i \in 1..w |-> Digit(x, i)], k)
          ELSE Refuse(k)

\* Mutant of DecodeBig: a read that fails counts as done.
DecodeBigCounted(w, b, n) ==
  IF Len(b) < n + 1 THEN Short(n + 1)
  ELSE LET x == SubSeq(b, 2, n + 1)
       IN IF (IF n = 4 THEN ~Below(x, 4) ELSE x[n] # 0)
          THEN Accept([i \in 1..w |-> Digit(x, i)], n + 1)
          ELSE Refuse(n + 1)

\* Mode 3: n plain bytes, in one read when n is the size of an integer type,
\* else one by one; the value must need all n of them.
DecodeBig(w, b, n) ==
  IF Len(b) < n + 1 THEN Short(IF n \in {4, 8, 16} THEN 1 ELSE Len(b))
  ELSE LET x == SubSeq(b, 2, n + 1)
       IN IF (IF n = 4 THEN ~Below(x, 4) ELSE x[n] # 0)
          THEN Accept([i \in 1..w |-> Digit(x, i)], n + 1)
          ELSE Refuse(n + 1)

\* Compact<uN>::decode on the bytes b that are left in the input.
DecodeFrom(w, b) ==
  IF b = <<>> THEN Short(0)
  ELSE CASE b[1] % 4 = 0 -> Accept([i \in 1..w |-> IF i = 1 THEN b[1] \div 4 ELSE 0], 1)
         [] b[1] % 4 = 1 -> DecodeShifted(w, b, 2, 1)
         [] b[1] % 4 = 2 -> IF w = 1 THEN Refuse(1) ELSE DecodeShifted(w, b, 4, 2)
         [] b[1] % 4 = 3 -> IF w < 4 \/ b[1] \div 4 + 4 > w THEN Refuse(1)
                            ELSE DecodeBig(w, b, b[1] \div 4 + 4)

-----------------------------------------------------------------------------
(* Collection lengths: Compact<u32> as a number.                            *)

U32ToNat(v) == v[1] + 256 * v[2] + 65536 * v[3] + 16777216 * v[4]

NatToU32(n) ==
  <<n % 256, (n \div 256) % 256, (n \div 65536) % 256, (n \div 16777216) % 256>>

EncodeLen(n) == EncodeTo(NatToU32(n))
=============================================================================
