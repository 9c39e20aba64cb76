-------------------------- MODULE CompactCodecProofs --------------------------
(***************************************************************************)
(* Compact integers of every width round-trip, are canonical and have the  *)
(* announced length, for all values and all byte streams.                  *)
(*                                                                         *)
(* Everything is argued on the digits of a value, its bytes extended by    *)
(* zeros: encode_to and compact_len depend on the digits alone, so widths  *)
(* do not matter to them, and each decode arm rebuilds the digits that     *)
(* the arm of encode_to with the same mode took apart.                     *)
(***************************************************************************)
EXTENDS CompactCodec, CompactIntProofs, WellFoundedInduction

-----------------------------------------------------------------------------
(* Digits.                                                                  *)

\* Two values have the same digits: they are the same number.
Same(u, v) == \A i \in Nat \ {0} : Digit(u, i) = Digit(v, i)

\* A set of numbers has a least member.
LEMMA Least ==
  ASSUME NEW T, T \subseteq Nat, T # {}
  PROVE  \E x \in T : \A y \in T : x <= y
<1> DEFINE R == OpToRel(<, Nat)
<1>1. IsWellFoundedOn(R, Nat)
  BY NatLessThanWellFounded, Zenon
<1>2. \A x, y \in Nat : x < y => <<x, y>> \in R
  BY DEF OpToRel
<1> HIDE DEF R
<1>3. PICK x \in T : \A y \in T : ~ (<<y, x>> \in R)
  BY <1>1, WFMin, Zenon
<1>4. ASSUME NEW y \in T PROVE x <= y
  <2>1. x \in Nat /\ y \in Nat
    OBVIOUS
  <2>2. ~ (y < x)
    BY <2>1, <1>2, <1>3, Zenon
  <2> QED
    BY <2>1, <2>2
<1> QED
  BY <1>4

\* A uN is a sequence of N/8 bytes.
LEMMA UintSeq ==
  ASSUME NEW w \in Nat, NEW v \in Uint(w)
  PROVE  v \in Seq(Byte) /\ Len(v) = w
BY DEF Uint

\* What is known of the digits of a sequence of bytes.
LEMMA Digits ==
  ASSUME NEW v \in Seq(Byte)
  PROVE  /\ Len(v) \in Nat
         /\ \A i : Digit(v, i) \in Byte
         /\ \A i \in 1..Len(v) : Digit(v, i) = v[i]
         /\ \A i \in Nat : i > Len(v) => Digit(v, i) = 0
<1>1. Len(v) \in Nat /\ \A i \in 1..Len(v) : v[i] \in Byte
  BY ElementOfSeq
<1>2. 0 \in Byte
  BY DEF Byte
<1>3. \A i : Digit(v, i) \in Byte
  BY <1>1, <1>2, Zenon DEF Digit
<1>4. \A i \in 1..Len(v) : Digit(v, i) = v[i]
  BY DEF Digit
<1>5. \A i \in Nat : i > Len(v) => Digit(v, i) = 0
  BY <1>1 DEF Digit
<1> QED
  BY <1>1, <1>3, <1>4, <1>5

\* All bytes from place n on are zero, in digits.
LEMMA ZerosAbove ==
  ASSUME NEW v \in Seq(Byte), NEW n \in Nat
  PROVE  (\A i \in (n+1)..Len(v) : v[i] = 0) <=> (\A i \in Nat : i > n => Digit(v, i) = 0)
<1>1. Len(v) \in Nat
  OBVIOUS
<1>2. ASSUME \A i \in (n+1)..Len(v) : v[i] = 0, NEW i \in Nat, i > n PROVE Digit(v, i) = 0
  <2>1. i \in 1..Len(v) => i \in (n+1)..Len(v)
    BY <1>2
  <2> QED
    BY <1>2, <2>1 DEF Digit
<1>3. ASSUME \A i \in Nat : i > n => Digit(v, i) = 0, NEW i \in (n+1)..Len(v) PROVE v[i] = 0
  <2>1. i \in Nat /\ i > n /\ i \in 1..Len(v)
    BY <1>1
  <2> QED
    BY <1>3, <2>1 DEF Digit
<1> QED
  BY <1>2, <1>3

\* Below(v, k) says that no bit from 8k-2 on is set.
LEMMA BelowDigits ==
  ASSUME NEW v \in Seq(Byte), NEW k \in Nat
  PROVE  Below(v, k) <=> Digit(v, k) < 64 /\ \A i \in Nat : i > k => Digit(v, i) = 0
BY ZerosAbove, Zenon DEF Below

\* A value that fits next to the mode bits of k bytes also fits those of more.
LEMMA BelowGrows ==
  ASSUME NEW v \in Seq(Byte), NEW k \in Nat, NEW n \in Nat, k < n, Below(v, k)
  PROVE  Below(v, n)
<1>1. \A i \in Nat : i > k => Digit(v, i) = 0
  BY BelowDigits
<1>2. Digit(v, n) = 0 /\ \A i \in Nat : i > n => Digit(v, i) = 0
  BY <1>1
<1> QED
  BY <1>2, BelowDigits

\* Numbers with the same digits are below the same bounds.
LEMMA BelowSame ==
  ASSUME NEW u \in Seq(Byte), NEW v \in Seq(Byte), Same(u, v), NEW k \in Nat \ {0}
  PROVE  Below(u, k) <=> Below(v, k)
<1>1. Digit(u, k) = Digit(v, k) /\ \A i \in Nat : i > k => Digit(u, i) = Digit(v, i)
  BY DEF Same
<1>2. k \in Nat
  OBVIOUS
<1> QED
  BY <1>1, <1>2, BelowDigits
-----------------------------------------------------------------------------
(* The number of bytes the big form keeps.                                  *)

\* n is the place of the highest byte that is not zero, 0 when there is none.
Highest(v, n) == (n = 0 \/ Digit(v, n) # 0) /\ \A i \in Nat : i > n => Digit(v, i) = 0

\* There is at most one such place.
LEMMA HighestUnique ==
  ASSUME NEW v, NEW m \in Nat, NEW n \in Nat, Highest(v, m), Highest(v, n)
  PROVE  m = n
BY DEF Highest

\* The size - leading_zeros() / 8 of the code is that place.
LEMMA BytesNeededHighest ==
  ASSUME NEW v \in Seq(Byte)
  PROVE  BytesNeeded(v) \in 0..Len(v) /\ Highest(v, BytesNeeded(v))
<1> DEFINE Z(n) == \A i \in (n+1)..Len(v) : v[i] = 0
           T == {n \in 0..Len(v) : Z(n)}
           P(n) == (n = 0 \/ v[n] # 0) /\ Z(n)
<1>0. Len(v) \in Nat
  OBVIOUS
<1>1. T \subseteq Nat /\ Len(v) \in T
  BY <1>0
<1>2. PICK n \in T : \A m \in T : n <= m
  BY <1>1, Least, Zenon
<1>3. n \in 0..Len(v) /\ Z(n)
  OBVIOUS
<1>4. n = 0 \/ v[n] # 0
  <2>1. SUFFICES ASSUME n # 0, v[n] = 0 PROVE FALSE
    OBVIOUS
  <2>2. n - 1 \in 0..Len(v) /\ ~ (n <= n - 1)
    BY <1>0, <1>3, <2>1
  <2>3. Z(n - 1)
    BY <1>0, <1>3, <2>1
  <2> QED
    BY <1>2, <2>2, <2>3, Zenon
<1>5. BytesNeeded(v) = CHOOSE m \in 0..Len(v) : P(m)
  BY Zenon DEF BytesNeeded
<1>6. BytesNeeded(v) \in 0..Len(v) /\ P(BytesNeeded(v))
  <2>1. \E m \in 0..Len(v) : P(m)
    BY <1>3, <1>4
  <2> HIDE DEF P
  <2> QED
    BY <1>5, <2>1
<1> DEFINE k == BytesNeeded(v)
<1>7. k \in 0..Len(v) /\ (k = 0 \/ v[k] # 0) /\ Z(k)
  BY <1>6
<1> HIDE DEF k
<1>8. k \in Nat /\ (k # 0 => Digit(v, k) = v[k])
  BY <1>0, <1>7 DEF Digit
<1>9. \A i \in Nat : i > k => Digit(v, i) = 0
  BY <1>7, <1>8, ZerosAbove
<1> QED
  BY <1>7, <1>8, <1>9 DEF k, Highest

\* A value that does not fit the mode bits of four bytes needs four or more.
LEMMA BigNeeds ==
  ASSUME NEW v \in Seq(Byte), ~ Below(v, 4)
  PROVE  BytesNeeded(v) >= 4
<1> DEFINE n == BytesNeeded(v)
<1>1. n \in Nat /\ Highest(v, n)
  BY BytesNeededHighest
<1> HIDE DEF n
<1>2. SUFFICES ASSUME n < 4 PROVE FALSE
  BY <1>1 DEF n
<1>3. \A i \in Nat : i > n => Digit(v, i) = 0
  BY <1>1 DEF Highest
<1>4. Digit(v, 4) = 0 /\ \A i \in Nat : i > 4 => Digit(v, i) = 0
  BY <1>1, <1>2, <1>3
<1> QED
  BY <1>4, BelowDigits

\* Numbers with the same digits need the same bytes.
LEMMA BytesNeededSame ==
  ASSUME NEW u \in Seq(Byte), NEW v \in Seq(Byte), Same(u, v)
  PROVE  BytesNeeded(u) = BytesNeeded(v)
<1> DEFINE m == BytesNeeded(u)
           n == BytesNeeded(v)
<1>1. m \in Nat /\ n \in Nat /\ Highest(u, m) /\ Highest(v, n)
  BY BytesNeededHighest
<1> HIDE DEF m, n
<1>2. Highest(v, m)
  BY <1>1 DEF Highest, Same
<1>3. m = n
  BY <1>1, <1>2, HighestUnique
<1> QED
  BY <1>3 DEF m, n

-----------------------------------------------------------------------------
(* encode_to and compact_len depend on the digits alone.                    *)

\* So does the shift by the mode bits.
LEMMA Shl2Same ==
  ASSUME NEW u, NEW v, Same(u, v), NEW mode, NEW k \in Nat
  PROVE  Shl2(u, mode, k) = Shl2(v, mode, k)
<1>1. \A i \in 1..k : Digit(u, i) = Digit(v, i)
  BY DEF Same
<1>2. \A i \in 1..k : i # 1 => Digit(u, i-1) = Digit(v, i-1)
  BY DEF Same
<1>3. \A i \in 1..k :
        (Digit(u, i) % 64) * 4 + (IF i = 1 THEN mode ELSE Digit(u, i-1) \div 64) =
        (Digit(v, i) % 64) * 4 + (IF i = 1 THEN mode ELSE Digit(v, i-1) \div 64)
  BY <1>1, <1>2, Zenon
<1> QED
  BY <1>3, Zenon DEF Shl2

\* The first n bytes of a value, as bytes and as digits.
LEMMA FirstBytes ==
  ASSUME NEW v \in Seq(Byte), NEW n \in 0..Len(v)
  PROVE  /\ SubSeq(v, 1, n) \in Seq(Byte)
         /\ Len(SubSeq(v, 1, n)) = n
         /\ \A i \in 1..n : SubSeq(v, 1, n)[i] = v[i] /\ v[i] = Digit(v, i)
<1>1. Len(v) \in Nat /\ n \in Int /\ n \in Nat
  OBVIOUS
<1>2. \A i \in 1..n : i \in 1..Len(v) /\ v[i] \in Byte
  BY <1>1, ElementOfSeq
<1>3. /\ SubSeq(v, 1, n) \in Seq(Byte)
      /\ Len(SubSeq(v, 1, n)) = IF 1 <= n THEN n - 1 + 1 ELSE 0
      /\ \A i \in 1..(n - 1 + 1) : SubSeq(v, 1, n)[i] = v[1 + i - 1]
  BY <1>1, <1>2, SubSeqProperties
<1>4. n - 1 + 1 = n /\ \A i \in 1..n : 1 + i - 1 = i
  BY <1>1
<1> QED
  BY <1>1, <1>2, <1>3, <1>4 DEF Digit

\* Widths do not matter: equal numbers have equal encodings.
LEMMA EncodeSame ==
  ASSUME NEW u \in Seq(Byte), NEW v \in Seq(Byte), Same(u, v)
  PROVE  EncodeTo(u) = EncodeTo(v) /\ CompactLen(u) = CompactLen(v)
<1> DEFINE n == BytesNeeded(u)
<1>1. n = BytesNeeded(v) /\ n \in 0..Len(u) /\ n \in 0..Len(v)
  BY BytesNeededSame, BytesNeededHighest
<1>2. SubSeq(u, 1, n) = SubSeq(v, 1, n)
  <2> HIDE DEF n
  <2> DEFINE s == SubSeq(u, 1, n)
             t == SubSeq(v, 1, n)
  <2>1. /\ s \in Seq(Byte) /\ Len(s) = n /\ \A i \in 1..n : s[i] = Digit(u, i)
        /\ t \in Seq(Byte) /\ Len(t) = n /\ \A i \in 1..n : t[i] = Digit(v, i)
    BY <1>1, FirstBytes, Zenon
  <2> HIDE DEF s, t
  <2>2. \A i \in 1..n : Digit(u, i) = Digit(v, i)
    BY <1>1 DEF Same
  <2>3. s = t
    BY <2>1, <2>2, SeqEqual
  <2> QED
    BY <2>3, Zenon DEF s, t
<1>3. BigForm(u) = BigForm(v)
  BY <1>1, <1>2, Zenon DEF BigForm
<1>4. \A k \in {1, 2, 4} : Below(u, k) <=> Below(v, k)
  BY BelowSame
<1>5. \A k \in {1, 2, 4} : \A mode : Shl2(u, mode, k) = Shl2(v, mode, k)
  BY Shl2Same
<1>6. EncodeTo(u) = EncodeTo(v)
  BY <1>3, <1>4, <1>5, Zenon DEF EncodeTo
<1>7. CompactLen(u) = CompactLen(v)
  BY <1>1, <1>4, Zenon DEF CompactLen
<1> QED
  BY <1>6, <1>7

\* A value that fits another width has the same digits there.
LEMMA ResizeSame ==
  ASSUME NEW v \in Seq(Byte), NEW w \in Nat
  PROVE  /\ Resize(v, w) \in Uint(w) /\ Resize(v, w) \in Seq(Byte)
         /\ Fits(v, w) => Same(Resize(v, w), v)
<1> DEFINE r == Resize(v, w)
<1>1. r \in Uint(w)
  BY Digits, Zenon DEF Resize, Uint
<1>2. r \in Seq(Byte) /\ Len(r) = w
  BY <1>1, UintSeq
<1>3. \A i \in 1..w : r[i] = Digit(v, i)
  BY DEF Resize
<1> HIDE DEF r
<1>4. ASSUME Fits(v, w), NEW i \in Nat \ {0} PROVE Digit(r, i) = Digit(v, i)
  <2>1. i > w => Digit(v, i) = 0
    BY <1>4, ZerosAbove DEF Fits
  <2>2. i \in 1..w \/ i > w
    OBVIOUS
  <2> QED
    BY <1>2, <1>3, <2>1, <2>2 DEF Digit
<1> QED
  BY <1>1, <1>2, <1>4 DEF r, Same

-----------------------------------------------------------------------------
(* The shift by two bits and its inverse.                                   *)

\* One byte of the shifted value: six bits of one digit, two of the one below.
LEMMA ShiftedByte ==
  ASSUME NEW a \in Byte, NEW c \in 0..3, NEW e, e = (a % 64) * 4 + c
  PROVE  e \in Byte /\ e % 4 = c /\ e \div 4 = a % 64
<1>1. a % 64 \in 0..63
  BY DEF Byte
<1>2. ASSUME NEW q \in 0..63
      PROVE  q * 4 + c \in 0..255 /\ (q * 4 + c) % 4 = c /\ (q * 4 + c) \div 4 = q
  OBVIOUS
<1> QED
  BY <1>1, <1>2, ZenonT(40) DEF Byte

\* One byte of the unshifted value: six bits of one byte, two of the one above.
LEMMA UnshiftedByte ==
  ASSUME NEW a \in Byte, NEW c \in Byte, NEW e, e = a \div 4 + (c % 4) * 64
  PROVE  e \in Byte /\ e % 64 = a \div 4 /\ e \div 64 = c % 4
<1>1. a \div 4 \in 0..63 /\ c % 4 \in 0..3
  BY DEF Byte
<1>2. ASSUME NEW q \in 0..63, NEW r \in 0..3
      PROVE  q + r * 64 \in 0..255 /\ (q + r * 64) % 64 = q /\ (q + r * 64) \div 64 = r
  OBVIOUS
<1> QED
  BY <1>1, <1>2 DEF Byte

\* Both halves of a digit, and both of a byte on the wire, make it up again.
LEMMA Halves ==
  ASSUME NEW a \in Byte
  PROVE  /\ a \div 64 \in 0..3 /\ (a % 64) + (a \div 64) * 64 = a
         /\ a % 4 \in 0..3 /\ a \div 4 \in 0..63 /\ (a \div 4) * 4 + (a % 4) = a
<1>1. a \in 0..255
  BY DEF Byte
<1>2. a \div 64 \in 0..3 /\ (a % 64) + (a \div 64) * 64 = a
  BY <1>1
<1>3. a % 4 \in 0..3 /\ a \div 4 \in 0..63
  BY <1>1
<1>4. (a \div 4) * 4 + (a % 4) = a
  BY <1>1
<1> QED
  BY <1>2, <1>3, <1>4

\* The bytes b hold the mode, then the digits of v, two bits further up.
Shifted(b, v, mode, k) ==
  /\ b \in Seq(Byte) /\ Len(b) = k
  /\ b[1] % 4 = mode
  /\ \A i \in 1..k : b[i] \div 4 = Digit(v, i) % 64
  /\ \A i \in 2..k : b[i] % 4 = Digit(v, i-1) \div 64

\* The shifted value is k bytes, with the mode in the low bits of the first.
LEMMA Shl2Bytes ==
  ASSUME NEW v \in Seq(Byte), NEW mode \in 0..3, NEW k \in Nat \ {0}
  PROVE  Shifted(Shl2(v, mode, k), v, mode, k)
<1> DEFINE b == Shl2(v, mode, k)
<1> DEFINE c(i) == IF i = 1 THEN mode ELSE Digit(v, i-1) \div 64
<1>1. \A i : c(i) \in 0..3
  BY Digits, Halves, Zenon
<1>2. b = [i \in 1..k |-> (Digit(v, i) % 64) * 4 + c(i)]
  BY Zenon DEF Shl2
<1> HIDE DEF b
<1>3. ASSUME NEW i \in 1..k
      PROVE  b[i] \in Byte /\ b[i] % 4 = c(i) /\ b[i] \div 4 = Digit(v, i) % 64
  <2> HIDE DEF c
  <2>1. Digit(v, i) \in Byte
    BY Digits
  <2>2. b[i] = (Digit(v, i) % 64) * 4 + c(i)
    BY <1>2
  <2> QED
    BY <1>1, <2>1, <2>2, ShiftedByte
<1>4. b \in [1..k -> Byte]
  <2> HIDE DEF c
  <2> QED
    BY <1>2, <1>3
<1>5. b \in Seq(Byte) /\ Len(b) = k
  BY <1>4
<1>6. c(1) = mode /\ \A i \in 2..k : c(i) = Digit(v, i-1) \div 64
  OBVIOUS
<1> HIDE DEF c
<1>7. 1 \in 1..k /\ \A i \in 2..k : i \in 1..k
  OBVIOUS
<1>8. Shifted(b, v, mode, k)
  BY <1>3, <1>5, <1>6, <1>7 DEF Shifted
<1> QED
  BY <1>8 DEF b

\* The unshifted value is k bytes and leaves the two high bits free.
LEMMA Shr2Bytes ==
  ASSUME NEW b \in Seq(Byte), NEW k \in Nat \ {0}, Len(b) = k
  PROVE  /\ Shr2(b, k) \in Seq(Byte) /\ Len(Shr2(b, k)) = k
         /\ \A i \in 1..k : Shr2(b, k)[i] = Digit(b, i) \div 4 + (Digit(b, i+1) % 4) * 64
         /\ Below(Shr2(b, k), k)
<1> DEFINE x == Shr2(b, k)
<1>1. \A i \in 1..k : x[i] = Digit(b, i) \div 4 + (Digit(b, i+1) % 4) * 64
  BY Zenon DEF Shr2
<1>2. x = [i \in 1..k |-> x[i]]
  BY Zenon DEF Shr2
<1> HIDE DEF x
<1>3. ASSUME NEW i \in 1..k PROVE x[i] \in Byte
  <2>1. Digit(b, i) \in Byte /\ Digit(b, i+1) \in Byte
    BY Digits
  <2> QED
    BY <1>1, <2>1, UnshiftedByte
<1>4. x \in Seq(Byte) /\ Len(x) = k
  BY <1>2, <1>3
<1>5. x[k] < 64
  <2>1. Digit(b, k+1) = 0 /\ Digit(b, k) \in Byte
    BY Digits
  <2>2. x[k] = Digit(b, k) \div 4 + (0 % 4) * 64
    BY <1>1, <2>1
  <2>3. Digit(b, k) \div 4 \in 0..63
    BY <2>1, Halves
  <2>4. ASSUME NEW d \in 0..63 PROVE d + (0 % 4) * 64 < 64
    OBVIOUS
  <2> QED
    BY <2>2, <2>3, <2>4, Zenon
<1>6. Below(x, k)
  BY <1>4, <1>5 DEF Below, Digit
<1> QED
  BY <1>1, <1>4, <1>6 DEF x

\* Unshifting what encode_to shifted gives the digits back.
LEMMA Shr2Shl2 ==
  ASSUME NEW v \in Seq(Byte), NEW mode \in 0..3, NEW k \in Nat \ {0}, Below(v, k)
  PROVE  Same(Shr2(Shl2(v, mode, k), k), v)
<1> DEFINE b == Shl2(v, mode, k)
           x == Shr2(b, k)
<1>0. Shifted(b, v, mode, k)
  BY Shl2Bytes
<1> HIDE DEF b
<1>1. /\ b \in Seq(Byte) /\ Len(b) = k
      /\ \A i \in 1..k : b[i] \div 4 = Digit(v, i) % 64
      /\ \A i \in 2..k : b[i] % 4 = Digit(v, i-1) \div 64
  BY <1>0, Zenon DEF Shifted
<1>2. /\ x \in Seq(Byte) /\ Len(x) = k
      /\ \A i \in 1..k : x[i] = Digit(b, i) \div 4 + (Digit(b, i+1) % 4) * 64
  BY <1>1, Shr2Bytes
<1> HIDE DEF x
<1>3. Digit(v, k) < 64 /\ \A i \in Nat : i > k => Digit(v, i) = 0
  BY BelowDigits
<1>4. ASSUME NEW i \in 1..k PROVE x[i] = Digit(v, i)
  <2>0. Digit(v, i) \in Byte /\ Digit(b, i) = b[i]
    BY <1>1, Digits, Zenon
  <2>1. CASE i < k
    <3>1. i+1 \in 2..k /\ i+1 \in 1..k /\ i+1-1 = i
      BY <2>1
    <3>2. Digit(b, i+1) % 4 = Digit(v, i) \div 64
      <4>1. Digit(b, i+1) = b[i+1]
        BY <1>1, <3>1, Digits, Zenon
      <4>2. b[i+1] % 4 = Digit(v, i+1-1) \div 64
        BY <1>1, <3>1
      <4> QED
        BY <3>1, <4>1, <4>2
    <3>3. x[i] = (Digit(v, i) % 64) + (Digit(v, i) \div 64) * 64
      BY <1>1, <1>2, <2>0, <3>2
    <3> QED
      BY <2>0, <3>3, Halves
  <2>2. CASE i = k
    <3>1. Digit(b, i+1) = 0
      BY <1>1, <2>2, Digits
    <3>2. x[i] = (Digit(v, i) % 64) + (0 % 4) * 64
      BY <1>1, <1>2, <2>0, <3>1
    <3>3. ASSUME NEW d \in 0..63 PROVE (d % 64) + (0 % 4) * 64 = d
      OBVIOUS
    <3>4. Digit(v, i) \in 0..63
      <4>1. Digit(v, i) < 64
        BY <1>3, <2>2
      <4>2. ASSUME NEW d \in Byte, d < 64 PROVE d \in 0..63
        BY <4>2 DEF Byte
      <4> QED
        BY <2>0, <4>1, <4>2
    <3> QED
      BY <3>2, <3>3, <3>4, Zenon
  <2> QED
    BY <2>1, <2>2
<1>5. ASSUME NEW i \in Nat \ {0} PROVE Digit(x, i) = Digit(v, i)
  <2>1. CASE i \in 1..k
    BY <1>2, <1>4, <2>1 DEF Digit
  <2>2. CASE i > k
    BY <1>2, <1>3, <2>2, Digits
  <2> QED
    BY <2>1, <2>2
<1> QED
  BY <1>5 DEF x, b, Same

\* Shifting what decode unshifted gives the bytes back.
LEMMA Shl2Shr2 ==
  ASSUME NEW b \in Seq(Byte), NEW k \in Nat \ {0}, Len(b) = k
  PROVE  Shl2(Shr2(b, k), b[1] % 4, k) = b
<1> DEFINE x == Shr2(b, k)
           c == Shl2(x, b[1] % 4, k)
<1>1. /\ x \in Seq(Byte) /\ Len(x) = k
      /\ \A i \in 1..k : x[i] = Digit(b, i) \div 4 + (Digit(b, i+1) % 4) * 64
  BY Shr2Bytes
<1> HIDE DEF x
<1>2. b[1] \in Byte /\ b[1] % 4 \in 0..3
  BY Halves, ElementOfSeq
<1>0. Shifted(c, x, b[1] % 4, k)
  BY <1>1, <1>2, Shl2Bytes
<1> HIDE DEF c
<1>3. /\ c \in Seq(Byte) /\ Len(c) = k /\ c[1] % 4 = b[1] % 4
      /\ \A i \in 1..k : c[i] \div 4 = Digit(x, i) % 64
      /\ \A i \in 2..k : c[i] % 4 = Digit(x, i-1) \div 64
  BY <1>0, Zenon DEF Shifted
<1>4. ASSUME NEW i \in 1..k
      PROVE  /\ Digit(x, i) % 64 = b[i] \div 4
             /\ Digit(x, i) \div 64 = Digit(b, i+1) % 4
  <2>1. Digit(b, i) = b[i] /\ Digit(x, i) = x[i] /\ Digit(b, i) \in Byte /\ Digit(b, i+1) \in Byte
    BY <1>1, Digits, Zenon
  <2>2. x[i] = Digit(b, i) \div 4 + (Digit(b, i+1) % 4) * 64
    BY <1>1
  <2> QED
    BY <2>1, <2>2, UnshiftedByte
<1>5. ASSUME NEW i \in 1..k PROVE c[i] = b[i]
  <2>1. c[i] \in Byte /\ b[i] \in Byte
    BY <1>3, ElementOfSeq
  <2>2. c[i] \div 4 = b[i] \div 4
    BY <1>3, <1>4
  <2>3. c[i] % 4 = b[i] % 4
    <3>1. CASE i = 1
      BY <1>3, <3>1
    <3>2. CASE i # 1
      <4>1. i \in 2..k /\ i-1 \in 1..k /\ i-1+1 = i
        BY <3>2
      <4>2. c[i] % 4 = Digit(b, i) % 4
        BY <1>3, <1>4, <4>1
      <4> QED
        BY <4>2, Digits
    <3> QED
      BY <3>1, <3>2
  <2>4. (c[i] \div 4) * 4 + (c[i] % 4) = c[i] /\ (b[i] \div 4) * 4 + (b[i] % 4) = b[i]
    BY <2>1, Halves
  <2> QED
    BY <2>2, <2>3, <2>4
<1>6. c = b
  BY <1>3, <1>5, SeqEqual
<1> QED
  BY <1>6 DEF c, x

-----------------------------------------------------------------------------
(* What encode_to writes.                                                   *)

\* The bytes e are the big form of the n digits of v.
Plain(e, v, n) ==
  /\ e \in Seq(Byte) /\ Len(e) = n + 1
  /\ e[1] = 3 + (n - 4) * 4
  /\ \A i \in 1..n : e[i+1] = Digit(v, i)

\* The length byte of the big form: its mode, and the count it announces.
LEMMA LengthByte ==
  ASSUME NEW n \in 4..67
  PROVE  LET e == 3 + (n - 4) * 4 IN e \in Byte /\ e % 4 = 3 /\ e \div 4 + 4 = n
BY DEF Byte

\* The big form is its length byte and all bytes up to the highest.
LEMMA BigBytes ==
  ASSUME NEW v \in Seq(Byte), BytesNeeded(v) \in 4..67
  PROVE  Plain(BigForm(v), v, BytesNeeded(v))
<1> DEFINE n == BytesNeeded(v)
           h == 3 + (n - 4) * 4
           s == SubSeq(v, 1, n)
           e == <<h>> \o s
<1>1. n \in 4..67 /\ n \in 0..Len(v)
  BY BytesNeededHighest
<1>2. BigForm(v) = e
  BY Zenon DEF BigForm
<1> HIDE DEF n
<1>3. h \in Byte
  BY <1>1, LengthByte, Zenon
<1>4. s \in Seq(Byte) /\ Len(s) = n /\ \A i \in 1..n : s[i] = Digit(v, i)
  BY <1>1, FirstBytes
<1>5. <<h>> \in Seq(Byte) /\ Len(<<h>>) = 1 /\ <<h>>[1] = h
  BY <1>3
<1> DEFINE p == <<h>>
<1> HIDE DEF h, s
<1>6. /\ e \in Seq(Byte) /\ Len(e) = 1 + Len(s)
      /\ \A i \in 1..(1 + Len(s)) : e[i] = IF i <= 1 THEN p[i] ELSE s[i - 1]
  <2>1. e = p \o s /\ p \in Seq(Byte) /\ Len(p) = 1
    BY <1>5
  <2> HIDE DEF p, e
  <2>2. /\ p \o s \in Seq(Byte) /\ Len(p \o s) = Len(p) + Len(s)
        /\ \A i \in 1..(Len(p) + Len(s)) :
             (p \o s)[i] = IF i <= Len(p) THEN p[i] ELSE s[i - Len(p)]
    BY <1>4, <2>1, ConcatProperties, Zenon
  <2> QED
    BY <2>1, <2>2
<1>7. p[1] = h
  BY <1>5
<1> HIDE DEF e, p
<1>8. e[1] = h
  BY <1>1, <1>4, <1>6, <1>7
<1>9. ASSUME NEW i \in 1..n PROVE e[i+1] = Digit(v, i)
  <2>1. i + 1 \in 1..(1 + Len(s)) /\ ~ (i + 1 <= 1) /\ i + 1 - 1 = i
    BY <1>1, <1>4
  <2>2. e[i+1] = s[i]
    BY <1>6, <2>1
  <2> QED
    BY <1>4, <2>2
<1>10. Plain(e, v, n)
  <2>1. Len(e) = n + 1
    BY <1>1, <1>4, <1>6
  <2>2. e[1] = 3 + (n - 4) * 4
    BY <1>8 DEF h
  <2> QED
    BY <1>6, <1>9, <2>1, <2>2 DEF Plain
<1> QED
  BY <1>2, <1>10 DEF n

\* encode_to writes bytes, one at least, and as many as compact_len says.
LEMMA EncodeBytes ==
  ASSUME NEW v \in Seq(Byte), Len(v) <= 16
  PROVE  /\ EncodeTo(v) \in Seq(Byte)
         /\ Len(EncodeTo(v)) = CompactLen(v)
         /\ CompactLen(v) \in Nat \ {0}
<1>1. \A k \in {1, 2, 4}, mode \in 0..3 : Shl2(v, mode, k) \in Seq(Byte) /\ Len(Shl2(v, mode, k)) = k
  <2>1. ASSUME NEW k \in {1, 2, 4}, NEW mode \in 0..3
        PROVE  Shl2(v, mode, k) \in Seq(Byte) /\ Len(Shl2(v, mode, k)) = k
    <3>1. Shifted(Shl2(v, mode, k), v, mode, k)
      BY Shl2Bytes
    <3> QED
      BY <3>1, Zenon DEF Shifted
  <2> QED
    BY <2>1, Zenon
<1>2. ASSUME ~ Below(v, 4)
      PROVE  /\ BigForm(v) \in Seq(Byte) /\ Len(BigForm(v)) = BytesNeeded(v) + 1
             /\ BytesNeeded(v) + 1 \in Nat \ {0}
  <2>1. BytesNeeded(v) \in 0..Len(v) /\ BytesNeeded(v) >= 4 /\ Len(v) \in Nat
    BY <1>2, BigNeeds, BytesNeededHighest
  <2>2. BytesNeeded(v) \in 4..67 /\ BytesNeeded(v) + 1 \in Nat \ {0}
    <3>1. ASSUME NEW m \in Nat, m <= 16, NEW n \in 0..m, n >= 4
          PROVE  n \in 4..67 /\ n + 1 \in Nat \ {0}
      BY <3>1
    <3> QED
      BY <2>1, <3>1, Zenon
  <2>3. Plain(BigForm(v), v, BytesNeeded(v))
    BY <2>2, BigBytes
  <2> QED
    BY <2>2, <2>3, Zenon DEF Plain
<1>3. CASE Below(v, 1)
  BY <1>1, <1>3 DEF EncodeTo, CompactLen
<1>4. CASE ~ Below(v, 1) /\ Below(v, 2)
  BY <1>1, <1>4 DEF EncodeTo, CompactLen
<1>5. CASE ~ Below(v, 1) /\ ~ Below(v, 2) /\ Below(v, 4)
  BY <1>1, <1>5 DEF EncodeTo, CompactLen
<1>6. CASE ~ Below(v, 1) /\ ~ Below(v, 2) /\ ~ Below(v, 4)
  BY <1>2, <1>6 DEF EncodeTo, CompactLen
<1> QED
  BY <1>3, <1>4, <1>5, <1>6

-----------------------------------------------------------------------------
(* Reading back what encode_to wrote.                                       *)

\* The stream b starts with the bytes e.
Starts(b, e) == Len(e) <= Len(b) /\ \A i \in 1..Len(e) : b[i] = e[i]

\* Equal numbers fit the same widths and are the same value there.
LEMMA FitsSame ==
  ASSUME NEW u \in Seq(Byte), NEW v \in Seq(Byte), Same(u, v), NEW w \in Nat
  PROVE  (Fits(u, w) <=> Fits(v, w)) /\ Resize(u, w) = Resize(v, w)
<1>1. \A i \in Nat : i > w => Digit(u, i) = Digit(v, i)
  BY DEF Same
<1>2. Fits(u, w) <=> Fits(v, w)
  BY <1>1, ZerosAbove, Zenon DEF Fits
<1>3. \A i \in 1..w : Digit(u, i) = Digit(v, i)
  BY DEF Same
<1> QED
  BY <1>2, <1>3, Zenon DEF Resize

\* The n bytes behind the first.
LEMMA RestBytes ==
  ASSUME NEW b \in Seq(Byte), NEW n \in Nat, n + 1 <= Len(b)
  PROVE  /\ SubSeq(b, 2, n + 1) \in Seq(Byte) /\ Len(SubSeq(b, 2, n + 1)) = n
         /\ \A i \in 1..n : SubSeq(b, 2, n + 1)[i] = b[i + 1]
<1> DEFINE s == SubSeq(b, 2, n + 1)
<1>1. \A i \in 2..(n + 1) : b[i] \in Byte
  BY ElementOfSeq
<1>2. /\ s \in Seq(Byte)
      /\ Len(s) = IF 2 <= n + 1 THEN n + 1 - 2 + 1 ELSE 0
      /\ \A i \in 1..(n + 1 - 2 + 1) : s[i] = b[2 + i - 1]
  BY <1>1, SubSeqProperties
<1> HIDE DEF s
<1>3. Len(s) = n
  BY <1>2
<1>4. ASSUME NEW i \in 1..n PROVE s[i] = b[i + 1]
  <2>1. i \in 1..(n + 1 - 2 + 1) /\ 2 + i - 1 = i + 1
    OBVIOUS
  <2> QED
    BY <1>2, <2>1
<1> QED
  BY <1>2, <1>3, <1>4 DEF s

\* The two shifted arms, on a value of their range.
LEMMA ReadShifted ==
  ASSUME NEW v \in Seq(Byte), NEW w \in Nat, NEW b \in Seq(Byte),
         NEW mode \in 0..3, NEW k \in Nat \ {0}, NEW min \in Nat \ {0},
         Starts(b, Shl2(v, mode, k)), Below(v, k), ~ Below(v, min)
  PROVE  DecodeShifted(w, b, k, min) =
           IF Fits(v, w) THEN Accept(Resize(v, w), k) ELSE Refuse(k)
<1> DEFINE e == Shl2(v, mode, k)
           s == SubSeq(b, 1, k)
           x == Shr2(e, k)
<1>1. e \in Seq(Byte) /\ Len(e) = k
  <2>1. Shifted(e, v, mode, k)
    BY Shl2Bytes
  <2> HIDE DEF e
  <2> QED
    BY <2>1, Zenon DEF Shifted
<1>2. x \in Seq(Byte) /\ Len(x) = k /\ Same(x, v)
  <2>1. Same(x, v)
    BY Shr2Shl2
  <2> HIDE DEF e
  <2> QED
    BY <1>1, <2>1, Shr2Bytes
<1>3. Len(b) \in Nat /\ k <= Len(b) /\ \A i \in 1..k : b[i] = e[i]
  <2> HIDE DEF e
  <2> QED
    BY <1>1 DEF Starts, e
<1> HIDE DEF e
<1>4. k \in 0..Len(b)
  BY <1>3
<1>5. s \in Seq(Byte) /\ Len(s) = k /\ \A i \in 1..k : s[i] = b[i]
  BY <1>4, FirstBytes
<1> HIDE DEF s
<1>6. s = e
  BY <1>1, <1>3, <1>5, SeqEqual
<1>7. DecodeShifted(w, b, k, min) =
        IF ~ Below(x, min) /\ (\A i \in (w+1)..k : x[i] = 0)
        THEN Accept([i \in 1..w |-> Digit(x, i)], k) ELSE Refuse(k)
  <2>1. ~ (Len(b) < k)
    BY <1>3
  <2> QED
    BY <1>6, <2>1, Zenon DEF DecodeShifted, s, x
<1> HIDE DEF x
<1>8. ~ Below(x, min)
  BY <1>2, BelowSame
<1>9. (\A i \in (w+1)..k : x[i] = 0) <=> Fits(v, w)
  BY <1>2, FitsSame, ZenonT(40) DEF Fits
<1>10. [i \in 1..w |-> Digit(x, i)] = Resize(v, w)
  <2>1. Resize(x, w) = Resize(v, w)
    BY <1>2, FitsSame
  <2> QED
    BY <2>1 DEF Resize
<1> QED
  BY <1>7, <1>8, <1>9, <1>10, Zenon

\* The big arm, on a value of its range that fits the type.
LEMMA ReadBig ==
  ASSUME NEW v \in Seq(Byte), NEW w \in Nat, NEW b \in Seq(Byte),
         NEW n \in 4..67, Highest(v, n), ~ Below(v, 4),
         NEW e, Plain(e, v, n), Starts(b, e)
  PROVE  DecodeBig(w, b, n) = Accept(Resize(v, w), n + 1)
<1> DEFINE s == SubSeq(b, 2, n + 1)
<1>1. Len(b) \in Nat /\ n + 1 <= Len(b) /\ \A i \in 1..n : b[i + 1] = Digit(v, i)
  BY DEF Plain, Starts
<1>2. s \in Seq(Byte) /\ Len(s) = n /\ \A i \in 1..n : s[i] = b[i + 1]
  BY <1>1, RestBytes
<1> HIDE DEF s
<1>3. Same(s, v)
  <2>1. ASSUME NEW i \in Nat \ {0} PROVE Digit(s, i) = Digit(v, i)
    <3>1. CASE i \in 1..n
      BY <1>1, <1>2, <3>1 DEF Digit
    <3>2. CASE i > n
      BY <1>2, <3>2, Digits DEF Highest
    <3> QED
      BY <3>1, <3>2
  <2> QED
    BY <2>1 DEF Same
<1>4. ~ Below(s, 4) /\ s[n] # 0
  <2>1. ~ Below(s, 4)
    BY <1>2, <1>3, BelowSame
  <2>2. Digit(v, n) # 0 /\ n \in 1..n
    BY DEF Highest
  <2> QED
    BY <1>1, <1>2, <2>1, <2>2
<1>5. [i \in 1..w |-> Digit(s, i)] = Resize(v, w)
  <2>1. Resize(s, w) = Resize(v, w)
    BY <1>2, <1>3, FitsSame
  <2> QED
    BY <2>1 DEF Resize
<1>6. ~ (Len(b) < n + 1)
  BY <1>1
<1> QED
  BY <1>4, <1>5, <1>6, Zenon DEF DecodeBig, s

-----------------------------------------------------------------------------
\* The arms of decode, by the mode bits of the first byte.
LEMMA DecodeArms ==
  ASSUME NEW b \in Seq(Byte), b # <<>>, NEW w
  PROVE  /\ b[1] \in Byte /\ b[1] % 4 \in 0..3
         /\ b[1] % 4 = 0 =>
              DecodeFrom(w, b) = Accept([i \in 1..w |-> IF i = 1 THEN b[1] \div 4 ELSE 0], 1)
         /\ b[1] % 4 = 1 => DecodeFrom(w, b) = DecodeShifted(w, b, 2, 1)
         /\ b[1] % 4 = 2 =>
              DecodeFrom(w, b) = IF w = 1 THEN Refuse(1) ELSE DecodeShifted(w, b, 4, 2)
         /\ b[1] % 4 = 3 =>
              DecodeFrom(w, b) = IF w < 4 \/ b[1] \div 4 + 4 > w THEN Refuse(1)
                                 ELSE DecodeBig(w, b, b[1] \div 4 + 4)
<1> DEFINE m == b[1] % 4
           A0 == Accept([i \in 1..w |-> IF i = 1 THEN b[1] \div 4 ELSE 0], 1)
           A1 == DecodeShifted(w, b, 2, 1)
           A2 == IF w = 1 THEN Refuse(1) ELSE DecodeShifted(w, b, 4, 2)
           A3 == IF w < 4 \/ b[1] \div 4 + 4 > w THEN Refuse(1)
                 ELSE DecodeBig(w, b, b[1] \div 4 + 4)
<1>1. b[1] \in Byte
  BY ElementOfSeq, EmptySeq
<1>2. m \in 0..3
  BY <1>1, Halves
<1>3. DecodeFrom(w, b) = CASE m = 0 -> A0 [] m = 1 -> A1 [] m = 2 -> A2 [] m = 3 -> A3
  BY Zenon DEF DecodeFrom
<1> HIDE DEF m, A0, A1, A2, A3
<1>4. /\ m = 0 => DecodeFrom(w, b) = A0
      /\ m = 1 => DecodeFrom(w, b) = A1
      /\ m = 2 => DecodeFrom(w, b) = A2
      /\ m = 3 => DecodeFrom(w, b) = A3
  BY <1>3
<1> QED
  BY <1>1, <1>2, <1>4, Zenon DEF m, A0, A1, A2, A3

\* What decode has to return for a value v that is in front of the stream.
Back(v, w, r) ==
  IF Fits(v, w) THEN r = Accept(Resize(v, w), CompactLen(v)) ELSE ~ r.ok

\* The three outcomes of decode, as records.
LEMMA Outcomes ==
  ASSUME NEW n, NEW x
  PROVE  /\ ~ Short(n).ok /\ ~ Refuse(n).ok /\ Accept(x, n).ok
         /\ Short(n).used = n /\ Refuse(n).used = n /\ Accept(x, n).used = n
         /\ Accept(x, n).val = x
BY DEF Short, Refuse, Accept

\* Every width reads back what any width wrote, or refuses what it cannot hold.
LEMMA ReadBack ==
  ASSUME NEW v \in Seq(Byte), Len(v) <= 16, NEW w \in Widths,
         NEW b \in Seq(Byte), Starts(b, EncodeTo(v))
  PROVE  Back(v, w, DecodeFrom(w, b))
<1>0. w \in Nat \ {0} /\ w \in Nat
  BY DEF Widths
<1>1. b # <<>> /\ b[1] = EncodeTo(v)[1]
  <2> DEFINE e == EncodeTo(v)
  <2>1. Len(e) \in Nat \ {0} /\ Starts(b, e)
    BY EncodeBytes
  <2> HIDE DEF e
  <2>2. b # <<>> /\ b[1] = e[1]
    BY <2>1 DEF Starts
  <2> QED
    BY <2>2 DEF e
<1>2. ASSUME NEW mode \in 0..3, NEW k \in {1, 2, 4}, EncodeTo(v) = Shl2(v, mode, k)
      PROVE  b[1] % 4 = mode /\ b[1] \div 4 = Digit(v, 1) % 64
  <2>1. Shifted(EncodeTo(v), v, mode, k)
    BY <1>2, Shl2Bytes
  <2>2. 1 \in 1..k
    OBVIOUS
  <2> QED
    BY <1>1, <2>1, <2>2 DEF Shifted
<1>3. CASE Below(v, 1)
  <2>1. EncodeTo(v) = Shl2(v, 0, 1) /\ CompactLen(v) = 1
    BY <1>3 DEF EncodeTo, CompactLen
  <2>2. Digit(v, 1) < 64 /\ \A i \in Nat : i > 1 => Digit(v, i) = 0
    BY <1>3, BelowDigits
  <2>3. b[1] % 4 = 0 /\ b[1] \div 4 = Digit(v, 1)
    <3>1. b[1] % 4 = 0 /\ b[1] \div 4 = Digit(v, 1) % 64
      BY <1>2, <2>1
    <3>2. ASSUME NEW d \in Byte, d < 64 PROVE d % 64 = d
      BY <3>2, SMTT(30) DEF Byte
    <3>3. Digit(v, 1) \in Byte
      BY Digits
    <3> QED
      BY <2>2, <3>1, <3>2, <3>3
  <2>4. [i \in 1..w |-> IF i = 1 THEN b[1] \div 4 ELSE 0] = Resize(v, w)
    <3>1. \A i \in 1..w : (IF i = 1 THEN b[1] \div 4 ELSE 0) = Digit(v, i)
      <4>1. ASSUME NEW i \in 1..w PROVE i = 1 \/ (i \in Nat /\ i > 1)
        OBVIOUS
      <4> QED
        BY <2>2, <2>3, <4>1, Zenon
    <3> QED
      BY <3>1, Zenon DEF Resize
  <2>5. Fits(v, w)
    <3>1. \A i \in Nat : i > w => Digit(v, i) = 0
      BY <1>0, <2>2
    <3> QED
      BY <1>0, <3>1, ZerosAbove DEF Fits
  <2>6. DecodeFrom(w, b) = Accept(Resize(v, w), 1)
    BY <1>1, <2>3, <2>4, DecodeArms
  <2> QED
    BY <2>1, <2>5, <2>6, Zenon DEF Back
<1>4. CASE ~ Below(v, 1) /\ Below(v, 2)
  <2>1. EncodeTo(v) = Shl2(v, 1, 2) /\ CompactLen(v) = 2
    BY <1>4 DEF EncodeTo, CompactLen
  <2>2. DecodeFrom(w, b) = DecodeShifted(w, b, 2, 1)
    <3>1. b[1] % 4 = 1
      BY <1>2, <2>1
    <3> QED
      BY <1>1, <3>1, DecodeArms, Zenon
  <2>3. DecodeShifted(w, b, 2, 1) =
          IF Fits(v, w) THEN Accept(Resize(v, w), 2) ELSE Refuse(2)
    BY <1>0, <1>4, <2>1, ReadShifted
  <2>4. CASE Fits(v, w)
    BY <2>1, <2>2, <2>3, <2>4, Zenon DEF Back
  <2>5. CASE ~ Fits(v, w)
    <3>1. DecodeFrom(w, b) = Refuse(2) /\ ~ Refuse(2).ok
      BY <2>2, <2>3, <2>5, Outcomes, Zenon
    <3> QED
      BY <2>5, <3>1, Zenon DEF Back
  <2> QED
    BY <2>4, <2>5
<1>5. CASE ~ Below(v, 1) /\ ~ Below(v, 2) /\ Below(v, 4)
  <2>1. EncodeTo(v) = Shl2(v, 2, 4) /\ CompactLen(v) = 4
    BY <1>5 DEF EncodeTo, CompactLen
  <2>2. DecodeFrom(w, b) = IF w = 1 THEN Refuse(1) ELSE DecodeShifted(w, b, 4, 2)
    <3>1. b[1] % 4 = 2
      BY <1>2, <2>1
    <3> QED
      BY <1>1, <3>1, DecodeArms, Zenon
  <2>3. DecodeShifted(w, b, 4, 2) =
          IF Fits(v, w) THEN Accept(Resize(v, w), 4) ELSE Refuse(4)
    BY <1>0, <1>5, <2>1, ReadShifted
  <2>4. ~ Fits(v, 1)
    <3>1. SUFFICES ASSUME Fits(v, 1) PROVE FALSE
      OBVIOUS
    <3>2. \A i \in Nat : i > 1 => Digit(v, i) = 0
      BY <3>1, ZerosAbove, Zenon DEF Fits
    <3>3. Digit(v, 2) = 0 /\ \A i \in Nat : i > 2 => Digit(v, i) = 0
      BY <3>2
    <3> QED
      BY <1>5, <3>3, BelowDigits
  <2>5. CASE Fits(v, w)
    <3>1. w # 1
      BY <2>4, <2>5
    <3> QED
      BY <2>1, <2>2, <2>3, <2>5, <3>1, Zenon DEF Back
  <2>6. CASE ~ Fits(v, w)
    <3>1. /\ DecodeFrom(w, b) = Refuse(1) \/ DecodeFrom(w, b) = Refuse(4)
          /\ ~ Refuse(1).ok /\ ~ Refuse(4).ok
      BY <2>2, <2>3, <2>6, Outcomes, Zenon
    <3> QED
      BY <2>6, <3>1, Zenon DEF Back
  <2> QED
    BY <2>5, <2>6
<1>6. CASE ~ Below(v, 1) /\ ~ Below(v, 2) /\ ~ Below(v, 4)
  <2> DEFINE n == BytesNeeded(v)
             e == EncodeTo(v)
  <2>1. e = BigForm(v) /\ CompactLen(v) = n + 1
    BY <1>6 DEF EncodeTo, CompactLen
  <2>2. n \in 4..67 /\ n \in 0..Len(v)
    <3>1. n \in 0..Len(v) /\ n >= 4 /\ Len(v) \in Nat
      BY <1>6, BigNeeds, BytesNeededHighest
    <3> HIDE DEF n
    <3> QED
      BY <3>1
  <2>3. Highest(v, n) /\ Plain(e, v, n)
    BY <2>1, <2>2, BytesNeededHighest, BigBytes
  <2>4. Starts(b, e) /\ b[1] = e[1]
    BY <1>1
  <2> HIDE DEF n, e
  <2>5. b[1] % 4 = 3 /\ b[1] \div 4 + 4 = n
    <3>1. b[1] = 3 + (n - 4) * 4
      BY <2>3, <2>4 DEF Plain
    <3> QED
      BY <2>2, <3>1, LengthByte
  <2>6. DecodeFrom(w, b) = IF w < 4 \/ n > w THEN Refuse(1) ELSE DecodeBig(w, b, n)
    BY <1>1, <2>5, DecodeArms, Zenon
  <2>7. DecodeBig(w, b, n) = Accept(Resize(v, w), n + 1)
    BY <1>0, <1>6, <2>2, <2>3, <2>4, ReadBig
  <2>8. Fits(v, w) <=> ~ (w < 4 \/ n > w)
    <3>1. Digit(v, n) # 0 /\ \A i \in Nat : i > n => Digit(v, i) = 0
      BY <2>2, <2>3 DEF Highest
    <3>2. Fits(v, w) <=> \A i \in Nat : i > w => Digit(v, i) = 0
      BY <1>0, ZerosAbove, Zenon DEF Fits
    <3>3. n > w => ~ Fits(v, w)
      BY <1>0, <2>2, <3>1, <3>2
    <3>4. ~ (n > w) => Fits(v, w)
      BY <1>0, <2>2, <3>1, <3>2
    <3>5. w < 4 => n > w
      BY <1>0, <2>2
    <3> QED
      BY <3>3, <3>4, <3>5
  <2> QED
    BY <2>1, <2>6, <2>7, <2>8, Outcomes, Zenon DEF Back
<1> QED
  BY <1>3, <1>4, <1>5, <1>6

-----------------------------------------------------------------------------
(* Writing again what decode accepted.                                      *)

\* What decode may return: it takes no more bytes than there are, and what it
\* accepts has the width asked for and is the only form of its value.
Sound(w, b, r) ==
  /\ r.used \in 0..Len(b)
  /\ r.ok => r.val \in Uint(w) /\ EncodeTo(r.val) = SubSeq(b, 1, r.used)

\* An error that was found after reading no more bytes than there are.
LEMMA SoundError ==
  ASSUME NEW w, NEW b, NEW n \in 0..Len(b)
  PROVE  Sound(w, b, Short(n)) /\ Sound(w, b, Refuse(n))
BY Outcomes, Zenon DEF Sound

\* A value that was rebuilt from the first n bytes and fits the width.
LEMMA SoundAccept ==
  ASSUME NEW w \in Nat, NEW b, NEW n \in 0..Len(b), NEW x \in Seq(Byte), Fits(x, w),
         EncodeTo(x) = SubSeq(b, 1, n)
  PROVE  Sound(w, b, Accept([i \in 1..w |-> Digit(x, i)], n))
<1>1. [i \in 1..w |-> Digit(x, i)] = Resize(x, w)
  BY DEF Resize
<1>2. Resize(x, w) \in Uint(w) /\ Resize(x, w) \in Seq(Byte) /\ Same(Resize(x, w), x)
  BY ResizeSame
<1>3. EncodeTo(Resize(x, w)) = EncodeTo(x)
  BY <1>2, EncodeSame
<1> DEFINE r == Accept(Resize(x, w), n)
<1>4. r.used = n /\ r.val = Resize(x, w)
  BY Outcomes
<1> HIDE DEF r
<1>5. Sound(w, b, r)
  BY <1>2, <1>3, <1>4, Zenon DEF Sound
<1> QED
  BY <1>1, <1>5 DEF r

\* The two shifted arms: the value needs their form, so encode_to takes it.
LEMMA SoundShifted ==
  ASSUME NEW w \in Nat, NEW b \in Seq(Byte), b # <<>>, NEW k \in Nat \ {0}, NEW min,
         \A x \in Seq(Byte) :
           Below(x, k) /\ ~ Below(x, min) => EncodeTo(x) = Shl2(x, b[1] % 4, k)
  PROVE  Sound(w, b, DecodeShifted(w, b, k, min))
<1> DEFINE s == SubSeq(b, 1, k)
           x == Shr2(s, k)
<1>0. Len(b) \in Nat \ {0}
  BY EmptySeq
<1>1. CASE Len(b) < k
  <2>1. DecodeShifted(w, b, k, min) = Short(1) /\ 1 \in 0..Len(b)
    BY <1>0, <1>1 DEF DecodeShifted
  <2> QED
    BY <2>1, SoundError
<1>2. CASE ~ (Len(b) < k)
  <2>1. k \in 0..Len(b)
    BY <1>0, <1>2
  <2>2. s \in Seq(Byte) /\ Len(s) = k /\ s[1] = b[1]
    <3>1. 1 \in 1..k
      OBVIOUS
    <3> QED
      BY <2>1, <3>1, FirstBytes
  <2>3. DecodeShifted(w, b, k, min) =
          IF ~ Below(x, min) /\ (\A i \in (w+1)..k : x[i] = 0)
          THEN Accept([i \in 1..w |-> Digit(x, i)], k) ELSE Refuse(k)
    BY <1>2, Zenon DEF DecodeShifted
  <2> HIDE DEF s
  <2>4. x \in Seq(Byte) /\ Len(x) = k /\ Below(x, k) /\ Shl2(x, b[1] % 4, k) = s
    BY <2>2, Shr2Bytes, Shl2Shr2
  <2> HIDE DEF x
  <2>5. CASE ~ Below(x, min) /\ (\A i \in (w+1)..k : x[i] = 0)
    <3>1. Fits(x, w) /\ EncodeTo(x) = SubSeq(b, 1, k)
      BY <2>4, <2>5 DEF Fits, s
    <3> QED
      BY <2>1, <2>3, <2>4, <2>5, <3>1, SoundAccept
  <2>6. CASE ~ (~ Below(x, min) /\ (\A i \in (w+1)..k : x[i] = 0))
    <3>1. DecodeShifted(w, b, k, min) = Refuse(k)
      BY <2>3, <2>6, Zenon
    <3> QED
      BY <2>1, <3>1, SoundError
  <2> QED
    BY <2>5, <2>6
<1> QED
  BY <1>1, <1>2

\* The big arm: the highest byte that was read is not zero, so encode_to
\* writes exactly these bytes.
LEMMA SoundBig ==
  ASSUME NEW w \in Nat, NEW b \in Seq(Byte), b # <<>>,
         NEW n \in 4..67, b[1] = 3 + (n - 4) * 4, n <= w
  PROVE  Sound(w, b, DecodeBig(w, b, n))
<1> DEFINE s == SubSeq(b, 2, n + 1)
           G == IF n = 4 THEN ~ Below(s, 4) ELSE s[n] # 0
<1>0. Len(b) \in Nat \ {0}
  BY EmptySeq
<1>1. CASE Len(b) < n + 1
  <2>1. DecodeBig(w, b, n) = Short(IF n \in {4, 8, 16} THEN 1 ELSE Len(b))
    BY <1>1, Zenon DEF DecodeBig
  <2>2. (IF n \in {4, 8, 16} THEN 1 ELSE Len(b)) \in 0..Len(b)
    BY <1>0
  <2> QED
    BY <2>1, <2>2, SoundError
<1>2. CASE ~ (Len(b) < n + 1)
  <2>1. n + 1 <= Len(b) /\ n \in Nat /\ n + 1 \in 0..Len(b)
    BY <1>0, <1>2
  <2>2. s \in Seq(Byte) /\ Len(s) = n /\ \A i \in 1..n : s[i] = b[i + 1]
    BY <2>1, RestBytes
  <2>3. DecodeBig(w, b, n) =
          IF G THEN Accept([i \in 1..w |-> Digit(s, i)], n + 1) ELSE Refuse(n + 1)
    BY <1>2, Zenon DEF DecodeBig
  <2> HIDE DEF s
  <2>4. CASE ~ G
    BY <2>1, <2>3, <2>4, SoundError
  <2>5. CASE G
    <3>1. s[n] # 0
      BY <2>2, <2>5 DEF Below, Digit
    <3>2. Highest(s, n)
      BY <2>2, <3>1, Digits DEF Highest, Digit
    <3>3. BytesNeeded(s) = n
      BY <2>1, <2>2, <3>2, BytesNeededHighest, HighestUnique
    <3>4. ~ Below(s, 4)
      <4>1. CASE n = 4
        BY <2>5, <4>1
      <4>2. CASE n > 4
        <5>1. Digit(s, n) # 0
          BY <2>2, <3>1 DEF Digit
        <5> QED
          BY <2>1, <2>2, <4>2, <5>1, BelowDigits
      <4> QED
        BY <4>1, <4>2
    <3>5. ~ Below(s, 1) /\ ~ Below(s, 2)
      BY <2>2, <3>4, BelowGrows
    <3>6. EncodeTo(s) = BigForm(s)
      BY <3>4, <3>5 DEF EncodeTo
    <3>7. Plain(EncodeTo(s), s, n)
      BY <2>2, <3>3, <3>6, BigBytes, Zenon
    <3>8. EncodeTo(s) = SubSeq(b, 1, n + 1)
      <4> DEFINE e == EncodeTo(s)
                 p == SubSeq(b, 1, n + 1)
      <4>1. Plain(e, s, n)
        BY <3>7
      <4>2. p \in Seq(Byte) /\ Len(p) = n + 1 /\ \A i \in 1..(n + 1) : p[i] = b[i]
        BY <2>1, FirstBytes
      <4> HIDE DEF e, p
      <4>3. e \in Seq(Byte) /\ Len(e) = n + 1 /\ e[1] = b[1]
        BY <4>1 DEF Plain
      <4>4. ASSUME NEW i \in 1..(n + 1) PROVE e[i] = p[i]
        <5>1. CASE i = 1
          BY <4>2, <4>3, <5>1
        <5>2. CASE i # 1
          <6>1. i - 1 \in 1..n /\ i - 1 + 1 = i
            BY <2>1, <5>2
          <6>2. e[i - 1 + 1] = Digit(s, i - 1) /\ Digit(s, i - 1) = s[i - 1]
            BY <2>2, <4>1, <6>1 DEF Plain, Digit
          <6> QED
            BY <2>2, <4>2, <6>1, <6>2
        <5> QED
          BY <5>1, <5>2
      <4>5. e = p
        BY <4>2, <4>3, <4>4, SeqEqual
      <4> QED
        BY <4>5 DEF e, p
    <3>9. Fits(s, w)
      BY <2>2 DEF Fits
    <3> QED
      BY <2>1, <2>2, <2>3, <2>5, <3>8, <3>9, SoundAccept, SMTT(30)
  <2> QED
    BY <2>4, <2>5
<1> QED
  BY <1>1, <1>2

\* Every arm of decode.
LEMMA SoundDecode ==
  ASSUME NEW w \in Widths, NEW b \in Seq(Byte), b # <<>>
  PROVE  Sound(w, b, DecodeFrom(w, b))
<1>0. w \in Nat /\ 1 \in 0..Len(b) /\ w <= 16 /\ w \in Nat \ {0}
  BY EmptySeq DEF Widths
<1>1. b[1] \in Byte /\ b[1] % 4 \in 0..3
  BY DecodeArms, Zenon
<1>2. CASE b[1] % 4 = 0
  <2> DEFINE d == b[1] \div 4
             x == <<d>>
             s == SubSeq(b, 1, 1)
  <2>1. d \in 0..63 /\ d \in Byte /\ d * 4 = b[1]
    <3>1. ASSUME NEW a \in Byte, a % 4 = 0
          PROVE  a \div 4 \in 0..63 /\ a \div 4 \in Byte /\ (a \div 4) * 4 = a
      BY <3>1 DEF Byte
    <3> QED
      BY <1>1, <1>2, <3>1, Zenon
  <2> HIDE DEF d
  <2>2. x \in Seq(Byte) /\ Len(x) = 1 /\ x[1] = d
    BY <2>1
  <2>3. s \in Seq(Byte) /\ Len(s) = 1 /\ s[1] = b[1]
    BY <1>0, FirstBytes
  <2>4. [i \in 1..w |-> IF i = 1 THEN d ELSE 0] = [i \in 1..w |-> Digit(x, i)]
    <3> HIDE DEF x
    <3> QED
      BY <2>2 DEF Digit
  <2> HIDE DEF x, s
  <2>5. Fits(x, w)
    BY <1>0, <2>2 DEF Fits
  <2>6. Below(x, 1) /\ Digit(x, 1) = d
    BY <2>1, <2>2 DEF Below, Digit
  <2>7. Shl2(x, 0, 1) = s
    <3> DEFINE c == Shl2(x, 0, 1)
    <3>1. Shifted(c, x, 0, 1)
      BY <2>2, Shl2Bytes
    <3> HIDE DEF c
    <3>2. c \in Seq(Byte) /\ Len(c) = 1 /\ c[1] % 4 = 0 /\ c[1] \div 4 = d % 64
      BY <2>6, <3>1 DEF Shifted
    <3>3. c[1] \in Byte
      <4>1. 1 \in 1..Len(c)
        BY <3>2
      <4> QED
        BY <3>2, <4>1, ElementOfSeq, Zenon
    <3>4. c[1] = d * 4
      <4>1. (c[1] \div 4) * 4 + (c[1] % 4) = c[1]
        BY <3>3, Halves
      <4>2. ASSUME NEW q \in 0..63 PROVE q % 64 = q
        OBVIOUS
      <4> QED
        BY <2>1, <3>2, <4>1, <4>2
    <3>5. c = s
      BY <2>1, <2>3, <3>2, <3>4, SeqEqual
    <3> QED
      BY <3>5 DEF c
  <2>8. EncodeTo(x) = SubSeq(b, 1, 1)
    BY <2>6, <2>7 DEF EncodeTo, s
  <2>9. DecodeFrom(w, b) = Accept([i \in 1..w |-> Digit(x, i)], 1)
    BY <1>2, <2>4, DecodeArms DEF d
  <2> QED
    BY <1>0, <2>2, <2>5, <2>8, <2>9, SoundAccept, Zenon
<1>3. CASE b[1] % 4 = 1
  <2>1. DecodeFrom(w, b) = DecodeShifted(w, b, 2, 1)
    BY <1>3, DecodeArms, Zenon
  <2>2. \A x \in Seq(Byte) :
          Below(x, 2) /\ ~ Below(x, 1) => EncodeTo(x) = Shl2(x, b[1] % 4, 2)
    BY <1>3, Zenon DEF EncodeTo
  <2> QED
    BY <1>0, <2>1, <2>2, SoundShifted
<1>4. CASE b[1] % 4 = 2
  <2>1. DecodeFrom(w, b) = IF w = 1 THEN Refuse(1) ELSE DecodeShifted(w, b, 4, 2)
    BY <1>4, DecodeArms, Zenon
  <2>2. \A x \in Seq(Byte) :
          Below(x, 4) /\ ~ Below(x, 2) => EncodeTo(x) = Shl2(x, b[1] % 4, 4)
    <3>1. \A x \in Seq(Byte) : ~ Below(x, 2) => ~ Below(x, 1)
      BY BelowGrows
    <3> QED
      BY <1>4, <3>1, Zenon DEF EncodeTo
  <2>3. Sound(w, b, DecodeShifted(w, b, 4, 2))
    BY <1>0, <2>2, SoundShifted
  <2> QED
    BY <1>0, <2>1, <2>3, SoundError
<1>5. CASE b[1] % 4 = 3
  <2> DEFINE n == b[1] \div 4 + 4
  <2>1. DecodeFrom(w, b) = IF w < 4 \/ n > w THEN Refuse(1) ELSE DecodeBig(w, b, n)
    BY <1>5, DecodeArms, Zenon
  <2>2. n \in 4..67 /\ b[1] = 3 + (n - 4) * 4
    <3>1. ASSUME NEW a \in Byte, a % 4 = 3
          PROVE  LET m == a \div 4 + 4 IN m \in 4..67 /\ a = 3 + (m - 4) * 4
      BY <3>1 DEF Byte
    <3> QED
      BY <1>1, <1>5, <3>1, Zenon
  <2> HIDE DEF n
  <2>3. CASE w < 4 \/ n > w
    BY <1>0, <2>1, <2>3, SoundError
  <2>4. CASE ~ (w < 4 \/ n > w)
    <3>1. n <= w
      BY <1>0, <2>2, <2>4
    <3> QED
      BY <1>0, <2>1, <2>2, <2>4, <3>1, SoundBig, SMTT(30)
  <2> QED
    BY <2>3, <2>4
<1> QED
  BY <1>1, <1>2, <1>3, <1>4, <1>5

-----------------------------------------------------------------------------
(* The system.                                                              *)

\* What every state satisfies: the stream still starts with what the writer
\* put there, and the outcome is that of decode on the whole stream.
IInv ==
  /\ value # <<>> => \E w \in Widths : value \in Uint(w)
  /\ value # <<>> => Starts(wire, EncodeTo(value))
  /\ wire \in Seq(Byte)
  /\ \/ reader = 0 /\ outcome = Refuse(0)
     \/ reader \in Widths /\ wire # <<>> /\ outcome = DecodeFrom(reader, wire)

\* A value of one of the types: its bytes and their number.
LEMMA ValueBytes ==
  ASSUME NEW v, \E w \in Widths : v \in Uint(w)
  PROVE  v \in Seq(Byte) /\ Len(v) \in Widths /\ Len(v) <= 16 /\ v \in Uint(Len(v))
<1>1. PICK w \in Widths : v \in Uint(w)
  OBVIOUS
<1>2. w \in Nat /\ w <= 16
  BY DEF Widths
<1>3. v \in Seq(Byte) /\ Len(v) = w
  BY <1>1, <1>2, UintSeq
<1> QED
  BY <1>1, <1>2, <1>3

\* The invariant holds before anything is written.
LEMMA IInvInit == Init => IInv
BY EmptySeq DEF Init, IInv

\* Every step keeps it.
LEMMA IInvStep == IInv /\ [Next]_vars => IInv'
<1> SUFFICES ASSUME IInv, [Next]_vars PROVE IInv'
  OBVIOUS
<1>1. ASSUME Idle, NEW v \in Values, NEW t \in Tails, Write(v, t) PROVE IInv'
  <2> DEFINE e == EncodeTo(v)
  <2>1. \E w \in Widths : v \in Uint(w)
    BY ValuesAssumption
  <2>2. e \in Seq(Byte) /\ t \in Seq(Byte)
    BY <2>1, ValueBytes, EncodeBytes, StreamsAssumption
  <2>3. value' = v /\ wire' = e \o t /\ reader' = reader /\ outcome' = outcome
    BY <1>1 DEF Write
  <2> HIDE DEF e
  <2>4. wire' \in Seq(Byte) /\ Starts(wire', e)
    <3> DEFINE b == e \o t
    <3>1. b \in Seq(Byte) /\ Len(b) = Len(e) + Len(t) /\ \A i \in 1..Len(e) : b[i] = e[i]
      BY <2>2
    <3>2. Len(e) \in Nat /\ Len(t) \in Nat
      BY <2>2
    <3> HIDE DEF b
    <3>3. Starts(b, e)
      BY <3>1, <3>2 DEF Starts
    <3> QED
      BY <2>3, <3>1, <3>3 DEF b
  <2>5. reader = 0 /\ outcome = Refuse(0)
    BY <1>1 DEF IInv, Idle
  <2> QED
    BY <2>1, <2>3, <2>4, <2>5 DEF IInv, e
<1>2. ASSUME Idle, NEW b \in Wires, Receive(b) PROVE IInv'
  <2>1. b \in Seq(Byte)
    BY StreamsAssumption
  <2>2. value' = <<>> /\ wire' = b /\ reader' = 0 /\ outcome' = Refuse(0)
    BY <1>2 DEF IInv, Idle, Receive
  <2> QED
    BY <2>1, <2>2 DEF IInv
<1>3. ASSUME NEW w \in Widths, Read(w) PROVE IInv'
  BY <1>3 DEF IInv, Read
<1>4. CASE UNCHANGED vars
  BY <1>4 DEF IInv, vars
<1> QED
  BY <1>1, <1>2, <1>3, <1>4 DEF Next

\* The invariant holds in every state.
LEMMA IInvAlways == Spec => []IInv
BY IInvInit, IInvStep, PTL DEF Spec

\* What the reader gets is sound, whatever the stream holds.
LEMMA OutcomeSound ==
  ASSUME IInv
  PROVE  /\ reader = 0 => ~ outcome.ok /\ outcome.used = 0
         /\ reader # 0 => reader \in Widths /\ Sound(reader, wire, outcome)
<1>1. reader = 0 => ~ outcome.ok /\ outcome.used = 0
  <2>1. 0 \notin Widths
    BY DEF Widths
  <2>2. reader = 0 => outcome = Refuse(0)
    BY <2>1 DEF IInv
  <2> QED
    BY <2>2, Outcomes
<1>2. reader # 0 => reader \in Widths /\ Sound(reader, wire, outcome)
  BY SoundDecode DEF IInv
<1> QED
  BY <1>1, <1>2

-----------------------------------------------------------------------------
\* compact.rs, every decode arm: a decoded value has the width that was asked
\* for, and no more bytes are taken from the stream than it has.
THEOREM CompactTypeOK == Spec => []TypeOK
<1>1. IInv => TypeOK
  <2> SUFFICES ASSUME IInv PROVE TypeOK
    OBVIOUS
  <2>1. value # <<>> => Len(value) \in Widths /\ value \in Uint(Len(value))
    BY ValueBytes DEF IInv
  <2>2. wire \in Seq(Byte) /\ reader \in {0} \cup Widths
    BY DEF IInv
  <2>3. Len(wire) \in Nat
    BY <2>2
  <2>4. CASE reader = 0
    BY <2>1, <2>2, <2>3, <2>4, OutcomeSound DEF TypeOK
  <2>5. CASE reader # 0
    <3>1. outcome.used \in 0..Len(wire) /\ (outcome.ok => outcome.val \in Uint(reader))
      BY <2>5, OutcomeSound, Zenon DEF Sound
    <3> QED
      BY <2>1, <2>2, <3>1, Zenon DEF TypeOK
  <2> QED
    BY <2>4, <2>5
<1> QED
  BY <1>1, IInvAlways, PTL

\* compact.rs, each encode_to arm against each decode arm: every width reads
\* back what any width wrote, and refuses what it cannot hold.
THEOREM CompactRoundTrip == Spec => []RoundTrip
<1>1. IInv => RoundTrip
  <2> SUFFICES ASSUME IInv, value # <<>>, reader # 0 PROVE Back(value, reader, outcome)
    BY DEF RoundTrip, Back
  <2>1. value \in Seq(Byte) /\ Len(value) <= 16
    BY ValueBytes DEF IInv
  <2>2. /\ reader \in Widths /\ outcome = DecodeFrom(reader, wire)
        /\ wire \in Seq(Byte) /\ Starts(wire, EncodeTo(value))
    BY DEF IInv
  <2> QED
    BY <2>1, <2>2, ReadBack
<1> QED
  BY <1>1, IInvAlways, PTL

\* compact.rs, the out-of-range checks: whatever decode accepts is byte for
\* byte what encode_to writes for the decoded value.
THEOREM CompactCanonical == Spec => []Canonical
<1>1. IInv => Canonical
  BY OutcomeSound, Zenon DEF Canonical, Sound
<1> QED
  BY <1>1, IInvAlways, PTL

\* compact.rs, compact_len and the buffers of using_encoded: the announced
\* length is the number of bytes written, and these fit the buffer.
THEOREM CompactLengthExact == Spec => []LengthExact
<1>1. ASSUME NEW v \in Seq(Byte), Len(v) \in Widths
      PROVE  CompactLen(v) <= BufferCapacity(Len(v))
  <2>1. BytesNeeded(v) \in Nat /\ BytesNeeded(v) <= Len(v) /\ Len(v) \in Nat
    BY BytesNeededHighest
  <2>2. ASSUME NEW k \in Nat, Len(v) < k PROVE Below(v, k)
    <3>1. Digit(v, k) = 0
      BY <2>1, <2>2, Digits
    <3> QED
      BY <2>1, <2>2, <3>1 DEF Below
  <2>3. CASE Len(v) = 1
    <3>1. Below(v, 2)
      BY <2>2, <2>3
    <3> QED
      BY <2>3, <3>1 DEF CompactLen, BufferCapacity
  <2>4. CASE Len(v) = 2
    <3>1. Below(v, 4)
      BY <2>2, <2>4
    <3> QED
      BY <2>4, <3>1 DEF CompactLen, BufferCapacity
  <2>5. CASE Len(v) \in {4, 8, 16}
    <3>1. BufferCapacity(Len(v)) = Len(v) + 1
      <4>1. BufferCapacity(4) = 4 + 1 /\ BufferCapacity(8) = 8 + 1 /\ BufferCapacity(16) = 16 + 1
        BY DEF BufferCapacity
      <4> QED
        BY <2>5, <4>1, Zenon
    <3>2. CompactLen(v) \in {1, 2, 4} \/ CompactLen(v) = BytesNeeded(v) + 1
      BY DEF CompactLen
    <3>3. ASSUME NEW l \in {4, 8, 16}, NEW n \in Nat, n <= l, NEW c, c \in {1, 2, 4} \/ c = n + 1
          PROVE  c <= l + 1
      BY <3>3
    <3> QED
      BY <2>1, <2>5, <3>1, <3>2, <3>3, Zenon
  <2> QED
    BY <1>1, <2>3, <2>4, <2>5 DEF Widths
<1>2. IInv => LengthExact
  <2> SUFFICES ASSUME IInv, value # <<>>
               PROVE  /\ Len(EncodeTo(value)) = CompactLen(value)
                      /\ CompactLen(value) <= BufferCapacity(Len(value))
    BY DEF LengthExact
  <2>1. value \in Seq(Byte) /\ Len(value) \in Widths /\ Len(value) <= 16
    BY ValueBytes DEF IInv
  <2> QED
    BY <1>1, <2>1, EncodeBytes
<1> QED
  BY <1>2, IInvAlways, PTL
=============================================================================
