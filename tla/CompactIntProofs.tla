--------------------------- MODULE CompactIntProofs ---------------------------
(***************************************************************************)
(* Reading the length of a collection, a compact u32, from any bytes.      *)
(***************************************************************************)
EXTENDS CompactInt, SequenceTheorems, TLAPS

\* A digit of a sequence of numbers is a number.
LEMMA DigitNat ==
  ASSUME NEW x \in Seq(Nat), NEW i
  PROVE  Digit(x, i) \in Nat
<1>1. i \in 1..Len(x) => x[i] \in Nat
  BY ElementOfSeq
<1> QED
  BY <1>1, Zenon DEF Digit

\* Four digits make a number.
LEMMA U32Nat ==
  ASSUME NEW v, \A i \in 1..4 : v[i] \in Nat
  PROVE  U32ToNat(v) \in Nat
<1> DEFINE a == v[1]
           b == v[2]
           c == v[3]
           d == v[4]
<1>1. a \in Nat /\ b \in Nat /\ c \in Nat /\ d \in Nat
  OBVIOUS
<1>2. U32ToNat(v) = a + 256 * b + 65536 * c + 16777216 * d
  BY DEF U32ToNat
<1> HIDE DEF a, b, c, d
<1> QED
  BY <1>1, <1>2

\* Undoing the shift of a compact integer gives numbers.
LEMMA Shr2Nat ==
  ASSUME NEW p \in Seq(Nat), NEW k \in Nat
  PROVE  Shr2(p, k) \in Seq(Nat)
<1>1. \A c, d \in Nat : c \div 4 + (d % 4) * 64 \in Nat
  OBVIOUS
<1>2. \A i \in 1..k : Digit(p, i) \div 4 + (Digit(p, i+1) % 4) * 64 \in Nat
  BY <1>1, DigitNat, Zenon
<1>3. Shr2(p, k) \in [1..k -> Nat]
  BY <1>2, Zenon DEF Shr2
<1> QED
  BY <1>3

\* What reading a compact u32 from the bytes b may return: it takes no more
\* bytes than there are, and an accepted value is a number.
LenFrom(b, r) ==
  /\ r.ok \in BOOLEAN /\ r.short \in BOOLEAN
  /\ r.used \in 0..Len(b)
  /\ r.ok => U32ToNat(r.val) \in Nat

\* The three outcomes of Compact<u32>::decode are outcomes in that sense.
LEMMA LenOutcomes ==
  ASSUME NEW b, NEW n \in 0..Len(b), NEW x \in Seq(Nat)
  PROVE  /\ LenFrom(b, Short(n)) /\ LenFrom(b, Refuse(n))
         /\ LenFrom(b, Accept([i \in 1..4 |-> Digit(x, i)], n))
<1> DEFINE v == [i \in 1..4 |-> Digit(x, i)]
<1>1. \A i \in 1..4 : v[i] \in Nat
  BY DigitNat, Zenon
<1> HIDE DEF v
<1>2. U32ToNat(v) \in Nat
  BY <1>1, U32Nat
<1>3. LenFrom(b, Accept(v, n))
  BY <1>2 DEF LenFrom, Accept
<1>4. LenFrom(b, Short(n)) /\ LenFrom(b, Refuse(n))
  BY DEF LenFrom, Short, Refuse
<1> QED
  BY <1>3, <1>4 DEF v

\* Compact<u32>::decode on any bytes.
LEMMA LenRead ==
  ASSUME NEW b \in Seq(Byte)
  PROVE  LenFrom(b, DecodeFrom(4, b))
<1>0. /\ Len(b) \in Nat /\ b \in Seq(Nat) /\ \A i \in 1..Len(b) : b[i] \in Nat
      /\ b # <<>> => Len(b) \in Nat \ {0}
  <2>1. Byte \subseteq Nat
    BY DEF Byte
  <2>2. b \in Seq(Nat)
    BY <2>1, SeqMonotonic, Zenon
  <2> QED
    BY <2>2, ElementOfSeq, EmptySeq
<1>1. ASSUME b # <<>>, NEW k \in {2, 4}, NEW min PROVE LenFrom(b, DecodeShifted(4, b, k, min))
  <2>0. k \in Nat /\ 1 \in 0..Len(b)
    BY <1>0, <1>1
  <2>1. CASE Len(b) < k
    BY <1>0, <2>0, <2>1, LenOutcomes, Zenon DEF DecodeShifted
  <2>2. CASE ~(Len(b) < k)
    <3>1. k \in 0..Len(b) /\ k \in Int /\ \A i \in 1..k : b[i] \in Nat
      BY <1>0, <2>0, <2>2
    <3>2. SubSeq(b, 1, k) \in Seq(Nat)
      BY <3>1, SubSeqProperties
    <3>3. Shr2(SubSeq(b, 1, k), k) \in Seq(Nat)
      BY <2>0, <3>2, Shr2Nat, Zenon
    <3> QED
      BY <2>2, <3>1, <3>3, LenOutcomes, Zenon DEF DecodeShifted
  <2> QED
    BY <2>1, <2>2
<1>2. ASSUME b # <<>> PROVE LenFrom(b, DecodeBig(4, b, 4))
  <2>0. 1 \in 0..Len(b)
    BY <1>0, <1>2
  <2>1. CASE Len(b) < 5
    <3>1. DecodeBig(4, b, 4) = Short(1)
      BY <2>1 DEF DecodeBig
    <3> QED
      BY <1>0, <2>0, <3>1, LenOutcomes, Zenon
  <2>2. CASE ~(Len(b) < 5)
    <3>1. 5 \in 0..Len(b) /\ \A i \in 2..5 : b[i] \in Nat
      BY <1>0, <2>2
    <3>2. SubSeq(b, 2, 5) \in Seq(Nat)
      BY <3>1, SubSeqProperties
    <3>3. 4 + 1 = 5
      OBVIOUS
    <3> QED
      BY <2>2, <3>1, <3>2, <3>3, LenOutcomes, Zenon DEF DecodeBig
  <2> QED
    BY <2>1, <2>2
<1>3. ASSUME b # <<>>
      PROVE  /\ LenFrom(b, Refuse(1))
             /\ LenFrom(b, Accept([i \in 1..4 |-> IF i = 1 THEN b[1] \div 4 ELSE 0], 1))
  <2>1. 1 \in 0..Len(b) /\ <<b[1] \div 4>> \in Seq(Nat) /\ Len(<<b[1] \div 4>>) = 1
    BY <1>0, <1>3
  <2>2. [i \in 1..4 |-> Digit(<<b[1] \div 4>>, i)] = [i \in 1..4 |-> IF i = 1 THEN b[1] \div 4 ELSE 0]
    BY <2>1 DEF Digit
  <2> QED
    BY <2>1, <2>2, LenOutcomes, Zenon
<1>4. CASE b = <<>>
  <2>1. 0 \in 0..Len(b) /\ b \in Seq(Nat)
    BY <1>0
  <2> QED
    BY <1>4, <2>1, LenOutcomes, Zenon DEF DecodeFrom
<1>5. CASE b # <<>>
  <2>1. b[1] \in Nat
    BY <1>0, <1>5
  <2>2. b[1] % 4 \in 0..3 /\ (~(b[1] \div 4 + 4 > 4) => b[1] \div 4 + 4 = 4)
    BY <2>1
  <2> QED
    BY <1>1, <1>2, <1>3, <1>5, <2>2 DEF DecodeFrom
<1> QED
  BY <1>4, <1>5
=============================================================================
