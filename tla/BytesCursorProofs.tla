-------------------------- MODULE BytesCursorProofs ---------------------------
(***************************************************************************)
(* BytesCursor implements SliceInput, for all inputs and sizes of reads.   *)
(***************************************************************************)
EXTENDS BytesCursor, CompactIntProofs

\* A part of a part of a sequence is a part of the sequence.
LEMMA PartOfPart ==
  ASSUME NEW S, NEW s \in Seq(S), NEW a \in Nat, NEW b \in a..Len(s),
         NEW c \in Nat, NEW d \in c..(b - a)
  PROVE  SubSeq(SubSeq(s, a + 1, b), c + 1, d) = SubSeq(s, a + c + 1, a + d)
<1> DEFINE t == SubSeq(s, a + 1, b)
<1>1. t \in Seq(S) /\ Len(t) = b - a /\ \A i \in 1..(b - a) : t[i] = s[a + i]
  OBVIOUS
<1>2. DOMAIN SubSeq(s, a + c + 1, a + d) = 1..(d - c)
      /\ \A i \in 1..(d - c) : SubSeq(s, a + c + 1, a + d)[i] = s[a + c + i]
  OBVIOUS
<1> HIDE DEF t
<1>3. DOMAIN SubSeq(t, c + 1, d) = 1..(d - c)
      /\ \A i \in 1..(d - c) : SubSeq(t, c + 1, d)[i] = t[c + i]
  BY <1>1
<1>4. \A i \in 1..(d - c) : t[c + i] = s[a + c + i]
  BY <1>1
<1>5. SubSeq(t, c + 1, d) = [i \in 1..(d - c) |-> s[a + c + i]]
  BY <1>1, <1>3, <1>4
<1>6. SubSeq(s, a + c + 1, a + d) = [i \in 1..(d - c) |-> s[a + c + i]]
  BY <1>2
<1> QED
  BY <1>5, <1>6 DEF t

\* The place of the cursor in the allocation.
Place == bytes.at + position

\* What the type invariant says of the place, and of the unread bytes.
LEMMA PlaceFacts ==
  ASSUME TypeOK
  PROVE  /\ Place \in 0..Len(data) /\ Len(data) \in Nat
         /\ bytes.at \in Nat /\ bytes.len \in Nat /\ position \in Nat
         /\ bytes.len - position = Len(data) - Place
         /\ Unread = SubSeq(data, Place + 1, Len(data))
         /\ Unread \in Seq(Byte) /\ Len(Unread) = Len(data) - Place
<1>1. /\ data \in Seq(Byte) /\ bytes.at \in Nat /\ bytes.len \in Nat
      /\ bytes.at + bytes.len = Len(data) /\ position \in 0..bytes.len
  BY DEF TypeOK, Windows
<1>2. Len(data) \in Nat /\ Place \in 0..Len(data) /\ bytes.len - position = Len(data) - Place
  BY <1>1 DEF Place
<1>3. Unread = SubSeq(data, Place + 1, Len(data))
  BY <1>1, Zenon DEF Unread, Place
<1>4. \A i \in (Place + 1)..Len(data) : data[i] \in Byte
  BY <1>1, <1>2
<1>5. /\ SubSeq(data, Place + 1, Len(data)) \in Seq(Byte)
      /\ Len(SubSeq(data, Place + 1, Len(data))) = Len(data) - Place
  BY <1>2, <1>4, SubSeqProperties
<1> QED
  BY <1>1, <1>2, <1>3, <1>5

\* The length in front of a Bytes: it is read from the unread bytes, takes no
\* more than there are, and is a number when it is accepted.
LEMMA LengthFacts ==
  ASSUME TypeOK
  PROVE  /\ Length.ok \in BOOLEAN
         /\ Length.used \in 0..(Len(data) - Place)
         /\ Length.ok => U32ToNat(Length.val) \in Nat
BY PlaceFacts, LenRead DEF Length, LenFrom

-----------------------------------------------------------------------------
\* Every call moves the place forward by some n, keeps the allocation and the
\* end of the window, and gives away nothing or the last m of these n bytes.
Moves(n, m) ==
  /\ data' = data
  /\ bytes' \in Windows /\ bytes'.at + bytes'.len = Len(data)
  /\ position' \in 0..bytes'.len
  /\ Place' = Place + n
  /\ ret' \in [ok : BOOLEAN, is : Seq(Nat)]
  /\ \/ given' = given
     \/ given' = Append(given, Window(Place + n - m, m))

\* An error is a result.
LEMMA ErrType == Err \in [ok : BOOLEAN, is : Seq(Nat)] /\ Ok(<<>>) \in [ok : BOOLEAN, is : Seq(Nat)]
BY DEF Err, Ok

\* What was given away, as the slice would have it.
Strings == [i \in DOMAIN given |-> Slice(given[i])]

\* A call that moves keeps the type invariant and the order of what was given.
LEMMA MovesInv ==
  ASSUME TypeOK, GivenInOrder, NEW n \in 0..(Len(data) - Place), NEW m \in 0..n, Moves(n, m)
  PROVE  TypeOK' /\ GivenInOrder'
<1> DEFINE w == Window(Place + n - m, m)
<1>1. Place \in Nat /\ Len(data) \in Nat /\ given \in Seq(Windows) /\ Place' = Place + n
  BY PlaceFacts DEF Moves, TypeOK
<1>2. w \in Windows /\ w.at = Place + n - m /\ w.len = m /\ w.at + w.len = Place'
  BY <1>1 DEF Window, Windows
<1> HIDE DEF w
<1>3. TypeOK'
  <2>1. given' \in Seq(Windows)
    <3>1. given' = given \/ given' = Append(given, w)
      BY DEF Moves, w
    <3> QED
      BY <1>1, <1>2, <3>1, AppendProperties, SMTT(30)
  <2> QED
    BY <2>1 DEF Moves, TypeOK
<1>4. \A i \in DOMAIN given : given[i].at \in Nat /\ given[i].len \in Nat
                              /\ given[i].at + given[i].len <= Place
  <2>1. \A i \in DOMAIN given : given[i] \in Windows
    BY <1>1
  <2>2. \A i \in DOMAIN given : given[i].at \in Nat /\ given[i].len \in Nat
    BY <2>1 DEF Windows
  <2>3. \A i \in DOMAIN given : given[i].at + given[i].len <= Place
    BY Zenon DEF GivenInOrder, Place
  <2> QED
    BY <2>2, <2>3
<1>5. ASSUME given' = given PROVE GivenInOrder'
  <2>1. \A i \in DOMAIN given' : given'[i].at + given'[i].len <= Place'
    BY <1>1, <1>4, <1>5
  <2>2. \A i \in DOMAIN given' : \A j \in DOMAIN given' :
          i < j => given'[i].at + given'[i].len <= given'[j].at
    BY <1>5, Zenon DEF GivenInOrder
  <2> QED
    BY <2>1, <2>2, Zenon DEF GivenInOrder, Place
<1>6. ASSUME given' = Append(given, w) PROVE GivenInOrder'
  <2>1. DOMAIN given' = 1..(Len(given) + 1) /\ DOMAIN given = 1..Len(given) /\ Len(given) \in Nat
        /\ (\A i \in 1..Len(given) : given'[i] = given[i]) /\ given'[Len(given) + 1] = w
    BY <1>1, <1>6
  <2>2. ASSUME NEW i \in DOMAIN given'
        PROVE  given'[i].at + given'[i].len <= Place'
    <3>1. CASE i \in 1..Len(given)
      BY <1>1, <1>4, <2>1, <3>1
    <3>2. CASE i = Len(given) + 1
      BY <1>1, <1>2, <2>1, <3>2
    <3> QED
      BY <2>1, <2>2, <3>1, <3>2
  <2>3. ASSUME NEW i \in DOMAIN given', NEW j \in DOMAIN given', i < j
        PROVE  given'[i].at + given'[i].len <= given'[j].at
    <3>0. i \in 1..Len(given)
      BY <2>1, <2>3
    <3>1. CASE j \in 1..Len(given)
      BY <2>1, <2>3, <3>0, <3>1 DEF GivenInOrder
    <3>2. CASE j = Len(given) + 1
      BY <1>1, <1>2, <1>4, <2>1, <3>0, <3>2, SMTT(30)
    <3> QED
      BY <2>1, <2>3, <3>1, <3>2
  <2> QED
    BY <2>2, <2>3, Zenon DEF GivenInOrder, Place
<1> QED
  BY <1>3, <1>5, <1>6 DEF Moves, w

\* Seen from the slice, such a call drops n bytes of the rest, and the Bytes
\* that it gives is the last m of them.
LEMMA MovesRest ==
  ASSUME TypeOK, NEW n \in 0..(Len(data) - Place), NEW m \in 0..n, Moves(n, m)
  PROVE  /\ Unread' = SubSeq(Unread, n + 1, Len(Unread))
         /\ given' = given => Strings' = Strings
         /\ given' = Append(given, Window(Place + n - m, m)) =>
              Strings' = Append(Strings, SubSeq(Unread, n - m + 1, n))
<1> DEFINE w == Window(Place + n - m, m)
           e == Len(data)
<1>1. /\ Place \in 0..e /\ e \in Nat /\ Unread = SubSeq(data, Place + 1, e)
      /\ Len(Unread) = e - Place /\ data \in Seq(Byte)
  BY PlaceFacts DEF TypeOK
<1>2. Unread' = SubSeq(data, Place + n + 1, e)
  <2>1. Place' = bytes'.at + position'
    BY DEF Place
  <2>2. Unread' = SubSeq(data', Place' + 1, bytes'.at + bytes'.len)
    BY <2>1 DEF Unread
  <2> QED
    BY <2>2, Zenon DEF Moves
<1>3. SubSeq(Unread, n + 1, Len(Unread)) = SubSeq(data, Place + n + 1, e)
  <2>1. Len(Unread) \in n..(e - Place) /\ Place + Len(Unread) = e /\ Place \in Nat /\ e \in Place..Len(data)
    BY <1>1
  <2> QED
    BY <1>1, <2>1, PartOfPart
<1>4. given' = given => Strings' = Strings
  BY DEF Moves, Strings, Slice
<1>5. ASSUME given' = Append(given, w)
      PROVE  Strings' = Append(Strings, SubSeq(Unread, n - m + 1, n))
  <2>1. given \in Seq(Windows) /\ Len(given) \in Nat /\ DOMAIN given = 1..Len(given)
    BY DEF TypeOK
  <2>2. DOMAIN given' = 1..(Len(given) + 1)
        /\ (\A i \in 1..Len(given) : given'[i] = given[i]) /\ given'[Len(given) + 1] = w
    BY <1>5, <2>1
  <2>3. w.at = Place + (n - m) /\ w.at + w.len = Place + n
    BY <1>1 DEF Window
  <2>4. SubSeq(data, w.at + 1, w.at + w.len) = SubSeq(Unread, n - m + 1, n)
    <3>1. n - m \in Nat /\ n \in (n - m)..(e - Place) /\ Place \in Nat /\ e \in Place..Len(data)
      BY <1>1
    <3>2. SubSeq(Unread, n - m + 1, n) = SubSeq(data, Place + (n - m) + 1, Place + n)
      BY <1>1, <3>1, PartOfPart
    <3> QED
      BY <2>3, <3>2, Zenon
  <2> HIDE DEF w
  <2>5. Strings' = [i \in 1..(Len(given) + 1) |-> SubSeq(data, given'[i].at + 1, given'[i].at + given'[i].len)]
    BY <2>2 DEF Strings, Slice, Moves
  <2>6. Strings = [i \in 1..Len(given) |-> SubSeq(data, given[i].at + 1, given[i].at + given[i].len)]
    BY <2>1 DEF Strings, Slice
  <2> DEFINE x == SubSeq(Unread, n - m + 1, n)
             str(g) == SubSeq(data, g.at + 1, g.at + g.len)
             old == Strings
             new == Strings'
             S == {old[i] : i \in 1..Len(given)} \cup {x}
  <2>7. str(w) = x /\ \A i \in 1..(Len(given) + 1) : new[i] = str(given'[i])
    BY <2>4, <2>5, Zenon
  <2>8. old \in [1..Len(given) -> S] /\ x \in S /\ \A i \in 1..Len(given) : old[i] = str(given[i])
    BY <2>6, Zenon
  <2>9. DOMAIN new = 1..(Len(given) + 1) /\ new = [i \in 1..(Len(given) + 1) |-> new[i]]
    BY <2>5, Zenon
  <2> HIDE DEF x, old, new, S, str
  <2>10. \A i \in 1..Len(given) : new[i] = old[i]
    BY <2>1, <2>2, <2>7, <2>8
  <2>11. new[Len(given) + 1] = x
    BY <2>1, <2>2, <2>7
  <2>12. old \in Seq(S) /\ Len(old) = Len(given)
    BY <2>1, <2>8
  <2> DEFINE app == Append(old, x)
  <2>14. app \in Seq(S) /\ Len(app) = Len(given) + 1
    BY <2>8, <2>12, AppendProperties
  <2>15. app = [i \in 1..(Len(given) + 1) |-> app[i]]
    <3> HIDE DEF app
    <3>1. app \in [1..(Len(given) + 1) -> S]
      BY <2>14
    <3> QED
      BY <3>1, Zenon
  <2>16. app[Len(given) + 1] = x /\ \A i \in 1..Len(given) : app[i] = old[i]
    BY <2>8, <2>12, AppendProperties
  <2>17. \A i \in 1..(Len(given) + 1) : new[i] = app[i]
    <3> HIDE DEF app
    <3>1. \A i \in 1..(Len(given) + 1) : i \in 1..Len(given) \/ i = Len(given) + 1
      BY <2>1
    <3> QED
      BY <3>1, <2>10, <2>11, <2>16
  <2>13. new = Append(old, x)
    <3> HIDE DEF app
    <3>1. new = app
      BY <2>9, <2>15, <2>17, Zenon
    <3> QED
      BY <3>1 DEF app
  <2> QED
    BY <2>13 DEF x, old, new
<1> QED
  BY <1>2, <1>3, <1>4, <1>5, Zenon

-----------------------------------------------------------------------------
\* remaining_len moves nothing.
LEMMA RemainingLenStep ==
  ASSUME TypeOK, RemainingLen
  PROVE  Moves(0, 0) /\ Refines!RemainingLen
<1>1. /\ bytes.len - position \in Nat /\ bytes.len - position = Len(Unread) /\ Place \in Nat
      /\ bytes.at + bytes.len = Len(data) /\ bytes \in Windows /\ position \in 0..bytes.len
  BY PlaceFacts DEF TypeOK
<1>2. data' = data /\ bytes' = bytes /\ position' = position /\ given' = given
      /\ ret' = Ok(<<bytes.len - position>>)
  BY DEF RemainingLen
<1>3. <<bytes.len - position>> \in Seq(Nat)
  BY <1>1
<1>4. ret' \in [ok : BOOLEAN, is : Seq(Nat)]
  BY <1>2, <1>3 DEF Ok
<1>5. Place' = Place + 0
  BY <1>1, <1>2 DEF Place
<1>6. Moves(0, 0)
  BY <1>1, <1>2, <1>4, <1>5 DEF Moves
<1>7. Unread' = Unread /\ Strings' = Strings
  BY <1>2 DEF Unread, Strings, Slice
<1> QED
  BY <1>1, <1>2, <1>6, <1>7, Zenon DEF Refines!RemainingLen, Refines!Ok, Ok, Strings

\* read moves by the size of the buffer, or fails and moves nothing.
LEMMA ReadStep ==
  ASSUME TypeOK, NEW k \in Sizes, Read(k)
  PROVE  (\E n \in 0..(Len(data) - Place) : Moves(n, 0)) /\ Refines!Read(k)
<1>1. /\ bytes.len - position = Len(Unread) /\ Len(Unread) = Len(data) - Place
      /\ bytes.at \in Nat /\ position \in Nat
      /\ Unread = SubSeq(data, Place + 1, Len(data)) /\ Place \in 0..Len(data) /\ Len(data) \in Nat
      /\ bytes.at + bytes.len = Len(data) /\ bytes \in Windows /\ position \in 0..bytes.len
      /\ data \in Seq(Byte) /\ bytes.len \in Nat
  BY PlaceFacts DEF TypeOK
<1>2. data' = data /\ bytes' = bytes /\ given' = given /\ k \in Nat
  BY SizesAssumption DEF Read
<1>3. Strings' = Strings
  BY <1>2 DEF Strings, Slice
<1>4. CASE k > bytes.len - position
  <2>1. position' = position /\ ret' = Err
    BY <1>1, <1>2, <1>4, SMTT(30) DEF Read
  <2>2. Place' = Place + 0 /\ Unread' = Unread
    BY <1>1, <1>2, <2>1 DEF Place, Unread
  <2>3. Moves(0, 0)
    BY <1>1, <1>2, <2>1, <2>2, ErrType DEF Moves
  <2>4. Refines!Read(k)
    BY <1>1, <1>3, <1>4, <2>1, <2>2 DEF Refines!Read, Refines!Err, Err, Strings
  <2> QED
    BY <1>1, <2>3, <2>4
<1>5. CASE k <= bytes.len - position
  <2> DEFINE x == SubSeq(data, bytes.at + position + 1, bytes.at + position + k)
  <2>1. position' = position + k /\ ret' = Ok(x)
    BY <1>1, <1>2, <1>5 DEF Read
  <2>9. x = SubSeq(data, Place + 1, Place + k)
    BY DEF Place
  <2> HIDE DEF x
  <2>2. x = SubSeq(Unread, 1, k)
    <3>1. k \in 0..(Len(data) - Place) /\ Len(data) \in Place..Len(data) /\ Place \in Nat
      BY <1>1, <1>2, <1>5
    <3>2. SubSeq(SubSeq(data, Place + 1, Len(data)), 0 + 1, k) = SubSeq(data, Place + 0 + 1, Place + k)
      BY <1>1, <3>1, PartOfPart
    <3>3. Place + 0 + 1 = Place + 1 /\ 0 + 1 = 1
      BY <3>1
    <3>4. SubSeq(Unread, 1, k) = SubSeq(data, Place + 1, Place + k)
      BY <1>1, <3>2, <3>3, Zenon
    <3> QED
      BY <2>9, <3>4, Zenon
  <2>3. x \in Seq(Nat)
    <3>1. \A i \in (Place + 1)..(Place + k) : data[i] \in Nat
      <4>1. \A i \in (Place + 1)..(Place + k) : i \in 1..Len(data)
        BY <1>1, <1>2, <1>5
      <4>2. \A i \in 1..Len(data) : data[i] \in Byte
        BY <1>1
      <4>3. \A b \in Byte : b \in Nat
        BY DEF Byte
      <4> QED
        BY <4>1, <4>2, <4>3, Zenon
    <3>2. Place + 1 \in Int /\ Place + k \in Int
      BY <1>1, <1>2
    <3>3. SubSeq(data, Place + 1, Place + k) \in Seq(Nat)
      BY <3>1, <3>2, SubSeqProperties, ZenonT(60)
    <3> QED
      BY <2>9, <3>3, Zenon
  <2>4. Place' = Place + k /\ ret' \in [ok : BOOLEAN, is : Seq(Nat)]
    BY <1>1, <1>2, <2>1, <2>3, SMTT(30) DEF Place, Ok
  <2>5. Moves(k, 0) /\ k \in 0..(Len(data) - Place)
    BY <1>1, <1>2, <1>5, <2>1, <2>4 DEF Moves
  <2>6. Unread' = SubSeq(Unread, k + 1, Len(Unread))
    <3>1. 0 \in 0..k
      BY <1>2
    <3> QED
      BY <2>5, <3>1, MovesRest
  <2>7. k <= Len(Unread)
    BY <1>1, <1>5
  <2>8. Refines!Read(k)
    BY <1>3, <2>1, <2>2, <2>6, <2>7 DEF Refines!Read, Refines!Ok, Refines!Drop, Ok, Strings
  <2> QED
    BY <2>5, <2>8
<1> QED
  BY <1>1, <1>2, <1>4, <1>5

\* The slice reads a length as the cursor does.
LEMMA SameLength ==
  /\ Refines!DecodeFrom(4, Unread) = Length
  /\ \A v : Refines!U32ToNat(v) = U32ToNat(v)
<1>1. Refines!DecodeFrom(4, Unread) = Length
  BY Zenon DEF Length, DecodeFrom, DecodeShifted, DecodeBig, Below, Shr2, Digit, Accept, Refuse, Short,
     Refines!DecodeFrom, Refines!DecodeShifted, Refines!DecodeBig, Refines!Below, Refines!Shr2,
     Refines!Digit, Refines!Accept, Refines!Refuse, Refines!Short
<1>2. \A v : Refines!U32ToNat(v) = U32ToNat(v)
  BY SMT DEF U32ToNat, Refines!U32ToNat
<1> QED
  BY <1>1, <1>2

\* A decode of Bytes that fails takes the bytes of its length from the slice.
LEMMA FailedDecode ==
  ASSUME TypeOK, Moves(Length.used, 0), given' = given, ret' = Err,
         ~(Length.ok /\ U32ToNat(Length.val) <= Len(Unread) - Length.used)
  PROVE  Refines!DecodeBytes
<1>1. Length.used \in 0..(Len(data) - Place) /\ 0 \in 0..Length.used
  BY LengthFacts, PlaceFacts
<1>2. Unread' = SubSeq(Unread, Length.used + 1, Len(Unread)) /\ Strings' = Strings
  BY <1>1, MovesRest
<1> QED
  BY <1>2, SameLength, Zenon DEF Refines!DecodeBytes, Refines!Drop, Refines!Err, Err, Strings

\* One that succeeds takes the length and that many bytes, and gives these.
LEMMA GoodDecode ==
  ASSUME TypeOK, NEW m, m = U32ToNat(Length.val), Length.ok, m <= Len(Unread) - Length.used,
         Moves(Length.used + m, m), ret' = Ok(<<>>),
         given' = Append(given, Window(Place + Length.used, m))
  PROVE  Refines!DecodeBytes
<1> DEFINE u == Length.used
           n == u + m
<1>0. /\ u \in 0..(Len(data) - Place) /\ m \in Nat /\ Place \in Nat /\ Len(data) \in Nat
      /\ m <= Len(data) - Place - u
  BY LengthFacts, PlaceFacts
<1> HIDE DEF u
<1>1. /\ n \in 0..(Len(data) - Place) /\ m \in 0..n
      /\ Place + n - m = Place + u /\ n - m + 1 = u + 1
  BY <1>0
<1> HIDE DEF n
<1>2. Moves(n, m)
  BY DEF n, u
<1>3. given' = Append(given, Window(Place + n - m, m))
  BY <1>1, Zenon DEF u
<1>4. /\ Unread' = SubSeq(Unread, n + 1, Len(Unread))
      /\ Strings' = Append(Strings, SubSeq(Unread, n - m + 1, n))
  BY <1>1, <1>2, <1>3, MovesRest, Zenon
<1>5. Strings' = Append(Strings, SubSeq(Unread, Length.used + 1, n))
  BY <1>1, <1>4, Zenon DEF u
<1> QED
  BY <1>4, <1>5, SameLength, Zenon
  DEF Refines!DecodeBytes, Refines!Drop, Refines!Ok, Ok, Strings, n, u

\* What both ways to decode a Bytes do, as moves.
LEMMA DecodeMoves ==
  ASSUME TypeOK, ScaleInternalDecodeBytes \/ DecodeCopied
  PROVE  LET m == U32ToNat(Length.val)
             fits == Length.ok /\ m <= Len(Unread) - Length.used
         IN \/ ~fits /\ Moves(Length.used, 0) /\ given' = given /\ ret' = Err
            \/ /\ fits /\ Moves(Length.used + m, m) /\ ret' = Ok(<<>>)
               /\ given' = Append(given, Window(Place + Length.used, m))
<1> DEFINE u == Length.used
           m == U32ToNat(Length.val)
           fits == Length.ok /\ m <= Len(Unread) - u
<1>1. /\ u \in 0..(Len(data) - Place) /\ Length.ok \in BOOLEAN /\ (Length.ok => m \in Nat)
      /\ Len(Unread) = Len(data) - Place /\ bytes.len - position = Len(data) - Place
      /\ bytes.at \in Nat /\ bytes.len \in Nat /\ position \in Nat /\ Len(data) \in Nat
      /\ Place = bytes.at + position /\ bytes.at + bytes.len = Len(data) /\ bytes \in Windows
      /\ position \in 0..bytes.len
  BY LengthFacts, PlaceFacts DEF TypeOK, Place
<1>2. Place' = bytes'.at + position'
  BY DEF Place
<1> DEFINE at == bytes.at
           len == bytes.len
           e == Len(data)
<1>a. /\ u \in 0..(e - Place) /\ at \in Nat /\ len \in Nat /\ position \in 0..len /\ e \in Nat
      /\ Place \in Nat /\ Place = at + position /\ at + len = e /\ Len(Unread) = e - Place
  BY <1>1, SMTT(30)
<1>b. Length.ok => m \in Nat
  BY <1>1
<1>c. fits <=> Length.ok /\ m <= e - Place - u
  BY <1>a, <1>b DEF e
<1> HIDE DEF u, m, at, len, e, fits
<1>3. CASE LengthFails
  <2>1. data' = data /\ bytes' = bytes /\ given' = given /\ position' = position + u /\ ret' = Err
        /\ ~Length.ok
    BY <1>3 DEF LengthFails, u
  <2>2. Place' = Place + u /\ position' \in 0..bytes'.len
    BY <1>1, <1>2, <2>1, SMTT(30)
  <2>3. Moves(u, 0)
    BY <1>1, <2>1, <2>2, ErrType DEF Moves
  <2> QED
    BY <2>1, <2>3 DEF u, m, fits
<1>4. CASE Length.ok /\ ScaleInternalDecodeBytes
  <2> DEFINE w == Advanced(u)
  <2>1. /\ w.at = Place + u /\ w.len = Len(data) - (Place + u)
        /\ w.at \in Nat /\ w.len \in Nat /\ w \in Windows
    <3> HIDE DEF w
    <3>3. at + (position + u) = Place + u
      BY <1>a
    <3>4. len - (position + u) = e - (Place + u)
      BY <1>a
    <3>5. Place + u \in Nat
      BY <1>a
    <3>6. e - (Place + u) \in Nat
      BY <1>a
    <3>1. bytes.at + (position + u) = Place + u /\ bytes.len - (position + u) = Len(data) - (Place + u)
          /\ Place + u \in Nat /\ Len(data) - (Place + u) \in Nat
      BY <3>3, <3>4, <3>5, <3>6 DEF at, len, e
    <3> QED
      BY <3>1 DEF Advanced, Window, Windows, w
  <2>2. /\ data' = data /\ position' = 0
        /\ \/ m > w.len /\ bytes' = w /\ ret' = Err /\ given' = given
           \/ m <= w.len /\ SplitTo(w, m)
    BY <1>4 DEF ScaleInternalDecodeBytes, LengthFails, u, m
  <2> HIDE DEF w
  <2>3. CASE m > w.len /\ bytes' = w /\ ret' = Err /\ given' = given
    <3>0. w.at = Place + u /\ w.len = e - (Place + u) /\ w.len \in Nat /\ m \in Nat
      BY <1>b, <1>4, <2>1 DEF e
    <3>1. ~fits
      BY <1>a, <1>c, <2>3, <3>0
    <3>3. Place' = Place + u /\ position' \in 0..bytes'.len
      BY <1>a, <1>2, <2>2, <2>3, <3>0
    <3>4. bytes'.at + bytes'.len = Len(data)
      BY <1>a, <2>3, <3>0 DEF e
    <3>2. Moves(u, 0)
      BY <2>1, <2>2, <2>3, <3>3, <3>4, ErrType DEF Moves
    <3> QED
      BY <2>3, <3>1, <3>2 DEF u, m, fits
  <2>4. CASE m <= w.len /\ SplitTo(w, m)
    <3>1. bytes' = Window(w.at + m, w.len - m) /\ given' = Append(given, Window(w.at, m)) /\ ret' = Ok(<<>>)
      BY <2>4 DEF SplitTo
    <3>2. bytes'.at = w.at + m /\ bytes'.len = w.len - m
      BY <3>1 DEF Window
    <3>0. w.at = Place + u /\ w.len = e - (Place + u) /\ w.len \in Nat /\ m \in Nat
      BY <1>b, <1>4, <2>1 DEF e
    <3>6. fits
      BY <1>a, <1>c, <1>4, <2>4, <3>0
    <3>7. w.at + m \in Nat /\ w.len - m \in Nat /\ w.at = Place + (u + m) - m
      BY <1>a, <2>4, <3>0
    <3>8. Place' = Place + (u + m) /\ position' \in 0..bytes'.len
      BY <1>a, <1>2, <2>2, <2>4, <3>0, <3>2
    <3>9. bytes'.at + bytes'.len = Len(data)
      BY <1>a, <2>4, <3>0, <3>2 DEF e
    <3>3. /\ fits /\ Place' = Place + (u + m) /\ position' \in 0..bytes'.len
          /\ bytes'.at + bytes'.len = Len(data) /\ w.at + m \in Nat /\ w.len - m \in Nat
          /\ w.at = Place + (u + m) - m
      BY <3>6, <3>7, <3>8, <3>9
    <3>4. bytes' \in Windows
      BY <3>1, <3>3 DEF Window, Windows
    <3>5. Moves(u + m, m)
      BY <2>2, <3>1, <3>3, <3>4, ErrType DEF Moves
    <3> QED
      BY <2>1, <3>1, <3>3, <3>5, Zenon DEF u, m, fits
  <2> QED
    BY <2>2, <2>3, <2>4
<1>5. CASE Length.ok /\ DecodeCopied
  <2> DEFINE start == position + u
  <2>1. /\ data' = data /\ bytes' = bytes
        /\ \/ m > bytes.len - start /\ position' = start /\ ret' = Err /\ given' = given
           \/ /\ m <= bytes.len - start /\ position' = start + m /\ ret' = Ok(<<>>)
              /\ given' = Append(given, Window(bytes.at + start, m))
    BY <1>5 DEF DecodeCopied, LengthFails, u, m
  <2>2. start = position + u
    OBVIOUS
  <2> HIDE DEF start
  <2>3. CASE m > bytes.len - start /\ position' = start /\ ret' = Err /\ given' = given
    <3>0. m \in Nat /\ m > len - start
      BY <1>b, <1>5, <2>3 DEF len
    <3>3. ~fits
      BY <1>a, <1>c, <2>2, <3>0
    <3>4. at + start = Place + u /\ start \in 0..len
      BY <1>a, <2>2
    <3>1. ~fits /\ Place' = Place + u /\ position' \in 0..bytes'.len
      BY <1>2, <2>1, <2>3, <3>3, <3>4 DEF at, len
    <3>2. Moves(u, 0)
      BY <1>1, <2>1, <2>3, <3>1, ErrType DEF Moves
    <3> QED
      BY <2>3, <3>1, <3>2 DEF u, m, fits
  <2>4. CASE /\ m <= bytes.len - start /\ position' = start + m /\ ret' = Ok(<<>>)
             /\ given' = Append(given, Window(bytes.at + start, m))
    <3>1. fits /\ Place' = Place + (u + m) /\ position' \in 0..bytes'.len
          /\ bytes.at + start = Place + (u + m) - m /\ bytes.at + start = Place + u
      <4>1. m \in Nat /\ m <= len - start
        BY <1>b, <1>5, <2>4 DEF len
      <4>2. fits
        BY <1>a, <1>c, <1>5, <2>2, <4>1
      <4>3. /\ at + (start + m) = Place + (u + m) /\ start + m \in 0..len
            /\ at + start = Place + (u + m) - m /\ at + start = Place + u
        BY <1>a, <2>2, <4>1
      <4> QED
        BY <1>2, <2>1, <2>4, <4>2, <4>3 DEF at, len
    <3>2. Moves(u + m, m)
      BY <1>1, <2>1, <2>4, <3>1, ErrType DEF Moves
    <3> QED
      BY <2>4, <3>1, <3>2, Zenon DEF u, m, fits
  <2> QED
    BY <2>1, <2>3, <2>4
<1> QED
  BY <1>1, <1>3, <1>4, <1>5, SMTT(30) DEF ScaleInternalDecodeBytes, DecodeCopied

-----------------------------------------------------------------------------
\* What the two invariants say together; it is inductive.
Inv == TypeOK /\ GivenInOrder

\* The cursor starts at the front of the allocation, and nothing was given.
LEMMA InitInv == ASSUME Init PROVE Inv /\ Refines!Init
<1>1. data \in Seq(Byte) /\ Len(data) \in Nat
  BY InputsAssumption DEF Init
<1>2. bytes.at = 0 /\ bytes.len = Len(data) /\ bytes \in Windows
  BY <1>1 DEF Init, Window, Windows
<1>3. position = 0 /\ given = <<>> /\ ret = Err /\ data \in Inputs
  BY DEF Init
<1>4. TypeOK
  BY <1>1, <1>2, <1>3, ErrType DEF TypeOK
<1>5. GivenInOrder
  BY <1>3 DEF GivenInOrder
<1>6. Unread = data
  <2>1. Unread = SubSeq(data, 1, Len(data))
    BY <1>1, <1>2, <1>3 DEF Unread
  <2> QED
    BY <1>1, <2>1
<1>7. Strings = <<>>
  BY <1>3 DEF Strings
<1> QED
  BY <1>3, <1>4, <1>5, <1>6, <1>7 DEF Inv, Refines!Init, Refines!Err, Err, Strings

\* Every call keeps the invariants, and is a call of the slice.
LEMMA NextInv == ASSUME Inv, Next PROVE Inv' /\ Refines!Next
<1> USE DEF Inv
<1>1. CASE RemainingLen
  <2>1. 0 \in 0..(Len(data) - Place) /\ 0 \in 0..0
    BY PlaceFacts
  <2> QED
    BY <1>1, <2>1, RemainingLenStep, MovesInv DEF Refines!Next
<1>2. ASSUME NEW k \in Sizes, Read(k) PROVE Inv' /\ Refines!Next
  <2>1. PICK n \in 0..(Len(data) - Place) : Moves(n, 0)
    BY <1>2, ReadStep
  <2>2. 0 \in 0..n
    BY PlaceFacts
  <2> QED
    BY <1>2, <2>1, <2>2, ReadStep, MovesInv DEF Refines!Next
<1>3. CASE ScaleInternalDecodeBytes \/ DecodeCopied
  <2> DEFINE u == Length.used
             m == U32ToNat(Length.val)
             fits == Length.ok /\ m <= Len(Unread) - u
  <2>1. u \in 0..(Len(data) - Place) /\ (Length.ok => m \in Nat) /\ Place \in 0..Len(data)
        /\ Len(Unread) = Len(data) - Place /\ Len(data) \in Nat
    BY LengthFacts, PlaceFacts
  <2>2. CASE ~fits /\ Moves(u, 0) /\ given' = given /\ ret' = Err
    <3>1. 0 \in 0..u
      BY <2>1
    <3>2. Inv'
      BY <2>1, <2>2, <3>1, MovesInv
    <3> QED
      BY <2>2, <3>2, FailedDecode DEF Refines!Next
  <2>3. CASE /\ fits /\ Moves(u + m, m) /\ ret' = Ok(<<>>)
             /\ given' = Append(given, Window(Place + u, m))
    <3>1. Refines!DecodeBytes
      BY <2>3, GoodDecode
    <3> HIDE DEF u, m
    <3>2. m \in 0..(u + m) /\ u + m \in 0..(Len(data) - Place)
      BY <2>1, <2>3
    <3>3. Inv'
      BY <2>3, <3>2, MovesInv
    <3> QED
      BY <3>1, <3>3 DEF Refines!Next
  <2> QED
    BY <1>3, <2>2, <2>3, DecodeMoves
<1> QED
  BY <1>1, <1>2, <1>3 DEF Next

\* A step that changes nothing changes nothing of the slice either.
LEMMA StutterInv == ASSUME Inv, UNCHANGED vars PROVE Inv' /\ UNCHANGED Refines!vars
<1>1. UNCHANGED <<data, bytes, position, given, ret>>
  BY DEF vars
<1>2. Inv'
  BY <1>1 DEF Inv, TypeOK, GivenInOrder
<1>3. Unread' = Unread /\ Strings' = Strings
  BY <1>1 DEF Unread, Strings, Slice
<1> QED
  BY <1>1, <1>2, <1>3 DEF Refines!vars, Strings

\* position never passes the end of the window of BytesCursor, nor does the
\* window leave the allocation, whatever was decoded before.
THEOREM CursorTypeOK == Spec => []TypeOK
<1>1. Inv => TypeOK
  BY DEF Inv
<1> QED
  BY <1>1, InitInv, NextInv, StutterInv, PTL DEF Spec

\* The Bytes that BytesCursor splits off, and those that are copied, never
\* overlap one another or what is still to be read.
THEOREM CursorGivenInOrder == Spec => []GivenInOrder
<1>1. Inv => GivenInOrder
  BY DEF Inv
<1> QED
  BY <1>1, InitInv, NextInv, StutterInv, PTL DEF Spec

\* decode_from_bytes sees the bytes that decode sees on a slice.
THEOREM CursorRefinesSlice == Spec => RefinesSlice
<1>1. Inv /\ [Next]_vars => [Refines!Next]_(Refines!vars)
  BY NextInv, StutterInv
<1>2. Inv /\ [Next]_vars => Inv'
  BY NextInv, StutterInv
<1>3. Init => Inv /\ Refines!Init
  BY InitInv
<1> QED
  BY <1>1, <1>2, <1>3, PTL DEF Spec, RefinesSlice, Refines!Spec
=============================================================================
