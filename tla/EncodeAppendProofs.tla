-------------------------- MODULE EncodeAppendProofs --------------------------
(***************************************************************************)
(* Proofs about EncodeAppend, for any counts at which the prefix grows.    *)
(* BatchesFit excludes the batches that `as u32` truncates.                *)
(***************************************************************************)
EXTENDS EncodeAppend, SequenceTheorems, TLAPS

\* No batch has more items than a u32 can count.
BatchesFit == \A xs \in Batches : Len(xs) <= U32Max

\* The buffer is the encoding of a list that can be encoded.
IsEncoding(v) == \E l \in Seq(Item) : Len(l) <= U32Max /\ v = Encode(l)

IInv ==
  /\ result \in {"ok", "err"}
  /\ vec = <<>> \/ Corrupt(vec) \/ IsEncoding(vec)
  /\ result = "err" => vec = <<>>

\* A prefix is a sequence of its cells.
LEMMA PrefixSeq ==
  ASSUME NEW n \in 0..U32Max
  PROVE  /\ CompactLen(n) \in {1, 2, 4, 5}
         /\ Prefix(n) \in Seq(Cell)
         /\ Len(Prefix(n)) = CompactLen(n)
         /\ \A i \in 1..CompactLen(n) : Prefix(n)[i] = [count |-> n, byte |-> i]
<1>1. CompactLen(n) \in {1, 2, 4, 5}
  BY DEF CompactLen
<1>2. \A i \in 1..CompactLen(n) : [count |-> n, byte |-> i] \in Cell
  BY <1>1 DEF Cell
<1>3. Prefix(n) \in [1..CompactLen(n) -> Cell]
  BY <1>2 DEF Prefix
<1>4. Prefix(n) \in Seq(Cell) /\ Len(Prefix(n)) = CompactLen(n)
  BY <1>1, <1>3
<1> QED
  BY <1>1, <1>4 DEF Prefix

\* An encoding is its prefix and, behind it, the items.
LEMMA EncodeSeq ==
  ASSUME NEW l \in Seq(Item), Len(l) <= U32Max
  PROVE  /\ Len(l) \in 0..U32Max
         /\ l \in Seq(Cell)
         /\ Encode(l) \in Seq(Cell)
         /\ Len(Encode(l)) = CompactLen(Len(l)) + Len(l)
         /\ \A i \in 1..CompactLen(Len(l)) : Encode(l)[i] = [count |-> Len(l), byte |-> i]
         /\ \A i \in 1..Len(l) : Encode(l)[CompactLen(Len(l)) + i] = l[i]
<1>1. Len(l) \in 0..U32Max /\ l \in Seq(Cell)
  BY U32Assumption DEF Cell
<1>2. /\ CompactLen(Len(l)) \in Nat \ {0}
      /\ Prefix(Len(l)) \in Seq(Cell)
      /\ Len(Prefix(Len(l))) = CompactLen(Len(l))
      /\ \A i \in 1..CompactLen(Len(l)) : Prefix(Len(l))[i] = [count |-> Len(l), byte |-> i]
  BY <1>1, PrefixSeq
<1> DEFINE p == Prefix(Len(l))
           k == CompactLen(Len(l))
           c == p \o l
<1>3. /\ c \in Seq(Cell)
      /\ Len(c) = Len(p) + Len(l)
      /\ \A i \in 1..(Len(p) + Len(l)) :
           c[i] = IF i <= Len(p) THEN p[i] ELSE l[i - Len(p)]
  <2> HIDE DEF p
  <2> QED
    BY <1>1, <1>2, ConcatProperties, Zenon DEF p
<1>4. \A i \in 1..k : c[i] = [count |-> Len(l), byte |-> i]
  <2> HIDE DEF p, k, c
  <2> QED
    BY <1>1, <1>2, <1>3 DEF p, k
<1>5. \A i \in 1..Len(l) : c[k + i] = l[i]
  <2> HIDE DEF p, k, c
  <2>1. k \in Nat /\ Len(p) = k /\ Len(l) \in Nat
    BY <1>1, <1>2 DEF p, k
  <2>2. TAKE i \in 1..Len(l)
  <2>3. k + i \in 1..(Len(p) + Len(l)) /\ ~(k + i <= Len(p)) /\ k + i - Len(p) = i
    BY <2>1
  <2>4. c[k + i] = l[k + i - Len(p)]
    BY <1>3, <2>1, <2>3
  <2> QED
    BY <2>3, <2>4
<1> QED
  BY <1>1, <1>2, <1>3, <1>4, <1>5, SMTT(30) DEF Encode

\* Decoding the count of an encoding gives the number of items and no other.
LEMMA DecodesEncode ==
  ASSUME NEW l \in Seq(Item), Len(l) <= U32Max, NEW n \in 0..U32Max
  PROVE  Decodes(Encode(l), n) <=> n = Len(l)
<1>1. CompactLen(n) \in Nat \ {0} /\ CompactLen(Len(l)) \in Nat \ {0} /\ Len(l) \in 0..U32Max
  <2>1. Len(l) \in 0..U32Max
    BY EncodeSeq
  <2> QED
    BY <2>1, PrefixSeq, SMTT(30)
<1>2. ASSUME Decodes(Encode(l), n) PROVE n = Len(l)
  <2>1. Encode(l)[1] = [count |-> n, byte |-> 1]
    BY <1>1, <1>2 DEF Decodes
  <2>2. Encode(l)[1] = [count |-> Len(l), byte |-> 1]
    BY <1>1, EncodeSeq
  <2> QED
    BY <2>1, <2>2
<1>3. Decodes(Encode(l), Len(l))
  BY <1>1, EncodeSeq DEF Decodes
<1> QED
  BY <1>2, <1>3

\* No count can be decoded from a buffer that begins with an item.
LEMMA DecodesCorrupt ==
  ASSUME NEW v, Corrupt(v), NEW n \in 0..U32Max
  PROVE  ~Decodes(v, n)
<1>1. PICK x \in Item : v = <<x>>
  BY DEF Corrupt
<1>2. CompactLen(n) \in {1, 2, 4, 5}
  BY PrefixSeq
<1>3. SUFFICES ASSUME Decodes(v, n) PROVE FALSE
  OBVIOUS
<1>4. v[1] = [count |-> n, byte |-> 1]
  BY <1>2, <1>3 DEF Decodes
<1>5. x \in [count : Nat, byte : Nat]
  BY <1>1, <1>4, U32Assumption
<1> QED
  BY <1>5, ItemAssumption

\* The items behind the prefix of an encoding are the list.
LEMMA ItemsOfEncoding ==
  ASSUME NEW l \in Seq(Item), Len(l) <= U32Max
  PROVE  SubSeq(Encode(l), CompactLen(Len(l)) + 1, Len(Encode(l))) = l
<1> DEFINE k == CompactLen(Len(l))
           s == SubSeq(Encode(l), k + 1, Len(Encode(l)))
<1>1. /\ Len(l) \in Nat /\ k \in Nat
      /\ Encode(l) \in Seq(Cell) /\ Len(Encode(l)) = k + Len(l)
      /\ \A i \in 1..Len(l) : Encode(l)[k + i] = l[i]
  BY EncodeSeq, PrefixSeq
<1> HIDE DEF k
<1>2. \A i \in (k + 1)..Len(Encode(l)) : Encode(l)[i] \in Cell
  BY <1>1, ElementOfSeq
<1>3. /\ s \in Seq(Cell) /\ Len(s) = Len(l)
      /\ \A i \in 1..Len(l) : s[i] = Encode(l)[k + i]
  BY <1>1, <1>2, SubSeqProperties
<1>4. \A i \in 1..Len(s) : s[i] = l[i]
  BY <1>1, <1>3
<1>5. l \in Seq(Cell)
  BY EncodeSeq
<1>6. s = l
  BY <1>3, <1>4, <1>5, SeqEqual, Zenon
<1> QED
  BY <1>6 DEF k

\* A count below 2^32 survives the cast.
LEMMA CastExact ==
  ASSUME NEW n \in 0..U32Max
  PROVE  n % (U32Max + 1) = n
BY U32Assumption

\* A longer prefix in front of the old items and the new ones is the encoding
\* of the longer list.
LEMMA MovedEncodes ==
  ASSUME NEW l \in Seq(Item), NEW xs \in Seq(Item), Len(l) + Len(xs) <= U32Max
  PROVE  /\ l \o xs \in Seq(Item) /\ Len(l \o xs) = Len(l) + Len(xs)
         /\ (Prefix(Len(l) + Len(xs)) \o l) \o xs = Encode(l \o xs)
<1> DEFINE n == Len(l) + Len(xs)
<1>1. /\ l \o xs \in Seq(Item) /\ Len(l \o xs) = n /\ Len(l) \in Nat /\ Len(xs) \in Nat
  BY ConcatProperties
<1>2. n \in 0..U32Max /\ Prefix(n) \in Seq(Cell)
  BY <1>1, U32Assumption, PrefixSeq
<1>3. l \in Seq(Cell) /\ xs \in Seq(Cell)
  BY DEF Cell
<1>4. (Prefix(n) \o l) \o xs = Prefix(n) \o (l \o xs)
  BY <1>2, <1>3, ConcatAssociative
<1> QED
  BY <1>1, <1>4 DEF Encode

\* Overwriting a prefix of the same size is putting the new prefix in front of
\* the items.
LEMMA OverwriteEncodes ==
  ASSUME NEW l \in Seq(Item), Len(l) <= U32Max, NEW n \in 0..U32Max,
         CompactLen(Len(l)) = CompactLen(n)
  PROVE  [i \in 1..Len(Encode(l)) |->
            IF i <= CompactLen(Len(l)) THEN Prefix(n)[i] ELSE Encode(l)[i]] = Prefix(n) \o l
<1> DEFINE k == CompactLen(n)
           p == Prefix(n)
           e == Encode(l)
           c == p \o l
           f == [i \in 1..Len(e) |-> IF i <= k THEN p[i] ELSE e[i]]
<1>1. /\ Len(l) \in Nat /\ l \in Seq(Cell) /\ e \in Seq(Cell) /\ Len(e) = k + Len(l)
      /\ \A i \in 1..Len(l) : e[k + i] = l[i]
  BY EncodeSeq
<1>2. k \in Nat /\ p \in Seq(Cell) /\ Len(p) = k
  BY PrefixSeq
<1>3. /\ c \in Seq(Cell) /\ Len(c) = k + Len(l)
      /\ \A i \in 1..(k + Len(l)) : c[i] = IF i <= k THEN p[i] ELSE l[i - k]
  <2> HIDE DEF p, k
  <2> QED
    BY <1>1, <1>2, ConcatProperties
<1> HIDE DEF k, p, e, c
<1>4. \A i \in 1..(k + Len(l)) : i > k => e[i] = l[i - k]
  <2>1. TAKE i \in 1..(k + Len(l))
  <2>2. HAVE i > k
  <2>3. i - k \in 1..Len(l) /\ k + (i - k) = i
    BY <1>1, <1>2, <2>2
  <2> QED
    BY <1>1, <2>3
<1>5. \A i \in 1..(k + Len(l)) : f[i] = c[i]
  BY <1>1, <1>2, <1>3, <1>4
<1>6. f = [i \in 1..(k + Len(l)) |-> c[i]]
  BY <1>1, <1>5
<1>7. c = [i \in 1..(k + Len(l)) |-> c[i]]
  BY <1>1, <1>2, <1>3, LenProperties
<1> QED
  BY <1>6, <1>7, Zenon DEF k, p, e, c

\* The buffer stands for the list l.
Holds(v, l) == (v = <<>> /\ l = <<>>) \/ v = Encode(l)

\* Why a call may fail.
MayFail(xs) ==
  \/ Corrupt(vec)
  \/ \E l \in Seq(Item) :
       /\ Len(l) <= U32Max /\ Holds(vec, l)
       /\ Len(l) + Len(xs) > U32Max \/ Len(vec) * 2 > UsizeMax

\* What a call does: it appends to the list the buffer holds, or it fails with
\* a reason.
LEMMA CallEffect ==
  ASSUME IInv, BatchesFit, NEW xs \in Batches, AppendOrNew(xs)
  PROVE  \/ /\ result' = "ok"
            /\ \E l \in Seq(Item) :
                 /\ Holds(vec, l) /\ Len(l) + Len(xs) <= U32Max
                 /\ vec' = Encode(l \o xs)
         \/ Fails /\ MayFail(xs)
<1>1. xs \in Seq(Item) /\ Len(xs) \in 0..U32Max /\ result = "ok"
  BY BatchesAssumption, U32Assumption DEF BatchesFit, AppendOrNew
<1>2. CASE vec = <<>>
  <2>1. New(xs)
    BY <1>2 DEF AppendOrNew, Extend
  <2>2. vec' = Encode(xs) /\ UNCHANGED result
    BY <1>1, <2>1, U32Assumption DEF New
  <2>3. <<>> \in Seq(Item) /\ Len(<<>>) = 0 /\ <<>> \o xs = xs
    BY <1>1, EmptySeq, ConcatEmptySeq
  <2>4. Holds(vec, <<>>) /\ Len(<<>>) + Len(xs) <= U32Max
    BY <1>1, <1>2, <2>3 DEF Holds
  <2> QED
    BY <1>1, <2>2, <2>3, <2>4, Zenon
<1>3. CASE vec # <<>> /\ Corrupt(vec)
  <2>1. Extend(xs)
    BY <1>3 DEF AppendOrNew, New
  <2>2. \A n \in 0..U32Max : ~Decodes(vec, n)
    BY <1>3, DecodesCorrupt
  <2> QED
    BY <1>3, <2>1, <2>2 DEF Extend, MayFail
<1>4. CASE vec # <<>> /\ IsEncoding(vec)
  <2>1. PICK l \in Seq(Item) : Len(l) <= U32Max /\ vec = Encode(l)
    BY <1>4 DEF IsEncoding
  <2>2. Len(l) \in 0..U32Max /\ Decodes(vec, Len(l)) /\ Holds(vec, l)
    BY <2>1, EncodeSeq, DecodesEncode DEF Holds
  <2>3. PICK old \in 0..U32Max :
          /\ Decodes(vec, old)
          /\ \/ NewCount(old, xs) > U32Max /\ Fails
             \/ /\ NewCount(old, xs) <= U32Max
                /\ \/ InPlace(old, NewCount(old, xs), xs)
                   \/ Moved(old, NewCount(old, xs), xs)
    BY <1>4, <2>2 DEF AppendOrNew, New, Extend
  <2>4. old = Len(l)
    BY <2>1, <2>3, DecodesEncode
  <2>5. NewCount(old, xs) = Len(l) + Len(xs)
    BY <1>1, <2>4, CastExact DEF NewCount
  <2>6. CASE Len(l) + Len(xs) > U32Max
    BY <1>1, <2>1, <2>2, <2>3, <2>5, <2>6, U32Assumption DEF MayFail
  <2>7. CASE Len(l) + Len(xs) <= U32Max
    <3> DEFINE n == Len(l) + Len(xs)
    <3>1. n \in 0..U32Max
      BY <1>1, <2>2, <2>7
    <3>2. (Prefix(n) \o l) \o xs = Encode(l \o xs)
      BY <1>1, <2>7, MovedEncodes
    <3>3. CASE InPlace(old, n, xs)
      <4>1. CompactLen(Len(l)) = CompactLen(n)
        BY <2>4, <3>3 DEF InPlace
      <4>2. vec' = [i \in 1..Len(Encode(l)) |->
                     IF i <= CompactLen(Len(l)) THEN Prefix(n)[i] ELSE Encode(l)[i]] \o xs
        BY <2>1, <2>4, <3>3 DEF InPlace
      <4>3. vec' = (Prefix(n) \o l) \o xs
        BY <2>1, <3>1, <4>1, <4>2, OverwriteEncodes, Zenon
      <4> QED
        BY <1>1, <2>2, <2>7, <3>2, <3>3, <4>3, Zenon DEF InPlace
    <3>4. CASE Moved(old, n, xs)
      <4>1. CASE Len(vec) * 2 <= UsizeMax /\ UNCHANGED result /\
                 vec' = Prefix(n) \o SubSeq(vec, CompactLen(old) + 1, Len(vec)) \o xs
        <5>1. SubSeq(vec, CompactLen(old) + 1, Len(vec)) = l
          BY <2>1, <2>4, ItemsOfEncoding
        <5> QED
          BY <1>1, <2>2, <2>7, <3>2, <4>1, <5>1, Zenon
      <4>2. CASE Len(vec) * 2 > UsizeMax /\ Fails
        BY <2>1, <2>2, <4>2 DEF MayFail
      <4> QED
        BY <3>4, <4>1, <4>2, Zenon DEF Moved
    <3> QED
      BY <2>3, <2>5, <3>1, <3>3, <3>4, U32Assumption
  <2> QED
    BY <1>1, <2>2, <2>6, <2>7, U32Assumption
<1> QED
  BY <1>2, <1>3, <1>4 DEF IInv

\* Items and Corrupt tell the three kinds of buffer apart.
LEMMA ItemsHeld ==
  ASSUME NEW v, NEW l \in Seq(Item), Len(l) <= U32Max, Holds(v, l)
  PROVE  Items(v) = l /\ ~Corrupt(v)
<1>1. CASE v = <<>> /\ l = <<>>
  <2>1. \A n \in 0..U32Max : ~Decodes(v, n)
    <3>1. Len(v) = 0
      BY <1>1
    <3> QED
      BY <3>1, PrefixSeq DEF Decodes
  <2>2. ~Corrupt(v)
    BY <1>1 DEF Corrupt
  <2> QED
    BY <1>1, <2>1, <2>2 DEF Items
<1>2. CASE v = Encode(l)
  <2>1. Len(l) \in 0..U32Max /\ Decodes(v, Len(l))
    BY <1>2, EncodeSeq, DecodesEncode
  <2>2. CompactLen(Len(l)) \in Nat \ {0}
    BY <2>1, PrefixSeq
  <2>3. v[1].count = Len(l)
    <3>1. v[1] = [count |-> Len(l), byte |-> 1]
      BY <2>1, <2>2 DEF Decodes
    <3> QED
      BY <3>1
  <2>4. Items(v) = l
    <3>1. Items(v) = SubSeq(v, CompactLen(Len(l)) + 1, Len(v))
      BY <2>1, <2>3, Zenon DEF Items
    <3> QED
      BY <1>2, <3>1, ItemsOfEncoding
  <2>5. ~Corrupt(v)
    BY <2>1, DecodesCorrupt
  <2> QED
    BY <2>4, <2>5
<1> QED
  BY <1>1, <1>2 DEF Holds

\* A buffer that is no encoding holds no list.
LEMMA ItemsCorrupt ==
  ASSUME NEW v, Corrupt(v)
  PROVE  Items(v) = <<>> /\ v # <<>>
<1>1. \A n \in 0..U32Max : ~Decodes(v, n)
  BY DecodesCorrupt
<1> QED
  BY <1>1 DEF Items, Corrupt

\* Every buffer a caller may begin with is empty, an encoding or corrupt.
LEMMA InitIInv == Init => IInv
<1> SUFFICES ASSUME Init PROVE IInv
  OBVIOUS
<1>1. CASE \E items \in Lists : vec = Encode(items)
  BY <1>1, ListsAssumption DEF Init, IInv, IsEncoding
<1> QED
  BY <1>1 DEF Init, IInv, Corrupt

\* Each way through append_or_new leaves an encoding of a list, or an error.
LEMMA NextIInv ==
  ASSUME BatchesFit, IInv, [Next]_vars
  PROVE  IInv'
<1>1. ASSUME NEW xs \in Batches, AppendOrNew(xs) PROVE IInv'
  <2>1. CASE /\ result' = "ok"
             /\ \E l \in Seq(Item) :
                  /\ Holds(vec, l) /\ Len(l) + Len(xs) <= U32Max
                  /\ vec' = Encode(l \o xs)
    <3>1. PICK l \in Seq(Item) : Len(l) + Len(xs) <= U32Max /\ vec' = Encode(l \o xs)
      BY <2>1
    <3>2. xs \in Seq(Item)
      BY BatchesAssumption
    <3>3. l \o xs \in Seq(Item) /\ Len(l \o xs) <= U32Max
      BY <3>1, <3>2, MovedEncodes
    <3> QED
      BY <2>1, <3>1, <3>3, Zenon DEF IInv, IsEncoding
  <2>2. CASE Fails
    BY <2>2 DEF Fails, IInv
  <2> QED
    BY <1>1, <2>1, <2>2, CallEffect
<1>2. CASE UNCHANGED vars
  BY <1>2 DEF vars, IInv, Corrupt, IsEncoding
<1> QED
  BY <1>1, <1>2 DEF Next

\* The invariant gives the types and the exact count.
LEMMA IInvImplies == IInv => TypeOK /\ CountExact
<1> SUFFICES ASSUME IInv PROVE TypeOK /\ CountExact
  OBVIOUS
<1>1. CASE vec = <<>>
  BY <1>1 DEF IInv, TypeOK, CountExact
<1>2. CASE Corrupt(vec)
  <2>1. PICK x \in Item : vec = <<x>>
    BY <1>2 DEF Corrupt
  <2>2. vec \in Seq(Cell)
    BY <2>1 DEF Cell
  <2> QED
    BY <1>2, <2>2 DEF IInv, TypeOK, CountExact
<1>3. CASE IsEncoding(vec)
  <2>1. PICK l \in Seq(Item) : Len(l) <= U32Max /\ vec = Encode(l)
    BY <1>3 DEF IsEncoding
  <2>2. vec \in Seq(Cell) /\ Items(vec) = l
    BY <2>1, EncodeSeq, ItemsHeld, Zenon DEF Holds
  <2> QED
    BY <2>1, <2>2 DEF IInv, TypeOK, CountExact
<1> QED
  BY <1>1, <1>2, <1>3 DEF IInv

\* The buffer that append_or_new maintains is always the encoding of a list,
\* with the right count in a prefix of the right size.
THEOREM AppendCountExact ==
  ASSUME BatchesFit
  PROVE  Spec => [](TypeOK /\ CountExact)
<1>1. Init => IInv
  BY InitIInv
<1>2. IInv /\ [Next]_vars => IInv'
  BY NextIInv
<1>3. IInv => TypeOK /\ CountExact
  BY IInvImplies
<1> QED
  BY <1>1, <1>2, <1>3, PTL DEF Spec

\* A sequence of calls of append_or_new is a sequence of appends to a list: no
\* item is lost, moved or changed, and a call fails only when it must.
THEOREM AppendRefinesList ==
  ASSUME BatchesFit
  PROVE  Spec => RefinesAppendList
<1>1. Init => Refines!Init
  <2> SUFFICES ASSUME Init PROVE Refines!Init
    OBVIOUS
  <2>1. CASE vec = <<>>
    <3>1. <<>> \in Seq(Item) /\ Len(<<>>) <= U32Max
      BY U32Assumption
    <3>2. Items(vec) = <<>> /\ ~Corrupt(vec)
      BY <2>1, <3>1, ItemsHeld, Zenon DEF Holds
    <3> QED
      BY <3>2 DEF Init, Refines!Init
  <2>2. CASE \E items \in Lists : vec = Encode(items)
    <3>1. PICK l \in Lists : vec = Encode(l)
      BY <2>2
    <3>2. Items(vec) = l /\ ~Corrupt(vec)
      BY <3>1, ListsAssumption, ItemsHeld DEF Holds
    <3> QED
      BY <3>2 DEF Init, Refines!Init
  <2>3. CASE Corrupt(vec)
    BY <2>3, ItemsCorrupt DEF Init, Refines!Init
  <2> QED
    BY <2>1, <2>2, <2>3 DEF Init, Corrupt
<1>2. IInv /\ [Next]_vars => [Refines!Next]_(Refines!vars)
  <2> SUFFICES ASSUME IInv, [Next]_vars PROVE [Refines!Next]_(Refines!vars)
    OBVIOUS
  <2>1. ASSUME NEW xs \in Batches, AppendOrNew(xs) PROVE Refines!Add(xs) \/ Refines!Fail(xs)
    <3>0. xs \in Seq(Item) /\ Len(xs) \in Nat /\ result = "ok"
      BY <2>1, BatchesAssumption DEF AppendOrNew
    <3>1. CASE /\ result' = "ok"
               /\ \E l \in Seq(Item) :
                    /\ Holds(vec, l) /\ Len(l) + Len(xs) <= U32Max
                    /\ vec' = Encode(l \o xs)
      <4>1. PICK l \in Seq(Item) :
              Holds(vec, l) /\ Len(l) + Len(xs) <= U32Max /\ vec' = Encode(l \o xs)
        BY <3>1
      <4>2. Len(l) \in Nat /\ Len(l) <= U32Max
        BY <3>0, <4>1, U32Assumption
      <4>3. Items(vec) = l /\ ~Corrupt(vec)
        BY <4>1, <4>2, ItemsHeld
      <4>4. l \o xs \in Seq(Item) /\ Len(l \o xs) <= U32Max
        BY <3>0, <4>1, MovedEncodes
      <4>5. Items(vec') = l \o xs /\ ~Corrupt(vec')
        BY <4>1, <4>4, ItemsHeld, Zenon DEF Holds
      <4> QED
        BY <3>0, <3>1, <4>1, <4>3, <4>5 DEF Refines!Add
    <3>2. CASE Fails /\ MayFail(xs)
      <4>1. Items(vec') = <<>>
        <5>1. <<>> \in Seq(Item) /\ Len(<<>>) <= U32Max /\ Holds(vec', <<>>)
          BY <3>2, U32Assumption DEF Fails, Holds
        <5> QED
          BY <5>1, ItemsHeld, Zenon
      <4>2. CASE Corrupt(vec)
        BY <3>0, <3>2, <4>1, <4>2 DEF Fails, Refines!Fail
      <4>3. ASSUME NEW l \in Seq(Item), Len(l) <= U32Max, Holds(vec, l),
                   Len(l) + Len(xs) > U32Max \/ Len(vec) * 2 > UsizeMax
            PROVE  Refines!Fail(xs)
        <5>1. Items(vec) = l /\ ~Corrupt(vec)
          BY <4>3, ItemsHeld
        <5>2. Len(l) + Len(xs) > U32Max \/ Len(l) > (UsizeMax \div 2) - 5
          <6>1. Len(l) \in Nat /\ Len(vec) \in Nat /\ Len(vec) <= Len(l) + 5
            <7>1. CASE vec = <<>> /\ l = <<>>
              BY <7>1
            <7>2. CASE vec = Encode(l)
              BY <4>3, <7>2, EncodeSeq, PrefixSeq, SMTT(30)
            <7> QED
              BY <4>3, <7>1, <7>2 DEF Holds
          <6> QED
            BY <4>3, <6>1, U32Assumption
        <5> QED
          BY <3>0, <3>2, <4>1, <5>1, <5>2 DEF Fails, Refines!Fail
      <4> QED
        BY <3>2, <4>2, <4>3 DEF MayFail
    <3> QED
      BY <2>1, <3>1, <3>2, CallEffect
  <2>2. CASE UNCHANGED vars
    BY <2>2 DEF vars, Refines!vars, Items, Corrupt, Decodes
  <2> QED
    BY <2>1, <2>2 DEF Next, Refines!Next
<1>3. Init => IInv
  BY InitIInv
<1>4. IInv /\ [Next]_vars => IInv'
  BY NextIInv
<1> QED
  BY <1>1, <1>2, <1>3, <1>4, PTL DEF Spec, RefinesAppendList, Refines!Spec
=============================================================================
