----------------------------- MODULE EncodeAppend -----------------------------
(***************************************************************************)
(* EncodeAppend::append_or_new for Vec and VecDeque: items are appended to *)
(* an encoded list without decoding it.                                    *)
(*                                                                         *)
(* The buffer is a sequence of cells.  A length prefix of k bytes is k     *)
(* cells that say which byte of which count they are; an encoded item is   *)
(* one cell, for append never looks into the items.                        *)
(***************************************************************************)
EXTENDS Naturals, Sequences

CONSTANTS
  Item,     \* encoded items
  Batches,  \* the sequences of items a caller may append
  Lists,    \* the lists whose encodings a caller may begin with
  U32Max,   \* u32::MAX
  UsizeMax, \* usize::MAX
  Mode1, Mode2, Mode3  \* the first counts that need 2, 4 and 5 bytes

ASSUME BatchesAssumption == Batches \subseteq Seq(Item)
ASSUME ListsAssumption == \A l \in Lists : l \in Seq(Item) /\ Len(l) <= U32Max
ASSUME U32Assumption == U32Max \in Nat /\ UsizeMax \in Nat
ASSUME ModesAssumption == Mode1 \in Nat /\ Mode2 \in Nat /\ Mode3 \in Nat
ASSUME ItemAssumption == \A x \in Item : x \notin [count : Nat, byte : Nat]

VARIABLES
  vec,     \* the encoded list, or no bytes
  result   \* "ok", or "err": append_or_new took the buffer and dropped it

vars == <<vec, result>>

\* Compact::<u32>::compact_len
CompactLen(n) == IF n < Mode1 THEN 1 ELSE IF n < Mode2 THEN 2 ELSE IF n < Mode3 THEN 4 ELSE 5

\* Compact(n).encode_to
Prefix(n) == [i \in 1..CompactLen(n) |-> [count |-> n, byte |-> i]]

\* Compact::<u32>::decode of the first bytes of b returns n.
Decodes(b, n) ==
  CompactLen(n) <= Len(b) /\ \A i \in 1..CompactLen(n) : b[i] = [count |-> n, byte |-> i]

\* Encode for [T]
Encode(items) == Prefix(Len(items)) \o items

Init ==
  /\ \/ vec = <<>>
     \/ \E items \in Lists : vec = Encode(items)
     \/ \E x \in Item : vec = <<x>>
  /\ result = "ok"

-----------------------------------------------------------------------------

Fails == vec' = <<>> /\ result' = "err"

\* vec is empty: the items are encoded as a list of their own.
New(xs) ==
  /\ vec = <<>>
  /\ \/ Len(xs) <= U32Max /\ vec' = Encode(xs) /\ UNCHANGED result
     \/ Len(xs) > U32Max /\ Fails

\* Mutant of InPlace: overwrites the prefix also when the new one is longer.
InPlaceAlways(old, new, xs) ==
  /\ vec' = [i \in 1..Len(vec) |-> IF i <= CompactLen(old) THEN Prefix(new)[i] ELSE vec[i]] \o xs
  /\ UNCHANGED result

\* The prefix keeps its size and is overwritten.
InPlace(old, new, xs) ==
  /\ CompactLen(old) = CompactLen(new)
  /\ vec' = [i \in 1..Len(vec) |-> IF i <= CompactLen(old) THEN Prefix(new)[i] ELSE vec[i]] \o xs
  /\ UNCHANGED result

\* Mutant of Moved: the new items come first.
MovedSwapped(old, new, xs) ==
  /\ CompactLen(old) # CompactLen(new)
  /\ \/ /\ Len(vec) * 2 <= UsizeMax
        /\ vec' = Prefix(new) \o xs \o SubSeq(vec, CompactLen(old) + 1, Len(vec))
        /\ UNCHANGED result
     \/ Len(vec) * 2 > UsizeMax /\ Fails

\* It grows: everything behind it is copied to a new buffer.
Moved(old, new, xs) ==
  /\ CompactLen(old) # CompactLen(new)
  /\ \/ /\ Len(vec) * 2 <= UsizeMax
        /\ vec' = Prefix(new) \o SubSeq(vec, CompactLen(old) + 1, Len(vec)) \o xs
        /\ UNCHANGED result
     \/ Len(vec) * 2 > UsizeMax /\ Fails

\* iter.len() is cast with `as u32`, which drops its high bits.
NewCount(old, xs) == old + (Len(xs) % (U32Max + 1))

\* Mutant of Extend: the sum of the counts is not checked.
ExtendUnchecked(xs) ==
  /\ vec # <<>>
  /\ \/ \E old \in 0..U32Max :
          /\ Decodes(vec, old)
          /\ \/ InPlace(old, NewCount(old, xs), xs)
             \/ Moved(old, NewCount(old, xs), xs)
     \/ /\ \A n \in 0..U32Max : ~Decodes(vec, n)
        /\ Fails

Extend(xs) ==
  /\ vec # <<>>
  /\ \/ \E old \in 0..U32Max :
          /\ Decodes(vec, old)
          /\ \/ NewCount(old, xs) > U32Max /\ Fails
             \/ /\ NewCount(old, xs) <= U32Max
                /\ \/ InPlace(old, NewCount(old, xs), xs)
                   \/ Moved(old, NewCount(old, xs), xs)
     \/ /\ \A n \in 0..U32Max : ~Decodes(vec, n)
        /\ Fails

AppendOrNew(xs) == result = "ok" /\ (New(xs) \/ Extend(xs))

Next == \E xs \in Batches : AppendOrNew(xs)

Spec == Init /\ [][Next]_vars

-----------------------------------------------------------------------------
(* Properties.                                                              *)

Cell == Item \cup [count : 0..U32Max, byte : 1..5]

\* Every prefix in the buffer is that of a u32: checked_add lets no larger
\* count through.
TypeOK == vec \in Seq(Cell) /\ result \in {"ok", "err"}

\* Not the encoding of a list.
Corrupt(v) == \E x \in Item : v = <<x>>

\* The list in the buffer: what is behind the prefix.
Items(v) == IF \E n \in 0..U32Max : Decodes(v, n)
            THEN SubSeq(v, CompactLen(v[1].count) + 1, Len(v)) ELSE <<>>

\* The buffer is at all times the encoding of a list, with the count and the
\* prefix size that encoding the whole list at once gives, whatever sizes of
\* prefix the appends went through: Vec::decode and DecodeLength agree on it.
CountExact == vec = <<>> \/ Corrupt(vec) \/ vec = Encode(Items(vec))

\* append_or_new appends all items in order and disturbs none that are there,
\* and fails only for a list that is too long, too large or invalid.
Refines ==
  INSTANCE AppendList WITH
    list <- Items(vec),
    state <- IF result = "err" THEN "lost" ELSE IF Corrupt(vec) THEN "corrupt" ELSE "valid",
    Lists <- Lists \cup {<<>>}, MaxCount <- U32Max, MaxSize <- (UsizeMax \div 2) - 5

\* The implementation as a whole refines the list.
RefinesAppendList == Refines!Spec
=============================================================================
