----------------------------- MODULE BytesCursor ------------------------------
(***************************************************************************)
(* decode_from_bytes: a BytesCursor is an Input over a bytes::Bytes, that  *)
(* is, over a window into a shared allocation.  Plain reads only move      *)
(* position; a decoded Bytes is split off the window without a copy, after *)
(* the window was advanced to position and position went back to zero.     *)
(*                                                                         *)
(* A type may also decode a Bytes through a wrapper around the cursor.     *)
(* Wrappers do not override scale_internal_decode_bytes, so this takes the *)
(* default of the trait, which copies.                                     *)
(***************************************************************************)
EXTENDS CompactInt

CONSTANTS
  Inputs,  \* the byte strings to decode from
  Sizes    \* the sizes of the buffers that read is called with

ASSUME InputsAssumption == Inputs \subseteq Seq(Byte)
ASSUME SizesAssumption == Sizes \subseteq Nat

VARIABLES
  data,      \* the allocation; it never changes
  bytes,     \* BytesCursor::bytes, the window that is left
  position,  \* BytesCursor::position, how much of the window was read
  given,     \* the Bytes that were decoded: windows or copies
  ret        \* what the last call returned

vars == <<data, bytes, position, given, ret>>

\* A window: len bytes of the allocation from offset at on.
Window(at, len) == [at |-> at, len |-> len]
Slice(w) == SubSeq(data, w.at + 1, w.at + w.len)

Ok(x) == [ok |-> TRUE, is |-> x]
Err == [ok |-> FALSE, is |-> <<>>]

Init ==
  /\ data \in Inputs
  /\ bytes = Window(0, Len(data))
  /\ position = 0
  /\ given = <<>>
  /\ ret = Err

\* self.bytes[self.position..]
Unread == SubSeq(data, bytes.at + position + 1, bytes.at + bytes.len)

RemainingLen ==
  /\ ret' = Ok(<<bytes.len - position>>)
  /\ UNCHANGED <<data, bytes, position, given>>

Read(n) ==
  /\ \/ /\ n > bytes.len - position
        /\ ret' = Err
        /\ UNCHANGED position
     \/ /\ n <= bytes.len - position
        /\ ret' = Ok(SubSeq(data, bytes.at + position + 1, bytes.at + position + n))
        /\ position' = position + n
  /\ UNCHANGED <<data, bytes, given>>

\* The length in front of the bytes, a Compact<u32> read through Read.
Length == DecodeFrom(4, Unread)

\* The length was refused: only its bytes are gone.
LengthFails ==
  /\ ~Length.ok
  /\ position' = position + Length.used
  /\ ret' = Err
  /\ UNCHANGED <<data, bytes, given>>

\* Mutant of Advanced: the window moves by the bytes of the length only.
AdvancedBy(n) == Window(bytes.at + n, bytes.len - n)

\* Buf::advance(&mut self.bytes, self.position), n bytes of length included
Advanced(n) == Window(bytes.at + (position + n), bytes.len - (position + n))

\* Mutant of SplitTo: what is left still begins with the bytes given away.
SplitToShared(w, n) ==
  /\ bytes' = w
  /\ given' = Append(given, Window(w.at, n))
  /\ ret' = Ok(<<>>)

\* self.bytes.split_to(length)
SplitTo(w, n) ==
  /\ bytes' = Window(w.at + n, w.len - n)
  /\ given' = Append(given, Window(w.at, n))
  /\ ret' = Ok(<<>>)

\* Mutant of ScaleInternalDecodeBytes: position is not reset on the error path.
ScaleInternalDecodeBytesLate ==
  \/ LengthFails
  \/ /\ Length.ok
     /\ LET w == Advanced(Length.used)
            n == U32ToNat(Length.val)
        IN \/ n > w.len /\ bytes' = w /\ ret' = Err /\ UNCHANGED <<position, given>>
           \/ n <= w.len /\ SplitTo(w, n) /\ position' = 0
     /\ UNCHANGED data

\* BytesCursor::scale_internal_decode_bytes
ScaleInternalDecodeBytes ==
  \/ LengthFails
  \/ /\ Length.ok
     /\ position' = 0
     /\ LET w == Advanced(Length.used)
            n == U32ToNat(Length.val)
        IN \/ n > w.len /\ bytes' = w /\ ret' = Err /\ UNCHANGED given
           \/ n <= w.len /\ SplitTo(w, n)
     /\ UNCHANGED data

\* Input::scale_internal_decode_bytes, the default of the trait, called on a
\* wrapper: Vec::<u8>::decode checks remaining_len, then copies with read.
DecodeCopied ==
  \/ LengthFails
  \/ /\ Length.ok
     /\ LET start == position + Length.used
            n == U32ToNat(Length.val)
        IN \/ /\ n > bytes.len - start
              /\ position' = start /\ ret' = Err /\ UNCHANGED given
           \/ /\ n <= bytes.len - start
              /\ position' = start + n
              /\ given' = Append(given, Window(bytes.at + start, n))
              /\ ret' = Ok(<<>>)
     /\ UNCHANGED <<data, bytes>>

Next ==
  \/ RemainingLen
  \/ ScaleInternalDecodeBytes
  \/ DecodeCopied
  \/ \E n \in Sizes : Read(n)

Spec == Init /\ [][Next]_vars

-----------------------------------------------------------------------------
Windows == [at : Nat, len : Nat]

\* The cursor never points behind its window, nor the window behind the
\* allocation: the subtractions of remaining_len and read do not underflow
\* and the slice index of read does not panic.
TypeOK ==
  /\ data \in Seq(Byte)
  /\ bytes \in Windows /\ bytes.at + bytes.len = Len(data)
  /\ position \in 0..bytes.len
  /\ given \in Seq(Windows)
  /\ ret \in [ok : BOOLEAN, is : Seq(Nat)]

\* No two values that were decoded share bytes of the input, and none shares
\* bytes with what is still to be read: each Bytes lies behind the one before
\* it and in front of the cursor, whichever of the two ways made it.
GivenInOrder ==
  \A i \in DOMAIN given :
    /\ given[i].at + given[i].len <= bytes.at + position
    /\ \A j \in DOMAIN given : i < j => given[i].at + given[i].len <= given[j].at

\* To the type that is decoded, the cursor is the slice of the same bytes:
\* every call returns and takes what it would there, also after a Bytes was
\* split off and after a length that was too large; "doing it this way allows
\* us to prevent an unnecessary allocation", nothing else.
Refines ==
  INSTANCE SliceInput WITH
    rest <- Unread,
    given <- [i \in DOMAIN given |-> Slice(given[i])]

\* The implementation as a whole refines the slice.
RefinesSlice == Refines!Spec
=============================================================================
