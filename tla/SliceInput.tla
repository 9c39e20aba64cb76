------------------------------ MODULE SliceInput ------------------------------
(***************************************************************************)
(* What an Input over bytes in memory promises, as a slice keeps it: the   *)
(* bytes that are left, and the byte strings that decode of bytes::Bytes   *)
(* gave away.  A failed read takes nothing; a failed decode of Bytes takes *)
(* the bytes of its length prefix that were read.                          *)
(***************************************************************************)
EXTENDS CompactInt

CONSTANTS
  Inputs,  \* the byte strings to decode from
  Sizes    \* the sizes of the buffers that read is called with

VARIABLES
  rest,    \* the bytes that are left
  given,   \* the decoded byte strings, in order
  ret      \* what the last call returned

vars == <<rest, given, ret>>

Ok(x) == [ok |-> TRUE, is |-> x]
Err == [ok |-> FALSE, is |-> <<>>]

Init ==
  /\ rest \in Inputs
  /\ given = <<>>
  /\ ret = Err

Drop(n) == SubSeq(rest, n + 1, Len(rest))

RemainingLen ==
  /\ ret' = Ok(<<Len(rest)>>)
  /\ UNCHANGED <<rest, given>>

Read(n) ==
  /\ \/ n > Len(rest) /\ ret' = Err /\ UNCHANGED rest
     \/ n <= Len(rest) /\ ret' = Ok(SubSeq(rest, 1, n)) /\ rest' = Drop(n)
  /\ UNCHANGED given

\* Bytes::decode: a length and that many bytes.
DecodeBytes ==
  LET len == DecodeFrom(4, rest)
      n == U32ToNat(len.val)
      fits == len.ok /\ n <= Len(rest) - len.used
  IN \/ /\ ~fits
        /\ rest' = Drop(len.used)
        /\ ret' = Err
        /\ UNCHANGED given
     \/ /\ fits
        /\ rest' = Drop(len.used + n)
        /\ given' = Append(given, SubSeq(rest, len.used + 1, len.used + n))
        /\ ret' = Ok(<<>>)

Next == RemainingLen \/ DecodeBytes \/ \E n \in Sizes : Read(n)

Spec == Init /\ [][Next]_vars
=============================================================================
