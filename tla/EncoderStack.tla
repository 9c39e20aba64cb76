----------------------------- MODULE EncoderStack -----------------------------
(***************************************************************************)
(* Encoder on a call stack that ends: a program that recurses without end  *)
(* is killed.                                                              *)
(***************************************************************************)
EXTENDS EncodeReference

CONSTANT
  MaxStack  \* the calls that fit the stack

\* A call for which there is no room.
StackOverflow ==
  /\ status = "running" /\ Len(stack) > MaxStack
  /\ status' = "killed"
  /\ UNCHANGED <<entry, stack, ret>>

StackNext == (Len(stack) <= MaxStack /\ Next) \/ StackOverflow

StackSpec == Init /\ [][StackNext]_vars

\* "#[codec(skip)]: the variant is not encoded": encode of a skipped variant
\* returns no bytes.
SkippedNotEncoded ==
  IsSkippedVariant(T, V) /\ status # "running" => status = "done" /\ Encoding = <<>>

\* enum E { #[codec(skip)] A }
OnlySkipped ==
  {Call(Enum(<<Variant(<<>>, <<>>, TRUE, <<>>)>>), [var |-> 1, fields |-> <<>>])}

\* The bytes in front.
MCKey == <<7>>
=============================================================================
