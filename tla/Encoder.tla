-------------------------------- MODULE Encoder -------------------------------
(***************************************************************************)
(* The calls of Encode: encode_to, encode, using_encoded and encoded_size, *)
(* each of which a type either provides or inherits from the trait, whose  *)
(* defaults call one another; and of the helpers that put an encoding      *)
(* behind bytes, Joiner and KeyedVec.  A frame is one call.  encode_to     *)
(* writes to the buffer of the nearest call below that is not an encode_to: *)
(* the Vec of encode, the SizeTracker of encoded_size, the ArrayVec of a   *)
(* compact integer, or the caller's output.  The others return.            *)
(***************************************************************************)
EXTENDS EncodeTypes

CONSTANTS
  Cases,    \* the values to encode: records of a type t and a value v
  Key       \* prepend_key, or the bytes that a Joiner holds already

VARIABLES
  entry,    \* the method that the caller calls
  stack,    \* the calls, the caller at the bottom
  ret,      \* the bytes, or the size, that the last call returned
  status    \* "running", "done" or "panicked"

vars == <<entry, stack, ret, status>>

\* Joiner::and and KeyedVec::to_keyed_vec
Joining == {"and", "to_keyed_vec"}
Entries == Methods \cup {"encoded_size"} \cup Joining

\* pc: the next of the steps of the call; buf: what was written to its buffer,
\* for encoded_size the one number of its SizeTracker.
Frame(m, c) ==
  [m |-> m, t |-> c.t, v |-> c.v, pc |-> 1,
   buf |-> IF m = "encoded_size" THEN <<0>> ELSE IF m \in Joining THEN Key ELSE <<>>]

Top == stack[Len(stack)]
Caller == stack[1]

\* The caller calls method m of a value.
Init ==
  /\ entry \in Entries
  /\ \E c \in Cases : stack = <<Frame("caller", c), Frame(entry, c)>>
  /\ ret = <<>>
  /\ status = "running"

\* The impl of the type, or the trait, has the code of the innermost call.
Runs(m) == status = "running" /\ Top.m = m
Own == Top.m \in Provides(Top.t)

\* The innermost call goes on to its next step and calls method m of c.
Calls(m, c) ==
  /\ stack' = Append([stack EXCEPT ![Len(stack)].pc = @ + 1], Frame(m, c))
  /\ UNCHANGED <<entry, ret, status>>

Same == Call(Top.t, Top.v)

\* The innermost call returns r; the call below goes on.
Returns(r) ==
  /\ stack' = Front(stack)
  /\ ret' = r
  /\ status' = IF Len(stack) = 2 THEN "done" ELSE "running"
  /\ UNCHANGED entry

\* The buffer that the innermost call, an encode_to, writes to.
Dest == CHOOSE i \in DOMAIN stack :
          stack[i].m # "encode_to" /\ \A j \in (i + 1)..Len(stack) : stack[j].m = "encode_to"

\* Mutant of Written: SizeTracker counts the writes.
WrittenOnce(f, bytes) ==
  [f EXCEPT !.buf = IF f.m = "encoded_size" THEN <<@[1] + 1>> ELSE @ \o bytes]

\* Output::write to a buffer, and SizeTracker's.
Written(f, bytes) ==
  [f EXCEPT !.buf = IF f.m = "encoded_size" THEN <<@[1] + Len(bytes)>> ELSE @ \o bytes]

-----------------------------------------------------------------------------
(* The methods of the trait.                                               *)

\* Encode::encode_to: self.using_encoded(|buf| dest.write(buf))
DefaultEncodeTo ==
  /\ Runs("encode_to") /\ ~Own
  /\ \/ Top.pc = 1 /\ Calls("using_encoded", Same)
     \/ /\ Top.pc = 2
        /\ stack' = Front([stack EXCEPT ![Dest] = Written(@, ret)])
        /\ status' = IF Len(stack) = 2 THEN "done" ELSE "running"
        /\ ret' = <<>>
        /\ UNCHANGED entry

\* Encode::encode: a Vec, encode_to(&mut r), r
DefaultEncode ==
  /\ Runs("encode") /\ ~Own
  /\ \/ Top.pc = 1 /\ Calls("encode_to", Same)
     \/ Top.pc = 2 /\ Returns(Top.buf)

\* Encode::using_encoded: f(&self.encode())
DefaultUsingEncoded ==
  /\ Runs("using_encoded") /\ ~Own
  /\ \/ Top.pc = 1 /\ Calls("encode", Same)
     \/ Top.pc = 2 /\ Returns(ret)

\* Encode::encoded_size, which no type overrides.
EncodedSize ==
  /\ Runs("encoded_size")
  /\ \/ Top.pc = 1 /\ Calls("encode_to", Same)
     \/ Top.pc = 2 /\ Returns(Top.buf)

\* Both join with using_encoded(|slice| r.extend(slice)).
Join ==
  /\ status = "running" /\ Top.m \in Joining
  /\ \/ Top.pc = 1 /\ Calls("using_encoded", Same)
     \/ Top.pc = 2 /\ Returns(Top.buf \o ret)

-----------------------------------------------------------------------------
(* The methods of the types.                                               *)

\* The same method of another value; Duration and Range: encode of a tuple.
Forward ==
  /\ status = "running" /\ Top.m \in Methods
  /\ Own /\ (Forwards(Top.t) \/ Top.t.k \in {"duration", "range"})
  /\ \/ Top.pc = 1 /\ Calls(Top.m, Target(Top.t, Top.v))
     \/ Top.pc = 2 /\ Returns(ret)

\* Mutant of OwnEncodeTo: the length is written before it is checked.
OwnEncodeToLate ==
  /\ Runs("encode_to") /\ Own /\ ~Forwards(Top.t)
  /\ \E steps \in {Steps(Top.t, Top.v)} :
       \/ /\ Top.pc <= Len(steps) /\ (TooLong(Top.t, Top.v) => Top.pc = 1)
          /\ LET s == steps[Top.pc]
             IN \/ s.t.k # "raw" /\ Calls("encode_to", s)
                \/ /\ s.t.k = "raw"
                   /\ stack' = [stack EXCEPT ![Len(stack)].pc = @ + 1, ![Dest] = Written(@, s.v)]
                   /\ UNCHANGED <<entry, ret, status>>
       \/ Top.pc > Len(steps) /\ Returns(<<>>)
       \/ /\ Top.pc = 2 /\ TooLong(Top.t, Top.v)
          /\ status' = "panicked"
          /\ UNCHANGED <<entry, stack, ret>>

\* encode_to with writes and calls of encode_to.
OwnEncodeTo ==
  /\ Runs("encode_to") /\ Own /\ ~Forwards(Top.t)
  /\ \E steps \in {Steps(Top.t, Top.v)} :
       \/ /\ Top.pc <= Len(steps) /\ ~TooLong(Top.t, Top.v)
          /\ LET s == steps[Top.pc]
             IN \/ s.t.k # "raw" /\ Calls("encode_to", s)
                \/ /\ s.t.k = "raw"
                   /\ stack' = [stack EXCEPT ![Len(stack)].pc = @ + 1, ![Dest] = Written(@, s.v)]
                   /\ UNCHANGED <<entry, ret, status>>
       \/ Top.pc > Len(steps) /\ Returns(<<>>)
       \/ /\ Top.pc = 1 /\ TooLong(Top.t, Top.v)
          /\ status' = "panicked"
          /\ UNCHANGED <<entry, stack, ret>>

\* using_encoded of compact integers: encode_to into an ArrayVec; of all other
\* types: f(&bytes).
OwnUsingEncoded ==
  /\ Runs("using_encoded") /\ Own /\ ~Forwards(Top.t)
  /\ \/ ~IsCompactInt(Top.t) /\ Returns(LeafBytes(Top.t, Top.v))
     \/ IsCompactInt(Top.t) /\ Top.pc = 1 /\ Calls("encode_to", Same)
     \/ IsCompactInt(Top.t) /\ Top.pc = 2 /\ Returns(Top.buf)

\* encode of (): Vec::new()
OwnEncode ==
  /\ Runs("encode") /\ Own
  /\ ~Forwards(Top.t) /\ Top.t.k \notin {"duration", "range"}
  /\ Returns(<<>>)

Next ==
  \/ DefaultEncodeTo \/ DefaultEncode \/ DefaultUsingEncoded \/ EncodedSize \/ Join
  \/ Forward \/ OwnEncodeTo \/ OwnUsingEncoded \/ OwnEncode

Spec == Init /\ [][Next]_vars

-----------------------------------------------------------------------------
(* Properties.                                                             *)

\* A destination holds bytes, or their number; the index of a variant is cast
\* to a byte whatever its discriminant is.
TypeOK ==
  /\ entry \in Entries
  /\ status \in {"running", "done", "panicked"}
  /\ \A i \in DOMAIN stack :
       /\ IF i = 1 THEN stack[i].m = "caller" ELSE stack[i].m \in Entries
       /\ stack[i].m # "encoded_size" => \A b \in Range(stack[i].buf) : b \in Byte

\* The three methods have defaults in terms of one another.  An implementation
\* must provide enough of them: no method of a value is called while it runs.
NoEndlessCalls ==
  \A i, j \in 2..Len(stack) :
    i < j => <<stack[i].m, stack[i].t, stack[i].v>> # <<stack[j].m, stack[j].t, stack[j].v>>
=============================================================================
