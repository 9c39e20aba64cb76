----------------------------- MODULE CompactCodec -----------------------------
(***************************************************************************)
(* One compact integer on its way through a byte stream: a writer of one   *)
(* width, or any other source of bytes, and a reader of the same or of     *)
(* another width.                                                          *)
(***************************************************************************)
EXTENDS CompactInt

CONSTANTS
  Values,  \* the values a writer may encode, tuples of 1, 2, 4, 8 or 16 bytes
  Tails,   \* what may follow the integer in the stream
  Wires    \* byte streams that no writer of this crate produced

ASSUME ValuesAssumption == \A v \in Values : \E w \in Widths : v \in Uint(w)
ASSUME StreamsAssumption == Tails \cup Wires \subseteq Seq(Byte)

VARIABLES
  value,   \* the value the writer encoded, <<>> before that or without writer
  wire,    \* the bytes in the stream
  reader,  \* the width that was decoded, 0 before that
  outcome  \* what decode returned

vars == <<value, wire, reader, outcome>>

Init ==
  /\ value = <<>>
  /\ wire = <<>>
  /\ reader = 0
  /\ outcome = Refuse(0)

\* Nothing has been put in the stream yet.
Idle == value = <<>> /\ wire = <<>>

\* Compact(v).encode_to(dest), with more data behind it.
Write(v, tail) ==
  /\ value' = v
  /\ wire' = EncodeTo(v) \o tail
  /\ UNCHANGED <<reader, outcome>>

\* The stream comes from somewhere else: a test vector, a faulty encoder.
Receive(b) ==
  /\ wire' = b
  /\ UNCHANGED <<value, reader, outcome>>

\* Compact::<uN>::decode(&mut &wire[..])
Read(w) ==
  /\ wire # <<>> /\ reader = 0
  /\ reader' = w
  /\ outcome' = DecodeFrom(w, wire)
  /\ UNCHANGED <<value, wire>>

Next ==
  \/ Idle /\ \E v \in Values, t \in Tails : Write(v, t)
  \/ Idle /\ \E b \in Wires : Receive(b)
  \/ \E w \in Widths : Read(w)

Spec == Init /\ [][Next]_vars

-----------------------------------------------------------------------------
\* A decoded value has the width that was asked for, and no more bytes are
\* taken from the stream than it has, also by a read that fails halfway.
TypeOK ==
  /\ value # <<>> => Len(value) \in Widths /\ value \in Uint(Len(value))
  /\ wire \in Seq(Byte)
  /\ reader \in {0} \cup Widths
  /\ outcome.ok => outcome.val \in Uint(reader)
  /\ outcome.used \in 0..Len(wire)

\* Two widths agree on a value when it fits both.
Fits(v, w) == \A i \in (w+1)..Len(v) : v[i] = 0
Resize(v, w) == [i \in 1..w |-> Digit(v, i)]

\* A value written by one width is read back by every width it fits, exactly
\* and without touching what follows it; a width it does not fit refuses it
\* (compact.rs: each encode_to arm against each decode arm).
RoundTrip ==
  value # <<>> /\ reader # 0 =>
    IF Fits(value, reader)
    THEN outcome = Accept(Resize(value, reader), CompactLen(value))
    ELSE ~outcome.ok

\* Only the shortest form is accepted: whatever decode accepts, from any
\* source, is byte for byte what encode_to writes for the decoded value (the
\* out-of-range checks of every decode arm).
Canonical ==
  outcome.ok => EncodeTo(outcome.val) = SubSeq(wire, 1, outcome.used)

\* compact_len, which size_hint returns and append_or_new uses to find the
\* items, is the number of bytes encode_to writes, and these fit the stack
\* buffer of using_encoded (the assert of ArrayVecWrapper::write).
LengthExact ==
  value # <<>> =>
    /\ Len(EncodeTo(value)) = CompactLen(value)
    /\ CompactLen(value) <= BufferCapacity(Len(value))
=============================================================================
