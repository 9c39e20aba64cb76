# TLA+ models of parity-scale-codec

SCALE is a compact binary encoding without type information in the data: a
reader must know the type. This directory models how the crate reads and writes
it: TLA+ modules, configurations for TLC, and TLAPS proofs. Paths below are
relative to the repository.

## The system

| part | source | modelled in |
|---|---|---|
| Compact integers | `src/compact.rs` | `CompactInt`, `CompactCodec` |
| Input wrappers: depth limit, memory limit, byte counter | `src/depth_limit.rs`, `src/mem_tracking.rs`, `src/counted_input.rs` | `InputLayers` |
| Decoding of built-in and derived types; `decode_all` | `src/codec.rs`, `src/decode_all.rs`, `src/btree_utils.rs`, `derive/src/decode.rs` | `Decoder`, `DecoderTypes`, `DecodeReference` |
| Appending to an encoded list | `src/encode_append.rs` | `EncodeAppend`, `AppendList` |
| `BytesCursor`, `decode_from_bytes` | `src/codec.rs` | `BytesCursor`, `SliceInput` |
| Encoding of built-in and derived types | `src/codec.rs`, `src/compact.rs`, `derive/src/encode.rs` | `EncodeTypes`, `Encoder` |
| `Joiner`, `KeyedVec` | `src/joiner.rs`, `src/keyedvec.rs` | `Encoder` |
| `Decode::skip`, `encoded_fixed_size`, `DecodeLength` | `src/codec.rs` | `EncodeReference` |
| Bit vectors, generic arrays | `src/bit_vec.rs`, `src/generic_array.rs` | `EncodeTypes`, `EncodeReference` |
| `MaxEncodedLen`, `ConstEncodedLen` | `src/max_encoded_len.rs`, `src/const_encoded_len.rs`, `derive/src/max_encoded_len.rs` | `EncodeReference` |
| `EncodeLike` | `src/encode_like.rs` and the impls in `src/codec.rs` | `EncodeReference` |
| Derive macros: attributes, variant indices, fields | `derive/src/utils.rs`, `derive/src/{lib,encode,decode,max_encoded_len}.rs` | `DeriveItem`, `Derive` |
| Derive macros: where clauses | `derive/src/trait_bounds.rs` | `TraitBounds`, `Derive` |
| Errors; crate root; fuzzer | `src/error.rs`, `src/lib.rs`, `fuzzer/` | not modelled |

The parts meet in one call of `decode`. The type asks an `Input` for bytes and
tells it when it enters a reference (`descend_ref`), leaves it (`ascend_ref`)
or is about to allocate (`on_before_alloc_mem`). Wrappers around the source of
bytes act on these hooks. Lengths of collections are `Compact<u32>`. `encode`
is the other direction: a type provides some methods of `Encode` and inherits
the others, and callers and outputs see only bytes. The derive macros write
both directions for a user's type, from attributes that each macro looks up for
itself.

## Modules

**`CompactInt`** has the pure functions of `compact.rs`. A uN is the tuple of
its bytes, least significant first, so that u128 is exact. `EncodeTo` and
`CompactLen` are the arms of `encode_to` and `compact_len`; `DecodeFrom` is
`decode`, with the number of bytes that successful reads took.
**`CompactCodec`** puts a value of one width, or any bytes, into a stream and
decodes them as any width.

**`InputLayers`** has the wrappers as a sequence of layers, outermost first,
and their methods as functions on it, in the order of the code: the inner input
first, so an inner error leaves the outer layers alone.

**`Decoder`** is the recursion of `Decode::decode` as a stack of frames. Types
are data (`Desc`); types of one control flow share a kind. Every action is one
call: a read, an allocation, entering a type, returning, or one level of
unwinding. `built` is the encoding of what has been decoded, `heap` the bytes
that decoding holds; `own`, `kids`, `base` of a frame say who holds them and
`level` counts the open references. `NextCall` is another `decode` on the same
input: `decode_with_depth_limit` makes its wrapper anew, a `MemTrackingInput`
or `CountedInput` that the caller owns goes on. **`DecodeReference`** says what
decoding promises, as a recursive function of type and position without frames,
chunks or hooks. **`DecoderTypes`** builds type descriptions.

**`EncodeAppend`** is `append_or_new` with every branch, on a buffer of
prefix bytes and items; **`AppendList`** is the list it implements.

**`BytesCursor`** is an `Input` over a window of a shared allocation: plain
reads move `position`, a decoded `Bytes` is split off after the window was
advanced. `ScaleInternalDecodeBytes` is the cursor's own method,
`DecodeCopied` the trait's default, which runs when a wrapper is in between. **`SliceInput`** is the
plain slice it implements; the refinement maps the rest of the window behind
`position` to the rest of the slice.

**`EncodeTypes`** has the types and their values, what each impl of `Encode`
provides (`Provides`) and the parts that it writes. **`Encoder`** is the
recursion of encoding as a stack of calls of `encode_to`, `encode`,
`using_encoded`, `encoded_size`; where a type does not provide a method the
trait's default is called, and a wrapper forwards. An `encode_to` writes to the
buffer of the nearest call that made one. `Join` is what `Joiner::and` and
`KeyedVec::to_keyed_vec` do around such a call. **`EncodeReference`** has what
this is held against: the format as a function of the value (`Format`), `decode`
and `skip` as functions of bytes, with the bytes taken before an error, and the
claims of types: `MaxEncodedLen`, `ConstEncodedLen`, the fixed size,
`DecodeLength`, and `EncodeLike`, one operator for each group of impls.
**`EncoderStack`** is `Encoder` on a stack that ends.

**`DeriveItem`** has items, their attributes, the finders with the places where
they panic, and `check_attributes`. **`TraitBounds`** builds where clauses.
**`Derive`** expands the five macros on one item in any order the compiler may
take them; what an expansion leaves is an impl (its where clause, which field it
handles as which type, and which get a default), a compile error or a panic.

**`...Proofs`**, `DecoderFrames` and `DecoderSteps` hold the proofs, **`MC...`** modules the instances.

## Runs

| run | shows |
|---|---|
| `CompactCodec` | Round trip between all widths, canonical form, exact length and buffer size. All of u8, five edge digits per byte of u16 and u32, patterns of u64 and u128 that end at each byte, and streams with every first byte and up to 17 more. |
| `Decoder` | One call on eight root types that use all kinds. All inputs of up to three bytes over {0,1,4,8} and six longer ones; slice and reader; five stacks of wrappers. |
| `DecoderCalls` | Two calls on one input, the first value kept or dropped; types that nest without reading. `Termination` is checked here. |
| `EncodeAppend` | All appends of up to four items through all prefix sizes to the largest count. |
| `BytesCursor` | Reads of 0 to 2 bytes, split off and copied `Bytes` in any order, on all inputs of up to four bytes over {0,1,4,8} and two longer ones: the cursor refines a slice, and what it gives away is disjoint and in order. |
| `Encoder` | Every entry of `Encode` and both joining helpers on values of every kind of type, compact fields, skipped fields and variants, both bit orders. All entries give the bytes of the format or panic where a length does not fit, with only what is in front of that collection in the caller's output; `decode` takes them back, and `skip` accepts the same inputs, cut short or changed, and takes as many bytes; every length and every `EncodeLike` a type claims is true of them; no chain of defaults returns to its start. |
| `Derive` | The five macros on structs, enums and unions with each attribute on fields, variants and the top, well placed, doubled and misplaced; field types that contain a parameter, an associated type or the item itself. No checked macro panics; where clauses are enough (but for the defaults of `CompactAs`, see below) and not too much; supertraits follow; `Encode`, `Decode` and `DecodeWithMemTracking` agree on every field and its type, and `CompactAs` on its one field. `MaxEncodedLen` does not: finding 5. |
| `DecoderMemLimit` | Fails as the code does: see findings. |
| `DecoderInPlace` | Fails as the code does: see findings. |
| `EncodeAppendLong` | Fails as the code does: see findings. |
| `EncoderStack` | Fails as the code does: see findings. |
| `EncoderMaxLen` | Fails as the code does: see findings. |

**Bounds.** `MaxPrealloc` is 2 bytes, so a vector of three bytes takes two
chunks and one of u16 a chunk per element. `UsizeMax` is 600 and `U64Max` is 3,
so that the counter saturates. In `EncodeAppend` the prefix grows at counts 2,
4 and 7 and the largest count is 8; the items are opaque, since append never
looks at them. `MaxCalls` is 1 or 2: with two, every way a call can end precedes
another call. In `Encoder`, `MaxLen` (u32::MAX) is 4 and `MaxBits` is 20, so
that collections and bit vectors below, at and above the limit are encoded, and
a bit vector ends inside, at and after an element. `MaxStack` is 20 calls, more
than the deepest value of that run needs. An item of `Derive` has up to two
fields or variants, or 257 variants: each rule looks at one field and the item,
and a pair shows what one field does to the bound of another. The proofs assume
none of these values.

**Deadlock** is checked in `BytesCursor`, where another call is always possible.
Elsewhere it is not: a decoded or encoded value, a failed call, a lost buffer
and an expanded item are ends.

**Fairness.** `Termination` assumes `WF_vars(Next)`: a call is sequential code
in one thread and is not suspended between steps. It holds for inputs and
wrappers of the run, where a recursive type that reads nothing is always under
a depth or memory limit; without one the code really recurses until its stack
ends. `Encoder` needs no fairness: endless calls of the defaults make the stack
grow, which the invariant `NoEndlessCalls` excludes, and `EncodesAsFormat` says
that a call that is not done can go on.

## Findings

1. `append_or_new` casts the number of new items with `as u32`
   (`src/encode_append.rs:97`). A batch of more than u32::MAX items is written
   whole and counted modulo 2^32, also behind an encoded empty list. The branch
   for an empty buffer refuses it.
2. `CountedInput` does not forward `on_before_alloc_mem`
   (`src/counted_input.rs:37`): a `MemTrackingInput` inside it limits nothing.
3. `decode_into` of a transparent struct (`derive/src/decode.rs:155`) drops no
   field when a later one fails. Its comment expects fields without size to do
   nothing, but an enum with one variant reads and may refuse its index.
4. For an enum whose variants are all skipped, `derive(Encode)` writes an impl
   without a method (`derive/src/encode.rs:306`). The trait's defaults then call
   one another until the stack overflows, where the documentation says that a
   skipped variant is not encoded.
5. `derive(MaxEncodedLen)` does not look at `encoded_as`
   (`derive/src/max_encoded_len.rs:95`): the bound of a u32 that is encoded as
   `Compact<u32>` is 4, and its encoding may have 5 bytes.

Two more observations have no run.

* `derive(CompactAs)` gives skipped fields `Default::default()`
  (`derive/src/lib.rs:337-344`) but passes no bound for them (line 327), where
  `derive(Decode)` passes `Default`. `struct S<N>(u32, #[codec(skip)] N)` does
  not compile with it unless the struct itself has `N: Default`.
  `BoundsSuffice` leaves this macro out.
* `skip` and `decode` of an array of numbers stop at different places when the
  input is too short: on three bytes `<[u16; 2]>::skip` takes two and fails,
  `decode`, which reads all at once, takes none. Nothing documents where either
  stops; `SkipsAsDecodes` has them equal on all other errors.

## Proofs

For all constants that satisfy the assumptions in the modules:

* `DecoderProofs`: `TypeOK`, `DepthExact`, `NestingBounded`, `MemAccounted`,
  `PreallocBounded` and `CountedExact` are invariants of `Spec`, for any
  types, inputs and wrappers and any number of calls. `NoLeak` is one under
  `InPlaceSafe`: fields of a transparent struct after its first take no bytes
  and cannot fail. This is sufficient and a little stronger than necessary;
  finding 3 shows that some such condition is needed.
* `EncodeAppendProofs`: `CountExact` and the refinement of `AppendList`, under
  `BatchesFit` (finding 1 is the other case).
* `CompactCodecProofs`: `TypeOK`, `RoundTrip`, `Canonical` and `LengthExact` of
  compact integers, for every value of every width, anything behind it, and any
  other stream.
* `BytesCursorProofs`: `TypeOK`, `GivenInOrder` and the refinement of
  `SliceInput`, for any input and any sizes of reads.
* `DecoderFrames` (stack and invariant), `DecoderSteps` (one lemma per decoding
  action), `CompactIntProofs`, `InputLayersProofs`: the lemmas these rest on.

None of the decoder's properties is inductive. They speak of the top of the
stack, and a return or an unwinding step exposes the frame below. `IInv` says
for each pair of neighbours (`Link`) that the upper frame's `base` is all that
is held below it, that its `level` is one more exactly if its kind enters a
reference, and that the lower frame is in the middle of a child. Popping a
frame then restores the invariant for the frame that appears. During an error
the depth may be too high, since `Vec` and `Box` return before `ascend_ref`;
that it is never too low is what keeps `ascend_ref` of the trees and lists from
underflow.

The compact integers are argued on digits, the bytes of a value extended by
zeros. `encode_to` and `compact_len` depend on the digits alone (`EncodeSame`),
which makes one width stand for all. Shifting by the mode bits and back is the
identity in both directions (`Shr2Shl2`, `Shl2Shr2`): the first gives the round
trip, the second the canonical form, once the range checks of `decode` are seen
to be exactly the negated guards of the shorter arms. The invariant says that
the stream still starts with what was written and that the outcome is that of
`decode` on the whole stream.

For the cursor, `TypeOK` and `GivenInOrder` together are inductive: that
`position` stays inside the window, and the window behind all that was given
away, is what makes each split a step of the slice.

Only model-checked: `DecodesExactly`, the decoder's `RoundTrip` and all
properties of `Encoder` (they compare with recursive functions of the value and
need induction over data), those of `Derive` (recursion over types), and
`Termination` (liveness).

## Abstractions

* A list's nodes count as held from their announcement on. Tree nodes and the
  headers of `Rc` and `Arc` are not in the ledger; the hook's documentation
  allows an approximation, and `MemSizeOfBtree` charges the estimate.
* Trees hold single bytes, so sorting items is sorting bytes. Values of a map
  (the last one wins) are not modelled. `BinaryHeap` reorders its items and is
  left out.
* Types of `Decoder` have no `Compact` fields; those of `Encoder` and its
  reference have.
* A user's `decode` may panic (`DecodePanics`); a failing allocator is not
  modelled.
* The `checked_mul(2)` error of `append_or_new` is kept, although no `Vec` is
  longer than isize::MAX.
* An `ExactSizeIterator` tells the truth about its length.

* The values that `Encoder` encodes are small: one or two items per collection,
  or as many as it takes to reach a limit. Sets hold single bytes, so their
  order is that of the bytes.
* `usize` overflow of a sum in `MaxEncodedLen` is saturated in the code and not
  reached in the model.
* Types in `Derive` are trees of paths. Of the compiler's trait resolution the
  model has what the properties need (`Solves`): a bound in the where clause, an
  item that has the trait by its own impl, and containers that have it if their
  arguments do.

## Not modelled

* `size_hint`: it chooses the capacity of a new vector, and no result depends on
  it. The exact one of compact integers is `compact_len`, which is modelled.
* `src/error.rs`: texts and chains of errors. The models tell an error from a
  value and from a panic, not from another error.
* An `io::Write` as an output: it takes all bytes or panics.
* The order of items in a `BinaryHeap` and the values of a map. Both are encoded
  and decoded as sequences of items, which is modelled; what `std` does with the
  items afterwards is not in the repository.
* Parsing of tokens, spans and messages of the macros: these are left to `syn`.
* `src/lib.rs`, the features and the fuzzer: re-exports, switches and a driver.
* Several threads: no type of the crate shares mutable state between them.
