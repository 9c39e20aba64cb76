----------------------------- MODULE EncodeTypes ------------------------------
(***************************************************************************)
(* Types that implement Encode, their values, and what each implementation *)
(* of the trait provides: a type overrides some of encode_to, encode and   *)
(* using_encoded and inherits the others, which call one another.          *)
(*                                                                         *)
(* A type is a record: its kind k, a number n, the types it is made of, the *)
(* fields or the variants of a derived type.  A uN or iN is a tuple of its *)
(* n bytes; an Option is a sequence of length 0 or 1; collections, tuples  *)
(* and structs are sequences; an enum value has a variant and fields.      *)
(***************************************************************************)
EXTENDS CompactInt, SequencesExt

CONSTANTS
  MaxLen,   \* u32::MAX, the longest collection that can be encoded
  MaxBits   \* ARCH32BIT_BITSLICE_MAX_BITS

Type(k, n, of, fields, variants) ==
  [k |-> k, n |-> n, of |-> of, fields |-> fields, variants |-> variants]
Basic(k, n, of) == Type(k, n, of, <<>>, <<>>)

IntType(n) == Basic("int", n, <<>>)
Bool == Basic("bool", 1, <<>>)
OptionBool == Basic("optbool", 1, <<>>)
Unit == Basic("unit", 0, <<>>)
Phantom == Basic("phantom", 0, <<>>)
NonZero(n) == Basic("nonzero", n, <<IntType(n)>>)
Compact(t) == Basic("compact", t.n, <<t>>)
Option(t) == Basic("option", 0, <<t>>)
Result(t, e) == Basic("result", 0, <<t, e>>)
Array(n, t) == Basic("array", n, <<t>>)
GenericArray(n, t) == Basic("garray", n, <<t>>)
Slice(t) == Basic("slice", 0, <<t>>)
Vec(t) == Basic("vec", 0, <<Slice(t)>>)
VecDeque(t) == Basic("deque", 0, <<t>>)
BTreeSet(t) == Basic("set", 0, <<t>>)
LinkedList(t) == Basic("list", 0, <<t>>)
Tuple(ts) == Basic("tuple", 0, ts)
Boxed(t) == Basic("box", 0, <<t>>)      \* Box; Arc is not ConstEncodedLen
Ref(t) == Basic("ref", 0, <<t>>)        \* &, &mut, Rc and Cow
String == Basic("string", 0, <<Vec(IntType(1))>>)
Duration == Basic("duration", 0, <<Tuple(<<IntType(8), IntType(4)>>)>>)
RangeOf(t) == Basic("range", 0, <<Tuple(<<Ref(t), Ref(t)>>)>>)
BitVec(n, order) == Basic(order, n, <<IntType(n)>>)   \* order is "lsb0" or "msb0"
Raw == Basic("raw", 0, <<>>)            \* bytes for Output::write

\* Derived types.  A field has a type and the attribute none, skip, compact or
\* encoded_as with a type; a variant has an index attribute, a discriminant
\* (both sequences of length 0 or 1) and may be skipped.
Field(t) == [ty |-> t, attr |-> "none", as |-> t]
Skipped(t) == [Field(t) EXCEPT !.attr = "skip"]
CompactField(t) == [Field(t) EXCEPT !.attr = "compact"]
EncodedAs(t, as) == [ty |-> t, attr |-> "encoded_as", as |-> as]
Variant(index, disc, skip, fields) ==
  [index |-> index, disc |-> disc, skip |-> skip, fields |-> fields]
Struct(fields) == Type("struct", 0, <<>>, fields, <<>>)
Enum(variants) == Type("enum", 0, <<>>, <<>>, variants)

-----------------------------------------------------------------------------
(* Attributes of derived types.                                            *)

\* The type a field is encoded as: get_compact_type, get_encoded_as_type.
FieldType(f) ==
  CASE f.attr = "compact" -> Compact(f.ty)
    [] f.attr = "encoded_as" -> f.as
    [] f.attr \in {"none", "skip"} -> f.ty

\* Positions of the fields that are not skipped.
Kept(fields) == {i \in DOMAIN fields : fields[i].attr # "skip"}

\* utils::try_get_variants: the variants that are not skipped, by position.
TryGetVariants(vs) == SetToSortSeq({i \in DOMAIN vs : ~vs[i].skip}, <)

\* Mutant of VariantIndex: a discriminant is not cast.
VariantIndexWide(vs, i) ==
  LET v == vs[TryGetVariants(vs)[i]]
  IN IF v.index # <<>> THEN v.index[1]
     ELSE IF v.disc # <<>> THEN v.disc[1]
     ELSE i - 1

\* utils::variant_index `as u8`, for the i-th variant that is not skipped: its
\* attribute, else its discriminant, else its position among them.
VariantIndex(vs, i) ==
  LET v == vs[TryGetVariants(vs)[i]]
  IN IF v.index # <<>> THEN v.index[1]
     ELSE IF v.disc # <<>> THEN v.disc[1] % 256
     ELSE i - 1

-----------------------------------------------------------------------------
(* The implementations of Encode.                                          *)

Methods == {"encode_to", "encode", "using_encoded"}

\* A struct with one field that is not skipped:
\* try_impl_encode_single_field_optimisation.
SingleField(t) == t.k = "struct" /\ Cardinality(Kept(t.fields)) = 1

\* Compact of an integer: the value is encoded by CompactRef<uN>.
IsCompactInt(t) == t.k = "compact" /\ t.of[1].k = "int"

\* Compact<T> and CompactRef<T> of a T that implements CompactAs.
IsCompactAs(t) == t.k = "compact" /\ t.of[1].k = "struct"

\* Types whose methods all call the same method of another value.
Forwards(t) ==
  \/ t.k \in {"nonzero", "vec", "box", "ref", "string"}
  \/ t.k = "tuple" /\ Len(t.of) = 1
  \/ SingleField(t)
  \/ IsCompactAs(t)

\* Mutant of Provides: Range and Duration inherit all methods.
ProvidesNoRange(t) ==
  IF Forwards(t) THEN Methods
  ELSE CASE t.k \in {"int", "bool", "optbool"} -> {"using_encoded"}
         [] t.k = "unit" \/ (t.k = "compact" /\ t.of[1].k = "unit") -> Methods
         [] IsCompactInt(t) -> {"encode_to", "using_encoded"}
         [] t.k \in {"duration", "range"} -> {}
         [] OTHER -> {"encode_to"}

\* The methods an implementation has; the others are the trait's.
Provides(t) ==
  IF Forwards(t) THEN Methods
  ELSE CASE t.k \in {"int", "bool", "optbool"} -> {"using_encoded"}
         [] t.k = "unit" \/ (t.k = "compact" /\ t.of[1].k = "unit") -> Methods
         [] IsCompactInt(t) -> {"encode_to", "using_encoded"}
         [] t.k \in {"duration", "range"} -> {"encode"}
         [] t.k = "enum" /\ TryGetVariants(t.variants) = <<>> -> {}
         [] OTHER -> {"encode_to"}

Call(t, v) == [t |-> t, v |-> v]
Write(bytes) == Call(Raw, bytes)

\* The one field that is not skipped.
OnlyField(fields) == CHOOSE i \in Kept(fields) : TRUE

\* The value that a forwarding type calls, and the tuple that Duration and
\* Range encode.
Target(t, v) ==
  CASE SingleField(t) ->
         LET i == OnlyField(t.fields)
         IN Call(FieldType(t.fields[i]), v[i])
    [] IsCompactAs(t) ->   \* CompactAs::encode_as
         LET i == OnlyField(t.of[1].fields)
         IN Call(Compact(t.of[1].fields[i].ty), v[i])
    [] t.k = "tuple" -> Call(t.of[1], v[1])
    [] t.k \in {"nonzero", "vec", "box", "ref", "string", "duration", "range"} -> Call(t.of[1], v)

\* The bytes of a value that is encoded as a whole.
LeafBytes(t, v) ==
  CASE t.k = "int" -> v
    [] t.k = "bool" -> IF v THEN <<1>> ELSE <<0>>
    [] t.k = "optbool" -> IF v = <<>> THEN <<0>> ELSE IF v[1] THEN <<1>> ELSE <<2>>
    [] t.k = "compact" -> IF t.of[1].k = "unit" THEN <<>> ELSE EncodeTo(v)
    [] t.k = "unit" -> <<>>

\* TYPE_INFO is that of a number.
IsNumber(t) == t.k = "int"

\* encode_slice_no_len: numbers in one write, other items one by one.
EncodeSliceNoLen(t, items) ==
  IF IsNumber(t) THEN <<Write(FlattenSeq(items))>>
  ELSE [i \in DOMAIN items |-> Call(t, items[i])]

\* encode_fields of the derive macro.
EncodeFields(fields, v) ==
  LET kept == SetToSortSeq(Kept(fields), <)
  IN [i \in DOMAIN kept |-> Call(FieldType(fields[kept[i]]), v[kept[i]])]

\* The match of impl_encode: the index of the variant and its fields; nothing
\* for a variant that is skipped.
EncodeVariant(vs, v) ==
  LET is == {i \in DOMAIN TryGetVariants(vs) : TryGetVariants(vs)[i] = v.var}
  IN IF is = {} THEN <<>>
     ELSE <<Write(<<VariantIndex(vs, CHOOSE i \in is : TRUE)>>)>> \o EncodeFields(vs[v.var].fields, v.fields)

\* One element of a BitSlice, its unused bits zero: bit i of the chunk is bit
\* i of the integer, or bit 8n - 1 - i.
Element(order, n, chunk) ==
  LET bit(j) == LET i == IF order = "lsb0" THEN j ELSE 8 * n - 1 - j
                IN IF i < Len(chunk) /\ chunk[i + 1] THEN 1 ELSE 0
  IN [b \in 1..n |-> FoldFunctionOnSet(+, 0, [k \in 0..7 |-> bit(8 * (b - 1) + k) * 2^k], 0..7)]

\* BitSlice::chunks(8 * size_of::<T>())
Chunks(n, bits) ==
  LET w == 8 * n
      last(i) == IF i * w < Len(bits) THEN i * w ELSE Len(bits)
  IN [i \in 1..((Len(bits) + w - 1) \div w) |-> SubSeq(bits, (i - 1) * w + 1, last(i))]

\* The length in front of a collection: compact_encode_len_to.
LenPrefix(n) == Write(EncodeLen(n))

\* What encode_to does, for the types that have one: writes and calls of
\* encode_to, in order.
Steps(t, v) ==
  LET items(ts) == [i \in DOMAIN v |-> Call(ts[IF Len(ts) = 1 THEN 1 ELSE i], v[i])]
  IN CASE t.k = "phantom" -> <<>>
       [] t.k \in {"unit", "compact"} -> <<Write(LeafBytes(t, v))>>
       [] t.k = "option" -> IF v = <<>> THEN <<Write(<<0>>)>> ELSE <<Write(<<1>>), Call(t.of[1], v[1])>>
       [] t.k = "result" -> <<Write(<<v.var - 1>>), Call(t.of[v.var], v.fields[1])>>
       [] t.k = "array" -> EncodeSliceNoLen(t.of[1], v)
       [] t.k \in {"garray", "tuple"} -> items(t.of)
       [] t.k = "slice" -> <<LenPrefix(Len(v))>> \o EncodeSliceNoLen(t.of[1], v)
       [] t.k \in {"set", "list"} -> <<LenPrefix(Len(v))>> \o items(t.of)
       [] t.k = "deque" ->   \* as_slices
            <<LenPrefix(Len(v[1]) + Len(v[2]))>> \o EncodeSliceNoLen(t.of[1], v[1])
              \o EncodeSliceNoLen(t.of[1], v[2])
       [] t.k \in {"lsb0", "msb0"} ->
            LET chunks == Chunks(t.n, v)
            IN <<LenPrefix(Len(v))>>
                 \o [i \in DOMAIN chunks |-> Call(IntType(t.n), Element(t.k, t.n, chunks[i]))]
       [] t.k = "struct" -> EncodeFields(t.fields, v)
       [] t.k = "enum" -> EncodeVariant(t.variants, v)

\* The expect of compact_encode_len_to and the assert of BitSlice.
TooLong(t, v) ==
  CASE t.k \in {"slice", "set", "list"} -> Len(v) > MaxLen
    [] t.k = "deque" -> Len(v[1]) + Len(v[2]) > MaxLen
    [] t.k \in {"lsb0", "msb0"} -> Len(v) > MaxBits
    [] OTHER -> FALSE
=============================================================================
