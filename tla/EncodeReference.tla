--------------------------- MODULE EncodeReference ----------------------------
(***************************************************************************)
(* What Encoder is held against: the SCALE format as a function of a value, *)
(* decode and skip as functions of bytes, and the lengths that types claim *)
(* for their encodings.                                                    *)
(***************************************************************************)
EXTENDS Encoder

RECURSIVE Format(_, _)

\* The encoding of a value, and of several.
Formats(cs) == FlattenSeq([i \in DOMAIN cs |-> Format(cs[i].t, cs[i].v)])

Format(t, v) ==
  LET each(ty, xs) == Formats([i \in DOMAIN xs |-> Call(ty, xs[i])])
      counted(ty, xs) == EncodeLen(Len(xs)) \o each(ty, xs)
      fields(fs, xs) ==
        Formats([i \in DOMAIN fs |-> IF fs[i].attr = "skip" THEN Call(Unit, <<>>)
                                     ELSE Call(FieldType(fs[i]), xs[i])])
  IN CASE t.k \in {"int", "bool", "optbool"} -> LeafBytes(t, v)
       [] t.k \in {"unit", "phantom"} -> <<>>
       [] t.k \in {"nonzero", "box", "ref", "vec", "string", "duration", "range"} -> Format(t.of[1], v)
       [] t.k = "compact" -> IF IsCompactAs(t)
                             THEN Format(Compact(t.of[1].fields[OnlyField(t.of[1].fields)].ty),
                                         v[OnlyField(t.of[1].fields)])
                             ELSE LeafBytes(t, v)
       [] t.k = "option" -> IF v = <<>> THEN <<0>> ELSE <<1>> \o Format(t.of[1], v[1])
       [] t.k = "result" -> <<v.var - 1>> \o Format(t.of[v.var], v.fields[1])
       [] t.k \in {"array", "garray"} -> each(t.of[1], v)
       [] t.k = "tuple" -> Formats([i \in DOMAIN v |-> Call(t.of[i], v[i])])
       [] t.k \in {"slice", "set", "list"} -> counted(t.of[1], v)
       [] t.k = "deque" -> counted(t.of[1], v[1] \o v[2])
       [] t.k \in {"lsb0", "msb0"} ->
            EncodeLen(Len(v)) \o
              FlattenSeq([i \in 1..Len(Chunks(t.n, v)) |-> Element(t.k, t.n, Chunks(t.n, v)[i])])
       [] t.k = "struct" -> fields(t.fields, v)
       [] t.k = "enum" ->
            IF t.variants[v.var].skip THEN <<>>
            ELSE LET before == {i \in 1..(v.var - 1) : ~t.variants[i].skip}
                 IN <<VariantIndex(t.variants, Cardinality(before) + 1)>>
                      \o fields(t.variants[v.var].fields, v.fields)

-----------------------------------------------------------------------------
(* Decode.                                                                 *)

RECURSIVE Decode(_, _), DecodeEach(_, _), Default(_)

\* A value, or an error, and how many bytes of the slice were taken by then.  A
\* read that asks for more than there is takes none.
Got(v, n) == [ok |-> TRUE, val |-> v, used |-> n]
Failed(n) == [ok |-> FALSE, val |-> <<>>, used |-> n]

\* A conversion of the value that was decoded, a check of it, and what comes
\* behind n bytes.
Mapped(r, f(_)) == IF r.ok THEN Got(f(r.val), r.used) ELSE r
Checked(r, ok(_)) == IF r.ok /\ ~ok(r.val) THEN Failed(r.used) ELSE r
Behind(n, r) == [r EXCEPT !.used = @ + n]
Drop(b, n) == SubSeq(b, n + 1, Len(b))

\* A value of each of the types, one behind the other.
DecodeEach(ts, b) ==
  IF ts = <<>> THEN Got(<<>>, 0)
  ELSE LET first == Decode(ts[1], b)
           rest == DecodeEach(Tail(ts), Drop(b, first.used))
       IN IF first.ok THEN Behind(first.used, Mapped(rest, LAMBDA xs : <<first.val>> \o xs))
          ELSE first

\* decode_vec_with_len: numbers are read all at once, or none of them, other
\* items one by one.
DecodeVecWithLen(t, n, b) ==
  LET r == DecodeEach([i \in 1..n |-> t], b)
  IN IF IsNumber(t) /\ ~r.ok THEN Failed(0) ELSE r

\* decode_into of an array: one read for all numbers.
DecodeArray(t, b) ==
  LET r == DecodeEach([i \in 1..t.n |-> t.of[1]], b)
  IN IF IsNumber(t.of[1]) /\ ~r.ok THEN Failed(0) ELSE r

\* A length, and as many items, of a Vec or of a collection that is built from
\* an iterator.
DecodeCounted(t, b) ==
  LET len == DecodeFrom(4, b)
      n == U32ToNat(len.val)
      rest == Drop(b, len.used)
  IN IF ~len.ok THEN Failed(len.used)
     ELSE Behind(len.used, IF t.k \in {"set", "list"} THEN DecodeEach([i \in 1..n |-> t.of[1]], rest)
                           ELSE DecodeVecWithLen(t.of[1], n, rest))

\* create_instance: skipped fields are Default::default().
DecodeFields(fields, b) ==
  LET kept == SetToSortSeq(Kept(fields), <)
      r == DecodeEach([i \in DOMAIN kept |-> FieldType(fields[kept[i]])], b)
      at(i) == CHOOSE j \in DOMAIN kept : kept[j] = i
  IN Mapped(r, LAMBDA xs : [i \in DOMAIN fields |->
                              IF i \in Kept(fields) THEN xs[at(i)] ELSE Default(fields[i].ty)])

\* The first variant that is not skipped and has the index.
DecodeEnum(vs, b) ==
  LET kept == TryGetVariants(vs)
      is == {i \in DOMAIN kept : b # <<>> /\ VariantIndex(vs, i) = b[1]}
      var == kept[Min(is)]
  IN IF is = {} THEN Failed(IF b = <<>> THEN 0 ELSE 1)
     ELSE Mapped(Behind(1, DecodeFields(vs[var].fields, Tail(b))),
                 LAMBDA xs : [var |-> var, fields |-> xs])

\* Mutant of Elts: always an element for the rest.
EltsAndRest(n, bits) == bits \div (8 * n) + 1

\* bitvec::mem::elts::<T>
Elts(n, bits) == (bits + 8 * n - 1) \div (8 * n)

\* The bits of the elements, in the order of BitVec<T, O>.
BitsOf(order, n, els) ==
  [i \in 1..(8 * n * Len(els)) |->
     LET k == (i - 1) % (8 * n)
         j == IF order = "lsb0" THEN k ELSE 8 * n - 1 - k
     IN (els[(i - 1) \div (8 * n) + 1][j \div 8 + 1] \div 2^(j % 8)) % 2 = 1]

\* BitVec::decode: the elements that hold the bits, then truncate.
DecodeBits(t, b) ==
  LET len == DecodeFrom(4, b)
      bits == U32ToNat(len.val)
  IN IF ~len.ok \/ bits > MaxBits THEN Failed(len.used)
     ELSE Mapped(Behind(len.used, DecodeVecWithLen(t.of[1], Elts(t.n, bits), Drop(b, len.used))),
                 LAMBDA els : SubSeq(BitsOf(t.k, t.n, els), 1, bits))

Decode(t, b) ==
  LET wrap(x) == <<x>>
      byte(ok, f(_)) == IF b = <<>> THEN Failed(0)
                        ELSE IF b[1] \in ok THEN Got(f(b[1]), 1) ELSE Failed(1)
  IN CASE t.k = "int" -> IF Len(b) < t.n THEN Failed(0) ELSE Got(SubSeq(b, 1, t.n), t.n)
       [] t.k = "bool" -> byte({0, 1}, LAMBDA x : x = 1)
       [] t.k = "optbool" -> byte({0, 1, 2}, LAMBDA x : IF x = 0 THEN <<>> ELSE <<x = 1>>)
       [] t.k \in {"unit", "phantom"} -> Got(<<>>, 0)
       [] t.k \in {"box", "ref", "vec", "string", "range"} -> Decode(t.of[1], b)
       [] t.k = "nonzero" ->
            Checked(Decode(t.of[1], b), LAMBDA x : \E i \in DOMAIN x : x[i] # 0)
       [] t.k = "duration" ->   \* less than 10^9 = 0x3b9aca00 nanoseconds
            Checked(Decode(t.of[1], b), LAMBDA x : U32ToNat(x[2]) < 1000000000)
       [] t.k = "compact" ->
            (CASE t.of[1].k = "unit" -> Got(<<>>, 0)
               [] IsCompactInt(t) -> LET r == DecodeFrom(t.n, b)
                                     IN IF r.ok THEN Got(r.val, r.used) ELSE Failed(r.used)
               [] IsCompactAs(t) ->   \* CompactAs::decode_from
                    LET fs == t.of[1].fields
                    IN Mapped(Decode(Compact(fs[OnlyField(fs)].ty), b),
                              LAMBDA x : [i \in DOMAIN fs |->
                                            IF i = OnlyField(fs) THEN x ELSE Default(fs[i].ty)]))
       [] t.k = "option" ->
            IF b = <<>> THEN Failed(0)
            ELSE IF b[1] = 0 THEN Got(<<>>, 1)
            ELSE IF b[1] = 1 THEN Mapped(Behind(1, Decode(t.of[1], Tail(b))), wrap)
            ELSE Failed(1)
       [] t.k = "result" ->
            IF b = <<>> THEN Failed(0)
            ELSE IF b[1] \notin {0, 1} THEN Failed(1)
            ELSE Mapped(Behind(1, Decode(t.of[b[1] + 1], Tail(b))),
                        LAMBDA x : [var |-> b[1] + 1, fields |-> <<x>>])
       [] t.k = "array" -> DecodeArray(t, b)
       [] t.k = "garray" -> DecodeEach([i \in 1..t.n |-> t.of[1]], b)
       [] t.k = "tuple" -> DecodeEach(t.of, b)
       [] t.k \in {"slice", "list"} -> DecodeCounted(t, b)
       [] t.k = "set" ->   \* from_iter of single bytes: sorted, no duplicates
            Mapped(DecodeCounted(t, b),
                   LAMBDA xs : SetToSortSeq(Range(xs), LAMBDA x, y : x[1] < y[1]))
       [] t.k = "deque" -> Mapped(DecodeCounted(t, b), LAMBDA xs : <<xs, <<>>>>)
       [] t.k \in {"lsb0", "msb0"} -> DecodeBits(t, b)
       [] t.k = "struct" -> DecodeFields(t.fields, b)
       [] t.k = "enum" -> DecodeEnum(t.variants, b)

\* Default::default() of the types that skipped fields have.
Default(t) ==
  CASE t.k = "int" -> [i \in 1..t.n |-> 0]
    [] t.k = "bool" -> FALSE
    [] t.k \in {"unit", "phantom", "option", "vec", "string"} -> <<>>
    [] t.k = "tuple" -> [i \in DOMAIN t.of |-> Default(t.of[i])]

-----------------------------------------------------------------------------
(* Decode::skip and Decode::encoded_fixed_size.                            *)

RECURSIVE FixedSize(_), Skip(_, _), SkipEach(_, _, _)

\* None is <<>>.  u8 and i8 do not say their size.
FixedSize(t) ==
  CASE t.k = "int" /\ t.n > 1 -> <<t.n>>
    [] t.k = "bool" -> <<1>>
    [] t.k = "array" /\ FixedSize(t.of[1]) # <<>> -> <<FixedSize(t.of[1])[1] * t.n>>
    [] OTHER -> <<>>

\* The loop over the elements of an array: those before an error stay taken.
SkipEach(t, n, b) ==
  IF n = 0 THEN Got(<<>>, 0)
  ELSE LET first == Skip(t, b)
       IN IF ~first.ok THEN first
          ELSE Behind(first.used, SkipEach(t, n - 1, Drop(b, first.used)))

\* Mutant of Skip: the loop over the elements ends early.
SkipShort(t, b) ==
  IF t.k = "array" /\ FixedSize(t) # <<>> THEN SkipEach(t.of[1], t.n - 1, b)
  ELSE Decode(t, b)

\* The default decodes; arrays of a fixed size skip their elements.
Skip(t, b) ==
  IF t.k = "array" /\ FixedSize(t) # <<>> THEN SkipEach(t.of[1], t.n, b)
  ELSE Decode(t, b)

-----------------------------------------------------------------------------
(* MaxEncodedLen and ConstEncodedLen.                                      *)

RECURSIVE HasMaxLen(_), MaxEncodedLen(_), IsConstLen(_)

AllHaveMaxLen(fields) == \A i \in Kept(fields) : HasMaxLen(fields[i].ty)

\* The types that implement MaxEncodedLen, derived ones if they derive it.
HasMaxLen(t) ==
  CASE t.k \in {"int", "bool", "nonzero", "unit", "phantom", "duration"} -> TRUE
    [] t.k = "compact" -> TRUE
    [] t.k \in {"option", "result", "array", "box", "tuple"} -> \A i \in DOMAIN t.of : HasMaxLen(t.of[i])
    [] t.k = "range" -> HasMaxLen(t.of[1].of[1].of[1])
    [] t.k = "struct" -> AllHaveMaxLen(t.fields)
    [] t.k = "enum" -> \A v \in Range(t.variants) : v.skip \/ AllHaveMaxLen(v.fields)
    [] OTHER -> FALSE

\* Mutant of MaxCompactLen: one byte more than the integer.
MaxCompactLenPlain(n) == n + 1

\* Compact<uN>, by the bytes of the uN.
MaxCompactLen(n) == CASE n = 1 -> 2 [] n = 2 -> 4 [] n = 4 -> 5 [] n = 8 -> 9 [] n = 16 -> 17

\* fields_length_expr of the derive macro; it knows compact, not encoded_as.
FieldsLength(fields) ==
  SumFunctionOnSet(
    [i \in Kept(fields) |->
       MaxEncodedLen(IF fields[i].attr = "compact" THEN Compact(fields[i].ty) ELSE fields[i].ty)],
    Kept(fields))

\* data_length_expr of an enum.
VariantsLength(vs) == Max({0} \cup {FieldsLength(v.fields) : v \in {w \in Range(vs) : ~w.skip}}) + 1

MaxEncodedLen(t) ==
  CASE t.k \in {"int", "bool", "nonzero", "unit", "phantom"} -> t.n
    [] t.k = "compact" ->
         (CASE t.of[1].k = "unit" -> 0
            [] IsCompactInt(t) -> MaxCompactLen(t.n)
            [] IsCompactAs(t) -> MaxEncodedLen(Compact(t.of[1].fields[OnlyField(t.of[1].fields)].ty)))
    [] t.k = "option" -> MaxEncodedLen(t.of[1]) + 1
    [] t.k = "result" -> Max({MaxEncodedLen(t.of[1]), MaxEncodedLen(t.of[2])}) + 1
    [] t.k = "array" -> MaxEncodedLen(t.of[1]) * t.n
    [] t.k = "box" -> MaxEncodedLen(t.of[1])
    [] t.k = "tuple" -> SumFunction([i \in DOMAIN t.of |-> MaxEncodedLen(t.of[i])])
    [] t.k = "duration" -> 8 + 4
    [] t.k = "range" -> MaxEncodedLen(t.of[1].of[1].of[1]) * 2
    [] t.k = "struct" -> FieldsLength(t.fields)
    [] t.k = "enum" -> VariantsLength(t.variants)

\* The types marked ConstEncodedLen; Option, Result and Compact are not.
IsConstLen(t) ==
  CASE t.k \in {"int", "bool", "nonzero", "unit", "phantom", "duration"} -> TRUE
    [] t.k \in {"tuple", "array", "box"} -> \A i \in DOMAIN t.of : IsConstLen(t.of[i])
    [] t.k = "range" -> IsConstLen(t.of[1].of[1].of[1])
    [] OTHER -> FALSE

-----------------------------------------------------------------------------
(* DecodeLength.                                                           *)

RECURSIVE HasLength(_), DecodeLength(_, _), Length(_, _)

HasLength(t) ==
  \/ t.k \in {"vec", "deque", "set", "list"}
  \/ t.k = "tuple" /\ HasLength(t.of[1])

\* The prefix of a collection; a tuple asks its first element.
DecodeLength(t, b) ==
  IF t.k = "tuple" THEN DecodeLength(t.of[1], b)
  ELSE LET len == DecodeFrom(4, b)
       IN IF len.ok THEN Got(U32ToNat(len.val), 0) ELSE Failed(0)

\* The number of elements of a value.
Length(t, v) ==
  CASE t.k = "tuple" -> Length(t.of[1], v[1])
    [] t.k = "deque" -> Len(v[1]) + Len(v[2])
    [] OTHER -> Len(v)

-----------------------------------------------------------------------------
(* EncodeLike.                                                             *)

RECURSIVE Likes(_)

\* The sequences of types with a type of each of the sets.
Products(sets) == {ts \in [DOMAIN sets -> UNION Range(sets)] : \A i \in DOMAIN sets : ts[i] \in sets[i]}

\* Box, references, Rc and Cow of a type are like it, and it is like them.
WrapperLikes(t) ==
  {Boxed(t), Ref(t)}
    \cup (IF t.k \in {"box", "ref"} THEN {t} ELSE {})
    \cup (IF t.k = "box" \/ (t.k = "ref" /\ t.of[1].k # "slice") THEN {t.of[1]} ELSE {})

\* Option, Result, and likewise arrays and tuples: those whose parts are like
\* the parts.
PartLikes(t) ==
  IF t.k \notin {"option", "result", "array", "tuple"} THEN {}
  ELSE {[t EXCEPT !.of = ts] : ts \in Products([i \in DOMAIN t.of |-> Likes(t.of[i])])}

\* The types that the items of a collection are like.
IsSliceRef(t) == t.k = "ref" /\ t.of[1].k = "slice"
ItemLikes(t) == Likes(IF t.k \in {"vec", "ref"} THEN t.of[1].of[1] ELSE t.of[1])

\* Vec and &[T].
VecLikes(t) ==
  CASE t.k = "vec" -> UNION {{Vec(u), Ref(Slice(u))} : u \in ItemLikes(t)}
    [] IsSliceRef(t) -> {Vec(u) : u \in ItemLikes(t)}
    [] OTHER -> {}

\* impl_encode_for_collection: BTreeSet and LinkedList are like themselves and
\* like slices of 1-tuples.
CollectionLikes(t) ==
  CASE t.k \in {"set", "list"} ->
         UNION {{[t EXCEPT !.of = <<u>>], Ref(Slice(Tuple(<<u>>)))} : u \in ItemLikes(t)}
    [] IsSliceRef(t) ->
         UNION {{BTreeSet(u.of[1]), LinkedList(u.of[1])}
                  : u \in {w \in ItemLikes(t) : w.k = "tuple" /\ Len(w.of) = 1}}
    [] OTHER -> {}

\* VecDeque, Vec and &[T].
DequeLikes(t) ==
  CASE t.k = "deque" -> {t} \cup UNION {{Vec(u), Ref(Slice(u))} : u \in ItemLikes(t)}
    [] t.k = "vec" \/ IsSliceRef(t) -> {VecDeque(u) : u \in ItemLikes(t)}
    [] OTHER -> {}

\* impl EncodeLike for T: numbers, and likewise the other types that are not
\* made of parts; ranges have none.
SelfLikes(t) ==
  IF t.k \in {"box", "ref", "option", "result", "array", "tuple",
             "vec", "set", "list", "deque", "range"} THEN {} ELSE {t}

\* Mutant of Likes: an array is like the Vec of its elements.
LikesVec(t) == {t, Boxed(t), Ref(t)} \cup (IF t.k = "array" THEN {Vec(t.of[1])} ELSE {})

\* The types U that a type T: EncodeLike<U> is declared to be encoded like.
Likes(t) ==
  WrapperLikes(t) \cup PartLikes(t) \cup VecLikes(t) \cup CollectionLikes(t)
    \cup DequeLikes(t) \cup SelfLikes(t)

-----------------------------------------------------------------------------
(* Properties.                                                             *)

RECURSIVE Visible(_, _), UsesEncodedAs(_), ReadAtOnce(_), HasTooLong(_, _), UpTo(_, _)

\* What of a value comes back from decode: skipped fields are defaults, a ring
\* buffer is in one piece.
Visible(t, v) ==
  LET each(ts) == [i \in DOMAIN v |-> Visible(ts[IF Len(ts) = 1 THEN 1 ELSE i], v[i])]
      fields(fs, xs) == [i \in DOMAIN fs |-> IF fs[i].attr = "skip" THEN Default(fs[i].ty)
                                             ELSE Visible(FieldType(fs[i]), xs[i])]
  IN CASE t.k \in {"nonzero", "box", "ref", "vec", "string", "duration", "range"} -> Visible(t.of[1], v)
       [] t.k \in {"option", "array", "garray", "tuple", "slice", "set", "list"} -> each(t.of)
       [] t.k = "deque" -> <<[i \in 1..Len(v[1] \o v[2]) |-> Visible(t.of[1], (v[1] \o v[2])[i])], <<>>>>
       [] t.k = "result" -> [v EXCEPT !.fields = <<Visible(t.of[v.var], v.fields[1])>>]
       [] IsCompactAs(t) -> fields(t.of[1].fields, v)
       [] t.k = "struct" -> fields(t.fields, v)
       [] t.k = "enum" -> [v EXCEPT !.fields = fields(t.variants[v.var].fields, @)]
       [] OTHER -> v

UsesEncodedAs(t) ==
  LET inFields(fs) == \E f \in Range(fs) : f.attr = "encoded_as" \/ UsesEncodedAs(f.ty)
  IN \/ inFields(t.fields)
     \/ \E v \in Range(t.variants) : inFields(v.fields)
     \/ \E u \in Range(t.of) : UsesEncodedAs(u)

\* An array of numbers, or of such arrays.
ReadAtOnce(t) == t.k = "array" /\ (IsNumber(t.of[1]) \/ ReadAtOnce(t.of[1]))

\* Some collection in the value is longer than its length prefix can say.
HasTooLong(t, v) ==
  CASE Forwards(t) \/ t.k \in {"duration", "range"} ->
         LET c == Target(t, v) IN HasTooLong(c.t, c.v)
    [] t.k \in {"int", "bool", "optbool", "raw"} -> FALSE
    [] OTHER -> TooLong(t, v) \/ \E s \in Range(Steps(t, v)) : HasTooLong(s.t, s.v)

\* What encode_to has written when it comes to the first such collection: all
\* that is in front of it, and nothing where the bytes are only written when
\* they are complete.
UpTo(t, v) ==
  IF Forwards(t) THEN LET c == Target(t, v) IN UpTo(c.t, c.v)
  ELSE IF TooLong(t, v) \/ "encode_to" \notin Provides(t) THEN <<>>
  ELSE LET steps == Steps(t, v)
           first == Min({i \in DOMAIN steps : HasTooLong(steps[i].t, steps[i].v)})
           bytes(s) == IF s.t = Raw THEN s.v ELSE Format(s.t, s.v)
       IN FlattenSeq([i \in 1..(first - 1) |-> bytes(steps[i])])
            \o UpTo(steps[first].t, steps[first].v)

\* The value that is encoded, and the bytes the caller has at the end.
T == Caller.t
V == Caller.v
Encoding == IF entry = "encode_to" THEN Caller.buf ELSE ret
Encoded == status = "done" /\ entry \in Methods
IsSkippedVariant(t, v) == t.k = "enum" /\ t.variants[v.var].skip

\* Every method of every type, own or inherited, gives the same bytes, those of
\* the format, encoded_size their number, and and to_keyed_vec put them behind
\* what was there; only a collection longer than its prefix can say makes them
\* panic, and no call is left that nothing goes on with.
EncodesAsFormat ==
  /\ status = "running" => ENABLED Next
  /\ Encoded => Encoding = Format(T, V)
  /\ status = "done" /\ entry = "encoded_size" => ret = <<Len(Format(T, V))>>
  /\ status = "done" /\ entry \in Joining => ret = Key \o Format(T, V)
  /\ status # "running" => (status = "panicked" <=> HasTooLong(T, V))

\* encode_to that panics leaves in the caller's output what it wrote until then:
\* the encoding of all that is in front of the collection that is too long, and
\* of that one not even the length.  The other methods write nothing to it.
PanicsBeforeLength ==
  status = "panicked" => Caller.buf = IF entry = "encode_to" THEN UpTo(T, V) ELSE <<>>

\* What encode wrote, decode reads: the value comes back, exactly its bytes are
\* taken whatever is behind them, and no part of them is a value.
RoundTrip ==
  Encoded /\ ~IsSkippedVariant(T, V) =>
    /\ \A tail \in {<<>>, <<1>>} :
         Decode(T, Encoding \o tail) = Got(Visible(T, V), Len(Encoding))
    /\ \A n \in 0..(Len(Encoding) - 1) : ~Decode(T, SubSeq(Encoding, 1, n)).ok

\* A type that is EncodeLike<U> encodes to a "Valid `T` encoded value": decode of
\* U takes all of it, and what it returns is encoded the same, unless it is a
\* set, which a slice need not be.
ValidAsLikes ==
  Encoded /\ ~IsSkippedVariant(T, V) =>
    \A u \in Likes(T) :
      LET r == Decode(u, Encoding)
      IN /\ r.ok /\ r.used = Len(Encoding)
         /\ u.k # "set" => Format(u, r.val) = Encoding

\* MaxEncodedLen is a bound on what is encoded.
MaxLenIsBound ==
  Encoded /\ HasMaxLen(T) => Len(Encoding) <= MaxEncodedLen(T)

\* The lengths that a type claims are those of its encodings: max_encoded_len
\* (derived without encoded_as), the same for ConstEncodedLen, the size from
\* encoded_fixed_size, and the number of elements from DecodeLength.
LengthsAgree ==
  Encoded =>
    /\ ~UsesEncodedAs(T) => MaxLenIsBound
    /\ IsConstLen(T) => Len(Encoding) = MaxEncodedLen(T)
    /\ FixedSize(T) # <<>> => Len(Encoding) = FixedSize(T)[1]
    /\ HasLength(T) => DecodeLength(T, Encoding) = Got(Length(T, V), 0)

\* skip accepts what decode accepts, and takes the same bytes, whatever is behind
\* them, also when the input ends early or, for a type of fixed size, has a byte
\* that is no value.  When both refuse, skip has taken what decode has; only an
\* array of numbers, which decode reads at once, is skipped one by one up to
\* the end of the input.
SkipsAsDecodes ==
  Encoded =>
    \A n \in 0..(Len(Encoding) + 1),
       i \in {0} \cup (IF FixedSize(T) = <<>> THEN {} ELSE DOMAIN Encoding) :
      LET b == SubSeq((IF i = 0 THEN Encoding ELSE [Encoding EXCEPT ![i] = 2]) \o <<1>>, 1, n)
          skip == Skip(T, b)
          dec == Decode(T, b)
      IN /\ skip.ok = dec.ok
         /\ IF skip.ok \/ ~ReadAtOnce(T) THEN skip.used = dec.used ELSE skip.used >= dec.used
=============================================================================
