------------------------------- MODULE MCEncoder ------------------------------
EXTENDS EncodeReference

U8 == IntType(1)
U16 == IntType(2)
U32 == IntType(4)

Ones(n) == [i \in 1..n |-> i % 3 = 1]

\* Integers in each form of the compact encoding.
Values(n) ==
  {[i \in 1..n |-> IF i = n THEN x ELSE 0] : x \in {0, 63, 64, 255}}
    \cup {[i \in 1..n |-> IF i = 1 THEN x ELSE 0] : x \in {1, 63, 64, 255}}

\* struct CompactAs(#[codec(skip)] u8, u32), which derives CompactAs.
NewType == Struct(<<Skipped(U8), Field(U32)>>)

Attributes ==
  Struct(<<Field(U16), Skipped(Option(U8)), CompactField(U32), EncodedAs(U16, Compact(U16))>>)

\* Indices 0, 15, 2 and 3: by position, attribute, cast discriminant, position
\* without the skipped variant.
Variants ==
  Enum(<<Variant(<<>>, <<>>, FALSE, <<>>),
         Variant(<<15>>, <<7>>, FALSE, <<Field(U16), Skipped(U8)>>),
         Variant(<<>>, <<>>, TRUE, <<Field(U8)>>),
         Variant(<<>>, <<258>>, FALSE, <<CompactField(U32)>>),
         Variant(<<>>, <<>>, FALSE, <<Field(Option(Bool))>>)>>)

Val(var, fields) == [var |-> var, fields |-> fields]

Of(t, values) == {Call(t, v) : v \in values}

Numbers ==
  UNION {Of(IntType(n), Values(n)) \cup Of(Compact(IntType(n)), Values(n)) : n \in Widths}
    \cup Of(NonZero(4), {<<0, 0, 0, 1>>}) \cup Of(NonZero(1), {<<2>>})

Simple ==
  Of(Bool, BOOLEAN) \cup Of(OptionBool, {<<>>, <<TRUE>>, <<FALSE>>})
    \cup Of(Unit, {<<>>}) \cup Of(Phantom, {<<>>}) \cup Of(Compact(Unit), {<<>>})
    \cup Of(Option(U16), {<<>>, <<<<1, 2>>>>})
    \cup Of(Option(Option(Unit)), {<<>>, <<<<>>>>, <<<<<<>>>>>>})
    \cup Of(Result(U8, U32), {Val(1, <<<<7>>>>), Val(2, <<<<1, 2, 3, 4>>>>)})
    \cup Of(Duration, {<<<<1, 0, 0, 0, 0, 0, 0, 9>>, <<255, 201, 154, 59>>>>})
    \cup Of(RangeOf(U16), {<<<<1, 0>>, <<5, 1>>>>})
    \cup Of(Tuple(<<U16>>), {<<<<1, 2>>>>})
    \cup Of(Tuple(<<Vec(U8), Bool>>), {<<<<<<5>>, <<6>>>>, TRUE>>})
    \cup Of(Tuple(<<U8, Duration>>), {<<<<4>>, <<<<0, 0, 0, 0, 0, 0, 0, 0>>, <<0, 0, 0, 0>>>>>>})

\* Collections up to one element past MaxLen, bit vectors up to one bit past
\* MaxBits and around the end of an element.
Collections ==
  LET bytes(n) == [i \in 1..n |-> <<i>>]
      pairs == {<<>>, <<<<1, 2>>>>, <<<<1, 2>>, <<3, 4>>>>}
  IN Of(Vec(U8), {bytes(n) : n \in 0..(MaxLen + 1)})
       \cup Of(Vec(U16), pairs) \cup Of(LinkedList(U16), pairs)
       \cup Of(Vec(Compact(U16)), pairs) \cup Of(Array(2, U16), {<<<<1, 2>>, <<3, 4>>>>})
       \cup Of(Ref(Slice(Option(Bool))), {<<<<TRUE>>, <<>>>>})
       \cup Of(Ref(Slice(Tuple(<<U8>>))), {<<<<<<3>>>>, <<<<1>>>>, <<<<3>>>>>>})
       \cup Of(Boxed(Vec(Bool)), {<<TRUE, FALSE>>})
       \cup Of(String, {bytes(2)}) \cup Of(BTreeSet(U8), {bytes(n) : n \in 0..(MaxLen + 1)})
       \cup Of(VecDeque(U8), {<<bytes(m), bytes(n)>> : m, n \in 0..3})
       \cup Of(VecDeque(Bool), {<<<<TRUE>>, <<FALSE>>>>})
       \cup Of(Array(0, U16), {<<>>}) \cup Of(Array(2, Bool), {<<TRUE, FALSE>>})
       \cup Of(Array(3, U8), {bytes(3)}) \cup Of(Array(2, Array(1, Bool)), {<<<<TRUE>>, <<FALSE>>>>})
       \cup Of(GenericArray(2, U16), {<<<<1, 2>>, <<3, 4>>>>})
       \cup Of(Option(Vec(U8)), {<<bytes(MaxLen)>>, <<bytes(MaxLen + 1)>>})
       \cup Of(Tuple(<<U16, Vec(U8)>>), {<<<<1, 2>>, bytes(MaxLen + 1)>>})
       \cup Of(Vec(Vec(U8)), {<<bytes(1), bytes(MaxLen + 1), bytes(1)>>})
       \cup Of(RangeOf(Vec(U8)), {<<bytes(1), bytes(MaxLen + 1)>>})
       \cup Of(Array(2, Array(2, U16)), {<<<<<<1, 2>>, <<3, 4>>>>, <<<<5, 6>>, <<7, 8>>>>>>})
       \cup UNION {Of(BitVec(n, o), {Ones(k) : k \in {0, 1, 7, 8, 9, 16, MaxBits, MaxBits + 1}})
                     : n \in {1, 2}, o \in {"lsb0", "msb0"}}

Derived ==
  Of(NewType, {<<<<1>>, <<2, 0, 0, 0>>>>}) \cup Of(Compact(NewType), {<<<<1>>, <<2, 0, 0, 64>>>>})
    \cup Of(Struct(<<CompactField(NewType), Field(Bool)>>), {<<<<<<1>>, <<0, 1, 0, 0>>>>, TRUE>>})
    \cup Of(Struct(<<>>), {<<>>}) \cup Of(Struct(<<Skipped(U8)>>), {<<<<1>>>>})
    \cup Of(Attributes, {<<<<1, 2>>, <<<<3>>>>, <<0, 0, 0, 64>>, <<0, 1>>>>})
    \cup Of(Variants, {Val(1, <<>>), Val(2, <<<<1, 2>>, <<3>>>>), Val(3, <<<<9>>>>),
                       Val(4, <<<<0, 0, 0, 64>>>>), Val(5, <<<<TRUE>>>>)})
    \cup Of(Vec(NewType), {<<<<<<1>>, <<2, 0, 0, 0>>>>>>})

MCCases == Numbers \cup Simple \cup Collections \cup Derived

\* struct S(#[codec(encoded_as = "<u32 as HasCompact>::Type")] u32)
EncodedAsCases == Of(Struct(<<EncodedAs(U32, Compact(U32))>>), {<<v>> : v \in Values(4)})

\* The bytes in front.
MCKey == <<7>>
=============================================================================
