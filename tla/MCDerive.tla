-------------------------------- MODULE MCDerive ------------------------------
EXTENDS Derive

Ty(id) == TypePath(<<id>>, <<>>)
Gen(id, args) == TypePath(<<id>>, args)
T == Ty("T")
Self == Gen("S", <<T, Ty("N")>>)

\* Types of fields, among them the item itself at several depths.
FieldTypes ==
  {T, Ty("u32"), TypePath(<<"T", "Assoc">>, <<>>), Gen("Vec", <<TypePath(<<"T", "Assoc">>, <<>>)>>),
   Gen("PhantomData", <<T>>), NoPath(<<T, Ty("u32")>>), Gen("Option", <<Gen("Box", <<Self>>)>>),
   Gen("Vec", <<NoPath(<<Self, TypePath(<<"T", "Assoc">>, <<>>)>>)>>)}

Skip == Codec(<<Plain("skip")>>)
CompactAttr == Codec(<<Plain("compact")>>)
As(ty) == Codec(<<StrValue("encoded_as", ty)>>)
Doc == [path |-> "doc", metas |-> <<>>]

\* Attributes of fields: none, one, two, one with two metas, and wrong ones.
FieldAttrs ==
  {<<>>, <<Doc, Skip>>, <<CompactAttr>>, <<As(<<Ty("u8")>>)>>, <<Skip, CompactAttr>>,
   <<CompactAttr, As(<<Ty("u8")>>)>>,
   <<Codec(<<Plain("skip"), Plain("compact")>>)>>, <<As(<<>>)>>, <<Codec(<<Plain("index")>>)>>}

\* The compiler knows a compact form of T and u32 only.
Fields ==
  {f \in [ty : FieldTypes, attrs : FieldAttrs] :
     CompactAttr \in Range(f.attrs) => f.ty \in {T, Ty("u32")}}

Others == {[ty |-> Ty("N"), attrs |-> <<>>], [ty |-> Ty("N"), attrs |-> <<Skip>>],
           [ty |-> T, attrs |-> <<CompactAttr>>]}

TopAttrs ==
  {<<>>, <<Codec(<<Plain("dumb_trait_bound")>>)>>, <<Codec(<<CratePath>>)>>, <<Codec(<<Plain("skip")>>)>>,
   <<Codec(<<SpecifiedBounds("encode_bound", {Predicate(T, "Encode")})>>),
     Codec(<<SkipTypeParams("decode_bound", {"T"})>>)>>,
   <<Codec(<<SkipTypeParams("mel_bound", {"T", "N"})>>)>>}

Item(kind, attrs, fields, variants) ==
  [kind |-> kind, ident |-> "S", attrs |-> attrs, params |-> {"T", "N"},
   fields |-> fields, variants |-> variants]

Variant(attrs, fields) == [attrs |-> attrs, fields |-> fields]

Structs ==
  {Item("struct", a, <<f>>, <<>>) : a \in TopAttrs, f \in Fields}
    \cup {Item("struct", <<>>, <<f, g>>, <<>>) : f \in Fields, g \in Others}
    \cup {Item("struct", a, <<>>, <<>>) : a \in TopAttrs}

\* A variant with an attribute of its own before one without.
Enums ==
  {Item("enum", <<>>, <<>>, <<Variant(a, <<f>>), Variant(<<>>, <<g>>)>>) :
     a \in {<<>>, <<Skip>>, <<Codec(<<IntValue("index", 255)>>)>>, <<Codec(<<IntValue("index", 256)>>)>>,
            <<CompactAttr>>},
     f \in Fields, g \in {[ty |-> Ty("N"), attrs |-> <<>>]}}

Unions == {Item("union", a, <<>>, <<>>) : a \in TopAttrs}

\* 257 variants, with and without a skipped one among them.
ManyVariants ==
  {Item("enum", <<>>, <<>>, [i \in 1..257 |-> Variant(IF i = 1 THEN a ELSE <<>>, <<>>)]) :
     a \in {<<>>, <<Skip>>}}

MCItems == Structs \cup Enums \cup Unions \cup ManyVariants
=============================================================================
