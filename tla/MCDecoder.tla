------------------------------- MODULE MCDecoder -------------------------------
(***************************************************************************)
(* Decoder with a type of every kind, on all short inputs over a few bytes *)
(* and some that claim more than they contain.                             *)
(***************************************************************************)
EXTENDS DecodeReference, DecoderTypes, SequencesExt

MCTypes ==
  [unit   |-> Fixed(0),
   u8     |-> Fixed(1),
   u16    |-> Fixed(2),
   user   |-> MayPanic(1),
   bool   |-> Enum(1, << <<0, <<>>>>, <<1, <<>>>> >>),
   expr   |-> Enum(1, << <<0, <<>>>>, <<1, <<"bexpr", "bool">>>>, <<1, <<"bool">>>>,
                         <<4, <<"bexpr", "bexpr">>>> >>),
   bexpr  |-> Ref("box", "expr"),
   bytes  |-> Ref("bulk", "u8"),
   words  |-> Ref("bulk", "u16"),
   string |-> Checked(1, "bytes", {<<4, 8>>}),
   flags  |-> Ref("vec", "bool"),
   units  |-> Ref("vec", "unit"),
   names  |-> Ref("vec", "string"),
   list   |-> List(2, "string"),
   set    |-> Ref("btree", "u8"),
   nz     |-> Checked(1, "u8", {<<0>>}),
   bnz    |-> Ref("box", "nz"),
   newt   |-> Transparent(1, <<"bnz", "unit">>),
   boxnew |-> Ref("box", "newt"),
   buser  |-> Ref("box", "user"),
   array  |-> Array(2, 2, "buser"),
   news   |-> Array(2, 2, "newt"),
   wrapd  |-> Ref("wrap", "flags"),
   pair   |-> Struct(2, <<"boxnew", "set">>)]

MCRoots == {"expr", "words", "names", "list", "array", "news", "wrapd", "pair"}

Alphabet == {0, 1, 4, 8}
Claims ==   \* a word too many, no canonical form
  {<<12, 1, 0, 0, 0>>, <<5, 0, 4>>, <<3, 1>>,
   <<8, 4, 1, 4, 8>>, <<8, 4, 1, 4, 1>>, <<12, 4, 0, 4, 1, 8, 0, 0>>}
MCInputs == BoundedSeq(Alphabet, 3) \cup Claims

MCWrappings ==
  {<<>>, <<NewLayer("depth", 1)>>,
   <<NewLayer("depth", 2), NewLayer("mem", 5)>>,
   <<NewLayer("mem", 3), NewLayer("counted", U64Max)>>,
   <<NewLayer("counted", U64Max), NewLayer("mem", 1)>>}
=============================================================================
