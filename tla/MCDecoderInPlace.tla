--------------------------- MODULE MCDecoderInPlace ---------------------------
(***************************************************************************)
(* Decoder with an array of a transparent struct whose second field has no *)
(* size and yet reads a byte: an enum with a single variant.               *)
(***************************************************************************)
EXTENDS Decoder, DecoderTypes, SequencesExt

MCTypes ==
  [u8     |-> Fixed(1),
   only   |-> Enum(0, << <<1, <<>>>> >>),
   bu8    |-> Ref("box", "u8"),
   marked |-> Transparent(1, <<"bu8", "only">>),
   array  |-> Array(2, 2, "marked"),
   vec    |-> Ref("vec", "marked")]

MCRoots == {"array", "vec"}
MCInputs == BoundedSeq({1, 4}, 3)
MCWrappings == {<<>>}
=============================================================================
