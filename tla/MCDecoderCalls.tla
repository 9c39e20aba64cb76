---------------------------- MODULE MCDecoderCalls ----------------------------
(***************************************************************************)
(* Decoder with several decode calls on one input, values kept or dropped  *)
(* in between, and with types that nest without taking any bytes, where    *)
(* only a limit ends the recursion.                                        *)
(***************************************************************************)
EXTENDS Decoder, DecoderTypes, SequencesExt

MCTypes ==
  [unit    |-> Fixed(0),
   u8      |-> Fixed(1),
   units   |-> Ref("vec", "unit"),
   bytes   |-> Ref("bulk", "u8"),
   list    |-> List(2, "bytes"),
   endless |-> Struct(1, <<"bend">>),
   bend    |-> Ref("box", "endless"),
   rose    |-> Ref("vec", "rose")]

MCRoots == {"units", "list", "endless", "rose"}

MCInputs == BoundedSeq({0, 4, 8}, 3) \cup {<<25, 1, 4, 4, 0>>, <<4, 4, 1, 4, 4, 0>>}

MCWrappings ==
  {<<NewLayer("depth", 2)>>,
   <<NewLayer("mem", 6)>>,
   <<NewLayer("depth", 3), NewLayer("mem", 5), NewLayer("counted", U64Max)>>,
   <<NewLayer("depth", 0), NewLayer("counted", U64Max)>>}
=============================================================================
