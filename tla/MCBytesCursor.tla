---------------------------- MODULE MCBytesCursor -----------------------------
(* BytesCursor on short inputs: bytes that are lengths 0 to 2 or the first  *)
(* byte of a longer length.                                                 *)
EXTENDS BytesCursor

MCInputs ==
  UNION {[1..n -> {0, 1, 4, 8}] : n \in 0..4} \cup {<<1, 1>> \o [i \in 1..65 |-> 3], <<4, 2, 0, 0, 7, 4, 9>>}

MCSizes == 0..2
=============================================================================
