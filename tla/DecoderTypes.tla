----------------------------- MODULE DecoderTypes -----------------------------
(***************************************************************************)
(* Descriptions of types for the instances of Decoder, one constructor per *)
(* kind.  Sizes are scaled down with MaxPrealloc.                          *)
(***************************************************************************)
EXTENDS Naturals, Sequences

Plain(kind, size, n, fields) ==
  [kind |-> kind, size |-> size, n |-> n, fields |-> fields, variants |-> <<>>,
   rejects |-> {}, panics |-> FALSE]

Fixed(n) == Plain("fixed", n, n, <<>>)
MayPanic(n) == [Fixed(n) EXCEPT !.panics = TRUE]
Struct(size, fields) == Plain("tuple", size, 0, fields)
Transparent(size, fields) == Plain("transparent", size, 0, fields)
Array(size, n, t) == Plain("array", size, n, <<t>>)
Ref(kind, t) == Plain(kind, 1, 0, <<t>>)
List(node, t) == Plain("list", node, 0, <<t>>)
Checked(size, t, rejects) == [Plain("checked", size, 0, <<t>>) EXCEPT !.rejects = rejects]

\* variants: pairs of an index and a sequence of fields.
Enum(size, variants) ==
  [Plain("enum", size, 0, <<>>) EXCEPT
     !.variants = [i \in DOMAIN variants |-> [tag |-> variants[i][1], fields |-> variants[i][2]]]]
=============================================================================
