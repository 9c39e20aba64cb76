---------------------------- MODULE MCCompactCodec ----------------------------
(* CompactCodec on the boundary values of every width and on streams with   *)
(* every first byte.                                                        *)
EXTENDS CompactCodec

Edges == {0, 1, 63, 64, 255}

\* The highest non-zero byte is t at place n; below it all bytes are f.
Stepped(w, n, t, f) == [i \in 1..w |-> IF i < n THEN f ELSE IF i = n THEN t ELSE 0]

MCValues ==
  Uint(1) \cup [1..2 -> Edges] \cup [1..4 -> Edges]
    \cup {Stepped(w, n, t, f) : w \in {8, 16}, n \in 1..16, t \in Edges, f \in {0, 255}}

MCTails == {<<>>, <<0>>, <<255, 3>>}

\* Any first byte, then up to 17 bytes that are zero from some place on.
MCWires ==
  {<<p>> \o Stepped(k, n, t, f) :
     p \in Byte, k \in {0, 1, 3, 4, 5, 8, 17}, n \in {1, 3, 4, 5, 8, 16},
     t \in {0, 63, 64}, f \in {0, 255}}
=============================================================================
