--------------------------- MODULE DecodeReference ----------------------------
(***************************************************************************)
(* What decode promises, without saying how: the grammar of encodings, the *)
(* references a value nests and the memory it needs, as one recursive      *)
(* function of a type and a position in the input.  Chunks, frames, the    *)
(* order of hooks and the way errors travel do not appear in it.           *)
(***************************************************************************)
EXTENDS Decoder, FiniteSetsExt

\* A valid encoding up to end; depth: references nested in it; mem: heap bytes
\* it needs; asks: some allocation is announced for it.
Valid(end) == [ok |-> TRUE, end |-> end, depth |-> 0, mem |-> 0, asks |-> FALSE]
Invalid == [Valid(0) EXCEPT !.ok = FALSE]

Both(r, s) ==
  [ok |-> r.ok /\ s.ok, end |-> s.end, depth |-> IF r.depth > s.depth THEN r.depth ELSE s.depth,
   mem |-> r.mem + s.mem, asks |-> r.asks \/ s.asks]

Nested(r) == [r EXCEPT !.depth = @ + 1]
Allocates(r, mem) == [r EXCEPT !.mem = @ + mem, !.asks = TRUE]

RECURSIVE Value(_, _), Values(_, _)

\* A value of every type of ts in turn.
Values(ts, p) ==
  IF ts = <<>> THEN Valid(p)
  ELSE LET first == Value(Head(ts), p)
       IN IF first.ok THEN Both(first, Values(Tail(ts), first.end)) ELSE Invalid

\* A length and that many items, which need mem(len) bytes together.
Items(t, p, each(_), mem(_)) ==
  LET got == DecodeFrom(4, SubSeq(input, p + 1, Len(input)))
      len == U32ToNat(got.val)
      items == Values([i \in 1..len |-> Item(t)], p + got.used)
  IN IF ~got.ok THEN Invalid
     ELSE each(IF len = 0 THEN items ELSE Allocates(items, mem(len)))

Value(t, p) ==
  LET d == Types[t]
      same(r) == r
      asksAlways(r) == Nested([r EXCEPT !.asks = TRUE])
      total(len) == len * SizeOf(Item(t))
      nodes(len) == len * SizeOf(t)
      tree(len) == MemSizeOfBtree(len, SizeOf(Item(t)))
  IN CASE d.kind = "fixed" -> IF p + d.n <= Len(input) THEN Valid(p + d.n) ELSE Invalid
       [] d.kind \in {"tuple", "transparent"} -> Values(d.fields, p)
       [] d.kind = "array" -> Values([i \in 1..d.n |-> Item(t)], p)
       [] d.kind = "checked" ->
            LET r == Value(Item(t), p)
            IN IF r.ok /\ SubSeq(input, p + 1, r.end) \notin d.rejects THEN r ELSE Invalid
       [] d.kind = "enum" ->
            LET is == {i \in DOMAIN d.variants : p < Len(input) /\ d.variants[i].tag = input[p + 1]}
            IN IF is = {} THEN Invalid ELSE Values(d.variants[Min(is)].fields, p + 1)
       [] d.kind = "box" -> Nested(Allocates(Value(Item(t), p), SizeOf(Item(t))))
       [] d.kind = "wrap" -> Nested(Value(Item(t), p))
       [] d.kind = "bulk" -> Items(t, p, same, total)
       [] d.kind = "vec" -> Items(t, p, Nested, total)
       [] d.kind = "list" -> Items(t, p, asksAlways, nodes)
       [] d.kind = "btree" -> Items(t, p, asksAlways, tree)

Allowed(r) ==
  \A i \in DOMAIN layers :
    /\ layers[i].kind = "depth" => r.depth <= layers[i].bound
    /\ layers[i].kind = "mem" /\ Hears(layers, i) /\ r.asks => r.mem < layers[i].bound

\* The first call on an input returns a value exactly when the input begins
\* with a valid encoding whose nesting and memory the limits allow, and then
\* it has consumed that encoding: no input is refused or accepted because of
\* chunking, of what remaining_len knows, or of hooks left out of balance.
DecodesExactly ==
  status \in {"ok", "failed"} /\ calls = 1 =>
    \E r \in {Value(stack[1].ty, start)} :
      /\ stack[1].count = 1 <=> r.ok /\ Allowed(r)
      /\ stack[1].count = 1 => pos = r.end
=============================================================================
