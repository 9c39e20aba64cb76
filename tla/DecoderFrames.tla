--------------------------- MODULE DecoderFrames ----------------------------
(***************************************************************************)
(* Proofs about Decoder: its frames and stack, the inductive invariant, and *)
(* what entering a type or failing to does to it.                          *)
(***************************************************************************)
EXTENDS Decoder, CompactIntProofs, InputLayersProofs, FiniteSetTheorems

-----------------------------------------------------------------------------
(* Frames and the stack.                                                    *)

\* Only the first field of a transparent struct can fail to decode, as the
\* others are zero-sized: then decoding it in place is safe.
InPlaceSafe ==
  \A t \in TypeName : Types[t].kind = "transparent" =>
    \A i \in 2..Len(Types[t].fields) :
      /\ Types[Types[t].fields[i]].kind = "fixed"
      /\ Types[Types[t].fields[i]].n = 0
      /\ ~Types[Types[t].fields[i]].panics

\* Heap bytes held by a frame and all below it.
Held(f) == f.base + f.own + f.kids

Up(kind) == IF kind \in RefKinds THEN 1 ELSE 0

FrameOK(f) ==
  /\ f \in Frame
  /\ f.kind # "caller" => f.kind = Types[f.ty].kind
  /\ f.kind = "caller" => f.len = 1
  /\ f.count = 0 => f.kids = 0
  /\ f.kind = "transparent" => f.fields = Types[f.ty].fields /\ f.len = Len(f.fields)
  /\ f.kind \in {"vec", "bulk"} =>
       f.count <= f.cap /\ (f.cap - f.count) * SizeOf(Item(f.ty)) <= MaxPrealloc

\* Nothing is lost when an error passes through the frame.
Clean(f) ==
  /\ f.kind = "caller" => f.count = 0
  /\ f.kind = "transparent" /\ InPlaceSafe => f.count = 0

\* The frame g decodes a child of the frame f.
Link(f, g) ==
  /\ Clean(f)
  /\ f.kind # "bulk" /\ (f.kind = "vec" => f.count < f.cap)
  /\ g.kind # "caller"
  /\ g.base = Held(f)
  /\ g.level = f.level + Up(g.kind)

Refs(s) == {j \in DOMAIN s : s[j].kind \in RefKinds}

StackOK(s) ==
  /\ s \in Seq(Frame) /\ Len(s) > 0
  /\ s[1].kind = "caller" /\ s[1].base = 0 /\ s[1].level = 0
  /\ \A i \in 1..Len(s) : FrameOK(s[i])
  /\ \A i \in 2..Len(s) : Link(s[i-1], s[i])
  /\ IsFiniteSet(Refs(s)) /\ Cardinality(Refs(s)) = s[Len(s)].level

\* The frame of a caller alone.
LEMMA StackOfOne ==
  ASSUME NEW f, FrameOK(f), f.kind = "caller", f.base = 0, f.level = 0
  PROVE  StackOK(<<f>>)
<1>1. f \in Frame
  BY DEF FrameOK
<1>2. <<f>> \in Seq(Frame) /\ Len(<<f>>) = 1 /\ <<f>>[1] = f /\ DOMAIN <<f>> = {1}
  BY <1>1
<1>3. Refs(<<f>>) = {}
  BY <1>2 DEF Refs, RefKinds
<1>4. IsFiniteSet(Refs(<<f>>)) /\ Cardinality(Refs(<<f>>)) = 0
  BY <1>3, FS_EmptySet
<1> QED
  BY <1>2, <1>4 DEF StackOK

\* Entering a frame.
LEMMA StackPush ==
  ASSUME NEW s, StackOK(s), NEW g, FrameOK(g), Link(s[Len(s)], g)
  PROVE  /\ StackOK(Append(s, g))
         /\ Len(Append(s, g)) = Len(s) + 1 /\ Append(s, g)[Len(s) + 1] = g
<1> DEFINE n == Len(s)
           r == Append(s, g)
<1>1. s \in Seq(Frame) /\ g \in Frame /\ n \in Nat /\ n > 0
  BY DEF StackOK, FrameOK
<1>2. /\ r \in Seq(Frame) /\ Len(r) = n + 1 /\ DOMAIN r = 1..(n + 1)
      /\ \A i \in 1..n : r[i] = s[i]
      /\ r[n + 1] = g
  BY <1>1, AppendProperties
<1> HIDE DEF r
<1>3. \A i \in 1..(n + 1) : FrameOK(r[i])
  BY <1>1, <1>2 DEF StackOK
<1>4. \A i \in 2..(n + 1) : Link(r[i-1], r[i])
  <2>1. TAKE i \in 2..(n + 1)
  <2>2. CASE i = n + 1
    <3>1. r[i-1] = s[n] /\ r[i] = g
      BY <1>1, <1>2, <2>2
    <3> QED
      BY <3>1
  <2>3. CASE i # n + 1
    <3>1. i \in 2..n /\ r[i-1] = s[i-1] /\ r[i] = s[i]
      BY <1>1, <1>2, <2>3
    <3> QED
      BY <3>1 DEF StackOK
  <2> QED
    BY <2>2, <2>3
<1>5. IsFiniteSet(Refs(r)) /\ Cardinality(Refs(r)) = g.level
  <2>0. /\ DOMAIN s = 1..n /\ IsFiniteSet(Refs(s)) /\ Cardinality(Refs(s)) = s[n].level
        /\ s[n].level \in Nat /\ g.level = s[n].level + Up(g.kind)
    <3>1. s[n] \in Frame
      BY <1>1, ElementOfSeq
    <3>2. s[n].level \in Nat
      BY <3>1 DEF Frame
    <3> QED
      BY <1>1, <3>2 DEF StackOK, Link
  <2>1. CASE g.kind \in RefKinds
    <3>1. Refs(r) = Refs(s) \cup {n + 1} /\ n + 1 \notin Refs(s)
      BY <1>1, <1>2, <2>0, <2>1 DEF Refs
    <3>2. IsFiniteSet(Refs(r)) /\ Cardinality(Refs(r)) = Cardinality(Refs(s)) + 1
      BY <2>0, <3>1, FS_AddElement
    <3> QED
      BY <2>0, <2>1, <3>2 DEF Up
  <2>2. CASE g.kind \notin RefKinds
    <3>1. Refs(r) = Refs(s)
      BY <1>1, <1>2, <2>0, <2>2 DEF Refs
    <3> QED
      BY <2>0, <2>2, <3>1 DEF Up
  <2> QED
    BY <2>1, <2>2
<1>6. r[1].kind = "caller" /\ r[1].base = 0 /\ r[1].level = 0
  BY <1>1, <1>2 DEF StackOK
<1>7. StackOK(r)
  BY <1>1, <1>2, <1>3, <1>4, <1>5, <1>6 DEF StackOK
<1> QED
  BY <1>2, <1>7 DEF r

\* Changing the innermost frame, but not its place in the stack.
LEMMA StackSet ==
  ASSUME NEW s, StackOK(s), NEW f, FrameOK(f),
         f.kind = s[Len(s)].kind, f.base = s[Len(s)].base, f.level = s[Len(s)].level
  PROVE  LET r == [s EXCEPT ![Len(s)] = f]
         IN StackOK(r) /\ Len(r) = Len(s) /\ r[Len(s)] = f
<1> DEFINE n == Len(s)
           r == [s EXCEPT ![n] = f]
<1>1. s \in Seq(Frame) /\ f \in Frame /\ n \in Nat /\ n > 0 /\ n \in 1..n
  BY DEF StackOK, FrameOK
<1>2. /\ r \in Seq(Frame) /\ Len(r) = n /\ DOMAIN r = 1..n /\ DOMAIN s = 1..n
      /\ \A i \in 1..n : r[i] = IF i = n THEN f ELSE s[i]
  BY <1>1, ExceptSeq, SMTT(30)
<1> HIDE DEF r
<1>3. \A i \in 1..n : FrameOK(r[i])
  BY <1>1, <1>2, ZenonT(40) DEF StackOK
<1>4. \A i \in 1..n : r[i].kind = s[i].kind /\ r[i].base = s[i].base /\ r[i].level = s[i].level
  BY <1>2, Zenon
<1>5. \A i \in 2..n : Link(r[i-1], r[i])
  <2>1. TAKE i \in 2..n
  <2>a. i - 1 \in 1..n /\ i - 1 # n /\ i \in 1..n
    BY <1>1
  <2>2. r[i-1] = s[i-1] /\ i \in 1..n
    BY <1>2, <2>a, Zenon
  <2>3. Link(s[i-1], s[i])
    BY DEF StackOK
  <2>4. r[i].kind = s[i].kind /\ r[i].base = s[i].base /\ r[i].level = s[i].level
    BY <1>4, <2>2, SMTT(30)
  <2> QED
    BY <2>2, <2>3, <2>4, Zenon DEF Link
<1>6. Refs(r) = Refs(s)
  BY <1>2, <1>4, Zenon DEF Refs
<1>7. StackOK(r)
  <2>1. 1 \in 1..n
    BY <1>1
  <2>2. r[1].kind = "caller" /\ r[1].base = 0 /\ r[1].level = 0
    BY <1>4, <2>1, Zenon DEF StackOK
  <2>3. IsFiniteSet(Refs(r)) /\ Cardinality(Refs(r)) = r[n].level
    BY <1>1, <1>4, <1>6, ZenonT(40) DEF StackOK
  <2> QED
    BY <1>1, <1>2, <1>3, <1>5, <2>2, <2>3, ZenonT(40) DEF StackOK
<1>8. r[n] = f
  BY <1>1, <1>2, Zenon
<1> QED
  BY <1>2, <1>7, <1>8, Zenon DEF r

\* Leaving a frame.
LEMMA StackPop ==
  ASSUME NEW s, StackOK(s), s[Len(s)].kind # "caller"
  PROVE  LET up == Len(s) - 1
             r == SubSeq(s, 1, up)
         IN /\ up \in Nat /\ up > 0
            /\ StackOK(r) /\ Len(r) = up /\ r[up] = s[up]
            /\ Link(s[up], s[Len(s)])
<1> DEFINE n == Len(s)
           up == n - 1
           r == SubSeq(s, 1, up)
<1>1. s \in Seq(Frame) /\ n \in Nat /\ up \in Nat /\ up > 0 /\ up \in 1..n
  BY DEF StackOK
<1>2. Link(s[up], s[n])
  BY <1>1 DEF StackOK
<1>3. /\ r \in Seq(Frame) /\ Len(r) = up /\ DOMAIN r = 1..up /\ DOMAIN s = 1..n
      /\ \A i \in 1..up : r[i] = s[i]
  <2>1. \A i \in 1..up : s[i] \in Frame
    BY <1>1
  <2> QED
    BY <1>1, <2>1, SubSeqProperties
<1> HIDE DEF r
<1>4. \A i \in 1..up : FrameOK(r[i])
  BY <1>1, <1>3 DEF StackOK
<1>5. \A i \in 2..up : Link(r[i-1], r[i])
  <2>1. TAKE i \in 2..up
  <2>2. r[i-1] = s[i-1] /\ r[i] = s[i] /\ i \in 2..n
    BY <1>1, <1>3
  <2> QED
    BY <2>2 DEF StackOK
<1>6. IsFiniteSet(Refs(r)) /\ Cardinality(Refs(r)) = r[up].level
  <2>0. /\ IsFiniteSet(Refs(s)) /\ Cardinality(Refs(s)) = s[n].level
        /\ s[n].level = s[up].level + Up(s[n].kind) /\ r[up] = s[up]
    BY <1>1, <1>2, <1>3 DEF StackOK, Link
  <2>1. s[up].level \in Nat
    <3>1. s[up] \in Frame
      BY <1>1, ElementOfSeq
    <3> QED
      BY <3>1 DEF Frame
  <2>2. Refs(r) = Refs(s) \ {n}
    BY <1>1, <1>3 DEF Refs
  <2>3. CASE s[n].kind \in RefKinds
    <3>1. n \in Refs(s)
      BY <1>1, <1>3, <2>3 DEF Refs
    <3>2. IsFiniteSet(Refs(r)) /\ Cardinality(Refs(r)) = Cardinality(Refs(s)) - 1
      BY <2>0, <2>2, <3>1, FS_RemoveElement
    <3> QED
      BY <2>0, <2>1, <2>3, <3>2 DEF Up
  <2>4. CASE s[n].kind \notin RefKinds
    <3>1. Refs(r) = Refs(s)
      BY <2>2, <2>4 DEF Refs
    <3> QED
      BY <2>0, <2>1, <2>4, <3>1 DEF Up
  <2> QED
    BY <2>3, <2>4
<1>7. StackOK(r)
  <2>1. 1 \in 1..up
    BY <1>1
  <2> QED
    BY <1>1, <1>3, <1>4, <1>5, <1>6, <2>1 DEF StackOK
<1>8. r[up] = s[up]
  BY <1>1, <1>3
<1> QED
  BY <1>1, <1>2, <1>3, <1>7, <1>8 DEF r

\* The caller's frame is innermost only when it is alone.
LEMMA StackCaller ==
  ASSUME NEW s, StackOK(s), s[Len(s)].kind = "caller"
  PROVE  Len(s) = 1 /\ s[Len(s)].base = 0 /\ s[Len(s)].level = 0
<1>1. Len(s) \in Nat /\ Len(s) > 0
  BY DEF StackOK
<1>2. ASSUME Len(s) # 1 PROVE FALSE
  <2>0. \A n \in Nat : n > 0 /\ n # 1 => n \in 2..n
    OBVIOUS
  <2>1. Len(s) \in 2..Len(s)
    BY <1>1, <1>2, <2>0, Zenon
  <2>2. Link(s[Len(s)-1], s[Len(s)])
    BY <2>1, Zenon DEF StackOK
  <2> QED
    BY <2>2 DEF Link
<1> QED
  BY <1>2 DEF StackOK

-----------------------------------------------------------------------------
(* The inductive invariant.                                                 *)

Exact == source = "slice"

IInv ==
  /\ TypeOK
  /\ StackOK(stack)
  /\ heap >= Held(Top) /\ (InPlaceSafe => heap = Held(Top))
  /\ status \in {"running", "ok"} => DepthIs(layers, Top.level)
  /\ status \in Unwinding => DepthAbove(layers, Top.level) /\ Clean(Top)
  /\ MemCovers(layers, heap)
  /\ Counts(layers, pos, Exact)
  /\ status \in Ended => Top.kind = "caller"
  /\ status \in {"failed", "aborted"} => Top.kids = 0

\* The fields of the innermost frame.
LEMMA TopFields ==
  ASSUME NEW s, StackOK(s)
  PROVE  LET f == s[Len(s)]
         IN /\ FrameOK(f) /\ f \in Frame
            /\ f.len \in Nat /\ f.count \in Nat /\ f.cap \in Nat /\ f.ty \in TypeName
            /\ f.own \in Nat /\ f.kids \in Nat /\ f.base \in Nat /\ f.level \in Nat
            /\ Held(f) \in Nat
<1>1. Len(s) \in 1..Len(s)
  BY DEF StackOK
<1>2. FrameOK(s[Len(s)])
  BY <1>1, Zenon DEF StackOK
<1>3. s[Len(s)] \in Frame
  BY <1>2 DEF FrameOK
<1> DEFINE f == s[Len(s)]
<1> HIDE DEF f
<1>4. f \in Frame
  BY <1>3 DEF f
<1>5. /\ f.len \in Nat /\ f.count \in Nat /\ f.cap \in Nat /\ f.ty \in TypeName
      /\ f.own \in Nat /\ f.kids \in Nat /\ f.base \in Nat /\ f.level \in Nat
  BY <1>4 DEF Frame
<1>6. Held(f) \in Nat
  BY <1>5 DEF Held
<1> QED
  BY <1>2, <1>3, <1>5, <1>6 DEF f

\* A step of a running call that keeps the books.
LEMMA Progress ==
  ASSUME IInv, status = "running", status' = "running", UNCHANGED call,
         StackOK(stack'), NEW mem \in Nat, heap' = heap + mem, Held(Top') = Held(Top) + mem,
         pos' \in pos..Len(input), layers' \in Seq(Layer), DepthIs(layers', Top'.level),
         MemCovers(layers', heap'), Counts(layers', pos', Exact)
  PROVE  IInv'
<1>1. TypeOK'
  <2>1. stack' \in Seq(Frame) /\ stack' # <<>>
    BY DEF StackOK
  <2>2. start' \in 0..pos' /\ pos' \in 0..Len(input') /\ heap' \in Nat
    BY DEF IInv, TypeOK, call
  <2> QED
    BY <2>1, <2>2 DEF IInv, TypeOK, call
<1>2. heap' >= Held(Top') /\ (InPlaceSafe => heap' = Held(Top'))
  <2>1. Held(Top) \in Nat
    BY TopFields, Zenon DEF IInv, Top
  <2>2. heap \in Nat /\ heap >= Held(Top) /\ (InPlaceSafe => heap = Held(Top))
    BY DEF IInv, TypeOK
  <2> QED
    BY <2>1, <2>2
<1>3. Exact' = Exact
  BY DEF Exact, call
<1> QED
  BY <1>1, <1>2, <1>3 DEF IInv, Unwinding, Ended

\* A step of a running call that fails.
LEMMA Fails ==
  ASSUME IInv, status = "running", status' \in Unwinding, UNCHANGED <<stack, heap, call>>,
         Clean(Top), pos' \in pos..Len(input), layers' \in Seq(Layer),
         DepthAbove(layers', Top.level), MemCovers(layers', heap), Counts(layers', pos', Exact)
  PROVE  IInv'
<1>1. TypeOK'
  <2>2. start' \in 0..pos' /\ pos' \in 0..Len(input')
    BY DEF IInv, TypeOK, call
  <2> QED
    BY <2>2 DEF IInv, TypeOK, call
<1>2. Exact' = Exact /\ Top' = Top
  BY DEF Exact, Top, call
<1> QED
  BY <1>1, <1>2 DEF IInv, Unwinding, Ended

-----------------------------------------------------------------------------
(* Beginning to decode a child.                                             *)

\* The description of a type.
LEMMA DescFields ==
  ASSUME NEW t \in TypeName
  PROVE  /\ Types[t].kind \in Kinds /\ SizeOf(t) \in Nat /\ Types[t].n \in Nat
         /\ Types[t].fields \in Seq(TypeName)
         /\ Types[t].variants \in Seq([tag : Byte, fields : Seq(TypeName)])
         /\ Types[t].kind \notin {"fixed", "tuple", "transparent", "enum"} =>
              Item(t) \in TypeName /\ SizeOf(Item(t)) \in Nat
<1>1. \A u \in TypeName : Types[u] \in Desc
  BY TypesAssumption
<1>2. /\ Types[t].kind \in Kinds /\ Types[t].n \in Nat
      /\ Types[t].fields \in Seq(TypeName)
      /\ Types[t].variants \in Seq([tag : Byte, fields : Seq(TypeName)])
  BY <1>1, Zenon DEF Desc
<1>3. \A u \in TypeName : SizeOf(u) \in Nat
  BY <1>1 DEF Desc, SizeOf
<1>4. Types[t].kind \notin {"fixed", "tuple", "transparent", "enum"} => Item(t) \in TypeName
  BY <1>2, ItemAssumption DEF Item
<1> QED
  BY <1>2, <1>3, <1>4

\* A frame that is about to decode a child that may fail has nothing to lose,
\* and one that is about to enter a child has room for it.
LEMMA WantsClean ==
  ASSUME IInv, NEW t \in TypeName, NEW k, Wants(t, k),
         k = "fixed" => Types[t].n # 0 \/ Types[t].panics
  PROVE  /\ status = "running" /\ Types[t].kind = k
         /\ Clean(Top) /\ Top.kind # "bulk" /\ (Top.kind = "vec" => Top.count < Top.cap)
<1> DEFINE f == Top
<1>1. /\ FrameOK(f) /\ f.len \in Nat /\ f.count \in Nat /\ f.cap \in Nat /\ f.ty \in TypeName
  BY TopFields, Zenon DEF IInv, Top
<1>2. /\ status = "running" /\ Types[t].kind = k /\ f.kind # "bulk"
      /\ f.count < (IF f.kind = "vec" THEN f.cap ELSE f.len) /\ t = Kid(f)
  BY DEF Wants
<1> HIDE DEF f
<1>3. f.kind = "caller" => f.count = 0
  <2>1. ASSUME f.kind = "caller" PROVE f.count = 0
    <3>1. f.count < f.len /\ f.len = 1
      BY <1>1, <1>2, <2>1 DEF FrameOK
    <3> QED
      BY <1>1, <3>1
  <2> QED
    BY <2>1
<1>4. ASSUME f.kind = "transparent", InPlaceSafe, f.count # 0 PROVE FALSE
  <2>1. /\ f.count < Len(f.fields) /\ f.fields = Types[f.ty].fields /\ f.kind = Types[f.ty].kind
        /\ t = f.fields[f.count + 1]
    BY <1>1, <1>2, <1>4 DEF FrameOK, Kid
  <2>2. Len(f.fields) \in Nat
    <3>1. Types[f.ty].fields \in Seq(TypeName)
      BY <1>1, DescFields, Zenon
    <3>2. f.fields \in Seq(TypeName)
      BY <2>1, <3>1, Zenon
    <3> QED
      BY <3>2
  <2>3. f.count + 1 \in 2..Len(f.fields)
    <3>1. ASSUME NEW c \in Nat, NEW n \in Nat, c < n, c # 0 PROVE c + 1 \in 2..n
      BY <3>1
    <3> QED
      BY <1>1, <1>4, <2>1, <2>2, <3>1, ZenonT(40)
  <2> QED
    BY <1>1, <1>2, <1>4, <2>1, <2>3, ZenonT(40) DEF InPlaceSafe
<1>5. f.kind = "vec" => f.count < f.cap
  BY <1>2
<1> QED
  BY <1>2, <1>3, <1>4, <1>5, Zenon DEF Clean, f

\* The frame of the child.
LEMMA ChildFrame ==
  ASSUME IInv, NEW t \in TypeName, NEW k, Wants(t, k), k # "fixed",
         NEW fields \in Seq(TypeName), NEW len \in Nat, NEW own \in Nat,
         k = "transparent" => fields = Types[t].fields /\ len = Len(fields)
  PROVE  LET g == NewFrame(t, fields, len, own, Up(k))
         IN /\ FrameOK(g) /\ Link(Top, g)
            /\ Held(g) = Held(Top) + own /\ g.level = Top.level + Up(k)
<1> DEFINE g == NewFrame(t, fields, len, own, Up(k))
<1>1. /\ Types[t].kind = k /\ k \in Kinds
      /\ Clean(Top) /\ Top.kind # "bulk" /\ (Top.kind = "vec" => Top.count < Top.cap)
  BY WantsClean, DescFields
<1>2. /\ Top.own \in Nat /\ Top.kids \in Nat /\ Top.base \in Nat /\ Top.level \in Nat
      /\ Held(Top) \in Nat
  BY TopFields, Zenon DEF IInv, Top
<1>3. /\ g.kind = k /\ g.ty = t /\ g.fields = fields /\ g.len = len /\ g.count = 0 /\ g.cap = 0
      /\ g.own = own /\ g.kids = 0 /\ g.base = Held(Top) /\ g.level = Top.level + Up(k)
  BY <1>1 DEF NewFrame, Held
<1>4. Up(k) \in Nat
  BY DEF Up
<1>5. g \in Frame
  BY <1>1, <1>2, <1>4, SMTT(60) DEF NewFrame, Frame, Held
<1> HIDE DEF g
<1>6. k # "caller"
  BY <1>1 DEF Kinds, RefKinds
<1>7. k \in {"vec", "bulk"} => (g.cap - g.count) * SizeOf(Item(g.ty)) <= MaxPrealloc
  <2>1. k \in {"vec", "bulk"} => SizeOf(Item(t)) \in Nat
    BY <1>1, DescFields
  <2> QED
    BY <1>3, <2>1, BoundsAssumption
<1>8. FrameOK(g)
  BY <1>1, <1>3, <1>5, <1>6, <1>7 DEF FrameOK
<1>9. Link(Top, g)
  BY <1>1, <1>3, <1>6 DEF Link
<1>10. Held(g) = Held(Top) + own
  BY <1>2, <1>3 DEF Held
<1> QED
  BY <1>3, <1>8, <1>9, <1>10, SMTT(30) DEF g

\* What a running call may rely on.
LEMMA RunningFacts ==
  ASSUME IInv, status = "running"
  PROVE  /\ layers \in Seq(Layer) /\ StackOK(stack)
         /\ pos \in 0..Len(input) /\ Len(input) \in Nat /\ pos \in Nat /\ heap \in Nat
         /\ Top.level \in Nat /\ Exact \in BOOLEAN
         /\ DepthIs(layers, Top.level) /\ MemCovers(layers, heap) /\ Counts(layers, pos, Exact)
<1>1. Top.level \in Nat
  BY TopFields, Zenon DEF IInv, Top
<1>2. Len(input) \in Nat /\ pos \in Nat
  BY InputsAssumption DEF IInv, TypeOK
<1> QED
  BY <1>1, <1>2 DEF IInv, TypeOK, Exact

\* A read of n bytes that succeeds.
LEMMA ReadFacts ==
  ASSUME IInv, status = "running", NEW n \in Nat
  PROVE  /\ CountRead(layers, n) \in Seq(Layer)
         /\ DepthIs(CountRead(layers, n), Top.level)
         /\ MemCovers(CountRead(layers, n), heap)
         /\ Counts(CountRead(layers, n), pos + n, Exact)
<1>1. /\ layers \in Seq(Layer) /\ heap \in Nat /\ pos \in Nat /\ Top.level \in Nat
      /\ Exact \in BOOLEAN
      /\ DepthIs(layers, Top.level) /\ MemCovers(layers, heap) /\ Counts(layers, pos, Exact)
  BY RunningFacts
<1> QED
  BY <1>1, CountKeeps, ZenonT(40)

\* A read that fails, after bytes up to p were taken.
LEMMA StopFacts ==
  ASSUME IInv, status = "running", NEW p \in pos..Len(input), NEW q \in StopsAt(p),
         NEW ls \in Seq(Layer), Counts(ls, p, Exact)
  PROVE  q \in pos..Len(input) /\ Counts(ls, q, Exact)
<1>1. pos \in Nat /\ Len(input) \in Nat /\ Exact \in BOOLEAN
  BY RunningFacts, Zenon
<1>2. CASE source = "slice"
  <2>1. q = p
    BY <1>2 DEF StopsAt
  <2> QED
    BY <2>1
<1>3. CASE source # "slice"
  <2>1. q \in p..Len(input) /\ p \in Nat
    BY <1>1, <1>3 DEF StopsAt
  <2>2. q \in Nat /\ p <= q /\ q \in pos..Len(input)
    BY <1>1, <2>1
  <2>3. Counts(ls, q, FALSE)
    BY <1>1, <2>1, <2>2, CountsWeaker, ZenonT(40)
  <2>4. Exact = FALSE
    BY <1>3 DEF Exact
  <2> QED
    BY <2>2, <2>3, <2>4, Zenon
<1> QED
  BY <1>2, <1>3

\* A running call enters the frame of a child.
LEMMA Enters ==
  ASSUME IInv, NEW t \in TypeName, NEW k, Wants(t, k), k # "fixed",
         NEW fields \in Seq(TypeName), NEW len \in Nat, NEW own \in Nat, NEW prefix,
         k = "transparent" => fields = Types[t].fields /\ len = Len(fields),
         Push(NewFrame(t, fields, len, own, Up(k)), prefix, own),
         pos' \in pos..Len(input), layers' \in Seq(Layer),
         DepthIs(layers', Top.level + Up(k)), MemCovers(layers', heap + own),
         Counts(layers', pos', Exact)
  PROVE  IInv'
<1> DEFINE g == NewFrame(t, fields, len, own, Up(k))
<1>1. /\ FrameOK(g) /\ Link(Top, g)
      /\ Held(g) = Held(Top) + own /\ g.level = Top.level + Up(k)
  BY ChildFrame
<1>2. /\ stack' = Append(stack, g) /\ heap' = heap + own
      /\ status' = status /\ UNCHANGED call
  BY DEF Push
<1> HIDE DEF g
<1>3. status = "running"
  BY DEF Wants
<1>4. StackOK(stack) /\ Link(stack[Len(stack)], g)
  BY <1>1, SMTT(30) DEF IInv, Top
<1>5. StackOK(stack') /\ Len(stack') = Len(stack) + 1 /\ stack'[Len(stack) + 1] = g
  BY <1>1, <1>2, <1>4, StackPush, SMTT(30)
<1>6. Top' = g
  BY <1>5 DEF Top
<1>7. /\ status' = "running" /\ Held(Top') = Held(Top) + own /\ DepthIs(layers', Top'.level)
      /\ MemCovers(layers', heap')
  BY <1>1, <1>2, <1>3, <1>6
<1> QED
  BY <1>2, <1>3, <1>5, <1>7, Progress

\* An error while a child that may fail is decoded.
LEMMA ChildFails ==
  ASSUME IInv, NEW t \in TypeName, NEW k, Wants(t, k),
         k = "fixed" => Types[t].n # 0 \/ Types[t].panics,
         status' \in Unwinding, UNCHANGED <<stack, heap, call>>,
         pos' \in pos..Len(input), layers' \in Seq(Layer),
         DepthAbove(layers', Top.level), MemCovers(layers', heap), Counts(layers', pos', Exact)
  PROVE  IInv'
<1>1. status = "running" /\ Clean(Top)
  BY WantsClean
<1> QED
  BY <1>1, Fails

\* Fewer elements take no more memory.
LEMMA Fewer ==
  ASSUME NEW a \in Nat, NEW b \in Nat, NEW size \in Nat, b <= a
  PROVE  b * size <= a * size /\ b * size \in Nat
<1>1. PICK c \in Nat : a = b + c
  <2>1. a - b \in Nat /\ a = b + (a - b)
    OBVIOUS
  <2> QED
    BY <2>1
<1>2. a * size = b * size + c * size
  BY <1>1
<1>3. b * size \in Nat /\ c * size \in Nat
  OBVIOUS
<1> QED
  BY <1>2, <1>3

\* A child has been decoded: the frame stays in its place and holds it.
LEMMA DeliverOK ==
  ASSUME NEW f, FrameOK(f), NEW mem \in Nat,
         f.kind # "bulk", f.kind = "vec" => f.count < f.cap
  PROVE  LET g == Deliver(f, mem)
         IN /\ FrameOK(g) /\ Held(g) = Held(f) + mem
            /\ g.kind = f.kind /\ g.base = f.base /\ g.level = f.level
<1> DEFINE g == Deliver(f, mem)
<1>1. f \in Frame
  BY DEF FrameOK
<1>2. /\ f.count \in Nat /\ f.cap \in Nat /\ f.kids \in Nat /\ f.own \in Nat /\ f.base \in Nat
      /\ f.ty \in TypeName
  BY <1>1 DEF Frame
<1>3. /\ g \in Frame
      /\ g.kind = f.kind /\ g.ty = f.ty /\ g.fields = f.fields /\ g.len = f.len /\ g.cap = f.cap
      /\ g.own = f.own /\ g.base = f.base /\ g.level = f.level
      /\ g.count = f.count + 1 /\ g.kids = f.kids + mem
  <2>1. f.count + 1 \in Nat /\ f.kids + mem \in Nat
    BY <1>2
  <2>2. g = [f EXCEPT !.count = f.count + 1, !.kids = f.kids + mem]
    BY DEF Deliver
  <2>3. g \in Frame
    <3>1. PICK c \in Nat, m \in Nat : c = f.count + 1 /\ m = f.kids + mem
      BY <2>1
    <3>2. g = [f EXCEPT !.count = c, !.kids = m]
      BY <2>2, <3>1
    <3> QED
      BY <1>1, <3>2, Zenon DEF Frame
  <2>4. /\ g.kind = f.kind /\ g.ty = f.ty /\ g.fields = f.fields /\ g.len = f.len
        /\ g.cap = f.cap /\ g.own = f.own /\ g.base = f.base /\ g.level = f.level
    BY <1>1, <2>2 DEF Frame
  <2>5. g.count = f.count + 1
    BY <1>1, <2>2 DEF Frame
  <2>6. g.kids = f.kids + mem
    BY <1>1, <2>2 DEF Frame
  <2> QED
    BY <2>3, <2>4, <2>5, <2>6, ZenonT(40)
<1> HIDE DEF g
<1>4. Held(g) = Held(f) + mem
  BY <1>2, <1>3 DEF Held
<1>5. ASSUME f.kind = "vec"
      PROVE  g.count <= g.cap /\ (g.cap - g.count) * SizeOf(Item(g.ty)) <= MaxPrealloc
  <2> DEFINE size == SizeOf(Item(f.ty))
  <2>1. /\ f.kind = Types[f.ty].kind /\ (f.cap - f.count) * size <= MaxPrealloc
        /\ f.count < f.cap
    BY <1>5 DEF FrameOK
  <2>2. size \in Nat
    BY <1>2, <1>5, <2>1, DescFields, SMTT(30)
  <2> HIDE DEF size
  <2>3. f.cap - f.count \in Nat /\ f.cap - (f.count + 1) \in Nat
        /\ f.cap - (f.count + 1) <= f.cap - f.count /\ f.count + 1 <= f.cap
    BY <1>2, <2>1
  <2>4. (f.cap - (f.count + 1)) * size <= (f.cap - f.count) * size
    BY <2>2, <2>3, Fewer
  <2>5. (f.cap - (f.count + 1)) * size \in Nat /\ (f.cap - f.count) * size \in Nat
    BY <2>2, <2>3
  <2>6. (f.cap - (f.count + 1)) * size <= MaxPrealloc
    BY <2>1, <2>4, <2>5, BoundsAssumption
  <2> QED
    BY <1>3, <2>3, <2>6 DEF size
<1>6. g.count # 0
  BY <1>2, <1>3
<1>7. FrameOK(g)
  BY <1>3, <1>5, <1>6 DEF FrameOK
<1> QED
  BY <1>3, <1>4, <1>7 DEF g
=============================================================================
