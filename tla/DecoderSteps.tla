---------------------------- MODULE DecoderSteps ----------------------------
(***************************************************************************)
(* Proofs about Decoder: the steps that decode preserve the invariant.     *)
(***************************************************************************)
EXTENDS DecoderFrames

-----------------------------------------------------------------------------
(* The actions.                                                             *)

\* DecodeFixed: one read.
LEMMA DecodeFixedInv ==
  ASSUME IInv, NEW t \in TypeName, DecodeFixed(t)
  PROVE  IInv'
<1>1. Wants(t, "fixed") /\ status = "running"
  BY DEF DecodeFixed, Wants
<1>2. Types[t].n \in Nat
  BY DescFields
<1>3. /\ layers \in Seq(Layer) /\ StackOK(stack) /\ pos \in Nat /\ Len(input) \in Nat
      /\ pos \in 0..Len(input) /\ heap \in Nat /\ Top.level \in Nat
      /\ DepthIs(layers, Top.level) /\ MemCovers(layers, heap) /\ Counts(layers, pos, Exact)
  BY <1>1, RunningFacts
<1>4. CASE Types[t].n <= Avail
  <2> DEFINE n == Types[t].n
             f == Deliver(Top, 0)
  <2>1. /\ pos' = pos + n /\ layers' = CountRead(layers, n)
        /\ stack' = [stack EXCEPT ![Len(stack)] = f] /\ heap' = heap /\ status' = status
        /\ UNCHANGED call
    BY <1>2, <1>3, <1>4 DEF DecodeFixed, Avail, SetTop
  <2>2. /\ layers' \in Seq(Layer) /\ DepthIs(layers', Top.level) /\ MemCovers(layers', heap)
        /\ Counts(layers', pos', Exact)
    BY <1>1, <1>2, <2>1, ReadFacts
  <2>3. FrameOK(Top) /\ Top.kind # "bulk" /\ (Top.kind = "vec" => Top.count < Top.cap)
    BY <1>1, <1>3, TopFields DEF Wants, Top
  <2>4. /\ FrameOK(f) /\ Held(f) = Held(Top) + 0
        /\ f.kind = Top.kind /\ f.base = Top.base /\ f.level = Top.level
    BY <2>3, DeliverOK
  <2> HIDE DEF f
  <2>5. StackOK(stack') /\ Len(stack') = Len(stack) /\ stack'[Len(stack)] = f
    BY <1>3, <2>1, <2>4, StackSet, Zenon DEF Top
  <2>6. Top' = f
    BY <2>5 DEF Top
  <2>7. pos' \in pos..Len(input)
    BY <1>2, <1>3, <1>4, <2>1 DEF Avail
  <2>8. /\ status' = "running" /\ heap' = heap + 0 /\ Held(Top') = Held(Top) + 0
        /\ DepthIs(layers', Top'.level) /\ MemCovers(layers', heap')
    BY <1>1, <1>3, <2>1, <2>2, <2>4, <2>6
  <2> QED
    BY <1>1, <2>1, <2>2, <2>5, <2>7, <2>8, Progress, SMTT(30)
<1>5. CASE ~(Types[t].n <= Avail)
  <2>1. pos' \in StopsAt(pos) /\ layers' = layers /\ Raise
    BY <1>5 DEF DecodeFixed
  <2>2. Types[t].n # 0 /\ pos \in pos..Len(input)
    BY <1>2, <1>3, <1>5 DEF Avail
  <2>3. pos' \in pos..Len(input) /\ Counts(layers, pos', Exact)
    BY <1>1, <1>3, <2>1, <2>2, StopFacts
  <2>4. DepthAbove(layers, Top.level)
    BY <1>3, DepthWeaker
  <2>5. status' \in Unwinding /\ UNCHANGED <<stack, heap, call>>
    BY <2>1 DEF Raise, Unwinding
  <2> QED
    BY <1>1, <1>3, <2>1, <2>2, <2>3, <2>4, <2>5, ChildFails, SMTT(30)
<1> QED
  BY <1>4, <1>5

\* A panic in a user's decode.
LEMMA DecodePanicsInv ==
  ASSUME IInv, NEW t \in TypeName, DecodePanics(t)
  PROVE  IInv'
<1>1. /\ Wants(t, "fixed") /\ Types[t].panics /\ status = "running"
      /\ status' \in Unwinding /\ UNCHANGED <<stack, heap, call>> /\ pos' = pos /\ layers' = layers
  BY DEF DecodePanics, Wants, Unwinding
<1>2. /\ layers \in Seq(Layer) /\ pos \in pos..Len(input) /\ Top.level \in Nat
      /\ DepthIs(layers, Top.level) /\ MemCovers(layers, heap) /\ Counts(layers, pos, Exact)
  BY <1>1, RunningFacts
<1>3. DepthAbove(layers, Top.level)
  BY <1>2, DepthWeaker
<1> QED
  BY <1>1, <1>2, <1>3, ChildFails

\* Structs, arrays and checked types: a frame and nothing else.
LEMMA DecodePartsInv ==
  ASSUME IInv, NEW t \in TypeName, DecodeParts(t)
  PROVE  IInv'
<1> DEFINE fields == Types[t].fields
           len == IF Types[t].kind = "array" THEN Types[t].n ELSE Len(Types[t].fields)
<1>1. PICK k \in {"tuple", "transparent", "checked", "array"} : Wants(t, k)
  BY DEF DecodeParts
<1>2. /\ status = "running" /\ Types[t].kind = k
      /\ Push(NewFrame(t, fields, len, 0, 0), <<>>, 0) /\ pos' = pos /\ layers' = layers
  BY <1>1 DEF DecodeParts, Wants
<1>3. /\ layers \in Seq(Layer) /\ pos \in pos..Len(input) /\ heap \in Nat /\ Top.level \in Nat
      /\ DepthIs(layers, Top.level) /\ MemCovers(layers, heap) /\ Counts(layers, pos, Exact)
  BY <1>2, RunningFacts
<1>4. fields \in Seq(TypeName) /\ len \in Nat
  BY DescFields
<1>5. k = "transparent" => fields = Types[t].fields /\ len = Len(fields)
  BY <1>2
<1>6. Up(k) = 0 /\ k # "fixed"
  BY <1>1 DEF Up, RefKinds
<1>7. DepthIs(layers', Top.level + Up(k)) /\ MemCovers(layers', heap + 0)
  BY <1>2, <1>3, <1>6
<1> HIDE DEF fields, len
<1>8. Push(NewFrame(t, fields, len, 0, Up(k)), <<>>, 0)
  BY <1>2, <1>6
<1> QED
  BY <1>1, <1>2, <1>3, <1>4, <1>5, <1>6, <1>7, <1>8, Enters

\* An enum: its tag, then a frame for the variant or an error.
LEMMA DecodeEnumInv ==
  ASSUME IInv, NEW t \in TypeName, DecodeEnum(t)
  PROVE  IInv'
<1> DEFINE vs == Types[t].variants
           first(b) == {i \in DOMAIN vs : vs[i].tag = b /\ \A j \in 1..(i-1) : vs[j].tag # b}
<1>1. Wants(t, "enum") /\ status = "running"
  BY DEF DecodeEnum, Wants
<1>2. /\ layers \in Seq(Layer) /\ pos \in 0..Len(input) /\ pos \in Nat /\ Len(input) \in Nat
      /\ heap \in Nat /\ Top.level \in Nat
      /\ DepthIs(layers, Top.level) /\ MemCovers(layers, heap) /\ Counts(layers, pos, Exact)
  BY <1>1, RunningFacts
<1>3. CASE Avail = 0
  <2>1. pos' = pos /\ layers' = layers /\ status' \in Unwinding /\ UNCHANGED <<stack, heap, call>>
    BY <1>3 DEF DecodeEnum, Raise, Unwinding
  <2>2. DepthAbove(layers, Top.level) /\ pos \in pos..Len(input)
    BY <1>2, DepthWeaker, SMTT(30)
  <2> QED
    BY <1>1, <1>2, <2>1, <2>2, ChildFails
<1>4. CASE Avail # 0
  <2>1. /\ pos' = pos + 1 /\ layers' = CountRead(layers, 1)
        /\ \/ \E i \in first(input[pos + 1]) :
                Push(NewFrame(t, vs[i].fields, Len(vs[i].fields), 0, 0), <<vs[i].tag>>, 0)
           \/ Raise
    BY <1>4, Zenon DEF DecodeEnum
  <2>2. /\ layers' \in Seq(Layer) /\ DepthIs(layers', Top.level) /\ MemCovers(layers', heap)
        /\ Counts(layers', pos', Exact)
    BY <1>1, <2>1, ReadFacts
  <2>3. pos' \in pos..Len(input)
    BY <1>2, <1>4, <2>1 DEF Avail
  <2>4. CASE Raise
    <3>1. DepthAbove(layers', Top.level)
      BY <1>2, <2>2, DepthWeaker
    <3>2. status' \in Unwinding /\ UNCHANGED <<stack, heap, call>>
      BY <2>4 DEF Raise, Unwinding
    <3> QED
      BY <1>1, <2>2, <2>3, <3>1, <3>2, ChildFails
  <2>5. ASSUME NEW i \in DOMAIN vs,
               Push(NewFrame(t, vs[i].fields, Len(vs[i].fields), 0, 0), <<vs[i].tag>>, 0)
        PROVE  IInv'
    <3> DEFINE fields == vs[i].fields
               len == Len(vs[i].fields)
               prefix == <<vs[i].tag>>
    <3>0. vs \in Seq([tag : Byte, fields : Seq(TypeName)])
      BY DescFields, Zenon
    <3>1. fields \in Seq(TypeName)
      <4> HIDE DEF vs
      <4>1. DOMAIN vs = 1..Len(vs)
        BY <3>0
      <4>2. vs[i] \in [tag : Byte, fields : Seq(TypeName)]
        BY <3>0, <4>1, ElementOfSeq, Zenon
      <4> QED
        BY <4>2
    <3>2. len \in Nat
      BY <3>1
    <3>3. Up("enum") = 0
      BY DEF Up, RefKinds
    <3>4. DepthIs(layers', Top.level + Up("enum")) /\ MemCovers(layers', heap + 0)
      BY <1>2, <2>2, <3>3
    <3>5. Push(NewFrame(t, fields, len, 0, Up("enum")), prefix, 0)
      BY <2>5, <3>3
    <3> HIDE DEF fields, len, prefix
    <3> QED
      BY <1>1, <2>2, <2>3, <3>1, <3>2, <3>4, <3>5, Enters
  <2> QED
    BY <2>1, <2>4, <2>5, Zenon
<1> QED
  BY <1>3, <1>4

\* Box, Rc, Arc: descend_ref and on_before_alloc_mem, then the allocation.
LEMMA DecodeBoxInv ==
  ASSUME IInv, NEW t \in TypeName, DecodeBox(t)
  PROVE  IInv'
<1> DEFINE inside == DescendRef(layers)
           size == SizeOf(Item(t))
           after == OnBeforeAllocMem(inside, size)
           fields == Types[t].fields
<1>1. Wants(t, "box") /\ status = "running" /\ Types[t].kind = "box" /\ pos' = pos
  BY DEF DecodeBox, Wants
<1>2. /\ layers \in Seq(Layer) /\ pos \in pos..Len(input) /\ pos \in Nat /\ heap \in Nat
      /\ Top.level \in Nat /\ Exact \in BOOLEAN
      /\ DepthIs(layers, Top.level) /\ MemCovers(layers, heap) /\ Counts(layers, pos, Exact)
  BY <1>1, RunningFacts
<1>3. size \in Nat /\ fields \in Seq(TypeName)
  BY <1>1, DescFields
<1>4. \/ /\ DescendOk(layers) /\ AllocOk(inside, size) /\ layers' = after
         /\ Push(NewFrame(t, fields, 1, size, 1), <<>>, size)
      \/ DescendOk(layers) /\ layers' = after /\ Raise
      \/ layers' = inside /\ Raise
  BY DEF DecodeBox
<1> HIDE DEF size, fields
<1>5. /\ inside \in Seq(Layer) /\ after \in Seq(Layer)
      /\ DepthAbove(inside, Top.level) /\ MemCovers(inside, heap) /\ Counts(inside, pos, Exact)
      /\ MemCovers(after, heap) /\ Counts(after, pos, Exact)
      /\ DescendOk(layers) => DepthIs(after, Top.level + 1) /\ DepthAbove(after, Top.level)
      /\ AllocOk(inside, size) => MemCovers(after, heap + size)
  <2>1. /\ inside \in Seq(Layer) /\ after \in Seq(Layer) /\ DepthAbove(inside, Top.level)
        /\ DescendOk(layers) => DepthIs(after, Top.level + 1) /\ DepthAbove(after, Top.level)
    BY <1>2, <1>3, EnterKeeps, ZenonT(40)
  <2>2. /\ MemCovers(inside, heap) /\ MemCovers(after, heap)
        /\ AllocOk(inside, size) => MemCovers(after, heap + size)
    BY <1>2, <1>3, EnterKeeps, ZenonT(40)
  <2>3. Counts(inside, pos, Exact) /\ Counts(after, pos, Exact)
    BY <1>2, <1>3, EnterKeeps
  <2> QED
    BY <2>1, <2>2, <2>3
<1> HIDE DEF inside, after
<1>6. CASE /\ DescendOk(layers) /\ AllocOk(inside, size) /\ layers' = after
           /\ Push(NewFrame(t, fields, 1, size, 1), <<>>, size)
  <2>1. Up("box") = 1
    BY DEF Up, RefKinds
  <2>2. DepthIs(layers', Top.level + Up("box")) /\ Push(NewFrame(t, fields, 1, size, Up("box")), <<>>, size)
    BY <1>5, <1>6, <2>1
  <2>3. layers' \in Seq(Layer) /\ MemCovers(layers', heap + size) /\ Counts(layers', pos', Exact)
    BY <1>1, <1>5, <1>6
  <2> QED
    BY <1>1, <1>2, <1>3, <2>2, <2>3, Enters, SMTT(30)
<1>7. CASE Raise /\ ((DescendOk(layers) /\ layers' = after) \/ layers' = inside)
  <2>1. /\ layers' \in Seq(Layer) /\ DepthAbove(layers', Top.level) /\ MemCovers(layers', heap)
        /\ Counts(layers', pos', Exact)
    BY <1>1, <1>5, <1>7
  <2>2. status' \in Unwinding /\ UNCHANGED <<stack, heap, call>>
    BY <1>7 DEF Raise, Unwinding
  <2> QED
    BY <1>1, <1>2, <2>1, <2>2, ChildFails
<1> QED
  BY <1>4, <1>6, <1>7

\* Other wrapper types: descend_ref only.
LEMMA DecodeWrappedInv ==
  ASSUME IInv, NEW t \in TypeName, DecodeWrapped(t)
  PROVE  IInv'
<1> DEFINE fields == Types[t].fields
<1>1. Wants(t, "wrap") /\ status = "running" /\ pos' = pos /\ layers' = DescendRef(layers)
  BY DEF DecodeWrapped, Wants
<1>2. /\ layers \in Seq(Layer) /\ pos \in pos..Len(input) /\ pos \in Nat /\ heap \in Nat
      /\ Top.level \in Nat /\ Exact \in BOOLEAN
      /\ DepthIs(layers, Top.level) /\ MemCovers(layers, heap) /\ Counts(layers, pos, Exact)
  BY <1>1, RunningFacts
<1>3. fields \in Seq(TypeName)
  BY DescFields
<1>4. (DescendOk(layers) /\ Push(NewFrame(t, fields, 1, 0, 1), <<>>, 0)) \/ Raise
  BY DEF DecodeWrapped
<1> HIDE DEF fields
<1>5. /\ layers' \in Seq(Layer) /\ DepthAbove(layers', Top.level)
      /\ DescendOk(layers) => DepthIs(layers', Top.level + 1)
      /\ MemCovers(layers', heap) /\ Counts(layers', pos', Exact)
  BY <1>1, <1>2, DescendKeeps
<1>6. CASE DescendOk(layers) /\ Push(NewFrame(t, fields, 1, 0, 1), <<>>, 0)
  <2>1. Up("wrap") = 1
    BY DEF Up, RefKinds
  <2>2. /\ DepthIs(layers', Top.level + Up("wrap")) /\ MemCovers(layers', heap + 0)
        /\ Push(NewFrame(t, fields, 1, 0, Up("wrap")), <<>>, 0)
    BY <1>2, <1>5, <1>6, <2>1
  <2> QED
    BY <1>1, <1>2, <1>3, <1>5, <2>2, Enters
<1>7. CASE Raise
  <2>2. status' \in Unwinding /\ UNCHANGED <<stack, heap, call>>
    BY <1>7 DEF Raise, Unwinding
  <2> QED
    BY <1>1, <1>2, <1>5, <2>2, ChildFails, SMTT(30)
<1> QED
  BY <1>4, <1>6, <1>7

\* The length of a collection, read from what is left of the input.
LEMMA LenFacts ==
  ASSUME IInv, status = "running", NEW got, got = DecodeFrom(4, Rest)
  PROVE  LET read == CountRead(layers, got.used)
         IN /\ got.used \in Nat /\ pos + got.used \in pos..Len(input)
            /\ got.ok => U32ToNat(got.val) \in Nat
            /\ read \in Seq(Layer) /\ DepthIs(read, Top.level)
            /\ MemCovers(read, heap) /\ Counts(read, pos + got.used, Exact)
<1>1. pos \in 0..Len(input) /\ pos \in Nat /\ Len(input) \in Nat
  BY RunningFacts
<1>2. input \in Seq(Byte)
  BY InputsAssumption DEF IInv, TypeOK
<1>3. Rest \in Seq(Byte) /\ Len(Rest) = Len(input) - pos
  <2>1. \A i \in (pos + 1)..Len(input) : input[i] \in Byte
    BY <1>1, <1>2
  <2>2. pos + 1 \in Int /\ Len(input) \in Int
    BY <1>1
  <2>3. /\ Rest \in Seq(Byte)
        /\ Len(Rest) = IF pos + 1 <= Len(input) THEN Len(input) - (pos + 1) + 1 ELSE 0
    BY <2>1, <2>2, SubSeqProperties DEF Rest
  <2> QED
    BY <1>1, <2>3
<1>4. LenFrom(Rest, got)
  BY <1>3, LenRead
<1>5. got.used \in 0..(Len(input) - pos) /\ (got.ok => U32ToNat(got.val) \in Nat)
  BY <1>3, <1>4 DEF LenFrom
<1>6. got.used \in Nat /\ pos + got.used \in pos..Len(input)
  BY <1>1, <1>5
<1> QED
  BY <1>5, <1>6, ReadFacts, SMTT(30)

\* A length that cannot be read.
LEMMA LenFailsInv ==
  ASSUME IInv, NEW t \in TypeName, NEW k, Wants(t, k), k # "fixed",
         NEW got, got = DecodeFrom(4, Rest), LenFails(got)
  PROVE  IInv'
<1>1. status = "running"
  BY DEF Wants
<1> DEFINE read == CountRead(layers, got.used)
<1>2. /\ got.used \in Nat /\ pos + got.used \in pos..Len(input)
      /\ read \in Seq(Layer) /\ DepthIs(read, Top.level)
      /\ MemCovers(read, heap) /\ Counts(read, pos + got.used, Exact)
  BY <1>1, LenFacts
<1>3. /\ layers' = read /\ (pos' \in StopsAt(pos + got.used) \/ pos' = pos + got.used)
      /\ status' \in Unwinding /\ UNCHANGED <<stack, heap, call>>
  BY DEF LenFails, Raise, Unwinding
<1> HIDE DEF read
<1>4. pos' \in pos..Len(input) /\ Counts(read, pos', Exact)
  BY <1>1, <1>2, <1>3, StopFacts
<1>5. DepthAbove(read, Top.level)
  <2>1. Top.level \in Nat /\ Top.level \in 0..Top.level
    BY <1>1, RunningFacts
  <2> QED
    BY <1>2, <2>1, DepthWeaker
<1> QED
  BY <1>2, <1>3, <1>4, <1>5, ChildFails, SMTT(30)

\* Vectors: the length, then descend_ref.
LEMMA DecodeVecInv ==
  ASSUME IInv, NEW t \in TypeName, DecodeVec(t)
  PROVE  IInv'
<1> DEFINE fields == Types[t].fields
<1>1. Wants(t, "vec") /\ status = "running"
  BY DEF DecodeVec, Wants
<1>2. PICK got : got = DecodeFrom(4, Rest)
  OBVIOUS
<1> DEFINE read == CountRead(layers, got.used)
           len == U32ToNat(got.val)
           prefix == EncodeTo(got.val)
<1>3. /\ got.used \in Nat /\ pos + got.used \in pos..Len(input)
      /\ got.ok => len \in Nat
      /\ read \in Seq(Layer) /\ DepthIs(read, Top.level)
      /\ MemCovers(read, heap) /\ Counts(read, pos + got.used, Exact)
  BY <1>1, <1>2, LenFacts
<1>4. \/ LenFails(got)
      \/ /\ got.ok /\ pos' = pos + got.used /\ layers' = DescendRef(read)
         /\ \/ DescendOk(read) /\ Push(NewFrame(t, fields, len, 0, 1), prefix, 0)
            \/ Raise
  BY <1>2 DEF DecodeVec
<1> HIDE DEF fields, read, len, prefix
<1>5. fields \in Seq(TypeName) /\ heap \in Nat /\ Top.level \in Nat /\ Exact \in BOOLEAN
      /\ pos + got.used \in Nat
  BY <1>1, <1>3, DescFields, RunningFacts DEF fields
<1>6. /\ DescendRef(read) \in Seq(Layer) /\ DepthAbove(DescendRef(read), Top.level)
      /\ DescendOk(read) => DepthIs(DescendRef(read), Top.level + 1)
      /\ MemCovers(DescendRef(read), heap) /\ Counts(DescendRef(read), pos + got.used, Exact)
  BY <1>3, <1>5, DescendKeeps
<1>7. CASE LenFails(got)
  BY <1>1, <1>2, <1>7, LenFailsInv
<1>8. CASE /\ got.ok /\ pos' = pos + got.used /\ layers' = DescendRef(read)
           /\ DescendOk(read) /\ Push(NewFrame(t, fields, len, 0, 1), prefix, 0)
  <2>1. Up("vec") = 1
    BY DEF Up, RefKinds
  <2>2. /\ DepthIs(layers', Top.level + Up("vec")) /\ MemCovers(layers', heap + 0)
        /\ Push(NewFrame(t, fields, len, 0, Up("vec")), prefix, 0)
        /\ layers' \in Seq(Layer) /\ Counts(layers', pos', Exact) /\ pos' \in pos..Len(input)
    BY <1>3, <1>5, <1>6, <1>8, <2>1, SMTT(30)
  <2> QED
    BY <1>1, <1>3, <1>5, <1>8, <2>2, Enters
<1>9. CASE pos' = pos + got.used /\ layers' = DescendRef(read) /\ Raise
  <2>1. status' \in Unwinding /\ UNCHANGED <<stack, heap, call>>
    BY <1>9 DEF Raise, Unwinding
  <2> QED
    BY <1>1, <1>3, <1>6, <1>9, <2>1, ChildFails
<1> QED
  BY <1>4, <1>7, <1>8, <1>9, SMTT(30)

\* Vectors of integers and floats: the length, which may be refused.
LEMMA DecodeBulkInv ==
  ASSUME IInv, NEW t \in TypeName, DecodeBulk(t)
  PROVE  IInv'
<1> DEFINE fields == Types[t].fields
<1>1. Wants(t, "bulk") /\ status = "running"
  BY DEF DecodeBulk, Wants
<1>2. PICK got : got = DecodeFrom(4, Rest)
  OBVIOUS
<1> DEFINE read == CountRead(layers, got.used)
           len == U32ToNat(got.val)
           prefix == EncodeTo(got.val)
<1>3. /\ got.used \in Nat /\ pos + got.used \in pos..Len(input)
      /\ got.ok => len \in Nat
      /\ read \in Seq(Layer) /\ DepthIs(read, Top.level)
      /\ MemCovers(read, heap) /\ Counts(read, pos + got.used, Exact)
  BY <1>1, <1>2, LenFacts
<1>4. \/ LenFails(got)
      \/ /\ got.ok /\ pos' = pos + got.used /\ layers' = read
         /\ Push(NewFrame(t, fields, len, 0, 0), prefix, 0) \/ Raise
  BY <1>2 DEF DecodeBulk
<1> HIDE DEF fields, read, len, prefix
<1>5. fields \in Seq(TypeName) /\ heap \in Nat /\ Top.level \in Nat
  BY <1>1, DescFields, RunningFacts DEF fields
<1>6. DepthAbove(read, Top.level)
  BY <1>3, <1>5, DepthWeaker
<1>7. CASE LenFails(got)
  BY <1>1, <1>2, <1>7, LenFailsInv
<1>8. CASE /\ got.ok /\ pos' = pos + got.used /\ layers' = read
           /\ Push(NewFrame(t, fields, len, 0, 0), prefix, 0)
  <2>1. Up("bulk") = 0
    BY DEF Up, RefKinds
  <2>2. /\ DepthIs(layers', Top.level + Up("bulk")) /\ MemCovers(layers', heap + 0)
        /\ Push(NewFrame(t, fields, len, 0, Up("bulk")), prefix, 0)
        /\ layers' \in Seq(Layer) /\ Counts(layers', pos', Exact) /\ pos' \in pos..Len(input)
    BY <1>3, <1>5, <1>8, <2>1, SMTT(30)
  <2> QED
    BY <1>1, <1>3, <1>5, <1>8, <2>2, Enters
<1>9. CASE pos' = pos + got.used /\ layers' = read /\ Raise
  <2>1. status' \in Unwinding /\ UNCHANGED <<stack, heap, call>>
    BY <1>9 DEF Raise, Unwinding
  <2> QED
    BY <1>1, <1>3, <1>6, <1>9, <2>1, ChildFails
<1> QED
  BY <1>4, <1>7, <1>8, <1>9, SMTT(30)

\* mem_size_of_btree is a number.
LEMMA BtreeNat ==
  ASSUME NEW len \in Nat, NEW size \in Nat
  PROVE  MemSizeOfBtree(len, size) \in Nat
<1>1. PICK leaf \in Nat : leaf = ((12 + 11 * size + 7) \div 8) * 8
  OBVIOUS
<1>2. PICK nodes \in Nat : nodes = len \div 10
  OBVIOUS
<1>3. nodes * (leaf + 96) \in Nat
  OBVIOUS
<1>4. AtMost(nodes * (leaf + 96), UsizeMax) \in Nat
  BY <1>3, UsizeAssumption DEF AtMost
<1> QED
  BY <1>1, <1>2, <1>4, Zenon DEF MemSizeOfBtree

\* Lists and trees: the length, descend_ref and on_before_alloc_mem.
LEMMA DecodeCollectionInv ==
  ASSUME IInv, NEW t \in TypeName, DecodeCollection(t)
  PROVE  IInv'
<1>1. PICK k \in {"list", "btree"} : Wants(t, k)
  BY Zenon DEF DecodeCollection
<1>2. status = "running" /\ Types[t].kind = k /\ Up(k) = 1 /\ k # "fixed" /\ k # "transparent"
  BY <1>1 DEF Wants, Up, RefKinds
<1>3. PICK got : got = DecodeFrom(4, Rest)
  OBVIOUS
<1> DEFINE fields == Types[t].fields
           read == CountRead(layers, got.used)
           inside == DescendRef(read)
           len == U32ToNat(got.val)
           isList == Types[t].kind = "list"
           mem == IF isList THEN AtMost(len * SizeOf(t), UsizeMax)
                  ELSE MemSizeOfBtree(len, SizeOf(Item(t)))
           own == IF isList THEN mem ELSE 0
           prefix == IF isList THEN EncodeTo(got.val) ELSE <<>>
           after == OnBeforeAllocMem(inside, mem)
<1>4. /\ got.used \in Nat /\ pos + got.used \in pos..Len(input)
      /\ got.ok => len \in Nat
      /\ read \in Seq(Layer) /\ DepthIs(read, Top.level)
      /\ MemCovers(read, heap) /\ Counts(read, pos + got.used, Exact)
  BY <1>2, <1>3, LenFacts, SMTT(30)
<1>5. \/ LenFails(got)
      \/ /\ got.ok /\ pos' = pos + got.used
         /\ \/ /\ DescendOk(read) /\ AllocOk(inside, mem) /\ layers' = after
               /\ Push(NewFrame(t, fields, len, own, 1), prefix, own)
            \/ DescendOk(read) /\ layers' = after /\ Raise
            \/ layers' = inside /\ Raise
  BY <1>3, Zenon DEF DecodeCollection
<1>6. fields \in Seq(TypeName) /\ SizeOf(t) \in Nat /\ SizeOf(Item(t)) \in Nat
  BY <1>1, <1>2, DescFields
<1> HIDE DEF fields, read, len, prefix
<1>7. got.ok => mem \in Nat /\ own \in 0..mem
  <2>1. ASSUME got.ok PROVE mem \in Nat
    <3>1. len * SizeOf(t) \in Nat
      BY <1>4, <1>6, <2>1
    <3>2. AtMost(len * SizeOf(t), UsizeMax) \in Nat
      BY <3>1, UsizeAssumption DEF AtMost
    <3>3. MemSizeOfBtree(len, SizeOf(Item(t))) \in Nat
      BY <1>4, <1>6, <2>1, BtreeNat, SMTT(30)
    <3> QED
      BY <3>2, <3>3
  <2> HIDE DEF mem, isList
  <2> QED
    BY <2>1
<1> HIDE DEF mem, own, isList
<1>8. heap \in Nat /\ Top.level \in Nat /\ Exact \in BOOLEAN /\ pos + got.used \in Nat
  BY <1>2, <1>4, RunningFacts, SMTT(30)
<1>9. ASSUME got.ok
      PROVE  /\ inside \in Seq(Layer) /\ after \in Seq(Layer)
             /\ DepthAbove(inside, Top.level) /\ MemCovers(inside, heap)
             /\ Counts(inside, pos + got.used, Exact)
             /\ MemCovers(after, heap) /\ Counts(after, pos + got.used, Exact)
             /\ DescendOk(read) => DepthIs(after, Top.level + 1) /\ DepthAbove(after, Top.level)
             /\ AllocOk(inside, mem) => MemCovers(after, heap + mem)
  <2>0. PICK q \in Nat : q = pos + got.used
    BY <1>8
  <2>1. mem \in Nat /\ Counts(read, q, Exact)
    BY <1>4, <1>7, <1>9, <2>0, SMTT(30)
  <2>2. /\ inside \in Seq(Layer) /\ after \in Seq(Layer)
    BY <1>4, <1>8, <2>1, EnterKeeps, SMTT(30)
  <2>5. DepthAbove(inside, Top.level)
    BY <1>4, <1>8, <2>1, EnterKeeps
  <2>6. DescendOk(read) => DepthIs(after, Top.level + 1) /\ DepthAbove(after, Top.level)
    BY <1>4, <1>8, <2>1, EnterKeeps, ZenonT(40)
  <2>3. /\ MemCovers(inside, heap) /\ MemCovers(after, heap)
        /\ AllocOk(inside, mem) => MemCovers(after, heap + mem)
    BY <1>4, <1>8, <2>1, EnterKeeps, SMTT(30)
  <2>4. Counts(inside, q, Exact) /\ Counts(after, q, Exact)
    BY <1>4, <1>8, <2>1, EnterKeeps
  <2> QED
    BY <2>0, <2>2, <2>3, <2>4, <2>5, <2>6
<1> HIDE DEF inside, after
<1>10. CASE LenFails(got)
  BY <1>1, <1>2, <1>3, <1>10, LenFailsInv, SMTT(30)
<1>11. CASE /\ got.ok /\ pos' = pos + got.used
            /\ DescendOk(read) /\ AllocOk(inside, mem) /\ layers' = after
            /\ Push(NewFrame(t, fields, len, own, 1), prefix, own)
  <2>1. heap + mem \in Nat /\ heap + own \in 0..(heap + mem) /\ own \in Nat /\ len \in Nat
    BY <1>4, <1>7, <1>8, <1>11, SMTT(30)
  <2>2. MemCovers(after, heap + own)
    BY <1>9, <1>11, <2>1, MemWeaker, SMTT(30)
  <2>3. /\ DepthIs(layers', Top.level + Up(k)) /\ MemCovers(layers', heap + own)
        /\ Push(NewFrame(t, fields, len, own, Up(k)), prefix, own)
        /\ layers' \in Seq(Layer) /\ Counts(layers', pos', Exact) /\ pos' \in pos..Len(input)
    BY <1>2, <1>4, <1>9, <1>11, <2>2, SMTT(30)
  <2> QED
    BY <1>1, <1>2, <1>6, <2>1, <2>3, Enters, SMTT(30)
<1>12. CASE /\ got.ok /\ pos' = pos + got.used /\ Raise
            /\ (DescendOk(read) /\ layers' = after) \/ layers' = inside
  <2>1. status' \in Unwinding /\ UNCHANGED <<stack, heap, call>>
    BY <1>12 DEF Raise, Unwinding
  <2>2. /\ layers' \in Seq(Layer) /\ DepthAbove(layers', Top.level) /\ MemCovers(layers', heap)
        /\ Counts(layers', pos', Exact) /\ pos' \in pos..Len(input)
    BY <1>4, <1>9, <1>12
  <2> QED
    BY <1>1, <1>2, <2>1, <2>2, ChildFails
<1> QED
  BY <1>5, <1>10, <1>11, <1>12, SMTT(30)

\* A chunk takes at most MAX_PREALLOCATION bytes.
LEMMA ChunkFits ==
  ASSUME NEW size \in Nat, NEW left \in Nat
  PROVE  LET chunk == AtMost(ChunkLen(size), left)
         IN chunk \in Nat /\ chunk * size \in Nat /\ chunk * size <= MaxPrealloc
<1> DEFINE chunk == AtMost(ChunkLen(size), left)
<1>1. CASE size = 0
  <2>1. chunk \in Nat
    BY <1>1, UsizeAssumption DEF AtMost, ChunkLen
  <2> HIDE DEF chunk
  <2>2. chunk * size = 0
    BY <1>1, <2>1
  <2> QED
    BY <2>1, <2>2, BoundsAssumption DEF chunk
<1>2. CASE size # 0
  <2> DEFINE most == MaxPrealloc \div size
  <2>1. most \in Nat /\ most * size <= MaxPrealloc /\ most * size \in Nat
    BY <1>2, BoundsAssumption
  <2>2. ChunkLen(size) = most
    BY <1>2 DEF ChunkLen
  <2> HIDE DEF most
  <2>3. chunk \in Nat /\ chunk <= most
    BY <2>1, <2>2 DEF AtMost
  <2> HIDE DEF chunk
  <2>4. chunk * size <= most * size /\ chunk * size \in Nat
    BY <2>1, <2>3, Fewer
  <2> QED
    BY <2>1, <2>3, <2>4, BoundsAssumption DEF chunk
<1> QED
  BY <1>1, <1>2

\* A running call changes its innermost frame only.
LEMMA Advances ==
  ASSUME IInv, status = "running", status' = "running", UNCHANGED call,
         NEW f, FrameOK(f), f.kind = Top.kind, f.base = Top.base, f.level = Top.level,
         stack' = SetTop(f), NEW mem \in Nat, heap' = heap + mem, Held(f) = Held(Top) + mem,
         pos' \in pos..Len(input), layers' \in Seq(Layer), DepthIs(layers', Top.level),
         MemCovers(layers', heap + mem), Counts(layers', pos', Exact)
  PROVE  IInv'
<1>1. StackOK(stack)
  BY DEF IInv
<1>2. StackOK(stack') /\ Len(stack') = Len(stack) /\ stack'[Len(stack)] = f
  BY <1>1, StackSet, Zenon DEF Top, SetTop
<1>3. Top' = f
  BY <1>2 DEF Top
<1>4. Held(Top') = Held(Top) + mem /\ DepthIs(layers', Top'.level) /\ MemCovers(layers', heap')
  BY <1>3
<1> QED
  BY <1>2, <1>4, Progress

\* The next chunk of a vector: on_before_alloc_mem and reserve_exact.
LEMMA ReserveChunkInv ==
  ASSUME IInv, ReserveChunk
  PROVE  IInv'
<1> DEFINE f == Top
           size == SizeOf(Item(f.ty))
           chunk == AtMost(ChunkLen(size), f.len - f.count)
           mem == AtMost(chunk * size, UsizeMax)
           after == OnBeforeAllocMem(layers, mem)
           g == [f EXCEPT !.cap = f.cap + chunk, !.own = f.own + mem]
<1>1. /\ status = "running" /\ f.kind \in {"vec", "bulk"} /\ f.count = f.cap /\ f.cap < f.len
      /\ pos' = pos /\ layers' = after
      /\ \/ /\ AllocOk(layers, mem) /\ stack' = SetTop(g) /\ heap' = heap + mem
            /\ status' = status /\ UNCHANGED call
         \/ Raise
  BY DEF ReserveChunk
<1>2. /\ layers \in Seq(Layer) /\ StackOK(stack) /\ pos \in pos..Len(input) /\ pos \in Nat
      /\ heap \in Nat /\ f.level \in Nat /\ Exact \in BOOLEAN
      /\ DepthIs(layers, f.level) /\ MemCovers(layers, heap) /\ Counts(layers, pos, Exact)
  BY <1>1, RunningFacts
<1>3. /\ FrameOK(f) /\ f \in Frame /\ f.len \in Nat /\ f.count \in Nat /\ f.cap \in Nat
      /\ f.ty \in TypeName /\ f.own \in Nat /\ f.kids \in Nat /\ f.base \in Nat
  BY <1>2, TopFields, Zenon DEF Top
<1> HIDE DEF f
<1>4. size \in Nat /\ Types[f.ty].kind = f.kind
  <2>1. Types[f.ty].kind = f.kind
    BY <1>1, <1>3 DEF FrameOK
  <2> QED
    BY <1>1, <1>3, <2>1, DescFields
<1> HIDE DEF size
<1>5. chunk \in Nat /\ chunk * size \in Nat /\ chunk * size <= MaxPrealloc
  <2>1. f.len - f.count \in Nat
    BY <1>1, <1>3
  <2> QED
    BY <1>4, <2>1, ChunkFits, Zenon
<1> HIDE DEF chunk
<1>6. mem \in Nat
  BY <1>5, UsizeAssumption DEF AtMost
<1> HIDE DEF mem
<1>7. /\ after \in Seq(Layer) /\ DepthIs(after, f.level) /\ MemCovers(after, heap)
      /\ AllocOk(layers, mem) => MemCovers(after, heap + mem)
      /\ Counts(after, pos, Exact)
  <2>1. after \in Seq(Layer) /\ DepthIs(after, f.level)
    BY <1>2, <1>6, AllocKeeps, Zenon
  <2>2. MemCovers(after, heap) /\ (AllocOk(layers, mem) => MemCovers(after, heap + mem))
    BY <1>2, <1>6, AllocKeeps, SMTT(30)
  <2>3. Counts(after, pos, Exact)
    BY <1>2, <1>6, AllocKeeps, SMTT(30)
  <2> QED
    BY <2>1, <2>2, <2>3
<1> HIDE DEF after
<1>8. CASE /\ AllocOk(layers, mem) /\ stack' = SetTop(g) /\ heap' = heap + mem
           /\ status' = status /\ UNCHANGED call
  <2>1. PICK c \in Nat, m \in Nat : c = f.cap + chunk /\ m = f.own + mem
    BY <1>3, <1>5, <1>6
  <2>2. g = [f EXCEPT !.cap = c, !.own = m]
    BY <2>1
  <2>3. /\ g \in Frame /\ g.kind = f.kind /\ g.ty = f.ty /\ g.fields = f.fields /\ g.len = f.len
        /\ g.count = f.count /\ g.cap = c /\ g.own = m /\ g.kids = f.kids /\ g.base = f.base
        /\ g.level = f.level
    BY <1>3, <2>2, ZenonT(40) DEF Frame
  <2> HIDE DEF g
  <2>4. Held(g) = Held(f) + mem
    BY <1>3, <1>6, <2>1, <2>3 DEF Held
  <2>5. g.cap - g.count = chunk /\ g.count <= g.cap
    BY <1>1, <1>3, <1>5, <2>1, <2>3
  <2>6. (g.cap - g.count) * SizeOf(Item(g.ty)) <= MaxPrealloc
    BY <1>5, <2>3, <2>5, SMTT(30) DEF size
  <2>7. FrameOK(g)
    BY <1>1, <1>3, <1>4, <2>3, <2>5, <2>6, SMTT(30) DEF FrameOK
  <2> QED
    BY <1>1, <1>2, <1>6, <1>7, <1>8, <2>3, <2>4, <2>7, Advances, SMTT(30) DEF f
<1>9. CASE Raise
  <2>1. status' \in Unwinding /\ UNCHANGED <<stack, heap, call>>
    BY <1>9 DEF Raise, Unwinding
  <2>2. Clean(f)
    BY <1>1 DEF Clean
  <2>3. DepthAbove(after, f.level)
    BY <1>2, <1>7, DepthWeaker
  <2> QED
    BY <1>1, <1>2, <1>7, <2>1, <2>2, <2>3, Fails DEF f
<1> QED
  BY <1>1, <1>8, <1>9

\* The items of a chunk, read into the vector at once.
LEMMA ReadChunkInv ==
  ASSUME IInv, ReadChunk
  PROVE  IInv'
<1> DEFINE f == Top
           n == (f.cap - f.count) * SizeOf(Item(f.ty))
<1>1. /\ status = "running" /\ f.kind = "bulk" /\ f.count < f.cap
      /\ \/ /\ n <= Avail /\ pos' = pos + n /\ layers' = CountRead(layers, n)
            /\ stack' = SetTop([f EXCEPT !.count = f.cap])
            /\ heap' = heap /\ status' = status /\ UNCHANGED call
         \/ pos' \in StopsAt(pos) /\ layers' = layers /\ Raise
  BY DEF ReadChunk
<1>2. /\ layers \in Seq(Layer) /\ StackOK(stack) /\ pos \in Nat /\ Len(input) \in Nat
      /\ pos \in 0..Len(input) /\ heap \in Nat /\ f.level \in Nat
      /\ DepthIs(layers, f.level) /\ MemCovers(layers, heap) /\ Counts(layers, pos, Exact)
  BY <1>1, RunningFacts
<1>3. /\ FrameOK(f) /\ f \in Frame /\ f.count \in Nat /\ f.cap \in Nat
      /\ f.ty \in TypeName /\ f.own \in Nat /\ f.kids \in Nat /\ f.base \in Nat
  BY <1>2, TopFields, Zenon DEF Top
<1> HIDE DEF f
<1>4. SizeOf(Item(f.ty)) \in Nat /\ Types[f.ty].kind = "bulk"
  <2>1. Types[f.ty].kind = f.kind
    BY <1>1, <1>3 DEF FrameOK
  <2> QED
    BY <1>1, <1>3, <2>1, DescFields, Zenon
<1>5. n \in Nat
  <2> DEFINE size == SizeOf(Item(f.ty))
  <2>1. PICK d \in Nat : d = f.cap - f.count
    BY <1>1, <1>3
  <2>2. size \in Nat
    BY <1>4
  <2> HIDE DEF size
  <2>3. d * size \in Nat
    BY <2>2
  <2> QED
    BY <2>1, <2>3 DEF size
<1>6. CASE /\ n <= Avail /\ pos' = pos + n /\ layers' = CountRead(layers, n)
           /\ stack' = SetTop([f EXCEPT !.count = f.cap])
           /\ heap' = heap /\ status' = status /\ UNCHANGED call
  <2> HIDE DEF n
  <2>1. pos' \in pos..Len(input)
    BY <1>2, <1>5, <1>6 DEF Avail
  <2>2. /\ layers' \in Seq(Layer) /\ DepthIs(layers', f.level) /\ MemCovers(layers', heap)
        /\ Counts(layers', pos', Exact)
    BY <1>1, <1>5, <1>6, ReadFacts DEF f
  <2> DEFINE g == [f EXCEPT !.count = f.cap]
  <2>3. /\ g \in Frame /\ g.kind = f.kind /\ g.ty = f.ty /\ g.fields = f.fields /\ g.len = f.len
        /\ g.count = f.cap /\ g.cap = f.cap /\ g.own = f.own /\ g.kids = f.kids /\ g.base = f.base
        /\ g.level = f.level
    BY <1>3 DEF Frame
  <2>g. stack' = SetTop(g)
    BY <1>6
  <2> HIDE DEF g
  <2>4. Held(g) = Held(f) + 0
    BY <1>3, <2>3 DEF Held
  <2>5. (g.cap - g.count) * SizeOf(Item(g.ty)) <= MaxPrealloc
    <3> DEFINE size == SizeOf(Item(g.ty))
    <3>1. size \in Nat
      BY <1>4, <2>3
    <3>2. g.cap - g.count = 0
      BY <1>3, <2>3
    <3> HIDE DEF size
    <3>3. (g.cap - g.count) * size <= MaxPrealloc
      BY <3>1, <3>2, BoundsAssumption
    <3> QED
      BY <3>3 DEF size
  <2>6. FrameOK(g)
    BY <1>1, <1>3, <1>4, <2>3, <2>5 DEF FrameOK
  <2>7. heap' = heap + 0 /\ MemCovers(layers', heap + 0) /\ status' = "running"
    BY <1>1, <1>2, <1>6, <2>2, SMTT(30)
  <2> QED
    BY <1>1, <1>6, <2>g, <2>1, <2>2, <2>3, <2>4, <2>6, <2>7, Advances, Zenon DEF f
<1>7. CASE pos' \in StopsAt(pos) /\ layers' = layers /\ Raise
  <2>1. pos \in pos..Len(input)
    BY <1>2
  <2>2. pos' \in pos..Len(input) /\ Counts(layers, pos', Exact)
    BY <1>1, <1>2, <1>7, <2>1, StopFacts
  <2>3. status' \in Unwinding /\ UNCHANGED <<stack, heap, call>>
    BY <1>7 DEF Raise, Unwinding
  <2>4. Clean(f)
    BY <1>1 DEF Clean
  <2>5. DepthAbove(layers, f.level)
    BY <1>2, DepthWeaker
  <2> QED
    BY <1>1, <1>2, <1>7, <2>2, <2>3, <2>4, <2>5, Fails DEF f
<1> QED
  BY <1>1, <1>6, <1>7

\* Ok(value) of a child: what it holds goes over to its parent.
LEMMA ReturnInv ==
  ASSUME IInv, Return
  PROVE  IInv'
<1> DEFINE up == Len(stack) - 1
           r == SubSeq(stack, 1, up)
           mem == Top.own + Top.kids
           g == Deliver(r[up], mem)
<1>1. /\ status = "running" /\ Top.kind # "caller"
      /\ stack' = [r EXCEPT ![up] = g]
      /\ layers' = IF Top.kind \in RefKinds THEN AscendRef(layers) ELSE layers
      /\ pos' = pos /\ heap' = heap /\ status' = status /\ UNCHANGED call
  BY DEF Return, Complete, Leaves
<1>2. /\ layers \in Seq(Layer) /\ StackOK(stack) /\ pos \in Nat /\ Len(input) \in Nat
      /\ pos \in 0..Len(input) /\ heap \in Nat /\ Exact \in BOOLEAN
      /\ DepthIs(layers, Top.level) /\ MemCovers(layers, heap) /\ Counts(layers, pos, Exact)
  BY <1>1, RunningFacts
<1>3. /\ Top.own \in Nat /\ Top.kids \in Nat /\ Top.base \in Nat /\ Top.level \in Nat
  BY <1>2, TopFields, ZenonT(40) DEF Top
<1>4. /\ up \in Nat /\ up > 0 /\ StackOK(r) /\ Len(r) = up /\ r[up] = stack[up]
      /\ Link(r[up], Top)
  <2>1. stack[Len(stack)].kind # "caller"
    BY <1>1 DEF Top
  <2> QED
    BY <1>2, <2>1, StackPop DEF Top
<1>5. FrameOK(r[up]) /\ Held(r[up]) \in Nat /\ r[up].level \in Nat
  BY <1>4, TopFields, Zenon
<1> HIDE DEF r, up
<1>6. /\ r[up].kind # "bulk" /\ (r[up].kind = "vec" => r[up].count < r[up].cap)
      /\ Top.base = Held(r[up]) /\ Top.level = r[up].level + Up(Top.kind)
  BY <1>4 DEF Link
<1>7. mem \in Nat
  BY <1>3
<1>8. /\ FrameOK(g) /\ Held(g) = Held(r[up]) + mem
      /\ g.kind = r[up].kind /\ g.base = r[up].base /\ g.level = r[up].level
  <2> HIDE DEF mem
  <2> QED
    BY <1>5, <1>6, <1>7, DeliverOK
<1>9. Held(g) = Held(Top) + 0
  <2>1. ASSUME NEW b \in Nat, NEW o \in Nat, NEW c \in Nat PROVE b + (o + c) = b + o + c + 0
    BY <2>1
  <2>2. Held(g) = Top.base + mem
    BY <1>6, <1>8, Zenon
  <2> QED
    BY <1>3, <2>1, <2>2, Zenon DEF Held
<1> HIDE DEF g, mem
<1>10. StackOK(stack') /\ Len(stack') = up /\ stack'[up] = g
  <2>1. /\ Len(r) = up /\ StackOK(r) /\ FrameOK(g) /\ g.kind = r[Len(r)].kind
        /\ g.base = r[Len(r)].base /\ g.level = r[Len(r)].level
    BY <1>4, <1>8, Zenon
  <2>2. LET q == [r EXCEPT ![Len(r)] = g]
        IN StackOK(q) /\ Len(q) = Len(r) /\ q[Len(r)] = g
    BY <2>1, StackSet, Zenon
  <2> QED
    BY <1>1, <2>1, <2>2, Zenon
<1>11. Top' = g
  BY <1>10 DEF Top
<1>12. /\ layers' \in Seq(Layer) /\ DepthIs(layers', g.level) /\ MemCovers(layers', heap)
       /\ Counts(layers', pos, Exact)
  <2>1. CASE Top.kind \in RefKinds
    <3>1. Top.level = g.level + 1 /\ g.level \in Nat /\ layers' = AscendRef(layers)
      BY <1>1, <1>5, <1>6, <1>8, <2>1, SMTT(30) DEF Up
    <3>2. DepthAbove(layers, g.level + 1) /\ DepthIs(layers, g.level + 1)
      <4>1. DepthAbove(layers, Top.level)
        BY <1>2, <1>3, DepthWeaker
      <4> QED
        BY <1>2, <3>1, <4>1
    <3>3. AscendRef(layers) \in Seq(Layer) /\ DepthIs(AscendRef(layers), g.level)
      BY <1>2, <3>1, <3>2, AscendKeeps
    <3>4. MemCovers(AscendRef(layers), heap)
      BY <1>2, <3>1, <3>2, AscendKeeps
    <3>5. Counts(AscendRef(layers), pos, Exact)
      BY <1>2, <3>1, <3>2, AscendKeeps
    <3> QED
      BY <3>1, <3>3, <3>4, <3>5, SMTT(30)
  <2>2. CASE Top.kind \notin RefKinds
    <3>1. Top.level = g.level /\ layers' = layers
      BY <1>1, <1>5, <1>6, <1>8, <2>2 DEF Up
    <3> QED
      BY <1>2, <3>1
  <2> QED
    BY <2>1, <2>2
<1>13. /\ heap' = heap + 0 /\ Held(Top') = Held(Top) + 0 /\ pos' \in pos..Len(input)
       /\ status' = "running" /\ DepthIs(layers', Top'.level) /\ MemCovers(layers', heap')
       /\ Counts(layers', pos', Exact)
  BY <1>1, <1>2, <1>9, <1>11, <1>12
<1> QED
  BY <1>1, <1>10, <1>12, <1>13, Progress

\* A decoded value that is not a valid one.
LEMMA RefusesInv ==
  ASSUME IInv, Refuses
  PROVE  IInv'
<1>1. /\ status = "running" /\ Top.kind = "checked" /\ pos' = pos /\ layers' = layers
      /\ status' \in Unwinding /\ UNCHANGED <<stack, heap, call>>
  BY DEF Refuses, Complete, Refused, Raise, Unwinding
<1>2. /\ layers \in Seq(Layer) /\ pos \in pos..Len(input) /\ Top.level \in Nat
      /\ DepthIs(layers, Top.level) /\ MemCovers(layers, heap) /\ Counts(layers, pos, Exact)
  BY <1>1, RunningFacts
<1>3. Clean(Top)
  BY <1>1 DEF Clean
<1>4. DepthAbove(layers, Top.level)
  BY <1>2, DepthWeaker
<1> QED
  BY <1>1, <1>2, <1>3, <1>4, Fails
=============================================================================
