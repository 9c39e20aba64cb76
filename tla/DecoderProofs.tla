--------------------------- MODULE DecoderProofs ----------------------------
(***************************************************************************)
(* Proofs about Decoder, for all types, inputs, limits and stacks of       *)
(* wrappers: the steps that end a call or unwind, and the theorems.        *)
(***************************************************************************)
EXTENDS DecoderSteps

-----------------------------------------------------------------------------
(* The end of a call, and unwinding.                                        *)

\* decode returns a value to its caller.
LEMMA CallReturnsInv ==
  ASSUME IInv, CallReturns
  PROVE  IInv'
<1>1. /\ status = "running" /\ Top.kind = "caller" /\ status' = "ok"
      /\ UNCHANGED <<input, source, pos, start, layers, stack, heap, calls>>
  BY DEF CallReturns, call
<1>2. TypeOK'
  BY <1>1 DEF IInv, TypeOK, Ended
<1>3. Top' = Top /\ Exact' = Exact
  BY <1>1 DEF Top, Exact
<1> QED
  BY <1>1, <1>2, <1>3 DEF IInv, Unwinding, Ended

\* decode_all drops the value when data is left.
LEMMA DecodeAllFailsInv ==
  ASSUME IInv, DecodeAllFails
  PROVE  IInv'
<1> DEFINE f == Top
           g == [f EXCEPT !.kids = 0]
<1>1. /\ status = "running" /\ f.kind = "caller" /\ status' = "failed"
      /\ stack' = SetTop(g) /\ heap' = heap - f.kids
      /\ pos' = pos /\ layers' = layers /\ UNCHANGED call
  BY DEF DecodeAllFails
<1>2. /\ layers \in Seq(Layer) /\ StackOK(stack) /\ heap \in Nat
      /\ MemCovers(layers, heap) /\ Counts(layers, pos, Exact)
  BY <1>1, RunningFacts
<1>3. /\ FrameOK(f) /\ f \in Frame /\ f.own \in Nat /\ f.kids \in Nat /\ f.base \in Nat
      /\ Held(f) \in Nat
  BY <1>2, TopFields, Zenon DEF Top
<1>4. heap >= Held(f) /\ (InPlaceSafe => heap = Held(f))
  BY DEF IInv
<1> HIDE DEF f
<1>5. /\ g \in Frame /\ g.kind = f.kind /\ g.ty = f.ty /\ g.fields = f.fields /\ g.len = f.len
      /\ g.count = f.count /\ g.cap = f.cap /\ g.own = f.own /\ g.kids = 0 /\ g.base = f.base
      /\ g.level = f.level
  BY <1>3 DEF Frame
<1> HIDE DEF g
<1>6. FrameOK(g)
  BY <1>1, <1>3, <1>5 DEF FrameOK
<1>7. StackOK(stack') /\ Len(stack') = Len(stack) /\ stack'[Len(stack)] = g
  BY <1>1, <1>2, <1>5, <1>6, StackSet, Zenon DEF Top, SetTop, f
<1>8. Top' = g
  BY <1>7 DEF Top
<1>9. /\ heap' \in 0..heap /\ heap' \in Nat /\ heap' >= Held(g)
      /\ (InPlaceSafe => heap' = Held(g))
  BY <1>1, <1>2, <1>3, <1>4, <1>5, SMTT(30) DEF Held
<1>10. MemCovers(layers, heap')
  BY <1>2, <1>9, MemWeaker
<1>11. Exact' = Exact
  BY <1>1 DEF Exact, call
<1>12. TypeOK'
  <2>1. stack' \in Seq(Frame) /\ stack' # <<>>
    BY <1>7 DEF StackOK
  <2> QED
    BY <1>1, <1>9, <2>1 DEF IInv, TypeOK, call, Ended
<1> QED
  BY <1>1, <1>2, <1>5, <1>7, <1>8, <1>9, <1>10, <1>11, <1>12 DEF IInv, Unwinding, Ended

\* The caller gets the error or the panic.
LEMMA CallFailsInv ==
  ASSUME IInv, CallFails
  PROVE  IInv'
<1>1. /\ status \in Unwinding /\ Top.kind = "caller" /\ status' \in {"failed", "aborted"}
      /\ UNCHANGED <<input, source, pos, start, layers, stack, heap, calls>>
  BY DEF CallFails, call, Unwinding
<1>2. Top.kids = 0
  <2>1. FrameOK(Top)
    BY TopFields, Zenon DEF IInv, Top
  <2>2. Top.count = 0
    BY <1>1 DEF IInv, Clean
  <2> QED
    BY <2>1, <2>2 DEF FrameOK
<1>3. TypeOK'
  BY <1>1 DEF IInv, TypeOK, Ended
<1>4. Top' = Top /\ Exact' = Exact
  BY <1>1 DEF Top, Exact
<1> QED
  BY <1>1, <1>2, <1>3, <1>4 DEF IInv, Unwinding, Ended

\* What the destructors of a frame free, which is all it holds unless a
\* transparent struct loses fields.
LEMMA FreedFacts ==
  ASSUME IInv, status \in Unwinding
  PROVE  /\ Freed \in 0..(Top.own + Top.kids)
         /\ InPlaceSafe => Freed = Top.own + Top.kids
<1>1. StackOK(stack) /\ Clean(Top)
  BY DEF IInv
<1>2. FrameOK(Top) /\ Top.own \in Nat /\ Top.kids \in Nat
  BY <1>1, TopFields, Zenon DEF Top
<1>3. ASSUME InPlaceSafe, InPlace PROVE Top.kids = 0
  <2>1. Len(stack) \in Nat
    BY <1>1 DEF StackOK
  <2>2. PICK i \in 1..(Len(stack) - 1) :
          \A j \in (i + 1)..Len(stack) : stack[j].kind = "transparent"
    BY <1>3 DEF InPlace
  <2>3. Len(stack) \in (i + 1)..Len(stack)
    BY <2>1
  <2>4. Top.kind = "transparent"
    BY <2>2, <2>3, Zenon DEF Top
  <2> QED
    BY <1>1, <1>2, <1>3, <2>4 DEF Clean, FrameOK
<1>4. Freed = Top.own + Top.kids \/ (InPlace /\ Freed = Top.own)
  BY <1>2 DEF Freed
<1> HIDE DEF InPlace
<1> QED
  BY <1>2, <1>3, <1>4

\* An error or a panic passes through a frame.
LEMMA UnwindInv ==
  ASSUME IInv, Unwind
  PROVE  IInv'
<1> DEFINE up == Len(stack) - 1
           r == SubSeq(stack, 1, up)
           f == r[up]
<1>1. /\ status \in Unwinding /\ Top.kind # "caller" /\ stack' = r
      /\ heap' = heap - Freed
      /\ layers' = IF status = "error" /\ Top.kind \in {"list", "btree"}
                   THEN AscendRef(layers) ELSE layers
      /\ pos' = pos /\ status' = status /\ UNCHANGED call
  BY DEF Unwind, Unwinding
<1>2. /\ layers \in Seq(Layer) /\ StackOK(stack) /\ pos \in Nat /\ heap \in Nat
      /\ Exact \in BOOLEAN /\ heap >= Held(Top) /\ (InPlaceSafe => heap = Held(Top))
      /\ DepthAbove(layers, Top.level) /\ MemCovers(layers, heap) /\ Counts(layers, pos, Exact)
  <2>1. pos \in Nat /\ Exact \in BOOLEAN
    <3>1. Len(input) \in Nat
      BY InputsAssumption DEF IInv, TypeOK
    <3> QED
      BY <3>1 DEF IInv, TypeOK, Exact
  <2> QED
    BY <1>1, <2>1 DEF IInv, TypeOK
<1>3. Top.own \in Nat /\ Top.kids \in Nat /\ Top.base \in Nat /\ Top.level \in Nat
  BY <1>2, TopFields, ZenonT(40) DEF Top
<1>4. /\ up \in Nat /\ up > 0 /\ StackOK(r) /\ Len(r) = up /\ Link(f, Top)
  <2>1. stack[Len(stack)].kind # "caller"
    BY <1>1 DEF Top
  <2> QED
    BY <1>2, <2>1, StackPop DEF Top
<1>5. Held(f) \in Nat /\ f.level \in Nat
  BY <1>4, TopFields, Zenon
<1>6. Top' = f
  BY <1>1, <1>4 DEF Top
<1> HIDE DEF r, up, f
<1>7. Clean(f) /\ Top.base = Held(f) /\ Top.level = f.level + Up(Top.kind)
  BY <1>4 DEF Link
<1>8. /\ heap' \in 0..heap /\ heap' \in Nat /\ heap' >= Held(f)
      /\ (InPlaceSafe => heap' = Held(f))
  <2>1. PICK d \in 0..(Top.own + Top.kids) :
          d = Freed /\ (InPlaceSafe => d = Top.own + Top.kids)
    BY <1>1, FreedFacts
  <2>2. heap' = heap - d
    BY <1>1, <2>1
  <2>3. Held(Top) = Held(f) + Top.own + Top.kids
    BY <1>7 DEF Held
  <2> QED
    BY <1>2, <1>3, <1>5, <2>1, <2>2, <2>3, SMTT(30)
<1>9. /\ layers' \in Seq(Layer) /\ DepthAbove(layers', f.level) /\ MemCovers(layers', heap)
      /\ Counts(layers', pos, Exact)
  <2>1. CASE status = "error" /\ Top.kind \in {"list", "btree"}
    <3>1. layers' = AscendRef(layers) /\ Top.level = f.level + 1
      BY <1>1, <1>7, <2>1 DEF Up, RefKinds
    <3>2. DepthAbove(layers, f.level + 1)
      BY <1>2, <3>1
    <3>3. AscendRef(layers) \in Seq(Layer) /\ DepthAbove(AscendRef(layers), f.level)
      BY <1>2, <1>5, <3>2, AscendKeeps, SMTT(30)
    <3>4. MemCovers(AscendRef(layers), heap)
      BY <1>2, <1>5, <3>2, AscendKeeps
    <3>5. Counts(AscendRef(layers), pos, Exact)
      BY <1>2, <1>5, <3>2, AscendKeeps
    <3> QED
      BY <3>1, <3>3, <3>4, <3>5
  <2>2. CASE ~(status = "error" /\ Top.kind \in {"list", "btree"})
    <3>1. f.level \in 0..Top.level
      BY <1>5, <1>7 DEF Up
    <3>2. DepthAbove(layers, f.level)
      BY <1>2, <1>3, <3>1, DepthWeaker
    <3> QED
      BY <1>1, <1>2, <2>2, <3>2
  <2> QED
    BY <2>1, <2>2
<1>10. MemCovers(layers', heap')
  BY <1>2, <1>8, <1>9, MemWeaker
<1>11. Exact' = Exact
  BY <1>1 DEF Exact, call
<1>12. TypeOK'
  <2>1. stack' \in Seq(Frame) /\ stack' # <<>>
    BY <1>1, <1>4 DEF StackOK
  <2> QED
    BY <1>1, <1>8, <1>9, <2>1, SMTT(30) DEF IInv, TypeOK, call
<1>13. StackOK(stack')
  BY <1>1, <1>4
<1> QED
  BY <1>1, <1>6, <1>7, <1>8, <1>9, <1>10, <1>11, <1>12, <1>13 DEF IInv, Unwinding, Ended

\* The frame of a caller who holds some memory.
LEMMA CallerOK ==
  ASSUME NEW t \in Roots, NEW held \in Nat
  PROVE  LET f == CallerFrame(t, held)
         IN StackOK(<<f>>) /\ Held(f) = held /\ f.level = 0 /\ f.kind = "caller"
<1> DEFINE f == CallerFrame(t, held)
<1>1. t \in TypeName
  BY RootsAssumption
<1>2. /\ f \in Frame /\ f.kind = "caller" /\ f.len = 1 /\ f.count = 0 /\ f.kids = 0
      /\ f.own = held /\ f.base = 0 /\ f.level = 0
  BY <1>1 DEF CallerFrame, Frame
<1> HIDE DEF f
<1>3. FrameOK(f)
  BY <1>2 DEF FrameOK
<1>4. Held(f) = held
  BY <1>2 DEF Held
<1>5. StackOK(<<f>>)
  BY <1>2, <1>3, StackOfOne
<1> QED
  BY <1>2, <1>4, <1>5 DEF f

\* Another call, by a caller who kept or dropped what it had.
LEMMA NextCallInv ==
  ASSUME IInv, NEW t \in Roots, NEW keep \in BOOLEAN, NextCall(t, keep)
  PROVE  IInv'
<1> DEFINE held == Top.own + Top.kids
           kept == IF keep THEN held ELSE 0
           f == CallerFrame(t, kept)
<1>1. /\ status \in {"ok", "failed"} /\ calls < MaxCalls /\ calls' = calls + 1
      /\ start' = pos /\ stack' = <<f>> /\ status' = "running"
      /\ heap' = IF keep THEN heap ELSE heap - held
      /\ layers' = [i \in DOMAIN layers |->
                      IF layers[i].kind = "depth" THEN NewLayer("depth", layers[i].bound)
                      ELSE layers[i]]
      /\ UNCHANGED <<input, source, pos>>
  BY DEF NextCall, Renewed
<1>2. /\ layers \in Seq(Layer) /\ StackOK(stack) /\ heap \in Nat /\ Top.kind = "caller"
      /\ heap >= Held(Top) /\ (InPlaceSafe => heap = Held(Top))
      /\ MemCovers(layers, heap) /\ Counts(layers, pos, Exact)
  BY <1>1 DEF IInv, TypeOK, Ended
<1>3. pos \in Nat /\ pos \in 0..Len(input) /\ Exact \in BOOLEAN
  <2>1. Len(input) \in Nat
    BY InputsAssumption DEF IInv, TypeOK
  <2> QED
    BY <2>1 DEF IInv, TypeOK, Exact
<1>4. Top.own \in Nat /\ Top.kids \in Nat /\ Top.base = 0
  BY <1>2, TopFields, StackCaller DEF Top
<1>5. held \in Nat /\ Held(Top) = held /\ kept \in Nat
  BY <1>4 DEF Held
<1>6. /\ heap' \in 0..heap /\ heap' \in Nat /\ heap' >= kept /\ (InPlaceSafe => heap' = kept)
  <2>1. CASE keep
    <3>1. heap' = heap /\ kept = held
      BY <1>1, <2>1
    <3> HIDE DEF kept, held
    <3> QED
      BY <1>2, <1>5, <3>1
  <2>2. CASE ~keep
    <3>1. heap' = heap - held /\ kept = 0
      BY <1>1, <2>2
    <3> HIDE DEF kept, held
    <3> QED
      BY <1>2, <1>5, <3>1
  <2> QED
    BY <2>1, <2>2
<1> HIDE DEF kept, held
<1>7. StackOK(<<f>>) /\ Held(f) = kept /\ f.level = 0
  BY <1>5, CallerOK
<1> HIDE DEF f
<1>8. Top' = f
  <2>1. Len(<<f>>) = 1 /\ <<f>>[1] = f
    OBVIOUS
  <2> QED
    BY <1>1, <2>1 DEF Top
<1>9. layers' \in Seq(Layer) /\ DepthIs(layers', 0)
  BY <1>1, <1>2, <1>3, ResetKeeps, Zenon
<1>10. MemCovers(layers', heap)
  BY <1>1, <1>2, <1>3, ResetKeeps, Zenon
<1>11. Counts(layers', pos, Exact)
  BY <1>1, <1>2, <1>3, ResetKeeps
<1>12. MemCovers(layers', heap')
  BY <1>2, <1>6, <1>9, <1>10, MemWeaker, SMTT(30)
<1>13. Exact' = Exact
  BY <1>1 DEF Exact
<1>14. TypeOK'
  <2>1. stack' \in Seq(Frame) /\ stack' # <<>>
    BY <1>1, <1>7 DEF StackOK
  <2>2. start' \in 0..pos'
    <3>1. start' = pos /\ pos' = pos
      BY <1>1, Zenon
    <3> QED
      BY <1>3, <3>1
  <2>3. calls' \in 1..MaxCalls
    <3>1. calls \in 1..MaxCalls
      BY DEF IInv, TypeOK
    <3>2. calls < MaxCalls /\ calls' = calls + 1
      BY <1>1, Zenon
    <3> QED
      BY <3>1, <3>2, BoundsAssumption
  <2> QED
    BY <1>1, <1>6, <1>9, <2>1, <2>2, <2>3, SMTT(30) DEF IInv, TypeOK
<1>15. StackOK(stack') /\ heap' >= Held(Top') /\ (InPlaceSafe => heap' = Held(Top'))
  BY <1>1, <1>6, <1>7, <1>8
<1> QED
  BY <1>1, <1>7, <1>8, <1>9, <1>11, <1>12, <1>13, <1>14, <1>15 DEF IInv, Unwinding, Ended

-----------------------------------------------------------------------------
(* The invariant holds of every behaviour.                                  *)

\* A first call on wrappers as their constructors make them.
LEMMA InitInv ==
  Init => IInv
<1> SUFFICES ASSUME Init PROVE IInv
  OBVIOUS
<1>1. PICK t \in Roots : stack = <<CallerFrame(t, 0)>>
  BY DEF Init
<1> DEFINE f == CallerFrame(t, 0)
<1>2. StackOK(<<f>>) /\ Held(f) = 0 /\ f.level = 0
  BY CallerOK
<1> HIDE DEF f
<1>3. stack = <<f>> /\ Top = f
  <2>1. Len(<<f>>) = 1 /\ <<f>>[1] = f
    OBVIOUS
  <2> QED
    BY <1>1, <2>1 DEF Top, f
<1>4. /\ input \in Inputs /\ source \in Sources /\ layers \in Wrappings
      /\ pos = 0 /\ start = 0 /\ heap = 0 /\ calls = 1 /\ status = "running"
  BY DEF Init
<1>5. layers \in Seq(Layer) /\ \A i \in 1..Len(layers) : layers[i].val = 0
  BY <1>4, WrappingsAssumption
<1>6. \A i \in 1..Len(layers) : layers[i].bound \in Nat
  BY <1>5, LayerFields
<1>7. DepthIs(layers, 0) /\ MemCovers(layers, 0) /\ Counts(layers, 0, Exact)
  <2>1. AtMost(0, U64Max) = 0
    BY U64Assumption DEF AtMost
  <2> QED
    BY <1>5, <1>6, <2>1, UsizeAssumption DEF DepthIs, MemCovers, Counts
<1>8. TypeOK
  <2>1. stack \in Seq(Frame) /\ stack # <<>>
    BY <1>2, <1>3 DEF StackOK
  <2>2. Len(input) \in Nat /\ calls \in 1..MaxCalls
    BY <1>4, InputsAssumption, BoundsAssumption
  <2> QED
    BY <1>4, <1>5, <2>1, <2>2 DEF TypeOK
<1> QED
  BY <1>2, <1>3, <1>4, <1>7, <1>8 DEF IInv, Unwinding, Ended

\* Every step of decoding, and of its caller, keeps the books.
LEMMA NextInv ==
  IInv /\ [Next]_vars => IInv'
<1> SUFFICES ASSUME IInv, [Next]_vars PROVE IInv'
  OBVIOUS
<1>1. CASE UNCHANGED vars
  <2>1. /\ TypeOK' = TypeOK /\ Top' = Top /\ Exact' = Exact
    BY <1>1 DEF vars, TypeOK, Top, Exact
  <2> QED
    BY <1>1, <2>1 DEF vars, IInv
<1>2. CASE \E t \in TypeName :
              \/ DecodeFixed(t) \/ DecodePanics(t) \/ DecodeParts(t) \/ DecodeEnum(t)
              \/ DecodeBox(t) \/ DecodeWrapped(t)
              \/ DecodeVec(t) \/ DecodeBulk(t) \/ DecodeCollection(t)
  BY <1>2, DecodeFixedInv, DecodePanicsInv, DecodePartsInv, DecodeEnumInv, DecodeBoxInv,
     DecodeWrappedInv, DecodeVecInv, DecodeBulkInv, DecodeCollectionInv
<1>3. CASE ReserveChunk \/ ReadChunk \/ Return \/ Refuses \/ CallReturns \/ DecodeAllFails
           \/ Unwind \/ CallFails
  BY <1>3, ReserveChunkInv, ReadChunkInv, ReturnInv, RefusesInv, CallReturnsInv,
     DecodeAllFailsInv, UnwindInv, CallFailsInv, SMTT(30)
<1>4. CASE \E t \in Roots, keep \in BOOLEAN : NextCall(t, keep)
  BY <1>4, NextCallInv
<1> QED
  BY <1>1, <1>2, <1>3, <1>4 DEF Next

\* The inductive invariant is an invariant.
LEMMA Invariant ==
  Spec => []IInv
BY InitInv, NextInv, PTL DEF Spec

-----------------------------------------------------------------------------
(* What follows.                                                            *)

\* What the invariant says of the wrappers, on their domain.
LEMMA LayersOf ==
  ASSUME IInv
  PROVE  layers \in Seq(Layer) /\ DOMAIN layers = 1..Len(layers)
BY DEF IInv, TypeOK

\* Variables keep their types, in every call of decode on every type.
THEOREM DecoderTypeOK == Spec => []TypeOK
<1>1. IInv => TypeOK
  BY DEF IInv
<1> QED
  BY <1>1, Invariant, PTL

\* descend_ref and ascend_ref are balanced on every path of every type, and the
\* depth of DepthTrackingInput never underflows.
THEOREM DecoderDepthExact == Spec => []DepthExact
<1>1. IInv => DepthExact
  <2> SUFFICES ASSUME IInv PROVE DepthExact
    OBVIOUS
  <2>1. DOMAIN layers = 1..Len(layers)
    BY LayersOf
  <2>2. status \in {"running", "ok"} => DepthIs(layers, Top.level)
    BY DEF IInv
  <2>3. status \in Unwinding => DepthAbove(layers, Top.level)
    BY SMTT(30) DEF IInv
  <2> QED
    BY <2>1, <2>2, <2>3 DEF DepthExact, DepthIs, DepthAbove
<1> QED
  BY <1>1, Invariant, PTL

\* With decode_with_depth_limit no input and no type, not even one that contains
\* itself, nests more references than the limit.
THEOREM DecoderNestingBounded == Spec => []NestingBounded
<1>1. IInv => NestingBounded
  <2> SUFFICES ASSUME IInv PROVE NestingBounded
    OBVIOUS
  <2>1. layers \in Seq(Layer) /\ DOMAIN layers = 1..Len(layers) /\ StackOK(stack)
    BY LayersOf DEF IInv
  <2>2. \A i \in 1..Len(layers) : layers[i].bound \in Nat
    BY <2>1, LayerFields
  <2>3. Cardinality({j \in DOMAIN stack : stack[j].kind \in RefKinds}) = Top.level
    BY <2>1 DEF StackOK, Refs, Top
  <2>4. \A i \in 1..Len(layers) : layers[i].kind = "depth" => Top.level <= layers[i].bound
    <3>1. CASE status \in {"running", "ok"}
      BY <3>1 DEF IInv, DepthIs
    <3>2. CASE status \in Unwinding
      BY <3>2 DEF IInv, DepthAbove
    <3>3. CASE status \in Ended
      <4>1. Top.kind = "caller"
        BY <3>3 DEF IInv
      <4>2. Top.level = 0
        BY <2>1, <4>1, StackCaller DEF Top
      <4> QED
        BY <2>2, <4>2
    <3> QED
      BY <3>1, <3>2, <3>3, SMTT(30) DEF IInv, TypeOK
  <2> QED
    BY <2>1, <2>3, <2>4, SMTT(30) DEF NestingBounded
<1> QED
  BY <1>1, Invariant, PTL

\* A MemTrackingInput that hears on_before_alloc_mem accounts for, and limits,
\* all that decoding holds on the heap.
THEOREM DecoderMemAccounted == Spec => []MemAccounted
<1>1. IInv => MemAccounted
  <2> SUFFICES ASSUME IInv PROVE MemAccounted
    OBVIOUS
  <2>1. DOMAIN layers = 1..Len(layers) /\ MemCovers(layers, heap)
    BY LayersOf, SMTT(30) DEF IInv
  <2> QED
    BY <2>1 DEF MemAccounted, MemCovers
<1> QED
  BY <1>1, Invariant, PTL

\* decode_vec_chunked never reserves more than MAX_PREALLOCATION ahead of the
\* elements it has decoded, whatever length the input claims.
THEOREM DecoderPreallocBounded == Spec => []PreallocBounded
<1>1. IInv => PreallocBounded
  <2> SUFFICES ASSUME IInv PROVE PreallocBounded
    OBVIOUS
  <2>1. DOMAIN stack = 1..Len(stack) /\ \A i \in 1..Len(stack) : FrameOK(stack[i])
    BY DEF IInv, StackOK
  <2> QED
    BY <2>1 DEF PreallocBounded, FrameOK
<1> QED
  BY <1>1, Invariant, PTL

\* The counter of CountedInput is the number of bytes taken from a slice, and
\* never more than the number taken from a reader.
THEOREM DecoderCountedExact == Spec => []CountedExact
<1>1. IInv => CountedExact
  <2> SUFFICES ASSUME IInv PROVE CountedExact
    OBVIOUS
  <2>1. DOMAIN layers = 1..Len(layers) /\ Counts(layers, pos, Exact)
    BY LayersOf DEF IInv
  <2> QED
    BY <2>1 DEF CountedExact, Counts, Exact
<1> QED
  BY <1>1, Invariant, PTL

\* If the fields that follow the first of a transparent struct cannot fail, an
\* error or a panic anywhere in a value leaves nothing of it on the heap.
THEOREM DecoderNoLeak ==
  ASSUME InPlaceSafe
  PROVE  Spec => []NoLeak
<1>1. IInv => NoLeak
  <2> SUFFICES ASSUME IInv, status \in {"failed", "aborted"} PROVE heap = stack[1].own
    BY DEF NoLeak
  <2>1. StackOK(stack) /\ Top.kind = "caller" /\ Top.kids = 0 /\ heap = Held(Top)
    BY DEF IInv, Ended
  <2>2. Len(stack) = 1 /\ Top.base = 0 /\ Top.own \in Nat
    BY <2>1, StackCaller, TopFields DEF Top
  <2> QED
    BY <2>1, <2>2 DEF Held, Top
<1> QED
  BY <1>1, Invariant, PTL
=============================================================================
