------------------------------- MODULE Decoder --------------------------------
(***************************************************************************)
(* Decoding of a value of any type: the recursive calls of Decode::decode  *)
(* as a stack of frames, one per type that is being decoded, over an Input *)
(* with its wrappers.  One step is one call that reads, allocates, returns *)
(* or, once an error or a panic is on its way up, unwinds.                 *)
(*                                                                         *)
(* Types are described by data (Desc below), recursive ones included.      *)
(* Types of the same control flow share a kind:                            *)
(*   fixed        integers, floats, (), arrays of them: one read           *)
(*   tuple        tuples and derived structs                               *)
(*   transparent  derived #[repr(transparent)] structs                     *)
(*   enum         bool, OptionBool, Option, Result, derived enums          *)
(*   array        [T; N] of any other T                                    *)
(*   checked      a decoded value that is then validated: NonZero*,        *)
(*                String, Duration, Compact<CompactAs>                     *)
(*   box          Box, Rc, Arc                                             *)
(*   wrap         WrapperTypeDecode with the provided decode_wrapped       *)
(*   bulk         Vec, VecDeque of integers or floats                      *)
(*   vec          the same of any other T                                  *)
(*   list, btree  LinkedList; BTreeMap and BTreeSet                        *)
(***************************************************************************)
EXTENDS InputLayers, CompactInt, FiniteSets, Functions

CONSTANTS
  Types,       \* the description of every type, by name
  Roots,       \* the types a caller may decode
  Inputs,      \* the byte strings that may be decoded
  Sources,     \* kinds of input: "slice" is &[u8], "io" is IoReader
  Wrappings,   \* the stacks of wrappers a caller may put around the source
  MaxPrealloc, \* MAX_PREALLOCATION
  MaxCalls     \* bound on the decode calls made on one input

TypeName == DOMAIN Types
RefKinds == {"box", "wrap", "vec", "list", "btree"}
Kinds == {"fixed", "tuple", "transparent", "enum", "array", "checked", "bulk"} \cup RefKinds

Desc ==
  [kind : Kinds,
   size : Nat,            \* mem::size_of, for list the size of a node
   n : Nat,               \* bytes of a fixed type, items of an array
   fields : Seq(TypeName),  \* of a struct; the one item type of the others
   variants : Seq([tag : Byte, fields : Seq(TypeName)]),
   rejects : SUBSET Seq(Byte),  \* encodings a checked type refuses
   panics : BOOLEAN]      \* a user's decode, which may panic

ASSUME TypesAssumption == \A t \in TypeName : Types[t] \in Desc
ASSUME ItemAssumption ==
  \A t \in TypeName : Types[t].kind \notin {"fixed", "tuple", "transparent", "enum"} =>
    Len(Types[t].fields) = 1
ASSUME RootsAssumption == Roots \subseteq TypeName
ASSUME InputsAssumption == Inputs \subseteq Seq(Byte)
\* DepthTrackingInput is private to decode_with_depth_limit: always outermost.
ASSUME WrappingsAssumption ==
  \A ls \in Wrappings :
    /\ ls \in Seq(Layer)
    /\ \A i \in DOMAIN ls : ls[i].val = 0 /\ (ls[i].kind = "depth" => i = 1)
ASSUME BoundsAssumption == MaxPrealloc \in Nat \ {0} /\ MaxCalls \in Nat \ {0}

SizeOf(t) == Types[t].size
Item(t) == Types[t].fields[1]

\* Trees are of single bytes, so that sorting their items is sorting bytes.
ASSUME TreeAssumption ==
  \A t \in TypeName : Types[t].kind = "btree" =>
    Types[Item(t)].kind = "fixed" /\ Types[Item(t)].n = 1

\* The const assertion of decode_vec_chunked, and array sizes that fit usize.
ASSUME SizeAssumption ==
  /\ MaxPrealloc <= UsizeMax
  /\ \A t \in TypeName :
       Types[t].kind \in {"vec", "bulk"} => SizeOf(Item(t)) <= MaxPrealloc

VARIABLES
  input, source,  \* the bytes to decode and where they come from
  pos,            \* bytes taken from the source
  start,          \* pos when the current call began
  layers,         \* the wrappers, outermost first
  stack,          \* frames, the caller's at the bottom
  built,          \* per frame, the encoding of what it has decoded so far
  heap,           \* bytes on the heap that decoding allocated and did not free
  status,         \* "running", unwinding "error" or "panic", or how it ended
  calls           \* decode calls made so far

vars == <<input, source, pos, start, layers, stack, built, heap, status, calls>>

Frame ==
  [kind : Kinds \cup {"caller"},
   ty : TypeName,
   fields : Seq(TypeName),
   len : Nat,     \* children to decode
   count : Nat,   \* children decoded
   cap : Nat,     \* vec, bulk: children there is memory for
   own : Nat,     \* heap bytes of this value itself
   kids : Nat,    \* heap bytes of the children decoded so far
   base : Nat,    \* heap bytes held by the frames below
   level : Nat]   \* references entered and not left, this one included

Top == stack[Len(stack)]
Avail == Len(input) - pos
Rest == SubSeq(input, pos + 1, Len(input))
SetTop(f) == [stack EXCEPT ![Len(stack)] = f]

CallerFrame(t, held) ==
  [kind |-> "caller", ty |-> t, fields |-> <<t>>, len |-> 1, count |-> 0, cap |-> 0,
   own |-> held, kids |-> 0, base |-> 0, level |-> 0]

NewFrame(t, fields, len, own, up) ==
  [kind |-> Types[t].kind, ty |-> t, fields |-> fields, len |-> len, count |-> 0, cap |-> 0,
   own |-> own, kids |-> 0, base |-> Top.base + Top.own + Top.kids, level |-> Top.level + up]

Init ==
  /\ input \in Inputs
  /\ source \in Sources
  /\ layers \in Wrappings
  /\ \E t \in Roots : stack = <<CallerFrame(t, 0)>>
  /\ built = <<<<>>>>
  /\ pos = 0 /\ start = 0 /\ heap = 0 /\ calls = 1
  /\ status = "running"

-----------------------------------------------------------------------------
(* What steps are made of.                                                  *)

\* Unchanged while one call runs.
call == <<input, source, start, calls>>

Kid(f) == IF f.kind \in {"tuple", "transparent", "enum"} THEN f.fields[f.count + 1]
          ELSE f.fields[1]

\* The innermost frame is about to decode a child of type t and kind k.
Wants(t, k) ==
  /\ status = "running"
  /\ Top.kind # "bulk"
  /\ Top.count < (IF Top.kind = "vec" THEN Top.cap ELSE Top.len)
  /\ t = Kid(Top)
  /\ Types[t].kind = k

\* A child that holds mem bytes has been decoded.
Deliver(f, mem) == [f EXCEPT !.count = @ + 1, !.kids = @ + mem]

\* Enter the frame f, whose value's encoding begins with prefix.
Push(f, prefix, mem) ==
  /\ stack' = Append(stack, f)
  /\ built' = Append(built, prefix)
  /\ heap' = heap + mem
  /\ UNCHANGED <<status, call>>

\* An error is returned with ?.
Raise ==
  /\ status' = "error"
  /\ UNCHANGED <<stack, built, heap, call>>

\* Where a read that finds too few bytes leaves the source: a slice keeps
\* them, read_exact may have taken any part of them.
StopsAt(p) == IF source = "slice" THEN {p} ELSE p..Len(input)

-----------------------------------------------------------------------------
(* Decode::decode of the child, by kind.                                    *)

DecodeFixed(t) ==
  /\ Wants(t, "fixed")
  /\ \/ /\ Types[t].n <= Avail
        /\ pos' = pos + Types[t].n
        /\ layers' = CountRead(layers, Types[t].n)
        /\ stack' = SetTop(Deliver(Top, 0))
        /\ built' = [built EXCEPT ![Len(stack)] = @ \o SubSeq(input, pos + 1, pos + Types[t].n)]
        /\ UNCHANGED <<heap, status, call>>
     \/ /\ Types[t].n > Avail
        /\ pos' \in StopsAt(pos)
        /\ UNCHANGED layers
        /\ Raise

\* A user's implementation of decode panics.
DecodePanics(t) ==
  /\ Wants(t, "fixed")
  /\ Types[t].panics
  /\ status' = "panic"
  /\ UNCHANGED <<pos, layers, stack, built, heap, call>>

\* Types that call decode on their parts and nothing before that.
DecodeParts(t) ==
  /\ \E k \in {"tuple", "transparent", "checked", "array"} : Wants(t, k)
  /\ LET len == IF Types[t].kind = "array" THEN Types[t].n ELSE Len(Types[t].fields)
     IN Push(NewFrame(t, Types[t].fields, len, 0, 0), <<>>, 0)
  /\ UNCHANGED <<pos, layers>>

\* read_byte, then the first variant with that index.
DecodeEnum(t) ==
  /\ Wants(t, "enum")
  /\ LET vs == Types[t].variants
         first(b) == {i \in DOMAIN vs : vs[i].tag = b /\ \A j \in 1..(i-1) : vs[j].tag # b}
     IN \/ /\ Avail > 0
           /\ pos' = pos + 1
           /\ layers' = CountRead(layers, 1)
           /\ \/ \E i \in first(input[pos + 1]) :
                   Push(NewFrame(t, vs[i].fields, Len(vs[i].fields), 0, 0), <<vs[i].tag>>, 0)
              \/ first(input[pos + 1]) = {} /\ Raise
        \/ /\ Avail = 0
           /\ UNCHANGED <<pos, layers>>
           /\ Raise

\* Box::decode_wrapped up to T::decode_into: descend, announce, allocate.
DecodeBox(t) ==
  /\ Wants(t, "box")
  /\ LET inside == DescendRef(layers)
         size == SizeOf(Item(t))
     IN \/ /\ DescendOk(layers) /\ AllocOk(inside, size)
           /\ layers' = OnBeforeAllocMem(inside, size)
           /\ Push(NewFrame(t, Types[t].fields, 1, size, 1), <<>>, size)
        \/ /\ DescendOk(layers) /\ ~AllocOk(inside, size)
           /\ layers' = OnBeforeAllocMem(inside, size)
           /\ Raise
        \/ /\ ~DescendOk(layers)
           /\ layers' = inside
           /\ Raise
  /\ UNCHANGED pos

\* WrapperTypeDecode::decode_wrapped as the trait provides it.
DecodeWrapped(t) ==
  /\ Wants(t, "wrap")
  /\ layers' = DescendRef(layers)
  /\ \/ DescendOk(layers) /\ Push(NewFrame(t, Types[t].fields, 1, 0, 1), <<>>, 0)
     \/ ~DescendOk(layers) /\ Raise
  /\ UNCHANGED pos

\* The length of a collection cannot be read.
LenFails(got) ==
  /\ ~got.ok
  /\ layers' = CountRead(layers, got.used)
  /\ IF got.short THEN pos' \in StopsAt(pos + got.used) ELSE pos' = pos + got.used
  /\ Raise

\* Vec::decode, decode_vec_with_len, decode_vec_from_items up to its loop.
DecodeVec(t) ==
  /\ Wants(t, "vec")
  /\ \E got \in {DecodeFrom(4, Rest)} :
     LET read == CountRead(layers, got.used)
         len == U32ToNat(got.val)
     IN \/ LenFails(got)
        \/ /\ got.ok
           /\ pos' = pos + got.used
           /\ layers' = DescendRef(read)
           /\ \/ DescendOk(read) /\ Push(NewFrame(t, Types[t].fields, len, 0, 1), EncodeTo(got.val), 0)
              \/ ~DescendOk(read) /\ Raise

\* The same for integers and floats, read_vec_from_u8s up to its loop.  Only a
\* slice knows its remaining length.
DecodeBulk(t) ==
  /\ Wants(t, "bulk")
  /\ \E got \in {DecodeFrom(4, Rest)} :
     LET len == U32ToNat(got.val)
         bytes == len * SizeOf(Item(t))
         refused == bytes > UsizeMax \/ (source = "slice" /\ Avail - got.used < bytes)
     IN \/ LenFails(got)
        \/ /\ got.ok
           /\ pos' = pos + got.used
           /\ layers' = CountRead(layers, got.used)
           /\ \/ ~refused /\ Push(NewFrame(t, Types[t].fields, len, 0, 0), EncodeTo(got.val), 0)
              \/ refused /\ Raise

\* size_of::<(usize, u16, u16, [T; 11])>() and 12 pointers more in an inner
\* node; one node for every 10 elements.
MemSizeOfBtree(len, size) ==
  LET leaf == ((12 + 11 * size + 7) \div 8) * 8
      nodes == len \div 10
  IN IF len = 0 THEN 0
     ELSE IF nodes = 0 THEN leaf
     ELSE AtMost(nodes * (leaf + 96), UsizeMax)

\* BTreeMap, BTreeSet and LinkedList announce all their memory at once.  List
\* nodes count as held from here on; the nodes of a tree are std's and are
\* not in the ledger.
DecodeCollection(t) ==
  /\ \E k \in {"list", "btree"} : Wants(t, k)
  /\ \E got \in {DecodeFrom(4, Rest)} :
     LET read == CountRead(layers, got.used)
         inside == DescendRef(read)
         len == U32ToNat(got.val)
         isList == Types[t].kind = "list"
         mem == IF isList THEN AtMost(len * SizeOf(t), UsizeMax)
                ELSE MemSizeOfBtree(len, SizeOf(Item(t)))
         own == IF isList THEN mem ELSE 0
     IN \/ LenFails(got)
        \/ /\ got.ok
           /\ pos' = pos + got.used
           /\ \/ /\ DescendOk(read) /\ AllocOk(inside, mem)
                 /\ layers' = OnBeforeAllocMem(inside, mem)
                 /\ Push(NewFrame(t, Types[t].fields, len, own, 1),
                         IF isList THEN EncodeTo(got.val) ELSE <<>>, own)
              \/ /\ DescendOk(read) /\ ~AllocOk(inside, mem)
                 /\ layers' = OnBeforeAllocMem(inside, mem)
                 /\ Raise
              \/ /\ ~DescendOk(read)
                 /\ layers' = inside
                 /\ Raise

-----------------------------------------------------------------------------
(* The loop of decode_vec_chunked.                                          *)

\* Mutants of ChunkLen: no bound; zero-sized items make empty chunks.
ChunkLenUnbounded(size) == UsizeMax
ChunkLenZero(size) == IF size = 0 THEN 0 ELSE MaxPrealloc \div size

ChunkLen(size) == IF size = 0 THEN UsizeMax ELSE MaxPrealloc \div size

\* Memory for the next chunk: on_before_alloc_mem and reserve_exact.
ReserveChunk ==
  /\ status = "running"
  /\ Top.kind \in {"vec", "bulk"}
  /\ Top.count = Top.cap /\ Top.cap < Top.len
  /\ LET size == SizeOf(Item(Top.ty))
         chunk == AtMost(ChunkLen(size), Top.len - Top.count)
         mem == AtMost(chunk * size, UsizeMax)
     IN /\ layers' = OnBeforeAllocMem(layers, mem)
        /\ \/ /\ AllocOk(layers, mem)
              /\ stack' = SetTop([Top EXCEPT !.cap = @ + chunk, !.own = @ + mem])
              /\ heap' = heap + mem
              /\ UNCHANGED <<built, status, call>>
           \/ ~AllocOk(layers, mem) /\ Raise
  /\ UNCHANGED pos

\* read_vec_from_u8s reads the chunk in one go.
ReadChunk ==
  /\ status = "running"
  /\ Top.kind = "bulk"
  /\ Top.count < Top.cap
  /\ LET n == (Top.cap - Top.count) * SizeOf(Item(Top.ty))
     IN \/ /\ n <= Avail
           /\ pos' = pos + n
           /\ layers' = CountRead(layers, n)
           /\ stack' = SetTop([Top EXCEPT !.count = Top.cap])
           /\ built' = [built EXCEPT ![Len(stack)] = @ \o SubSeq(input, pos + 1, pos + n)]
           /\ UNCHANGED <<heap, status, call>>
        \/ /\ n > Avail
           /\ pos' \in StopsAt(pos)
           /\ UNCHANGED layers
           /\ Raise

-----------------------------------------------------------------------------
(* Returning.                                                               *)

Ascending(S) ==
  CHOOSE s \in [1..Cardinality(S) -> S] : \A i, j \in DOMAIN s : i < j => s[i] < s[j]

\* The encoding of the finished value; a tree sorts and drops duplicates.
Encoding ==
  LET b == built[Len(built)]
  IN IF Top.kind = "btree"
     THEN EncodeLen(Cardinality(Range(b))) \o Ascending(Range(b))
     ELSE b

Complete == status = "running" /\ Top.kind # "caller" /\ Top.count = Top.len

\* Mutant of Refused: no validation.
RefusedNever == FALSE

Refused == Top.kind = "checked" /\ Encoding \in Types[Top.ty].rejects

\* Mutants of Leaves: Vec<u8> ascends without having descended; Box forgets to.
LeavesBulk(kind) == kind \in RefKinds \cup {"bulk"}
LeavesNotBox(kind) == kind \in RefKinds \ {"box"}

\* The types that call ascend_ref before they return a value.
Leaves(kind) == kind \in RefKinds

\* Ok(value): the references a type entered are left, the parent owns the value.
Return ==
  /\ Complete /\ ~Refused
  /\ LET up == Len(stack) - 1
     IN /\ stack' = [SubSeq(stack, 1, up) EXCEPT ![up] = Deliver(@, Top.own + Top.kids)]
        /\ built' = [SubSeq(built, 1, up) EXCEPT ![up] = @ \o Encoding]
  /\ layers' = IF Leaves(Top.kind) THEN AscendRef(layers) ELSE layers
  /\ UNCHANGED <<pos, heap, status, call>>

\* The decoded number, string or duration is not a valid one.
Refuses ==
  /\ Complete /\ Refused
  /\ UNCHANGED <<pos, layers>>
  /\ Raise

\* decode returns to its caller.
CallReturns ==
  /\ status = "running" /\ Top.kind = "caller" /\ Top.count = 1
  /\ status' = "ok"
  /\ UNCHANGED <<pos, layers, stack, built, heap, call>>

\* decode_all and decode_all_with_depth_limit, on a slice with data left.
DecodeAllFails ==
  /\ status = "running" /\ Top.kind = "caller" /\ Top.count = 1
  /\ source = "slice" /\ Len(layers) <= 1
  /\ \A i \in DOMAIN layers : layers[i].kind = "depth"
  /\ Avail > 0
  /\ status' = "failed"
  /\ stack' = SetTop([Top EXCEPT !.kids = 0])
  /\ heap' = heap - Top.kids
  /\ UNCHANGED <<pos, layers, built, call>>

-----------------------------------------------------------------------------
(* Unwinding.                                                               *)

\* Box and arrays call decode_into, and a transparent struct passes it on to
\* its fields, which it then decodes in place one after the other: nothing
\* drops the fields that are there when a later one fails.
InPlace ==
  \E i \in 1..(Len(stack) - 1) :
    /\ stack[i].kind \in {"box", "array"}
    /\ \A j \in (i + 1)..Len(stack) : stack[j].kind = "transparent"

\* Mutant of Freed: the parts that were decoded are not dropped.
FreedShallow == Top.own

\* What the destructors of a frame free.  The guard of an array drops the
\* elements that were decoded; a Box<MaybeUninit<T>> frees its memory only.
Freed == Top.own + (IF InPlace THEN 0 ELSE Top.kids)

\* The error passes through a frame.  BTreeMap, BTreeSet and LinkedList call
\* ascend_ref also then, all others return before it; a panic never does.
Unwind ==
  /\ status \in {"error", "panic"}
  /\ Top.kind # "caller"
  /\ stack' = SubSeq(stack, 1, Len(stack) - 1)
  /\ built' = SubSeq(built, 1, Len(stack) - 1)
  /\ heap' = heap - Freed
  /\ layers' = IF status = "error" /\ Top.kind \in {"list", "btree"}
               THEN AscendRef(layers) ELSE layers
  /\ UNCHANGED <<pos, status, call>>

\* The caller sees the error, or the panic.
CallFails ==
  /\ status \in {"error", "panic"}
  /\ Top.kind = "caller"
  /\ status' = IF status = "error" THEN "failed" ELSE "aborted"
  /\ UNCHANGED <<pos, layers, stack, built, heap, call>>

\* Mutants of Renewed: a tracker, or a counter, is made anew as well.
RenewedMem(l) == IF l.kind # "counted" THEN NewLayer(l.kind, l.bound) ELSE l
RenewedCounter(l) == IF l.kind # "mem" THEN NewLayer(l.kind, l.bound) ELSE l

\* decode_with_depth_limit makes its wrapper anew; the other two are kept.
Renewed(l) == IF l.kind = "depth" THEN NewLayer("depth", l.bound) ELSE l

\* The caller keeps or drops what it has and decodes again from the same input.
NextCall(t, keep) ==
  /\ status \in {"ok", "failed"}
  /\ calls < MaxCalls
  /\ calls' = calls + 1
  /\ start' = pos
  /\ LET held == Top.own + Top.kids
     IN /\ stack' = <<CallerFrame(t, IF keep THEN held ELSE 0)>>
        /\ heap' = IF keep THEN heap ELSE heap - held
  /\ built' = <<<<>>>>
  /\ layers' = [i \in DOMAIN layers |-> Renewed(layers[i])]
  /\ status' = "running"
  /\ UNCHANGED <<input, source, pos>>

Next ==
  \/ \E t \in TypeName :
       \/ DecodeFixed(t) \/ DecodePanics(t) \/ DecodeParts(t) \/ DecodeEnum(t)
       \/ DecodeBox(t) \/ DecodeWrapped(t)
       \/ DecodeVec(t) \/ DecodeBulk(t) \/ DecodeCollection(t)
  \/ ReserveChunk \/ ReadChunk
  \/ Return \/ Refuses \/ CallReturns \/ DecodeAllFails
  \/ Unwind \/ CallFails
  \/ \E t \in Roots, keep \in BOOLEAN : NextCall(t, keep)

Spec == Init /\ [][Next]_vars

\* Decoding is ordinary sequential code: it goes on as long as it can.
FairSpec == Spec /\ WF_vars(Next)

-----------------------------------------------------------------------------
(* Properties.                                                              *)

Ended == {"ok", "failed", "aborted"}
Unwinding == {"error", "panic"}

\* All values are of their types: no unsigned counter goes below zero, in
\* particular not the depth that ascend_ref decrements, and no read passes
\* the end of the input.
TypeOK ==
  /\ input \in Inputs /\ source \in Sources
  /\ start \in 0..pos /\ pos \in 0..Len(input)
  /\ layers \in Seq(Layer)
  /\ stack \in Seq(Frame) /\ stack # <<>>
  /\ heap \in Nat
  /\ status \in {"running"} \cup Unwinding \cup Ended
  /\ calls \in 1..MaxCalls

\* The depth that DepthTrackingInput counts is the number of references that
\* are open: on every path of every type each descend_ref is matched by one
\* ascend_ref before the value is returned.  While an error unwinds, it may be
\* too high, never too low, so the subtraction in ascend_ref cannot underflow.
DepthExact ==
  \A i \in DOMAIN layers : layers[i].kind = "depth" =>
    /\ status = "running" => layers[i].val = Top.level
    /\ status \in Unwinding => layers[i].val >= Top.level
    /\ status \in {"running", "ok"} => layers[i].val <= layers[i].bound

\* With a depth limit, no input and no type, not even one that contains itself
\* and takes no bytes, nests more references than the limit.
NestingBounded ==
  \A i \in DOMAIN layers : layers[i].kind = "depth" =>
    Cardinality({j \in DOMAIN stack : stack[j].kind \in RefKinds}) <= layers[i].bound

\* What decoding holds on the heap was all announced to a MemTrackingInput that
\* hears the hook, and stays under its limit, also over several calls and when
\* the values of earlier calls are kept.
MemAccounted ==
  \A i \in DOMAIN layers : layers[i].kind = "mem" /\ Hears(layers, i) =>
    heap <= layers[i].val /\ (heap > 0 => heap < layers[i].bound)

\* MemTrackingInput "can be used for limiting the heap memory usage while
\* decoding": every such wrapper limits it, wherever it is in the stack.
MemLimitHolds ==
  \A i \in DOMAIN layers : layers[i].kind = "mem" /\ heap > 0 => heap < layers[i].bound

\* However large the length that an input claims for a vector, memory is never
\* more than MAX_PREALLOCATION ahead of the elements that were decoded.
PreallocBounded ==
  \A i \in DOMAIN stack : stack[i].kind \in {"vec", "bulk"} =>
    (stack[i].cap - stack[i].count) * SizeOf(Item(stack[i].ty)) <= MaxPrealloc

\* After an error or a panic in the middle of a value nothing that was already
\* decoded stays allocated: the guard of partly decoded arrays, boxes and
\* collections drops every part.
NoLeak ==
  status \in {"failed", "aborted"} => heap = stack[1].own

\* Types of which a tree may be a part.
Uses(t) == Range(Types[t].fields) \cup UNION {Range(v.fields) : v \in Range(Types[t].variants)}
TreeWithin[n \in Nat] ==
  IF n = 0 THEN {t \in TypeName : Types[t].kind = "btree"}
  ELSE LET nearer == TreeWithin[n - 1]
       IN nearer \cup {t \in TypeName : Uses(t) \cap nearer # {}}
Ordered == TypeName \ TreeWithin[Cardinality(TypeName)]

\* A value that decode returns encodes to exactly the bytes that were taken
\* from the input: every encoding is canonical, and nothing is skipped or read
\* twice.  (Trees forget order and duplicates.)
RoundTrip ==
  status = "ok" /\ stack[1].ty \in Ordered => built[1] = SubSeq(input, start + 1, pos)

\* CountedInput has counted all the bytes that calls took from the source up to
\* now, unless a read failed and took bytes it did not deliver.
CountedExact ==
  \A i \in DOMAIN layers : layers[i].kind = "counted" =>
    /\ layers[i].val <= AtMost(pos, U64Max)
    /\ source = "slice" => layers[i].val = AtMost(pos, U64Max)

\* Every call of decode ends, with a value, an error or a panic.
Termination == [](status \notin Ended => <>(status \in Ended))
=============================================================================
