-------------------------- MODULE InputLayersProofs ---------------------------
(***************************************************************************)
(* What the hooks do to a stack of wrappers, layer by layer.               *)
(***************************************************************************)
EXTENDS InputLayers, TLAPS

\* The same wrappers with the same limits.
SameShape(ls, ms) ==
  /\ ms \in Seq(Layer) /\ Len(ms) = Len(ls)
  /\ \A i \in 1..Len(ls) : ms[i].kind = ls[i].kind /\ ms[i].bound = ls[i].bound

\* What a wrapper holds.
LEMMA LayerFields ==
  ASSUME NEW l \in Layer
  PROVE  /\ l.kind \in {"depth", "mem", "counted"} /\ l.val \in Nat /\ l.bound \in Nat
         /\ l.kind = "mem" => l.bound <= UsizeMax
BY UsizeAssumption, U64Assumption DEF Layer

\* Changing depth, used_mem or the counter keeps the wrapper and its limit.
LEMMA LayerUpdate ==
  ASSUME NEW l \in Layer, NEW v \in Nat
  PROVE  /\ [l EXCEPT !.val = v] \in Layer
         /\ [l EXCEPT !.val = v].kind = l.kind
         /\ [l EXCEPT !.val = v].bound = l.bound
         /\ [l EXCEPT !.val = v].val = v
BY DEF Layer

\* A stack of wrappers in which every layer keeps its kind and limit.
LEMMA ShapeOf ==
  ASSUME NEW ls \in Seq(Layer), NEW ms, ms \in [1..Len(ls) -> Layer],
         \A i \in 1..Len(ls) : ms[i].kind = ls[i].kind /\ ms[i].bound = ls[i].bound
  PROVE  SameShape(ls, ms)
<1>1. ms \in Seq(Layer) /\ Len(ms) = Len(ls)
  OBVIOUS
<1> QED
  BY <1>1 DEF SameShape

\* A wrapper that is not touched.
LEMMA LayerSame ==
  ASSUME NEW l \in Layer
  PROVE  l = [l EXCEPT !.val = l.val] /\ l.val \in Nat
BY DEF Layer

\* Who hears of an allocation depends on the kinds of the layers only.
LEMMA HearsSame ==
  ASSUME NEW ls \in Seq(Layer), NEW ms, SameShape(ls, ms), NEW i \in 1..Len(ls)
  PROVE  Hears(ms, i) <=> Hears(ls, i)
<1>1. DOMAIN ls = 1..Len(ls) /\ DOMAIN ms = 1..Len(ls)
  BY DEF SameShape
<1> QED
  BY <1>1 DEF SameShape, Hears

\* descend_ref: an accepted one raises every depth by one and keeps it within
\* its limit, a refused one may raise some; nothing else changes.
LEMMA DescendEffect ==
  ASSUME NEW ls \in Seq(Layer)
  PROVE  /\ SameShape(ls, DescendRef(ls))
         /\ \A i \in 1..Len(ls) :
              /\ ls[i].kind # "depth" => DescendRef(ls)[i] = ls[i]
              /\ ls[i].kind = "depth" => DescendRef(ls)[i].val \in {ls[i].val, ls[i].val + 1}
              /\ ls[i].kind = "depth" /\ DescendOk(ls) =>
                   DescendRef(ls)[i].val = ls[i].val + 1 /\ ls[i].val + 1 <= ls[i].bound
<1> DEFINE ms == DescendRef(ls)
           deeper(i) == ls[i].kind = "depth" /\ \A j \in DOMAIN ls : j > i => ~TooDeep(ls[j])
<1>1. DOMAIN ls = 1..Len(ls)
  BY DEF DescendRef
<1>2. \A i \in 1..Len(ls) : ms[i] = IF deeper(i) THEN [ls[i] EXCEPT !.val = ls[i].val + 1] ELSE ls[i]
  BY <1>1 DEF DescendRef
<1>3. \A i \in 1..Len(ls) : ls[i] \in Layer /\ ls[i].val \in Nat /\ ls[i].bound \in Nat
  BY LayerFields
<1>4. DescendOk(ls) => \A i \in 1..Len(ls) : ls[i].kind = "depth" =>
        deeper(i) /\ ls[i].val + 1 <= ls[i].bound
  BY <1>1, <1>3 DEF DescendOk, TooDeep
<1> HIDE DEF ms, deeper
<1>5. \A i \in 1..Len(ls) :
        /\ ms[i] \in Layer /\ ms[i].kind = ls[i].kind /\ ms[i].bound = ls[i].bound
        /\ ~deeper(i) => ms[i] = ls[i]
        /\ deeper(i) => ms[i].val = ls[i].val + 1
  <2>1. TAKE i \in 1..Len(ls)
  <2>2. CASE deeper(i)
    <3>1. ls[i].val + 1 \in Nat /\ ms[i] = [ls[i] EXCEPT !.val = ls[i].val + 1]
      BY <1>2, <1>3, <2>2
    <3>2. /\ [ls[i] EXCEPT !.val = ls[i].val + 1] \in Layer
          /\ [ls[i] EXCEPT !.val = ls[i].val + 1].kind = ls[i].kind
          /\ [ls[i] EXCEPT !.val = ls[i].val + 1].bound = ls[i].bound
          /\ [ls[i] EXCEPT !.val = ls[i].val + 1].val = ls[i].val + 1
      BY <1>3, <3>1, LayerUpdate, Zenon
    <3> QED
      BY <2>2, <3>1, <3>2, Zenon
  <2>3. CASE ~deeper(i)
    <3>1. ms[i] = ls[i]
      BY <1>2, <2>3, Zenon
    <3> QED
      BY <1>3, <2>3, <3>1, LayerSame
  <2> QED
    BY <2>2, <2>3
<1>6. SameShape(ls, ms)
  <2>1. ms \in [1..Len(ls) -> Layer]
    BY <1>1, <1>5, SMTT(30) DEF ms, DescendRef
  <2> QED
    BY <1>5, <2>1, ShapeOf
<1>7. \A i \in 1..Len(ls) : ls[i].kind # "depth" => ~deeper(i)
  BY DEF deeper
<1>8. \A i \in 1..Len(ls) : ls[i].kind = "depth" => ms[i].val \in {ls[i].val, ls[i].val + 1}
  BY <1>5, Zenon
<1>9. \A i \in 1..Len(ls) : ls[i].kind = "depth" /\ DescendOk(ls) =>
        ms[i].val = ls[i].val + 1 /\ ls[i].val + 1 <= ls[i].bound
  BY <1>4, <1>5, Zenon
<1> QED
  BY <1>5, <1>6, <1>7, <1>8, <1>9, Zenon DEF ms

\* ascend_ref lowers every depth by one, if that is possible.
LEMMA AscendEffect ==
  ASSUME NEW ls \in Seq(Layer), \A i \in 1..Len(ls) : ls[i].kind = "depth" => ls[i].val > 0
  PROVE  /\ SameShape(ls, AscendRef(ls))
         /\ \A i \in 1..Len(ls) :
              /\ ls[i].kind # "depth" => AscendRef(ls)[i] = ls[i]
              /\ ls[i].kind = "depth" => AscendRef(ls)[i].val = ls[i].val - 1
<1> DEFINE ms == AscendRef(ls)
<1>1. DOMAIN ls = 1..Len(ls)
  BY DEF AscendRef
<1>2. \A i \in 1..Len(ls) :
        ms[i] = IF ls[i].kind = "depth" THEN [ls[i] EXCEPT !.val = ls[i].val - 1] ELSE ls[i]
  BY <1>1 DEF AscendRef
<1>3. \A i \in 1..Len(ls) : ls[i] \in Layer /\ ls[i].val \in Nat
  BY LayerFields
<1> HIDE DEF ms
<1>4. \A i \in 1..Len(ls) :
        /\ ms[i] \in Layer /\ ms[i].kind = ls[i].kind /\ ms[i].bound = ls[i].bound
        /\ ls[i].kind # "depth" => ms[i] = ls[i]
        /\ ls[i].kind = "depth" => ms[i].val = ls[i].val - 1
  <2>1. TAKE i \in 1..Len(ls)
  <2>2. CASE ls[i].kind = "depth"
    <3>0. ls[i].val - 1 \in Nat
      BY <1>3, <2>2
    <3>1. ls[i].val - 1 \in Nat /\ ms[i] = [ls[i] EXCEPT !.val = ls[i].val - 1]
      BY <1>2, <2>2, <3>0, Zenon
    <3>2. /\ [ls[i] EXCEPT !.val = ls[i].val - 1] \in Layer
          /\ [ls[i] EXCEPT !.val = ls[i].val - 1].kind = ls[i].kind
          /\ [ls[i] EXCEPT !.val = ls[i].val - 1].bound = ls[i].bound
          /\ [ls[i] EXCEPT !.val = ls[i].val - 1].val = ls[i].val - 1
      BY <1>3, <3>1, LayerUpdate, Zenon
    <3> QED
      BY <2>2, <3>1, <3>2, Zenon
  <2>3. CASE ls[i].kind # "depth"
    <3>1. ms[i] = ls[i]
      BY <1>2, <2>3, Zenon
    <3> QED
      BY <1>3, <2>3, <3>1, LayerSame
  <2> QED
    BY <2>2, <2>3
<1>5. SameShape(ls, ms)
  <2>1. ms \in [1..Len(ls) -> Layer]
    BY <1>1, <1>4 DEF ms, AscendRef
  <2> QED
    BY <1>4, <2>1, ShapeOf
<1> QED
  BY <1>4, <1>5 DEF ms

\* A read that succeeded changes the counters only.
LEMMA CountEffect ==
  ASSUME NEW ls \in Seq(Layer), NEW n \in Nat
  PROVE  /\ SameShape(ls, CountRead(ls, n))
         /\ \A i \in 1..Len(ls) :
              /\ ls[i].kind # "counted" => CountRead(ls, n)[i] = ls[i]
              /\ ls[i].kind = "counted" => CountRead(ls, n)[i].val = AtMost(ls[i].val + n, U64Max)
<1> DEFINE ms == CountRead(ls, n)
<1>1. DOMAIN ls = 1..Len(ls)
  BY DEF CountRead
<1>2. \A i \in 1..Len(ls) :
        ms[i] = IF ls[i].kind = "counted"
                THEN [ls[i] EXCEPT !.val = AtMost(ls[i].val + n, U64Max)] ELSE ls[i]
  BY <1>1 DEF CountRead
<1>3. \A i \in 1..Len(ls) : ls[i] \in Layer /\ AtMost(ls[i].val + n, U64Max) \in Nat
  BY LayerFields, U64Assumption DEF AtMost
<1> HIDE DEF ms
<1>4. \A i \in 1..Len(ls) : 
        /\ ms[i] \in Layer /\ ms[i].kind = ls[i].kind /\ ms[i].bound = ls[i].bound
        /\ ls[i].kind = "counted" => ms[i].val = AtMost(ls[i].val + n, U64Max)
  <2>1. TAKE i \in 1..Len(ls)
  <2> DEFINE u == [ls[i] EXCEPT !.val = AtMost(ls[i].val + n, U64Max)]
  <2>2. /\ u \in Layer /\ u.kind = ls[i].kind /\ u.bound = ls[i].bound
        /\ u.val = AtMost(ls[i].val + n, U64Max)
    BY <1>3, LayerUpdate, Zenon
  <2>3. IF ls[i].kind = "counted" THEN ms[i] = u ELSE ms[i] = ls[i]
    BY <1>2, Zenon
  <2> HIDE DEF u
  <2> QED
    BY <1>3, <2>2, <2>3, Zenon
<1>5. SameShape(ls, ms)
  <2>1. ms \in [1..Len(ls) -> Layer]
    BY <1>1, <1>4 DEF ms, CountRead
  <2> QED
    BY <1>4, <2>1, ShapeOf
<1> QED
  BY <1>2, <1>4, <1>5, Zenon DEF ms

\* on_before_alloc_mem: an accepted one is charged in full to every tracker
\* that hears it, and leaves all of them below their limits; a refused one may
\* be charged to some.
LEMMA AllocEffect ==
  ASSUME NEW ls \in Seq(Layer), NEW size \in Nat
  PROVE  /\ SameShape(ls, OnBeforeAllocMem(ls, size))
         /\ \A i \in 1..Len(ls) :
              /\ ls[i].kind # "mem" => OnBeforeAllocMem(ls, size)[i] = ls[i]
              /\ OnBeforeAllocMem(ls, size)[i].val \in {ls[i].val, Charged(ls[i], size)}
              /\ ls[i].kind = "mem" /\ Hears(ls, i) /\ AllocOk(ls, size) =>
                   /\ OnBeforeAllocMem(ls, size)[i].val = ls[i].val + size
                   /\ ls[i].val + size < ls[i].bound
<1> DEFINE ms == OnBeforeAllocMem(ls, size)
           pays(i) == /\ Hears(ls, i) /\ ls[i].kind = "mem"
                      /\ \A j \in DOMAIN ls : j > i => ~OutOfMemory(ls, j, size)
           u(i) == [ls[i] EXCEPT !.val = Charged(ls[i], size)]
<1>1. DOMAIN ls = 1..Len(ls)
  OBVIOUS
<1>2. \A i \in 1..Len(ls) : ms[i] = IF pays(i) THEN u(i) ELSE ls[i]
  BY <1>1 DEF OnBeforeAllocMem
<1>3. \A i \in 1..Len(ls) :
        /\ ls[i] \in Layer /\ ls[i].val \in Nat /\ Charged(ls[i], size) \in Nat
        /\ ls[i].bound \in Nat /\ (ls[i].kind = "mem" => ls[i].bound <= UsizeMax)
  BY LayerFields, UsizeAssumption DEF Charged, AtMost
<1>4. \A i \in 1..Len(ls) : ls[i].kind = "mem" /\ Hears(ls, i) /\ AllocOk(ls, size) =>
        /\ pays(i)
        /\ Charged(ls[i], size) < ls[i].bound
  <2>1. TAKE i \in 1..Len(ls)
  <2>2. HAVE ls[i].kind = "mem" /\ Hears(ls, i) /\ AllocOk(ls, size)
  <2>3. \A j \in DOMAIN ls : ~OutOfMemory(ls, j, size)
    BY <2>2 DEF AllocOk
  <2>4. pays(i)
    BY <2>2, <2>3, Zenon
  <2>5. ~(Charged(ls[i], size) >= ls[i].bound)
    BY <1>1, <2>2, <2>3, Zenon DEF OutOfMemory
  <2> QED
    BY <1>3, <2>4, <2>5
<1>5. \A i \in 1..Len(ls) : ls[i].kind = "mem" /\ Charged(ls[i], size) < ls[i].bound =>
        Charged(ls[i], size) = ls[i].val + size
  BY <1>3, UsizeAssumption DEF Charged, AtMost
<1>6. \A i \in 1..Len(ls) :
        /\ u(i) \in Layer /\ u(i).kind = ls[i].kind /\ u(i).bound = ls[i].bound
        /\ u(i).val = Charged(ls[i], size)
  BY <1>3, LayerUpdate, Zenon
<1>7. \A i \in 1..Len(ls) : ls[i].kind # "mem" => ~pays(i)
  OBVIOUS
<1> HIDE DEF ms, pays, u
<1>8. \A i \in 1..Len(ls) : ms[i] \in Layer /\ ms[i].kind = ls[i].kind /\ ms[i].bound = ls[i].bound
  BY <1>2, <1>3, <1>6, Zenon
<1>9. SameShape(ls, ms)
  <2>1. ms \in [1..Len(ls) -> Layer]
    BY <1>1, <1>8 DEF ms, OnBeforeAllocMem
  <2> QED
    BY <1>8, <2>1, ShapeOf
<1>10. \A i \in 1..Len(ls) :
         /\ ls[i].kind # "mem" => ms[i] = ls[i]
         /\ ms[i].val \in {ls[i].val, Charged(ls[i], size)}
  BY <1>2, <1>6, <1>7, Zenon
<1>11. \A i \in 1..Len(ls) : ls[i].kind = "mem" /\ Hears(ls, i) /\ AllocOk(ls, size) =>
         ms[i].val = ls[i].val + size /\ ls[i].val + size < ls[i].bound
  <2>1. TAKE i \in 1..Len(ls)
  <2>2. HAVE ls[i].kind = "mem" /\ Hears(ls, i) /\ AllocOk(ls, size)
  <2>3. pays(i) /\ Charged(ls[i], size) < ls[i].bound
    BY <1>4, <2>2
  <2>4. Charged(ls[i], size) = ls[i].val + size
    BY <1>5, <2>2, <2>3
  <2>5. ms[i].val = Charged(ls[i], size)
    BY <1>2, <1>6, <2>3, Zenon
  <2> QED
    BY <2>3, <2>4, <2>5
<1> QED
  BY <1>9, <1>10, <1>11, Zenon DEF ms

-----------------------------------------------------------------------------
(* What a decoder at nesting level l, with h bytes on the heap and p bytes  *)
(* taken, may rely on.                                                      *)

\* Every depth is the level, or, while an error unwinds, at least that.
DepthIs(ls, l) ==
  \A i \in 1..Len(ls) : ls[i].kind = "depth" => ls[i].val = l /\ l <= ls[i].bound
DepthAbove(ls, l) ==
  \A i \in 1..Len(ls) : ls[i].kind = "depth" => ls[i].val >= l /\ l <= ls[i].bound

\* The heap is what a tracker that hears of allocations was told, or less.
MemCovers(ls, h) ==
  \A i \in 1..Len(ls) : ls[i].kind = "mem" =>
    /\ ls[i].val <= UsizeMax
    /\ Hears(ls, i) => h <= ls[i].val /\ (h > 0 => h < ls[i].bound)

\* The counters have counted p bytes, or, if not exact, at most that.
Counts(ls, p, exact) ==
  \A i \in 1..Len(ls) : ls[i].kind = "counted" =>
    /\ ls[i].val <= AtMost(p, U64Max)
    /\ exact => ls[i].val = AtMost(p, U64Max)

\* A read of n bytes.
LEMMA CountKeeps ==
  ASSUME NEW ls \in Seq(Layer), NEW n \in Nat, NEW l \in Nat, NEW h \in Nat, NEW p \in Nat,
         NEW exact \in BOOLEAN
  PROVE  /\ CountRead(ls, n) \in Seq(Layer)
         /\ DepthIs(ls, l) => DepthIs(CountRead(ls, n), l)
         /\ MemCovers(ls, h) => MemCovers(CountRead(ls, n), h)
         /\ Counts(ls, p, exact) => Counts(CountRead(ls, n), p + n, exact)
<1> DEFINE ms == CountRead(ls, n)
<1>1. /\ SameShape(ls, ms)
      /\ \A i \in 1..Len(ls) :
           /\ ls[i].kind # "counted" => ms[i] = ls[i]
           /\ ls[i].kind = "counted" => ms[i].val = AtMost(ls[i].val + n, U64Max)
  BY CountEffect
<1> HIDE DEF ms
<1>2. /\ ms \in Seq(Layer) /\ Len(ms) = Len(ls)
      /\ \A i \in 1..Len(ls) : ms[i].kind = ls[i].kind
  BY <1>1 DEF SameShape
<1>3. DepthIs(ls, l) => DepthIs(ms, l)
  BY <1>1, <1>2 DEF DepthIs
<1>4. MemCovers(ls, h) => MemCovers(ms, h)
  BY <1>1, <1>2, HearsSame DEF MemCovers
<1>5. ASSUME Counts(ls, p, exact) PROVE Counts(ms, p + n, exact)
  <2>1. \A v \in Nat : /\ v <= AtMost(p, U64Max) => AtMost(v + n, U64Max) <= AtMost(p + n, U64Max)
                       /\ v = AtMost(p, U64Max) => AtMost(v + n, U64Max) = AtMost(p + n, U64Max)
    BY U64Assumption DEF AtMost
  <2>2. \A i \in 1..Len(ls) : ls[i].val \in Nat
    BY LayerFields
  <2> QED
    BY <1>1, <1>2, <1>5, <2>1, <2>2, SMTT(60) DEF Counts
<1> QED
  BY <1>2, <1>3, <1>4, <1>5 DEF ms

\* descend_ref at level l: accepted, it leads to level l + 1; refused, the
\* decoder unwinds from level l.
LEMMA DescendKeeps ==
  ASSUME NEW ls \in Seq(Layer), NEW l \in Nat, NEW h \in Nat, NEW p \in Nat,
         NEW exact \in BOOLEAN
  PROVE  /\ DescendRef(ls) \in Seq(Layer)
         /\ DepthIs(ls, l) => /\ DepthAbove(DescendRef(ls), l)
                              /\ DescendOk(ls) => DepthIs(DescendRef(ls), l + 1)
         /\ MemCovers(ls, h) => MemCovers(DescendRef(ls), h)
         /\ Counts(ls, p, exact) => Counts(DescendRef(ls), p, exact)
<1> DEFINE ms == DescendRef(ls)
<1>1. /\ SameShape(ls, ms)
      /\ \A i \in 1..Len(ls) :
           /\ ls[i].kind # "depth" => ms[i] = ls[i]
           /\ ls[i].kind = "depth" => ms[i].val \in {ls[i].val, ls[i].val + 1}
           /\ ls[i].kind = "depth" /\ DescendOk(ls) =>
                ms[i].val = ls[i].val + 1 /\ ls[i].val + 1 <= ls[i].bound
  BY DescendEffect
<1> HIDE DEF ms
<1>2. /\ ms \in Seq(Layer) /\ Len(ms) = Len(ls)
      /\ \A i \in 1..Len(ls) : ms[i].kind = ls[i].kind /\ ms[i].bound = ls[i].bound
  BY <1>1 DEF SameShape
<1>3. DepthIs(ls, l) => DepthAbove(ms, l)
  BY <1>1, <1>2 DEF DepthIs, DepthAbove
<1>4. DepthIs(ls, l) /\ DescendOk(ls) => DepthIs(ms, l + 1)
  BY <1>1, <1>2 DEF DepthIs
<1>5. MemCovers(ls, h) => MemCovers(ms, h)
  BY <1>1, <1>2, HearsSame DEF MemCovers
<1>6. Counts(ls, p, exact) => Counts(ms, p, exact)
  BY <1>1, <1>2 DEF Counts
<1> QED
  BY <1>2, <1>3, <1>4, <1>5, <1>6 DEF ms

\* ascend_ref leads from level l + 1 to l.
LEMMA AscendKeeps ==
  ASSUME NEW ls \in Seq(Layer), NEW l \in Nat, NEW h \in Nat, NEW p \in Nat,
         NEW exact \in BOOLEAN, DepthAbove(ls, l + 1)
  PROVE  /\ AscendRef(ls) \in Seq(Layer)
         /\ DepthAbove(AscendRef(ls), l)
         /\ DepthIs(ls, l + 1) => DepthIs(AscendRef(ls), l)
         /\ MemCovers(ls, h) => MemCovers(AscendRef(ls), h)
         /\ Counts(ls, p, exact) => Counts(AscendRef(ls), p, exact)
<1> DEFINE ms == AscendRef(ls)
<1>0. \A i \in 1..Len(ls) : ls[i].val \in Nat /\ ls[i].bound \in Nat
  BY LayerFields
<1>1. /\ SameShape(ls, ms)
      /\ \A i \in 1..Len(ls) :
           /\ ls[i].kind # "depth" => ms[i] = ls[i]
           /\ ls[i].kind = "depth" => ms[i].val = ls[i].val - 1
  <2>1. \A i \in 1..Len(ls) : ls[i].kind = "depth" => ls[i].val > 0
    BY <1>0 DEF DepthAbove
  <2> QED
    BY <2>1, AscendEffect
<1> HIDE DEF ms
<1>2. /\ ms \in Seq(Layer) /\ Len(ms) = Len(ls)
      /\ \A i \in 1..Len(ls) : ms[i].kind = ls[i].kind /\ ms[i].bound = ls[i].bound
  BY <1>1 DEF SameShape
<1>3. DepthAbove(ms, l)
  BY <1>0, <1>1, <1>2, SMTT(30) DEF DepthAbove
<1>4. ASSUME DepthIs(ls, l + 1) PROVE DepthIs(ms, l)
  <2>1. SUFFICES ASSUME NEW i \in 1..Len(ls), ls[i].kind = "depth"
                 PROVE  ms[i].val = l /\ l <= ls[i].bound
    BY <1>2 DEF DepthIs
  <2>2. ls[i].val = l + 1 /\ l + 1 <= ls[i].bound /\ ms[i].val = ls[i].val - 1
    BY <1>1, <1>4, <2>1 DEF DepthIs
  <2>3. ls[i].bound \in Nat
    BY <1>0
  <2> QED
    BY <2>2, <2>3
<1>5. MemCovers(ls, h) => MemCovers(ms, h)
  BY <1>1, <1>2, HearsSame DEF MemCovers
<1>6. Counts(ls, p, exact) => Counts(ms, p, exact)
  BY <1>1, <1>2 DEF Counts
<1> QED
  BY <1>2, <1>3, <1>4, <1>5, <1>6 DEF ms

\* on_before_alloc_mem of size bytes: accepted, the heap may grow by them.
LEMMA AllocKeeps ==
  ASSUME NEW ls \in Seq(Layer), NEW size \in Nat, NEW l \in Nat, NEW h \in Nat, NEW p \in Nat,
         NEW exact \in BOOLEAN
  PROVE  LET ms == OnBeforeAllocMem(ls, size)
         IN /\ ms \in Seq(Layer)
            /\ DepthIs(ls, l) => DepthIs(ms, l)
            /\ MemCovers(ls, h) => MemCovers(ms, h)
            /\ MemCovers(ls, h) /\ AllocOk(ls, size) => MemCovers(ms, h + size)
            /\ Counts(ls, p, exact) => Counts(ms, p, exact)
<1> DEFINE ms == OnBeforeAllocMem(ls, size)
<1>0. \A i \in 1..Len(ls) : ls[i].val \in Nat /\ ls[i].bound \in Nat
                           /\ (ls[i].kind = "mem" => ls[i].bound <= UsizeMax)
  BY LayerFields
<1>1. /\ SameShape(ls, ms)
      /\ \A i \in 1..Len(ls) :
           /\ ls[i].kind # "mem" => ms[i] = ls[i]
           /\ ms[i].val \in {ls[i].val, Charged(ls[i], size)}
           /\ ls[i].kind = "mem" /\ Hears(ls, i) /\ AllocOk(ls, size) =>
                ms[i].val = ls[i].val + size /\ ls[i].val + size < ls[i].bound
  BY AllocEffect
<1> HIDE DEF ms
<1>2. /\ ms \in Seq(Layer) /\ Len(ms) = Len(ls)
      /\ \A i \in 1..Len(ls) : ms[i].kind = ls[i].kind /\ ms[i].bound = ls[i].bound
  BY <1>1 DEF SameShape
<1>3. DepthIs(ls, l) => DepthIs(ms, l)
  BY <1>1, <1>2 DEF DepthIs
<1>4. Counts(ls, p, exact) => Counts(ms, p, exact)
  BY <1>1, <1>2 DEF Counts
<1>5. ASSUME MemCovers(ls, h) PROVE MemCovers(ms, h)
  <2>1. \A i \in 1..Len(ls) : ls[i].kind = "mem" => ms[i].val >= ls[i].val /\ ms[i].val <= UsizeMax
    BY <1>0, <1>1, <1>5, UsizeAssumption DEF MemCovers, Charged, AtMost
  <2>2. \A i \in 1..Len(ls) : Hears(ms, i) <=> Hears(ls, i)
    BY <1>1, HearsSame
  <2>3. \A i \in 1..Len(ls) : ms[i].val \in Nat
    BY <1>2, LayerFields
  <2>4. SUFFICES ASSUME NEW i \in 1..Len(ls), ls[i].kind = "mem"
                 PROVE  /\ ms[i].val <= UsizeMax
                        /\ Hears(ls, i) => h <= ms[i].val /\ (h > 0 => h < ls[i].bound)
    BY <1>2, <2>2 DEF MemCovers
  <2>5. Hears(ls, i) => h <= ls[i].val /\ (h > 0 => h < ls[i].bound)
    BY <1>5, <2>4 DEF MemCovers
  <2>6. ls[i].val \in Nat /\ ms[i].val \in Nat /\ ms[i].val >= ls[i].val /\ ms[i].val <= UsizeMax
    BY <1>0, <2>1, <2>3, <2>4
  <2> QED
    BY <2>5, <2>6
<1>6. ASSUME MemCovers(ls, h), AllocOk(ls, size) PROVE MemCovers(ms, h + size)
  <2>1. \A i \in 1..Len(ls) : ls[i].kind = "mem" => ms[i].val <= UsizeMax
    BY <1>2, <1>5, <1>6 DEF MemCovers
  <2>2. \A i \in 1..Len(ls) : Hears(ms, i) <=> Hears(ls, i)
    BY <1>1, HearsSame
  <2>3. SUFFICES ASSUME NEW i \in 1..Len(ls), ls[i].kind = "mem", Hears(ls, i)
                 PROVE  h + size <= ms[i].val /\ h + size < ls[i].bound
    BY <1>2, <2>1, <2>2 DEF MemCovers
  <2>4. h <= ls[i].val /\ ms[i].val = ls[i].val + size /\ ls[i].val + size < ls[i].bound
    BY <1>1, <1>6, <2>3 DEF MemCovers
  <2>5. ls[i].val \in Nat /\ ls[i].bound \in Nat
    BY <1>0
  <2> QED
    BY <2>4, <2>5
<1> QED
  BY <1>2, <1>3, <1>4, <1>5, <1>6 DEF ms

\* Further out, less depth will do.
LEMMA DepthWeaker ==
  ASSUME NEW ls \in Seq(Layer), NEW l \in Nat, NEW m \in 0..l
  PROVE  /\ DepthIs(ls, l) => DepthAbove(ls, l)
         /\ DepthAbove(ls, l) => DepthAbove(ls, m)
<1>0. \A i \in 1..Len(ls) : ls[i].val \in Nat /\ ls[i].bound \in Nat
  BY LayerFields
<1>1. DepthIs(ls, l) => DepthAbove(ls, l)
  BY <1>0 DEF DepthIs, DepthAbove
<1>2. DepthAbove(ls, l) => DepthAbove(ls, m)
  BY <1>0 DEF DepthAbove
<1> QED
  BY <1>1, <1>2

\* Freeing memory keeps the rest accounted for.
LEMMA MemWeaker ==
  ASSUME NEW ls \in Seq(Layer), NEW h \in Nat, NEW g \in 0..h, MemCovers(ls, h)
  PROVE  MemCovers(ls, g)
<1>0. \A i \in 1..Len(ls) : ls[i].val \in Nat /\ ls[i].bound \in Nat
  BY LayerFields
<1> QED
  BY <1>0 DEF MemCovers

\* Bytes that a failed read took are not counted.
LEMMA CountsWeaker ==
  ASSUME NEW ls \in Seq(Layer), NEW p \in Nat, NEW q \in Nat, p <= q,
         NEW exact \in BOOLEAN, Counts(ls, p, exact)
  PROVE  Counts(ls, q, FALSE)
<1>0. \A i \in 1..Len(ls) : ls[i].val \in Nat
  BY LayerFields
<1>1. AtMost(p, U64Max) <= AtMost(q, U64Max) /\ AtMost(p, U64Max) \in Nat /\ AtMost(q, U64Max) \in Nat
  BY U64Assumption DEF AtMost
<1> QED
  BY <1>0, <1>1, SMTT(30) DEF Counts

\* A new DepthTrackingInput around what is kept of the other wrappers.
LEMMA ResetKeeps ==
  ASSUME NEW ls \in Seq(Layer), NEW h \in Nat, NEW p \in Nat, NEW exact \in BOOLEAN
  PROVE  LET ms == [i \in DOMAIN ls |->
                      IF ls[i].kind = "depth" THEN NewLayer("depth", ls[i].bound) ELSE ls[i]]
         IN /\ ms \in Seq(Layer)
            /\ DepthIs(ms, 0)
            /\ MemCovers(ls, h) => MemCovers(ms, h)
            /\ Counts(ls, p, exact) => Counts(ms, p, exact)
<1> DEFINE ms == [i \in DOMAIN ls |->
                    IF ls[i].kind = "depth" THEN NewLayer("depth", ls[i].bound) ELSE ls[i]]
<1>1. \A i \in 1..Len(ls) : /\ ls[i] \in Layer /\ ls[i].bound \in Nat
                           /\ ls[i].kind \in {"depth", "mem", "counted"}
  BY LayerFields
<1>2. \A b \in Nat : /\ NewLayer("depth", b) \in Layer /\ NewLayer("depth", b).kind = "depth"
                     /\ NewLayer("depth", b).bound = b /\ NewLayer("depth", b).val = 0
  BY DEF NewLayer, Layer
<1>3. /\ DOMAIN ls = 1..Len(ls)
      /\ \A i \in 1..Len(ls) :
           ms[i] = IF ls[i].kind = "depth" THEN NewLayer("depth", ls[i].bound) ELSE ls[i]
  OBVIOUS
<1> HIDE DEF ms
<1>4. \A i \in 1..Len(ls) :
        /\ ms[i] \in Layer /\ ms[i].kind = ls[i].kind /\ ms[i].bound = ls[i].bound
        /\ ls[i].kind = "depth" => ms[i].val = 0
        /\ ls[i].kind # "depth" => ms[i] = ls[i]
  <2>1. TAKE i \in 1..Len(ls)
  <2>2. CASE ls[i].kind = "depth"
    <3>1. ms[i] = NewLayer("depth", ls[i].bound) /\ ls[i].bound \in Nat
      BY <1>1, <1>3, <2>2
    <3>2. /\ NewLayer("depth", ls[i].bound) \in Layer
          /\ NewLayer("depth", ls[i].bound).kind = "depth"
          /\ NewLayer("depth", ls[i].bound).bound = ls[i].bound
          /\ NewLayer("depth", ls[i].bound).val = 0
      BY <1>2, <3>1, Zenon
    <3> QED
      BY <2>2, <3>1, <3>2
  <2>3. CASE ls[i].kind # "depth"
    BY <1>1, <1>3, <2>3, Zenon
  <2> QED
    BY <2>2, <2>3
<1>5. SameShape(ls, ms)
  <2>1. ms \in [1..Len(ls) -> Layer]
    BY <1>3, <1>4 DEF ms
  <2> QED
    BY <1>4, <2>1, ShapeOf
<1>6. ms \in Seq(Layer) /\ Len(ms) = Len(ls)
  BY <1>5 DEF SameShape
<1>7. DepthIs(ms, 0)
  BY <1>1, <1>4, <1>6 DEF DepthIs
<1>8. MemCovers(ls, h) => MemCovers(ms, h)
  BY <1>4, <1>5, <1>6, HearsSame DEF MemCovers
<1>9. Counts(ls, p, exact) => Counts(ms, p, exact)
  BY <1>4, <1>6 DEF Counts
<1> QED
  BY <1>6, <1>7, <1>8, <1>9 DEF ms

\* descend_ref and, if it is accepted, on_before_alloc_mem.
LEMMA EnterKeeps ==
  ASSUME NEW ls \in Seq(Layer), NEW size \in Nat, NEW l \in Nat, NEW h \in Nat, NEW p \in Nat,
         NEW exact \in BOOLEAN, DepthIs(ls, l), MemCovers(ls, h), Counts(ls, p, exact)
  PROVE  LET inside == DescendRef(ls)
             after == OnBeforeAllocMem(inside, size)
         IN /\ inside \in Seq(Layer) /\ after \in Seq(Layer)
            /\ DepthAbove(inside, l) /\ MemCovers(inside, h) /\ Counts(inside, p, exact)
            /\ MemCovers(after, h) /\ Counts(after, p, exact)
            /\ DescendOk(ls) => /\ DepthIs(inside, l + 1)
                                /\ DepthIs(after, l + 1) /\ DepthAbove(after, l)
            /\ AllocOk(inside, size) => MemCovers(after, h + size)
<1> DEFINE inside == DescendRef(ls)
           after == OnBeforeAllocMem(inside, size)
<1>1. /\ inside \in Seq(Layer) /\ DepthAbove(inside, l)
      /\ MemCovers(inside, h) /\ Counts(inside, p, exact)
      /\ DescendOk(ls) => DepthIs(inside, l + 1)
  BY DescendKeeps
<1> HIDE DEF inside
<1>2. l + 1 \in Nat /\ l \in 0..(l + 1)
  OBVIOUS
<1>3. /\ after \in Seq(Layer) /\ MemCovers(after, h) /\ Counts(after, p, exact)
      /\ DepthIs(inside, l + 1) => DepthIs(after, l + 1)
      /\ AllocOk(inside, size) => MemCovers(after, h + size)
  <2>1. after \in Seq(Layer) /\ MemCovers(after, h)
    BY <1>1, AllocKeeps, Zenon
  <2>3. Counts(after, p, exact)
    BY <1>1, AllocKeeps
  <2>4. AllocOk(inside, size) => MemCovers(after, h + size)
    BY <1>1, AllocKeeps
  <2>2. DepthIs(inside, l + 1) => DepthIs(after, l + 1)
    <3>1. PICK m \in Nat : m = l + 1
      OBVIOUS
    <3>2. DepthIs(inside, m) => DepthIs(after, m)
      BY <1>1, AllocKeeps
    <3> QED
      BY <3>1, <3>2
  <2> QED
    BY <2>1, <2>2, <2>3, <2>4
<1> HIDE DEF after
<1>4. DepthIs(after, l + 1) => DepthAbove(after, l)
  BY <1>2, <1>3, DepthWeaker
<1>5. DescendOk(ls) => DepthIs(inside, l + 1) /\ DepthIs(after, l + 1) /\ DepthAbove(after, l)
  BY <1>1, <1>3, <1>4
<1> QED
  BY <1>1, <1>3, <1>5 DEF after, inside
=============================================================================
