----------------------------- MODULE InputLayers ------------------------------
(***************************************************************************)
(* The Input wrappers: DepthTrackingInput, MemTrackingInput, CountedInput. *)
(* A decode call sees a stack of them around one source of bytes;          *)
(* layers[1] is the outermost.  Every hook is forwarded to the inner input *)
(* first and only then handled by the wrapper itself, so that an error of  *)
(* an inner layer leaves the outer ones unchanged.                         *)
(***************************************************************************)
EXTENDS Naturals, Sequences

CONSTANTS
  UsizeMax,  \* usize::MAX
  U64Max     \* u64::MAX, where the counter of CountedInput stops

ASSUME UsizeAssumption == UsizeMax \in Nat \ {0}
ASSUME U64Assumption == U64Max \in Nat

AtMost(n, max) == IF n <= max THEN n ELSE max

\* val and bound: depth and max_depth, used_mem and mem_limit, or the counter.
Layer ==
  [kind : {"depth"}, val : Nat, bound : Nat]
    \cup [kind : {"mem"}, val : Nat, bound : 0..UsizeMax]
    \cup [kind : {"counted"}, val : Nat, bound : {U64Max}]

NewLayer(kind, bound) == [kind |-> kind, val |-> 0, bound |-> bound]

-----------------------------------------------------------------------------
(* descend_ref and ascend_ref: all wrappers forward them.                   *)

\* Mutant of TooDeep: tests the depth before it is incremented.
TooDeepLate(l) == l.kind = "depth" /\ l.val > l.bound

TooDeep(l) == l.kind = "depth" /\ l.val + 1 > l.bound

DescendOk(ls) == \A i \in DOMAIN ls : ~TooDeep(ls[i])

\* DepthTrackingInput::descend_ref: depth is incremented before the test, and
\* stays incremented when the test fails.
DescendRef(ls) ==
  [i \in DOMAIN ls |->
     IF ls[i].kind = "depth" /\ \A j \in DOMAIN ls : j > i => ~TooDeep(ls[j])
     THEN [ls[i] EXCEPT !.val = @ + 1] ELSE ls[i]]

AscendRef(ls) ==
  [i \in DOMAIN ls |->
     IF ls[i].kind = "depth" THEN [ls[i] EXCEPT !.val = @ - 1] ELSE ls[i]]

-----------------------------------------------------------------------------
(* on_before_alloc_mem: CountedInput does not override it, so the call ends *)
(* there with the trait's default, Ok, and no inner layer hears of it.      *)

Hears(ls, i) == \A j \in DOMAIN ls : j <= i => ls[j].kind # "counted"

\* self.used_mem.saturating_add(size)
Charged(l, size) == AtMost(l.val + size, UsizeMax)

\* Mutant of OutOfMemory: the limit itself may be used up.
OutOfMemoryAbove(ls, i, size) ==
  Hears(ls, i) /\ ls[i].kind = "mem" /\ Charged(ls[i], size) > ls[i].bound

OutOfMemory(ls, i, size) ==
  Hears(ls, i) /\ ls[i].kind = "mem" /\ Charged(ls[i], size) >= ls[i].bound

AllocOk(ls, size) == \A i \in DOMAIN ls : ~OutOfMemory(ls, i, size)

\* MemTrackingInput::on_before_alloc_mem
OnBeforeAllocMem(ls, size) ==
  [i \in DOMAIN ls |->
     IF /\ Hears(ls, i) /\ ls[i].kind = "mem"
        /\ \A j \in DOMAIN ls : j > i => ~OutOfMemory(ls, j, size)
     THEN [ls[i] EXCEPT !.val = Charged(ls[i], size)] ELSE ls[i]]

-----------------------------------------------------------------------------
\* Mutant of CountRead: wraps around where the counter saturates.
CountReadWraps(ls, n) ==
  [i \in DOMAIN ls |->
     IF ls[i].kind = "counted" THEN [ls[i] EXCEPT !.val = (@ + n) % (U64Max + 1)] ELSE ls[i]]

\* CountedInput::read and read_byte count the bytes of a read that succeeded.
CountRead(ls, n) ==
  [i \in DOMAIN ls |->
     IF ls[i].kind = "counted" THEN [ls[i] EXCEPT !.val = AtMost(@ + n, U64Max)] ELSE ls[i]]
=============================================================================
