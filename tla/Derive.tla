-------------------------------- MODULE Derive --------------------------------
(***************************************************************************)
(* The derive macros Encode, Decode, DecodeWithMemTracking, CompactAs and  *)
(* MaxEncodedLen on one item, in the order the compiler expands them.      *)
(* What an expansion leaves is an impl, a compile error or a panic.  Of an *)
(* impl the model has its where clause; its uses: which fields its code    *)
(* handles, by place, and as which type; and its defaults: the fields for  *)
(* which its code has Default::default().                                  *)
(***************************************************************************)
EXTENDS TraitBounds

CONSTANT
  Items     \* the items to derive for

VARIABLES
  item,     \* the item
  found,    \* Cargo knows the crate parity-scale-codec
  out       \* what each macro has left, "none" before it ran

vars == <<item, found, out>>

Traits == {"Encode", "Decode", "DecodeWithMemTracking", "CompactAs", "MaxEncodedLen"}

Outcome(res, where, uses, defaults) ==
  [res |-> res, where |-> where, uses |-> uses, defaults |-> defaults]
NoImpl(res) == Outcome(res, {}, {}, {})
CompileError == NoImpl("error")
Panic == NoImpl("panic")

Init ==
  /\ item \in Items /\ found \in BOOLEAN
  /\ out = [t \in Traits |-> NoImpl("none")]

-----------------------------------------------------------------------------
(* The code of the impls.                                                  *)

\* More than one of encoded_as, compact and skip on a field.
OneAtATime(f) ==
  Cardinality({a \in {"encoded_as", "compact", "skip"} :
                 CASE a = "encoded_as" -> EncodedAsMeta(f) # <<>>
                   [] a = "compact" -> IsCompact(f)
                   [] a = "skip" -> ShouldSkip(f.attrs)}) <= 1

\* The type a field is encoded as, if it is: iterate_over_fields.
EncodedField(f) ==
  IF IsCompact(f) THEN <<CompactType(f.ty)>>
  ELSE IF EncodedAsMeta(f) # <<>> THEN GetEncodedAsType(f)
  ELSE IF ShouldSkip(f.attrs) THEN <<>>
  ELSE <<f.ty>>

\* Decoded as: create_decode_expr.
DecodedField(f) ==
  IF IsCompact(f) THEN <<CompactType(f.ty)>>
  ELSE IF EncodedAsMeta(f) # <<>> THEN GetEncodedAsType(f)
  ELSE IF ShouldSkip(f.attrs) THEN <<>>
  ELSE <<f.ty>>

\* Mutant of TrackedField: the type of the field whatever it is encoded as.
TrackedFieldPlain(f) ==
  IF ShouldSkip(f.attrs) THEN <<>>
  ELSE IF IsCompact(f) THEN <<CompactType(f.ty)>>
  ELSE <<f.ty>>

\* Checked to track memory: quote_decode_with_mem_tracking_checks.
TrackedField(f) ==
  IF ShouldSkip(f.attrs) THEN <<>>
  ELSE IF IsCompact(f) THEN <<CompactType(f.ty)>>
  ELSE IF EncodedAsMeta(f) # <<>> THEN GetEncodedAsType(f)
  ELSE <<f.ty>>

\* Summed up: fields_length_expr, which does not know encoded_as.
MeasuredField(f) ==
  IF ShouldSkip(f.attrs) THEN <<>>
  ELSE IF IsCompact(f) THEN <<CompactType(f.ty)>>
  ELSE <<f.ty>>

Uses(places, As(_)) ==
  {<<pl, As(FieldAt(item, pl))[1]>> : pl \in {q \in places : As(FieldAt(item, q)) # <<>>}}

\* The fields that get Default::default(), in the code of those macros that make
\* a value: create_decode_expr, and val_or_default of compact_as_derive.
Defaults == {pl \in Places(item) : ShouldSkip(FieldAt(item, pl).attrs)}

\* try_impl_encode_single_field_optimisation applies.
SingleField == item.kind = "struct" /\ Cardinality(KeptPlaces(item)) = 1

\* The fields that encode::quote handles: the one, or all.
EncodePlaces == IF SingleField THEN KeptPlaces(item) ELSE Places(item)

\* The finders that encode::quote and decode::quote call.
FieldsPanic(places) == \E pl \in places : EncodedAsPanics(FieldAt(item, pl))
IndicesPanic == \E p \in Parts(item) : p[1] > 0 /\ VariantIndexPanics(item.variants[p[1]])

EncodePanics == FieldsPanic(EncodePlaces) \/ IndicesPanic
DecodePanics == FieldsPanic(Places(item)) \/ IndicesPanic

\* Compile errors in the code: a union, too many variants, a field with more
\* than one attribute.
NoCode(places) ==
  \/ item.kind = "union" \/ TooManyVariants(item)
  \/ \E pl \in places : ~OneAtATime(FieldAt(item, pl))

-----------------------------------------------------------------------------
(* The macros.                                                             *)

\* Mutant of SkipBound: only decode asks for it.
SkipBoundDecode(trait) == IF trait = "Decode" THEN <<"Default">> ELSE <<>>

\* The codec_skip_bound that each macro passes to trait_bounds::add, for the
\* types of skipped fields.  CompactAs passes None although its code has
\* defaults.
SkipBound(trait) == IF trait \in {"Decode", "DecodeWithMemTracking"} THEN <<"Default">> ELSE <<>>

\* What the macros share: check_attributes, codec_crate_path, trait_bounds::add
\* and the code, in this order.
Expand(trait, checked, custom, panics, fails, uses, defaults) ==
  LET dumb == HasDumbTraitBound(item.attrs)
      outcome == IF ~checked \/ ~HasCratePath(item.attrs, found) THEN CompileError
                 ELSE IF AddPanics(item, custom, dumb) THEN Panic
                 ELSE IF AddFails(item, custom) THEN CompileError
                 ELSE IF panics THEN Panic
                 ELSE IF fails THEN CompileError
                 ELSE Outcome("impl", Add(item, custom, trait, SkipBound(trait), dumb),
                              uses, defaults)
  IN /\ out[trait].res = "none"
     /\ out' = [out EXCEPT ![trait] = outcome]
     /\ UNCHANGED <<item, found>>

EncodeDerive ==
  Expand("Encode", CheckAttributes(item), CustomTraitBound(item.attrs, "encode_bound"),
         EncodePanics, NoCode(EncodePlaces), Uses(EncodePlaces, EncodedField), {})

DecodeDerive ==
  Expand("Decode", CheckAttributes(item), CustomTraitBound(item.attrs, "decode_bound"),
         DecodePanics, NoCode(Places(item)), Uses(Places(item), DecodedField), Defaults)

\* No code but a check of the fields, which does not mind several attributes.
DecodeWithMemTrackingDerive ==
  Expand("DecodeWithMemTracking", CheckAttributes(item),
         CustomTraitBound(item.attrs, "decode_with_mem_tracking_bound"),
         FieldsPanic({pl \in KeptPlaces(item) : ~IsCompact(FieldAt(item, pl))}), NoCode({}),
         Uses(Places(item), TrackedField), {})

\* A struct with one field that is not skipped, whose type is the As; decode_from
\* gives the others their defaults.
CompactAsDerive ==
  Expand("CompactAs", CheckAttributes(item), <<>>,
         FALSE, ~SingleField, Uses(KeptPlaces(item), LAMBDA f : <<f.ty>>), Defaults)

\* This macro does not check the attributes.
MaxEncodedLenDerive ==
  Expand("MaxEncodedLen", TRUE, CustomTraitBound(item.attrs, "mel_bound"),
         FALSE, item.kind = "union", Uses(Places(item), MeasuredField), {})

Next ==
  \/ EncodeDerive \/ DecodeDerive \/ DecodeWithMemTrackingDerive
  \/ CompactAsDerive \/ MaxEncodedLenDerive

Spec == Init /\ [][Next]_vars

-----------------------------------------------------------------------------
(* Properties.                                                             *)

Impl(trait) == out[trait].res = "impl"

\* No #[codec(.._bound(..))] for the trait: the macro finds the bounds itself.
Auto(trait) ==
  LET name == CASE trait = "Encode" -> "encode_bound" [] trait = "Decode" -> "decode_bound"
                [] trait = "DecodeWithMemTracking" -> "decode_with_mem_tracking_bound"
                [] trait = "MaxEncodedLen" -> "mel_bound" [] trait = "CompactAs" -> "none"
  IN CustomTraitBound(item.attrs, name) = <<>>

\* Types built in to the language or the crate that have a trait if their
\* arguments do, and one that has it always.
Containers == {"Vec", "Box", "Option"}

RECURSIVE Solves(_, _, _), SubTypes(_)

SubTypes(ty) == {ty} \cup UNION {SubTypes(a) : a \in Range(ty.args)}

\* Type ty has the trait where the predicates hold; the item has it by the
\* impl itself.
Solves(where, trait, ty) ==
  \/ ~TypeContainIdents(ty, item.params)
  \/ Predicate(ty, trait) \in where
  \/ ty.k = "path" /\ ty.segs \in {<<item.ident>>, <<"PhantomData">>}
  \/ /\ ty.k = "other" \/ (ty.k = "path" /\ ty.segs[1] \in Containers)
     /\ \A a \in Range(ty.args) : Solves(where, trait, a)

\* What is left of a macro is an impl, an error or a panic; only an impl has
\* a where clause, over the parameters of the item.
TypeOK ==
  /\ item \in Items /\ found \in BOOLEAN
  /\ \A t \in Traits :
       /\ out[t].res \in {"none", "error", "panic", "impl"}
       /\ out[t].res # "impl" => out[t] = NoImpl(out[t].res)
       /\ \A p \in out[t].where : Auto(t) => TypeContainIdents(p.ty, item.params)

\* check_attributes accepts only what the finders can read: no macro that
\* calls it panics.
NoPanicOnceChecked ==
  \A t \in Traits \ {"MaxEncodedLen"} : out[t].res # "panic"

\* The where clause is enough for the code below it: each type that the impl
\* handles has the trait, the types of compact fields are HasCompact and those
\* for which the code has Default::default() have it.  The user bounds encoded_as
\* types, and everything that dumb_trait_bound leaves out.  CompactAs is not
\* claimed: its As needs no trait, and no bound is added for its defaults, so
\* that the impl of a struct with a skipped field of type T does not compile
\* unless the struct itself has T: Default.
BoundsSuffice ==
  \A t \in Traits \ {"CompactAs"} :
    Impl(t) /\ Auto(t) /\ ~HasDumbTraitBound(item.attrs) =>
      LET where == out[t].where
      IN /\ \A u \in out[t].uses :
              EncodedAsMeta(FieldAt(item, u[1])) = <<>> =>
                /\ Solves(where, t, u[2])
                /\ u[2].k = "compact" => Solves(where, "HasCompact", u[2].args[1])
         /\ \A pl \in out[t].defaults : Solves(where, "Default", FieldAt(item, pl).ty)

\* A parameter of no field that is handled is not bounded: the type of a
\* codec bound occurs in a field that the impl handles as what it is, not
\* skipped and not encoded as another type.
BoundsNeeded ==
  \A t \in Traits :
    Impl(t) /\ Auto(t) /\ ~HasDumbTraitBound(item.attrs) =>
      \A p \in out[t].where :
        p.bound = t => \E pl \in Places(item) :
          LET f == FieldAt(item, pl)
          IN IF p.ty.k = "compact" THEN IsCompact(f) /\ p.ty = CompactType(f.ty)
             ELSE /\ ~ShouldSkip(f.attrs) /\ ~IsCompact(f) /\ EncodedAsMeta(f) = <<>>
                  /\ p.ty \in SubTypes(f.ty)

\* The compiler cannot have a bound on the item that the impl is for: no codec
\* bound contains it.
NoSelfBound ==
  \A t \in Traits :
    Impl(t) /\ Auto(t) =>
      \A p \in out[t].where : p.bound = t => \A ty \in SubTypes(p.ty) : ty.segs # <<item.ident>>

\* DecodeWithMemTracking needs Decode and MaxEncodedLen needs Encode: where
\* the one impl applies the other does.
SupertraitsFollow ==
  \A pair \in {<<"DecodeWithMemTracking", "Decode">>, <<"MaxEncodedLen", "Encode">>} :
    LET sub == pair[1]
        super == pair[2]
    IN Impl(sub) /\ Impl(super) /\ Auto(sub) /\ Auto(super) =>
         \A p \in out[super].where :
           p \in out[sub].where \/ (p.bound = super /\ Predicate(p.ty, sub) \in out[sub].where)

\* What can be decoded can be encoded, field by field as the same type, and
\* DecodeWithMemTracking vouches for exactly the fields that are decoded; the
\* As of CompactAs is the one field that is encoded.  MaxEncodedLen, which does
\* not know encoded_as, is not claimed.
FieldsAgree ==
  Impl("Decode") =>
    /\ \A t \in {"Encode", "DecodeWithMemTracking"} :
         out[t].res # "none" => Impl(t) /\ out[t].uses = out["Decode"].uses
    /\ Impl("CompactAs") => {u[1] : u \in out["CompactAs"].uses} = {u[1] : u \in out["Decode"].uses}
=============================================================================
