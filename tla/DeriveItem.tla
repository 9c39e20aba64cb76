------------------------------ MODULE DeriveItem ------------------------------
(***************************************************************************)
(* What a derive macro is given: a struct, an enum or a union with its type *)
(* parameters and attributes; the functions that look for an attribute and *)
(* the one that checks them all.                                           *)
(*                                                                         *)
(* #[codec(..)] holds a list of metas, each with a kind k and a name id: a *)
(* plain name, a name with an integer n or a string (the type in it, or    *)
(* nothing if it is no token stream), a list of bounds, a list of type     *)
(* parameters to skip, or a crate path.                                    *)
(***************************************************************************)
EXTENDS Naturals, SequencesExt

Meta(k, id, n, ty, bounds, names) ==
  [k |-> k, id |-> id, n |-> n, ty |-> ty, bounds |-> bounds, names |-> names]
Plain(id) == Meta("path", id, 0, <<>>, {}, {})
IntValue(id, n) == Meta("int", id, n, <<>>, {}, {})
StrValue(id, ty) == Meta("str", id, 0, ty, {}, {})
SpecifiedBounds(id, bounds) == Meta("bounds", id, 0, <<>>, bounds, {})
SkipTypeParams(id, names) == Meta("skip_type_params", id, 0, <<>>, {}, names)
CratePath == Meta("crate", "crate", 0, <<>>, {}, {})

\* An attribute: its path, "codec" or another, and its metas.
Codec(metas) == [path |-> "codec", metas |-> metas]

BoundNames == {"encode_bound", "decode_bound", "decode_with_mem_tracking_bound", "mel_bound"}

-----------------------------------------------------------------------------
(* The finders.  Nothing found is <<>>.                                    *)

\* find_meta_item: the first #[codec(..)] that parses as one meta of these
\* kinds with this name; one with several metas is passed over.
FindMetaItem(attrs, kinds, id) ==
  LET hits == SelectSeq(attrs, LAMBDA a :
                a.path = "codec" /\ Len(a.metas) = 1 /\ a.metas[1].k \in kinds /\ a.metas[1].id = id)
  IN IF hits = <<>> THEN <<>> ELSE Head(hits).metas

HasPlain(attrs, id) == FindMetaItem(attrs, {"path"}, id) # <<>>

ShouldSkip(attrs) == HasPlain(attrs, "skip")
IsCompact(f) == HasPlain(f.attrs, "compact")
HasDumbTraitBound(attrs) == HasPlain(attrs, "dumb_trait_bound")
EncodedAsMeta(f) == FindMetaItem(f.attrs, {"str"}, "encoded_as")
IndexMeta(v) == FindMetaItem(v.attrs, {"int"}, "index")

\* custom_encode_trait_bound and its like.
CustomTraitBound(attrs, name) ==
  FindMetaItem(attrs, {"bounds", "skip_type_params"}, name)

\* codec_crate_path, where found tells whether Cargo knows the crate.
HasCratePath(attrs, found) == FindMetaItem(attrs, {"crate"}, "crate") # <<>> \/ found

\* get_encoded_as_type, and its expect.
GetEncodedAsType(f) == IF EncodedAsMeta(f) = <<>> THEN <<>> ELSE EncodedAsMeta(f)[1].ty
EncodedAsPanics(f) == EncodedAsMeta(f) # <<>> /\ EncodedAsMeta(f)[1].ty = <<>>

\* The expect of variant_index.
VariantIndexPanics(v) == IndexMeta(v) # <<>> /\ IndexMeta(v)[1].n > 255

-----------------------------------------------------------------------------
(* check_attributes.                                                       *)

\* One meta in each #[codec(..)], and one that is accepted.
Accepted(attr, Ok(_)) == attr.path = "codec" => Len(attr.metas) = 1 /\ Ok(attr.metas[1])

\* Mutant of CheckFieldAttribute: any string is a type.
CheckFieldAttributeAnyString(attr) ==
  Accepted(attr, LAMBDA m :
    \/ m.k = "path" /\ m.id \in {"skip", "compact"}
    \/ m.k = "str" /\ m.id = "encoded_as")

CheckFieldAttribute(attr) ==
  Accepted(attr, LAMBDA m :
    \/ m.k = "path" /\ m.id \in {"skip", "compact"}
    \/ m.k = "str" /\ m.id = "encoded_as" /\ m.ty # <<>>)

CheckVariantAttribute(attr) ==
  Accepted(attr, LAMBDA m :
    \/ m.k = "path" /\ m.id = "skip"
    \/ m.k = "int" /\ m.id = "index" /\ m.n <= 255)

CheckTopAttribute(attr) ==
  Accepted(attr, LAMBDA m :
    \/ m.k \in {"bounds", "skip_type_params"} /\ m.id \in BoundNames
    \/ m.k = "crate"
    \/ m.k = "path" /\ m.id = "dumb_trait_bound")

CheckAttributes(item) ==
  LET all(attrs, Ok(_)) == \A i \in DOMAIN attrs : Ok(attrs[i])
      fieldsOk(fs) == \A i \in DOMAIN fs : all(fs[i].attrs, CheckFieldAttribute)
  IN /\ all(item.attrs, CheckTopAttribute)
     /\ fieldsOk(item.fields)
     /\ \A i \in DOMAIN item.variants :
          all(item.variants[i].attrs, CheckVariantAttribute) /\ fieldsOk(item.variants[i].fields)

-----------------------------------------------------------------------------
(* The parts of an item that the macros go through.                        *)

\* The fields of a struct, and of each variant that is not skipped.
Parts(item) ==
  IF item.kind = "enum"
  THEN {<<i, item.variants[i].fields>> :
          i \in {j \in DOMAIN item.variants : ~ShouldSkip(item.variants[j].attrs)}}
  ELSE {<<0, item.fields>>}

\* Every field of them, by its place.
Places(item) == UNION {{<<p[1], i>> : i \in DOMAIN p[2]} : p \in Parts(item)}
FieldAt(item, pl) == IF pl[1] = 0 THEN item.fields[pl[2]] ELSE item.variants[pl[1]].fields[pl[2]]

\* filter_skip_named and filter_skip_unnamed
KeptPlaces(item) == {pl \in Places(item) : ~ShouldSkip(FieldAt(item, pl).attrs)}

\* try_get_variants fails: the index of a variant is a byte.
TooManyVariants(item) == item.kind = "enum" /\ Cardinality(Parts(item)) > 256
=============================================================================
