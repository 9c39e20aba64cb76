------------------------------ MODULE TraitBounds -----------------------------
(***************************************************************************)
(* The where clause of a derived impl: trait_bounds.rs.                    *)
(*                                                                         *)
(* A type is a path with segments (T, Vec, T::Assoc), a type that is no    *)
(* path (a tuple, an array, a reference), or <T as HasCompact>::Type; args *)
(* are the types in it.  A predicate bounds a type by a trait.             *)
(***************************************************************************)
EXTENDS DeriveItem

TypePath(segs, args) == [k |-> "path", segs |-> segs, args |-> args]
NoPath(args) == [k |-> "other", segs |-> <<>>, args |-> args]
CompactType(ty) == [k |-> "compact", segs |-> <<"HasCompact", "Type">>, args |-> <<ty>>]

Predicate(ty, bound) == [ty |-> ty, bound |-> bound]

RECURSIVE TypeIdents(_), StartsWithIdent(_, _), FindTypePaths(_, _)

\* All identifiers of a type, and type_contain_idents.
TypeIdents(ty) == Range(ty.segs) \cup UNION {TypeIdents(a) : a \in Range(ty.args)}
TypeContainIdents(ty, idents) == TypeIdents(ty) \cap idents # {}

\* Mutant of StartsWithIdent: does not look into the type.
StartsWithIdentTop(ty, ident) == ty.k = "path" /\ ty.segs[1] = ident

\* type_or_sub_type_path_starts_with_ident
StartsWithIdent(ty, ident) ==
  \/ ty.k = "path" /\ ty.segs[1] = ident
  \/ \E a \in Range(ty.args) : StartsWithIdent(a, ident)

\* find_type_paths_not_start_or_contain_ident: the largest paths in a type
\* that have nothing to do with ident.
FindTypePaths(ty, ident) ==
  IF ty.k = "path" /\ ~StartsWithIdent(ty, ident) THEN {ty}
  ELSE UNION {FindTypePaths(a, ident) : a \in Range(ty.args)}

-----------------------------------------------------------------------------

\* collect_types: the fields whose types its filter chooses from, and the
\* types of those it took, without the ones that use no type parameter.
CollectFields(item) == {FieldAt(item, pl) : pl \in Places(item)}
TypesUsing(fields, params) == {f.ty : f \in {g \in fields : TypeContainIdents(g.ty, params)}}

\* Mutant of NeedsCodecBound: skipped fields too.
NeedsCodecBoundSkipped(f) == ~IsCompact(f) /\ EncodedAsMeta(f) = <<>>

\* The fields that get the plain codec bound.
NeedsCodecBound(f) == ~IsCompact(f) /\ EncodedAsMeta(f) = <<>> /\ ~ShouldSkip(f.attrs)

\* Mutant of TypesToBound: types that contain the item give nothing.
TypesToBoundWhole(item, params, dumb) ==
  IF dumb THEN {TypePath(<<p>>, <<>>) : p \in params}
  ELSE LET types == TypesUsing({f \in CollectFields(item) : NeedsCodecBound(f)}, params)
       IN {ty \in types : ~StartsWithIdent(ty, item.ident)}

\* Mutant of TypesToBound: also the paths without a parameter.
TypesToBoundAnyPath(item, params, dumb) ==
  IF dumb THEN {TypePath(<<p>>, <<>>) : p \in params}
  ELSE LET types == TypesUsing({f \in CollectFields(item) : NeedsCodecBound(f)}, params)
           paths == UNION {FindTypePaths(ty, item.ident) : ty \in types}
       IN {ty \in types \cup paths : ~StartsWithIdent(ty, item.ident)}

\* get_types_to_add_trait_bound: the types of the fields, and the paths in
\* them, that use a parameter and do not contain the item itself.
TypesToBound(item, params, dumb) ==
  IF dumb THEN {TypePath(<<p>>, <<>>) : p \in params}
  ELSE LET types == TypesUsing({f \in CollectFields(item) : NeedsCodecBound(f)}, params)
           paths == UNION {FindTypePaths(ty, item.ident) : ty \in types}
       IN {ty \in types \cup {p \in paths : TypeContainIdents(p, params)} :
             ~StartsWithIdent(ty, item.ident)}

\* The type parameters that add goes on with.
BoundParams(item, custom) ==
  IF custom = <<>> THEN item.params ELSE item.params \ custom[1].names

\* add returns before it looks at the fields.
AddsNothing(item, custom) ==
  (custom # <<>> /\ custom[1].k = "bounds") \/ BoundParams(item, custom) = {}

\* add: the predicates, given the bounds of the attribute, the trait, the
\* trait for skipped fields (or <<>>) and dumb_trait_bound.
Add(item, custom, bound, skipBound, dumb) ==
  IF custom # <<>> /\ custom[1].k = "bounds" THEN custom[1].bounds
  ELSE IF AddsNothing(item, custom) THEN {}
  ELSE LET params == BoundParams(item, custom)
           compact == TypesUsing({f \in CollectFields(item) : IsCompact(f)}, params)
           skipped == TypesUsing({f \in CollectFields(item) : ShouldSkip(f.attrs)}, params)
       IN {Predicate(ty, bound) : ty \in TypesToBound(item, params, dumb)}
            \cup {Predicate(ty, "HasCompact") : ty \in compact}
            \cup {Predicate(CompactType(ty), bound) : ty \in compact}
            \cup {Predicate(ty, b) : ty \in skipped, b \in Range(skipBound)}

\* The error of collect_types, and the expect of get_encoded_as_type where
\* get_types_to_add_trait_bound calls it.
AddFails(item, custom) == ~AddsNothing(item, custom) /\ item.kind = "union"
AddPanics(item, custom, dumb) ==
  /\ ~AddsNothing(item, custom) /\ ~dumb
  /\ \E pl \in Places(item) : ~IsCompact(FieldAt(item, pl)) /\ EncodedAsPanics(FieldAt(item, pl))
=============================================================================
