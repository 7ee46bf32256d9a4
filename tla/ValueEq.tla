------------------------------ MODULE ValueEq ------------------------------
(***************************************************************************)
(* The equality by which an input that is set, and a query that is computed *)
(* again, counts as unchanged: facet_eq (crates/picante/src/facet_eq.rs), a *)
(* comparison by reflection that needs no PartialEq of containers.  It is   *)
(* shown at the work it does in InputIngredient::set.                       *)
(*                                                                         *)
(* A value is a record with a field def:                                   *)
(*   "leaf"     of: compared by the PartialEq of its type, if it has one;   *)
(*   "product"  tag, parts, meta: an option, a result, a list, a variant    *)
(*              with all its fields, or a struct, metadata fields in meta;  *)
(*   "map"      entries: in the order of an iteration, no key twice;        *)
(*   "set"      elems: in the order of an iteration, none twice.            *)
(***************************************************************************)
EXTENDS Naturals, Sequences, SequencesExt

CONSTANTS
    ValueSet,    \* for each type, the values of it; parts have types too
    Height,      \* of a value as a tree ...
    MaxHeight,   \* ... and a bound on it
    Key,         \* the keys of maps and elements of sets, by the Eq of their types
    Unequal,     \* the leaves that equal nothing: NaN, types without PartialEq
    NoValue

Value == UNION {ValueSet[type] : type \in DOMAIN ValueSet}

\* Values of one type are built alike: of the same parts, if they have a tag and
\* as many of them.
SameType(a, b) == \E type \in DOMAIN ValueSet : a \in ValueSet[type] /\ b \in ValueSet[type]
ASSUME ValuesAreTyped ==
    \A type \in DOMAIN ValueSet : \A a, b \in ValueSet[type] :
        /\ a.def = b.def
        /\ a.def = "product" /\ a.tag = b.tag /\ Len(a.parts) = Len(b.parts) =>
            \A k \in DOMAIN a.parts : SameType(a.parts[k], b.parts[k])
        /\ a.def = "map" =>
            \A e \in ToSet(a.entries), f \in ToSet(b.entries) : SameType(e.val, f.val)

\* A value is a finite tree, and no container has a key twice.
ASSUME ValuesAreTrees ==
    /\ MaxHeight \in Nat /\ Height \in [Value -> 0..MaxHeight]
    /\ \A v \in Value :
        \/ v.def = "leaf"
        \/ /\ v.def = "product" /\ v.parts \in Seq(Value)
           /\ \A k \in DOMAIN v.parts : Height[v.parts[k]] < Height[v]
        \/ /\ v.def = "map" /\ v.entries \in Seq([key : Key, val : Value])
           /\ \A k \in DOMAIN v.entries : Height[v.entries[k].val] < Height[v]
           /\ \A k, l \in DOMAIN v.entries : v.entries[k].key = v.entries[l].key => k = l
        \/ /\ v.def = "set" /\ v.elems \in Seq(Key)
           /\ \A k, l \in DOMAIN v.elems : v.elems[k] = v.elems[l] => k = l

VARIABLES
    entry,     \* the value of an input
    replaced,  \* history: the value it had before the last set
    asked,     \* history: the value of the last set
    bumped     \* history: the last set took a new revision

valueVars == <<entry, replaced, asked, bumped>>

\* Mutant: the second may have more.
NotLarger(s, t) == Len(s) <= Len(t)

\* The lengths are compared first.
SameSize(s, t) == Len(s) = Len(t)

LeafEq(a, b) == a.of \notin Unequal /\ a.of = b.of

\* peek_eq, where eq is what it says of the parts.  An entry of a map is looked
\* up in the other by its key, an element of a set by itself.
EqOf(eq, a, b) ==
    /\ a.def = b.def
    /\ \/ a.def = "leaf" /\ LeafEq(a, b)
       \/ /\ a.def = "product" /\ a.tag = b.tag
          /\ SameSize(a.parts, b.parts)
          /\ \A k \in DOMAIN a.parts : eq[<<a.parts[k], b.parts[k]>>]
       \/ /\ a.def = "map"
          /\ SameSize(a.entries, b.entries)
          /\ \A e \in ToSet(a.entries) : \E f \in ToSet(b.entries) :
                e.key = f.key /\ eq[<<e.val, f.val>>]
       \/ /\ a.def = "set"
          /\ SameSize(a.elems, b.elems)
          /\ ToSet(a.elems) \subseteq ToSet(b.elems)
PeekEq[p \in Value \X Value] == EqOf(PeekEq, p[1], p[2])

ValueInit ==
    /\ \E type \in DOMAIN ValueSet : entry \in ValueSet[type]
    /\ replaced = NoValue /\ asked = NoValue /\ bumped = FALSE

\* set: nothing happens when the value is unchanged.
SetValue(v) ==
    /\ asked' = v
    /\ replaced' = entry
    /\ bumped' = ~PeekEq[<<entry, v>>]
    /\ entry' = IF bumped' THEN v ELSE entry

ValueNext ==
    \E type \in DOMAIN ValueSet :
        entry \in ValueSet[type] /\ \E v \in ValueSet[type] : SetValue(v)

ValueSpec == ValueInit /\ [][ValueNext]_valueVars

-----------------------------------------------------------------------------
\* What a value means to a program that does not see its metadata.
MeaningOf(m, v) ==
    CASE v.def = "leaf" -> v.of
      [] v.def = "product" -> <<v.tag, [k \in DOMAIN v.parts |-> m[v.parts[k]]]>>
      [] v.def = "map" -> {<<e.key, m[e.val]>> : e \in ToSet(v.entries)}
      [] v.def = "set" -> ToSet(v.elems)
Meaning[v \in Value] == MeaningOf(Meaning, v)

\* All that a comparison of the value would come to can be compared.
ComparableOf(c, v) ==
    CASE v.def = "leaf" -> v.of \notin Unequal
      [] v.def = "product" -> \A k \in DOMAIN v.parts : c[v.parts[k]]
      [] v.def = "map" -> \A e \in ToSet(v.entries) : c[e.val]
      [] v.def = "set" -> TRUE
Comparable[v \in Value] == ComparableOf(Comparable, v)

(* A set that changes what the input means takes a new revision: no change  *)
(* is lost to the comparison (input.rs:397-412).  And one that does not      *)
(* takes none, if the value can be compared: containers are not taken for    *)
(* changed because they iterate in another order.  Nothing is said of a set  *)
(* of an equal value with a NaN, or a part without PartialEq: the code takes *)
(* a revision then, though docs/spec/picante.md:374 asks for a reflexive     *)
(* equality and :384 for no effect.  Metadata never takes one, and is then   *)
(* not stored.                                                              *)
RevisionIffChanged ==
    asked # NoValue =>
        /\ Meaning[replaced] # Meaning[asked] => bumped
        /\ Comparable[asked] /\ Meaning[replaced] = Meaning[asked] => ~bumped
=============================================================================
