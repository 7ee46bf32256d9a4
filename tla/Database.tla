------------------------------ MODULE Database ------------------------------
(***************************************************************************)
(* The views of one database family: the live database and the snapshots   *)
(* made from it.  Each view has a Runtime of its own (its revision counter *)
(* and cache scope, crates/picante/src/runtime.rs) and its own copy of the *)
(* inputs (crates/picante/src/ingredient/input.rs); a snapshot is copied   *)
(* ingredient by ingredient (from_database, crates/picante-macros/src/db.rs). *)
(* Every ingredient of the model has one key.                              *)
(*                                                                         *)
(* Setting or removing an input is not one step: the revision is bumped    *)
(* before the entry is written, and readers can run in between.            *)
(***************************************************************************)
EXTENDS Naturals, Sequences

CONSTANTS
    View, Live,    \* the views, and the one that is the database itself
    Input, Query,  \* keys of inputs and of derived queries
    InputValue,    \* values an input can be set to
    None,          \* an input that is missing or was removed (tombstone)
    Ingredients,   \* inputs then queries, in the order a snapshot copies them
    NoWrite,
    MaxRev         \* bound on the revision counters (u64 in the code)

ASSUME LiveIsAView == Live \in View
ASSUME NoneIsNoValue == None \notin InputValue
ASSUME MaxRevIsNat == MaxRev \in Nat
ASSUME IngredientsListed ==
    /\ Input \intersect Query = {}
    /\ Ingredients \in Seq(Input \union Query)
    /\ \A d \in Input \union Query : \E n \in 1..Len(Ingredients) : Ingredients[n] = d

VARIABLES
    rev,       \* Runtime.current_revision of each view
    diverged,  \* snapshots that have a divergent_scope of their own
    input,     \* entries of each view: value and changed_at
    writing,   \* the set/remove call under way in each view, if any
    copied,    \* snapshot creation: 0, or the next ingredient to copy
    hist       \* history: the inputs each revision of a view stands for

dbVars == <<rev, diverged, input, writing, copied, hist>>

Revision == 0..MaxRev
Stored == InputValue \union {None}
Valuation == [Input -> Stored]

Snapshots == View \ {Live}
Ready(v) == copied[v] = Len(Ingredients) + 1

\* Mutant: a snapshot that was written to stays in the family's scope.
FamilyScope(v) == Live

\* cache_scope_id: the family's id until the snapshot is written to.
Scope(v) == IF diverged[v] THEN v ELSE Live

\* What the inputs of v are at its current revision.
Contents(v) == hist[v][rev[v] + 1]

DbInit ==
    /\ rev = [v \in View |-> 0]
    /\ diverged = [v \in View |-> FALSE]
    /\ input = [v \in View |-> [i \in Input |-> [val |-> None, ch |-> 0]]]
    /\ writing = [v \in View |-> NoWrite]
    /\ copied = [v \in View |-> IF v = Live THEN Len(Ingredients) + 1 ELSE 0]
    /\ hist = [v \in View |-> <<[i \in Input |-> None]>>]

-----------------------------------------------------------------------------
\* InputIngredient::set (x a value) and ::remove (x = None) up to the bump.
\* Setting the value an input has, and removing one that is missing or a
\* tombstone, returns early.
Bump(v, i, x) ==
    /\ Ready(v)
    /\ writing[v] = NoWrite
    /\ input[v][i].val # x
    /\ rev[v] < MaxRev
    /\ rev' = [rev EXCEPT ![v] = @ + 1]
    /\ writing' = [writing EXCEPT ![v] = [key |-> i, val |-> x, ch |-> rev[v] + 1]]
    /\ hist' = [hist EXCEPT ![v] = Append(@, [Contents(v) EXCEPT ![i] = x])]
    /\ UNCHANGED <<diverged, input, copied>>

\* mark_divergent, between the bump and the write; a no-op on the database
\* and on a snapshot that has diverged before.
MarkDivergent(v) ==
    /\ writing[v] # NoWrite
    /\ v \in Snapshots /\ ~diverged[v]
    /\ diverged' = [diverged EXCEPT ![v] = TRUE]
    /\ UNCHANGED <<rev, input, writing, copied, hist>>

\* The entry itself, under the write lock.
Write(v) ==
    /\ writing[v] # NoWrite
    /\ v = Live \/ diverged[v]
    /\ input' = [input EXCEPT ![v][writing[v].key] =
                    [val |-> writing[v].val, ch |-> writing[v].ch]]
    /\ writing' = [writing EXCEPT ![v] = NoWrite]
    /\ UNCHANGED <<rev, diverged, copied, hist>>

\* from_database: a runtime at the database's revision first ...
SnapshotRuntime(s) ==
    /\ s \in Snapshots /\ copied[s] = 0
    /\ rev' = [rev EXCEPT ![s] = rev[Live]]
    /\ hist' = [hist EXCEPT ![s] = hist[Live]]
    /\ copied' = [copied EXCEPT ![s] = 1]
    /\ UNCHANGED <<diverged, input, writing>>

\* The ingredient a snapshot under construction copies next.
Copying(s, d) ==
    /\ s \in Snapshots
    /\ copied[s] \in 1..Len(Ingredients)
    /\ Ingredients[copied[s]] = d

\* ... then each input ingredient, under its read lock.
SnapshotInput(s, i) ==
    /\ Copying(s, i)
    /\ input' = [input EXCEPT ![s][i] = input[Live][i]]
    /\ copied' = [copied EXCEPT ![s] = @ + 1]
    /\ UNCHANGED <<rev, diverged, writing, hist>>

DbTypeOK ==
    /\ rev \in [View -> Revision]
    /\ diverged \in [View -> BOOLEAN]
    /\ input \in [View -> [Input -> [val : Stored, ch : Revision]]]
    /\ writing \in [View -> [key : Input, val : Stored, ch : Revision] \union {NoWrite}]
    /\ copied \in [View -> 0..(Len(Ingredients) + 1)]
    /\ hist \in [View -> Seq(Valuation)]
    /\ \A v \in View : Len(hist[v]) = rev[v] + 1
=============================================================================
