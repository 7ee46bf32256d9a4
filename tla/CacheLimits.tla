---------------------------- MODULE CacheLimits ----------------------------
(***************************************************************************)
(* What save_cache_with_options leaves out to keep a file small            *)
(* (crates/picante/src/persist.rs:189-233, 476-587): records that are too   *)
(* large, those after the first so many of a section, and then, one at a    *)
(* time, the largest of a class until the file fits.                        *)
(*                                                                         *)
(* A record refers to others: a derived value to the inputs and interned    *)
(* values it was computed from, an input to the interned values whose ids   *)
(* it holds.                                                                *)
(***************************************************************************)
EXTENDS Naturals, Sequences, SequencesExt, FiniteSets, Functions

CONSTANTS
    Section,     \* the names of the sections
    SectionType, \* of each: "Input", "Derived" or "Interned"
    Saved,       \* the contents a database can have: for each section a
                 \* sequence of records [name, len]
    Refers,      \* the names each record refers to
    MaxLength,   \* no section has more records, and no record more bytes
    FileBytes,   \* what an encoded file takes without its records ...
    LengthBytes, \* ... and what a length in it takes
    Limit,       \* the values the options can have
    NoLimit

Types == {"Input", "Derived", "Interned"}

ASSUME TypesOfSections == SectionType \in [Section -> Types]
\* What a record refers to is in a class that is dropped after its own.
LaterClasses == {<<"Derived", "Input">>, <<"Derived", "Interned">>, <<"Input", "Interned">>}

FileRecord == [name : DOMAIN Refers, len : 0..MaxLength]
ASSUME SavedAreRecords ==
    \A c \in Saved : c \in [Section -> Seq(FileRecord)] /\ \A s \in Section : Len(c[s]) <= MaxLength
ASSUME SectionsAreFinite == IsFiniteSet(Section)
\* A longer length takes no fewer bytes.
ASSUME LengthsAreEncoded ==
    /\ MaxLength \in Nat /\ FileBytes \in Nat
    /\ LengthBytes \in [0..MaxLength -> Nat]
    /\ \A m, n \in 0..MaxLength : m <= n => LengthBytes[m] <= LengthBytes[n]
ASSUME RefersToLaterClasses ==
    \A c \in Saved : \A s, u \in Section : \A r \in ToSet(c[s]), q \in ToSet(c[u]) :
        q.name \in Refers[r.name] => <<SectionType[s], SectionType[u]>> \in LaterClasses
ASSUME NoLimitIsNone == Limit \subseteq Nat /\ NoLimit \notin Nat

VARIABLES
    options,    \* max_record_bytes, max_records_per_section, max_bytes
    collected,  \* what save_records gave
    cache,      \* CacheFile.sections
    budget,     \* budget_for_records
    step        \* where in the save we are; "fits" and "refused" at the end

limitVars == <<options, collected, cache, budget, step>>

\* The bytes of the records: section, place, and place in the record.
RecordContents(c) ==
    {b \in Section \X (1..MaxLength) \X (1..MaxLength) :
        b[2] <= Len(c[b[1]]) /\ b[3] <= c[b[1]][b[2]].len}

\* The lengths in a file: of a section (at place 0) and of its records.
LengthAt(c, s, k) == IF k = 0 THEN Len(c[s]) ELSE c[s][k].len
Lengths(c) ==
    {b \in Section \X (0..MaxLength) \X (1..LengthBytes[MaxLength]) :
        b[2] <= Len(c[b[1]]) /\ b[3] <= LengthBytes[LengthAt(c, b[1], b[2])]}

RecordTotal(c) == Cardinality(RecordContents(c))

\* The length of encode_cache_file.
Encoded(c) == FileBytes + Cardinality(Lengths(c)) + RecordTotal(c)
Overhead(c) == Encoded(c) - RecordTotal(c)

LimitsInit ==
    /\ options \in [recordBytes : Limit \union {NoLimit}, perSection : Limit \union {NoLimit},
                    bytes : Limit \union {NoLimit}]
    /\ collected \in Saved
    /\ cache = collected
    /\ budget = 0
    /\ step = "retain"

\* records.retain(|r| r.len() <= max): those at some places, in their order.
SmallAt(records) == {k \in DOMAIN records : records[k].len <= options.recordBytes}
InOrder(K) == {e \in [1..Cardinality(K) -> K] : \A k, l \in DOMAIN e : k < l => e[k] < e[l]}
Retained(records) == {[k \in DOMAIN e |-> records[e[k]]] : e \in InOrder(SmallAt(records))}

RetainSmall ==
    /\ step = "retain"
    /\ IF options.recordBytes = NoLimit THEN cache' = cache
       ELSE /\ cache' \in [Section -> UNION {Retained(cache[s]) : s \in Section}]
            /\ \A s \in Section : cache'[s] \in Retained(cache[s])
    /\ step' = "truncate"
    /\ UNCHANGED <<options, collected, budget>>

\* section.records.truncate(max)
TruncateSections ==
    /\ step = "truncate"
    /\ cache' = IF options.perSection = NoLimit THEN cache
                ELSE [s \in Section |-> IF Len(cache[s]) <= options.perSection THEN cache[s]
                                       ELSE SubSeq(cache[s], 1, options.perSection)]
    /\ step' = "measure"
    /\ UNCHANGED <<options, collected, budget>>

\* sort_by_key; of equal lengths any order.
SortedByLength(records) ==
    {sorted \in {[k \in DOMAIN records |-> records[p[k]]] :
                    p \in Bijection(DOMAIN records, DOMAIN records)} :
        \A k \in 1..(Len(sorted) - 1) : sorted[k].len <= sorted[k + 1].len}
SortedSections ==
    {c \in [Section -> UNION {SortedByLength(cache[s]) : s \in Section}] :
        \A s \in Section : c[s] \in SortedByLength(cache[s])}

\* shrink_cache_to_fit: the budget is what the overhead leaves.
Measure ==
    /\ step = "measure"
    /\ IF options.bytes = NoLimit THEN step' = "fits" /\ UNCHANGED <<cache, budget>>
       ELSE IF Encoded(cache) <= options.bytes THEN step' = "fits" /\ UNCHANGED <<cache, budget>>
       ELSE IF Overhead(cache) >= options.bytes THEN step' = "refused" /\ UNCHANGED <<cache, budget>>
       ELSE /\ budget' = options.bytes - Overhead(cache)
            /\ cache' \in SortedSections
            /\ step' = "drop"
    /\ UNCHANGED <<options, collected>>

\* Sections of a type that have a record left, and the length of their largest.
OfType(ty) == {s \in Section : SectionType[s] = ty /\ cache[s] # <<>>}
Largest(s) == Last(cache[s]).len

\* Mutant: inputs go before derived values.
InputsFirst == <<"Input", "Derived", "Interned">>

\* The classes in the order they are dropped.
DropOrder == <<"Derived", "Input", "Interned">>

\* Mutant: the loop ends one record early.
NearBudget == RecordTotal(cache) <= budget + 1

WithinBudget == RecordTotal(cache) <= budget

\* drop_one_record: the largest of the first class that has any; of equal ones
\* that of the first section.  Which section comes first is left open.
DropOne ==
    /\ step = "drop" /\ ~WithinBudget
    /\ \E n \in DOMAIN DropOrder :
        /\ \A m \in 1..(n - 1) : OfType(DropOrder[m]) = {}
        /\ \E s \in OfType(DropOrder[n]) :
            /\ \A u \in OfType(DropOrder[n]) : Largest(u) <= Largest(s)
            /\ cache' = [cache EXCEPT ![s] = Front(@)]
    /\ UNCHANGED <<options, collected, budget, step>>

\* Verified once more: the overhead is measured anew.
Verify ==
    /\ step = "drop" /\ WithinBudget
    /\ IF Encoded(cache) <= options.bytes THEN step' = "fits" /\ UNCHANGED budget
       ELSE IF Overhead(cache) >= options.bytes THEN step' = "refused" /\ UNCHANGED budget
       ELSE budget' = options.bytes - Overhead(cache) /\ UNCHANGED step
    /\ UNCHANGED <<options, collected, cache>>

LimitsNext == RetainSmall \/ TruncateSections \/ Measure \/ DropOne \/ Verify

LimitsSpec == LimitsInit /\ [][LimitsNext]_limitVars

-----------------------------------------------------------------------------
Names(c) == UNION {{r.name : r \in ToSet(c[s])} : s \in Section}

(* A save that only limits max_bytes keeps with each record those it refers *)
(* to: what is loaded from the file has no value of an input that is gone,   *)
(* and no id without its value (the comment at persist.rs:33, and the order  *)
(* of the classes at 502-505).  Of the other two options it is not so.      *)
NothingDangles ==
    step = "fits" /\ options.recordBytes = NoLimit /\ options.perSection = NoLimit =>
        \A n \in Names(cache) : Refers[n] \intersect Names(collected) \subseteq Names(cache)

(* Once records are dropped, the file comes to fit: the budget was taken     *)
(* from the overhead of the larger file, so the rounds that measure again    *)
(* (persist.rs:514-543) find nothing to do and the save is not refused.      *)
DroppingSuffices ==
    step = "drop" /\ WithinBudget => Encoded(cache) <= options.bytes
=============================================================================
