----------------------------- MODULE Interned ------------------------------
(***************************************************************************)
(* An interned ingredient (crates/picante/src/ingredient/interned.rs): two *)
(* concurrent maps, value to id and id to value, and a counter.  Threads    *)
(* intern values at the same time; the table is saved while they do, and a  *)
(* process that starts again loads what was saved.                         *)
(*                                                                         *)
(* An id is a number of 32 bits: here below IdLimit.                       *)
(***************************************************************************)
EXTENDS Naturals, FiniteSets, FiniteSetsExt

CONSTANTS
    Word,      \* the values
    IdLimit,   \* the number of ids
    Interner,  \* threads
    NoIntern, NoTable, NoSave

Pair == (0..(IdLimit - 1)) \X Word
IdOf(p) == p[1]
WordOf(p) == p[2]
LastId == IdLimit - 1

\* A call of intern that has found no id for its value.
NewIntern == [word : Word, id : 0..LastId, at : {"id", "value"}]

ASSUME IdsExist == IdLimit \in Nat \ {0}
ASSUME NoneIsOne == NoIntern \notin NewIntern

VARIABLES
    byValue,  \* by_value: a set of pairs <<id, value>>, one for a value
    byId,     \* by_id: the same, one for an id
    nextId,   \* next_id
    intern,   \* the call of intern each thread is in
    saving,   \* what by_id had when the save under way began
    table,    \* the interned section of the base file
    issued,   \* history: the ids that were returned by intern or loaded
    usedUp    \* history: the last id was given out

internVars == <<byValue, byId, nextId, intern, saving, table, issued, usedUp>>

InternInit ==
    /\ byValue = {} /\ byId = {} /\ nextId = 0
    /\ intern = [t \in Interner |-> NoIntern]
    /\ saving = NoSave /\ table = NoTable
    /\ issued = {} /\ usedUp = FALSE

\* A map with p put in, in place of what the id or the value had.
PutId(p) == {q \in byId : IdOf(q) # IdOf(p)} \union {p}
PutValue(p) == {q \in byValue : WordOf(q) # WordOf(p)} \union {p}

\* Mutant: the value is looked up and inserted under two locks.
EntryFree(w) == FALSE

\* The entry of the value is held by a thread that has found it vacant.
EntryHeld(w) == \E t \in Interner : intern[t] # NoIntern /\ intern[t].word = w

-----------------------------------------------------------------------------
\* intern of a value that has an id.
Found(w) ==
    /\ ~EntryHeld(w)
    /\ \E p \in byValue :
        /\ WordOf(p) = w
        /\ issued' = issued \union {p}
    /\ UNCHANGED <<byValue, byId, nextId, intern, saving, table, usedUp>>

\* intern of a new value: its entry is held to the end of the call, and
\* fetch_add, which wraps, gives it an id.
TakeId(t, w) ==
    /\ intern[t] = NoIntern
    /\ ~EntryHeld(w)
    /\ \A p \in byValue : WordOf(p) # w
    /\ intern' = [intern EXCEPT ![t] = [word |-> w, id |-> nextId, at |-> "id"]]
    /\ nextId' = (nextId + 1) % IdLimit
    /\ usedUp' = (usedUp \/ nextId = LastId)
    /\ UNCHANGED <<byValue, byId, saving, table, issued>>

Interning(t, point) == intern[t] # NoIntern /\ intern[t].at = point
NewPair(t) == <<intern[t].id, intern[t].word>>

InsertId(t) ==
    /\ Interning(t, "id")
    /\ byId' = PutId(NewPair(t))
    /\ intern' = [intern EXCEPT ![t].at = "value"]
    /\ UNCHANGED <<byValue, nextId, saving, table, issued, usedUp>>

\* The entry is filled and let go of, and the id returned.
InsertValue(t) ==
    /\ Interning(t, "value")
    /\ byValue' = PutValue(NewPair(t))
    /\ issued' = issued \union {NewPair(t)}
    /\ intern' = [intern EXCEPT ![t] = NoIntern]
    /\ UNCHANGED <<byId, nextId, saving, table, usedUp>>

-----------------------------------------------------------------------------
(* save_records goes through by_id while others insert: what is in the map *)
(* all the time is seen, what comes or goes in between may be.             *)
BeginSave ==
    /\ saving = NoSave
    /\ saving' = byId
    /\ UNCHANGED <<byValue, byId, nextId, intern, table, issued, usedUp>>

EndSave ==
    /\ saving # NoSave
    /\ \E seen \in SUBSET ((byId \ saving) \union (saving \ byId)) :
        /\ table' = (saving \intersect byId) \union seen
        /\ \A p, q \in table' : p # q => IdOf(p) # IdOf(q)
    /\ saving' = NoSave
    /\ UNCHANGED <<byValue, byId, nextId, intern, issued, usedUp>>

\* Mutant: the counter goes on at the largest id.
LargestId(pairs) == Max({IdOf(p) : p \in pairs} \union {0})

\* max_id.saturating_add(1)
NextAfter(pairs) ==
    LET largest == Max({IdOf(p) : p \in pairs} \union {0})
    IN  IF largest = LastId THEN LastId ELSE largest + 1

\* No id twice and no value twice: otherwise load_records is an error.
Loads(pairs) ==
    \A p, q \in pairs : p # q => IdOf(p) # IdOf(q) /\ WordOf(p) # WordOf(q)

\* The process dies, with the calls and the save under way; the next one loads
\* the file, if there is one and it can be loaded, before it interns anything.
Restart ==
    /\ intern' = [t \in Interner |-> NoIntern]
    /\ saving' = NoSave
    /\ IF table = NoTable
       THEN byId' = {} /\ byValue' = {} /\ nextId' = 0 /\ issued' = {} /\ usedUp' = FALSE
       ELSE /\ Loads(table)
            /\ byId' = table /\ byValue' = table
            /\ nextId' = NextAfter(table)
            /\ issued' = table
            /\ usedUp' = (LastId \in {IdOf(p) : p \in table})
    /\ UNCHANGED table

InternNext ==
    \/ \E w \in Word : Found(w) \/ \E t \in Interner : TakeId(t, w)
    \/ \E t \in Interner : InsertId(t) \/ InsertValue(t)
    \/ BeginSave \/ EndSave \/ Restart

InternSpec == InternInit /\ [][InternNext]_internVars

-----------------------------------------------------------------------------
(* An id that a caller has, from intern or from a file that was loaded,     *)
(* names its value and no other, and the value has no other id, whoever     *)
(* interns or saves at the same time and however often the process starts   *)
(* again (docs/spec/picante.md:707, 715).  It holds until the last id is    *)
(* given out: the counter then wraps and reuses ids that are in use.        *)
IdsAreStable ==
    ~usedUp =>
        \A p \in issued :
            /\ p \in byId /\ p \in byValue
            /\ \A q \in byId \union byValue : IdOf(q) = IdOf(p) <=> WordOf(q) = WordOf(p)

(* A table that was saved while values were being interned can be loaded:   *)
(* no two ids of a value are in it, which would lose the whole cache        *)
(* (interned.rs:188-203), also after the counter has wrapped.               *)
SavedTableLoads == table # NoTable => Loads(table)
=============================================================================
