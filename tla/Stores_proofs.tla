---------------------------- MODULE Stores_proofs ----------------------------
(***************************************************************************)
(* Four of the stores beside the query engine, for any instance.  An        *)
(* interned table: ids are stable and a saved table loads; the argument is  *)
(* about the pairs a process knows, those in by_value and those that a      *)
(* thread is about to put there.  The collector of traces: there is no gap  *)
(* in what it recorded.  The size limit of a save: nothing that is kept     *)
(* refers to what was dropped, and one round of dropping is enough.  The    *)
(* equality of values: it says whether two values mean the same.            *)
(***************************************************************************)
EXTENDS Interned, TraceCollector, CacheLimits, ValueEq, FiniteSetTheorems,
        SequenceTheorems, WellFoundedInduction, TLAPS

-----------------------------------------------------------------------------
(* An interned table.                                                       *)

Busy(t) == intern[t] # NoIntern
Known == byValue \union {NewPair(t) : t \in {u \in Interner : Busy(u)}}

InternTypeOK ==
    /\ byValue \in SUBSET Pair
    /\ byId \in SUBSET Pair
    /\ nextId \in 0..LastId
    /\ intern \in [Interner -> NewIntern \union {NoIntern}]
    /\ saving \in (SUBSET Pair) \union {NoSave}
    /\ table \in (SUBSET Pair) \union {NoTable}
    /\ issued \in SUBSET Pair
    /\ usedUp \in BOOLEAN

\* A value that a thread is giving an id to has none, and no other thread is
\* giving it one.
OneHolder ==
    \A t \in Interner : Busy(t) =>
        /\ \A p \in byValue : WordOf(p) # intern[t].word
        /\ \A u \in Interner \ {t} : Busy(u) => intern[u].word # intern[t].word

WordsHaveOneId == \A p, q \in Known : WordOf(p) = WordOf(q) => p = q

StoredIsKnown ==
    /\ byId \subseteq Known
    /\ saving # NoSave => saving \subseteq Known
    /\ issued \subseteq byValue

\* Until the last id is given out.
IdsAreFresh ==
    ~usedUp =>
        /\ \A p \in Known : IdOf(p) < nextId
        /\ \A p, q \in Known : IdOf(p) = IdOf(q) => p = q
        /\ byValue \subseteq byId
        /\ \A t \in Interner : Interning(t, "value") => NewPair(t) \in byId

InternInv ==
    /\ InternTypeOK
    /\ OneHolder
    /\ WordsHaveOneId
    /\ StoredIsKnown
    /\ IdsAreFresh
    /\ SavedTableLoads
-----------------------------------------------------------------------------
LEMMA LastIdIsNat == LastId \in Nat /\ LastId = IdLimit - 1 /\ 0 \in 0..LastId
    BY IdsExist DEF LastId

(* What a busy thread has is a pair of an id and a value. *)
LEMMA BusyPair ==
    ASSUME InternTypeOK, NEW t \in Interner, Busy(t)
    PROVE  /\ intern[t] \in NewIntern
           /\ NewPair(t) \in Pair
           /\ IdOf(NewPair(t)) = intern[t].id
           /\ WordOf(NewPair(t)) = intern[t].word
           /\ NewPair(t) = <<intern[t].id, intern[t].word>>
    BY DEF InternTypeOK, Busy, NewIntern, NewPair, Pair, IdOf, WordOf, LastId

LEMMA KnownArePairs ==
    ASSUME InternTypeOK
    PROVE  Known \subseteq Pair
    BY BusyPair DEF Known, InternTypeOK

LEMMA PairParts ==
    ASSUME NEW p \in Pair
    PROVE  IdOf(p) \in 0..LastId /\ WordOf(p) \in Word /\ p = <<IdOf(p), WordOf(p)>>
    BY DEF Pair, IdOf, WordOf, LastId

(* A set of ids has a largest one: the least of its upper bounds is in it. *)
LEMMA LargestExists ==
    ASSUME NEW S \in SUBSET (0..LastId), S # {}
    PROVE  /\ Max(S) \in S
           /\ \A y \in S : y <= Max(S)
<1> DEFINE U == {n \in Nat : \A y \in S : y <= n}
<1>1. LastId \in U
    BY LastIdIsNat
<1>2. PICK m \in U : \A n \in U : ~(<<n, m>> \in OpToRel(<, Nat))
  <2>1. U \subseteq Nat /\ U # {}
    BY <1>1
  <2> QED  BY <2>1, NatLessThanWellFounded, WFMin
<1>3. \A n \in U : ~(n < m)
    BY <1>2 DEF OpToRel
<1>4. m \in S
  <2> SUFFICES ASSUME m \notin S PROVE FALSE
    OBVIOUS
  <2>1. \A y \in S : y \in Nat /\ y < m
    BY LastIdIsNat
  <2>2. m # 0
    <3>1. PICK y \in S : TRUE
      OBVIOUS
    <3> QED  BY <2>1, <3>1
  <2>3. m - 1 \in U
    BY <2>1, <2>2
  <2> QED  BY <1>3, <2>3
<1>5. \A y \in S : m >= y
    BY LastIdIsNat
<1>6. Max(S) \in S /\ \A y \in S : Max(S) >= y
    BY <1>4, <1>5 DEF Max
<1> QED  BY <1>6, LastIdIsNat

(* The counter of a process that has loaded a table is past the ids in it,  *)
(* unless the last id is among them.                                        *)
LEMMA NextAfterIsPast ==
    ASSUME NEW T \in SUBSET Pair
    PROVE  /\ NextAfter(T) \in 0..LastId
           /\ LastId \notin {IdOf(p) : p \in T} => \A p \in T : IdOf(p) < NextAfter(T)
<1> DEFINE ids == {IdOf(p) : p \in T} \union {0}
<1>1. ids \in SUBSET (0..LastId) /\ ids # {}
    BY PairParts, LastIdIsNat
<1>2. Max(ids) \in ids /\ \A y \in ids : y <= Max(ids)
    BY <1>1, LargestExists
<1>3. Max(ids) \in 0..LastId
    BY <1>1, <1>2
<1>4. NextAfter(T) = IF Max(ids) = LastId THEN LastId ELSE Max(ids) + 1
    BY DEF NextAfter
<1> HIDE DEF ids
<1>5. NextAfter(T) \in 0..LastId
    BY <1>3, <1>4, LastIdIsNat
<1>6. ASSUME LastId \notin {IdOf(p) : p \in T}, NEW p \in T
      PROVE  IdOf(p) < NextAfter(T)
  <2>1. IdOf(p) \in ids /\ IdOf(p) \in 0..LastId
    BY PairParts DEF ids
  <2>2. Max(ids) = LastId => LastId = 0
    BY <1>2, <1>6 DEF ids
  <2>3. Max(ids) # LastId
    BY <2>1, <2>2, <1>2, <1>6, LastIdIsNat
  <2> QED  BY <2>1, <2>3, <1>2, <1>3, <1>4, LastIdIsNat
<1> QED  BY <1>5, <1>6
-----------------------------------------------------------------------------
LEMMA InitHoldsInternInv == InternInit => InternInv
<1> SUFFICES ASSUME InternInit PROVE InternInv
    OBVIOUS
<1>1. byValue = {} /\ byId = {} /\ issued = {} /\ \A t \in Interner : intern[t] = NoIntern
    BY DEF InternInit
<1>2. Known = {}
    BY <1>1 DEF Known, Busy
<1>3. InternTypeOK
    BY LastIdIsNat DEF InternInit, InternTypeOK
<1>4. OneHolder /\ WordsHaveOneId /\ SavedTableLoads
    BY <1>1, <1>2 DEF InternInit, OneHolder, WordsHaveOneId, SavedTableLoads, Busy
<1>5. StoredIsKnown /\ IdsAreFresh
    BY <1>1, <1>2 DEF InternInit, StoredIsKnown, IdsAreFresh, Interning
<1> QED  BY <1>3, <1>4, <1>5 DEF InternInv

LEMMA FoundKeepsInternInv ==
    ASSUME InternInv, NEW w \in Word, Found(w)
    PROVE  InternInv'
<1>1. PICK p \in byValue : issued' = issued \union {p}
    BY DEF Found
<1>2. UNCHANGED <<byValue, byId, nextId, intern, saving, table, usedUp>>
    BY DEF Found
<1>3. Known' = Known
    BY <1>2 DEF Known, Busy, NewPair
<1>4. InternTypeOK'
    BY <1>1, <1>2 DEF InternInv, InternTypeOK
<1>5. StoredIsKnown'
    BY <1>1, <1>2, <1>3 DEF InternInv, StoredIsKnown
<1>6. OneHolder' /\ WordsHaveOneId' /\ IdsAreFresh' /\ SavedTableLoads'
    BY <1>2, <1>3 DEF InternInv, OneHolder, WordsHaveOneId, IdsAreFresh, SavedTableLoads,
                      Busy, Interning, NewPair
<1> QED  BY <1>4, <1>5, <1>6 DEF InternInv

(* A value without an id gets one that no known pair has, until they wrap. *)
LEMMA TakeIdKeepsInternInv ==
    ASSUME InternInv, NEW t \in Interner, NEW w \in Word, TakeId(t, w)
    PROVE  InternInv'
<1> DEFINE new == [word |-> w, id |-> nextId, at |-> "id"]
           pair == <<nextId, w>>
<1>1. /\ ~Busy(t) /\ ~EntryHeld(w)
      /\ \A p \in byValue : WordOf(p) # w
      /\ intern' = [intern EXCEPT ![t] = new]
      /\ nextId' = (nextId + 1) % IdLimit
      /\ usedUp' = (usedUp \/ nextId = LastId)
      /\ UNCHANGED <<byValue, byId, saving, table, issued>>
    BY DEF TakeId, Busy
<1>2. nextId \in 0..LastId /\ new \in NewIntern /\ new # NoIntern /\ pair \in Pair
    BY NoneIsOne DEF InternInv, InternTypeOK, NewIntern, Pair, LastId
<1>3. /\ intern'[t] = new /\ Busy(t)' /\ NewPair(t)' = pair
      /\ \A u \in Interner \ {t} : intern'[u] = intern[u]
    BY <1>1, <1>2 DEF InternInv, InternTypeOK, Busy, NewPair
<1> HIDE DEF new
<1>4. \A u \in Interner \ {t} : (Busy(u)' <=> Busy(u)) /\ NewPair(u)' = NewPair(u)
    BY <1>3 DEF Busy, NewPair
<1>5. Known' = Known \union {pair}
    BY <1>1, <1>3, <1>4 DEF Known
<1>6. \A u \in Interner : Busy(u) => intern[u].word # w
    BY <1>1 DEF EntryHeld, Busy
<1>7. \A p \in Known : WordOf(p) # w
    BY <1>1, <1>6, BusyPair DEF Known, InternInv
<1>8. WordOf(pair) = w /\ IdOf(pair) = nextId /\ new.word = w /\ new.at = "id"
    BY DEF WordOf, IdOf, new
<1>9. /\ nextId' \in 0..LastId
      /\ nextId # LastId => nextId' = nextId + 1
    BY <1>1, <1>2, IdsExist DEF LastId
<1>10. InternTypeOK'
    BY <1>1, <1>2, <1>9 DEF InternInv, InternTypeOK
<1>11. OneHolder'
    BY <1>1, <1>3, <1>4, <1>6, <1>8 DEF InternInv, OneHolder
<1>12. WordsHaveOneId'
    BY <1>5, <1>7, <1>8 DEF InternInv, WordsHaveOneId
<1>13. StoredIsKnown' /\ SavedTableLoads'
    BY <1>1, <1>5 DEF InternInv, StoredIsKnown, SavedTableLoads, Loads
<1>14. IdsAreFresh'
  <2> SUFFICES ASSUME ~usedUp' PROVE IdsAreFresh'
    BY DEF IdsAreFresh
  <2>1. ~usedUp /\ nextId' = nextId + 1
    BY <1>1, <1>9
  <2>2. \A p \in Known : IdOf(p) \in 0..LastId /\ IdOf(p) < nextId
    BY <2>1, KnownArePairs, PairParts DEF InternInv, IdsAreFresh
  <2>3. \A p \in Known' : IdOf(p) < nextId'
    BY <1>2, <1>5, <1>8, <2>1, <2>2, LastIdIsNat
  <2>4. \A p, q \in Known' : IdOf(p) = IdOf(q) => p = q
    BY <1>2, <1>5, <1>8, <2>1, <2>2, LastIdIsNat DEF InternInv, IdsAreFresh
  <2>5. byValue' \subseteq byId'
    BY <1>1, <2>1 DEF InternInv, IdsAreFresh
  <2>6. \A u \in Interner : Interning(u, "value")' => NewPair(u)' \in byId'
    BY <1>1, <1>3, <1>4, <1>8, <2>1 DEF InternInv, IdsAreFresh, Interning, Busy
  <2> QED  BY <2>3, <2>4, <2>5, <2>6 DEF IdsAreFresh
<1> QED  BY <1>10, <1>11, <1>12, <1>13, <1>14 DEF InternInv

LEMMA InsertIdKeepsInternInv ==
    ASSUME InternInv, NEW t \in Interner, InsertId(t)
    PROVE  InternInv'
<1> DEFINE new == [intern[t] EXCEPT !.at = "value"]
<1>1. /\ Interning(t, "id") /\ Busy(t)
      /\ byId' = PutId(NewPair(t))
      /\ intern' = [intern EXCEPT ![t] = new]
      /\ UNCHANGED <<byValue, nextId, saving, table, issued, usedUp>>
    BY DEF InsertId, Busy, Interning
<1>2. intern[t] \in NewIntern /\ NewPair(t) \in Pair /\ NewPair(t) \in Known
    BY <1>1, BusyPair DEF InternInv, Known
<1>3. new \in NewIntern /\ new # NoIntern /\ new.id = intern[t].id /\ new.word = intern[t].word
    BY <1>2, NoneIsOne DEF NewIntern
<1>4. intern'[t] = new /\ \A u \in Interner \ {t} : intern'[u] = intern[u]
    BY <1>1 DEF InternInv, InternTypeOK
<1> HIDE DEF new
<1>5. \A u \in Interner :
        (Busy(u)' <=> Busy(u)) /\ NewPair(u)' = NewPair(u) /\ intern'[u].word = intern[u].word
    BY <1>1, <1>3, <1>4 DEF Busy, NewPair
<1>6. Known' = Known
    BY <1>1, <1>5 DEF Known
<1>7. byId' \subseteq byId \union {NewPair(t)} /\ NewPair(t) \in byId'
    BY <1>1 DEF PutId
<1>8. InternTypeOK'
    BY <1>1, <1>2, <1>3, <1>7 DEF InternInv, InternTypeOK
<1>9. OneHolder' /\ WordsHaveOneId' /\ SavedTableLoads'
    BY <1>1, <1>5, <1>6 DEF InternInv, OneHolder, WordsHaveOneId, SavedTableLoads, Loads
<1>10. StoredIsKnown'
    BY <1>1, <1>2, <1>6, <1>7 DEF InternInv, StoredIsKnown
<1>11. IdsAreFresh'
  <2> SUFFICES ASSUME ~usedUp' PROVE IdsAreFresh'
    BY DEF IdsAreFresh
  <2>1. ~usedUp
    BY <1>1
  <2>2. \A p, q \in Known : IdOf(p) = IdOf(q) => p = q
    BY <2>1 DEF InternInv, IdsAreFresh
  <2>3. byId \subseteq byId'
    BY <1>1, <1>2, <2>2 DEF PutId, InternInv, StoredIsKnown
  <2>4. \A u \in Interner : Interning(u, "value")' => NewPair(u)' \in byId'
    BY <1>4, <1>5, <1>7, <2>1, <2>3 DEF InternInv, IdsAreFresh, Interning, Busy
  <2> QED  BY <1>1, <1>6, <2>1, <2>3, <2>4 DEF InternInv, IdsAreFresh
<1> QED  BY <1>8, <1>9, <1>10, <1>11 DEF InternInv

LEMMA InsertValueKeepsInternInv ==
    ASSUME InternInv, NEW t \in Interner, InsertValue(t)
    PROVE  InternInv'
<1> DEFINE pair == NewPair(t)
<1>1. /\ Interning(t, "value") /\ Busy(t)
      /\ byValue' = PutValue(pair)
      /\ issued' = issued \union {pair}
      /\ intern' = [intern EXCEPT ![t] = NoIntern]
      /\ UNCHANGED <<byId, nextId, saving, table, usedUp>>
    BY DEF InsertValue, Busy, Interning
<1>2. pair \in Pair /\ pair \in Known /\ WordOf(pair) = intern[t].word
    BY <1>1, BusyPair DEF InternInv, Known
<1>3. byValue' = byValue \union {pair}
    BY <1>1, <1>2 DEF PutValue, InternInv, OneHolder
<1>4. ~Busy(t)' /\ \A u \in Interner \ {t} : intern'[u] = intern[u]
    BY <1>1 DEF InternInv, InternTypeOK, Busy
<1> HIDE DEF pair
<1>5. \A u \in Interner \ {t} : (Busy(u)' <=> Busy(u)) /\ NewPair(u)' = NewPair(u)
    BY <1>4 DEF Busy, NewPair
<1>6. Known' = Known
    BY <1>1, <1>3, <1>4, <1>5 DEF Known, pair
<1>7. InternTypeOK'
    BY <1>1, <1>2, <1>3 DEF InternInv, InternTypeOK
<1>8. OneHolder'
    BY <1>1, <1>2, <1>3, <1>4, <1>5 DEF InternInv, OneHolder
<1>9. WordsHaveOneId' /\ SavedTableLoads'
    BY <1>1, <1>6 DEF InternInv, WordsHaveOneId, SavedTableLoads, Loads
<1>10. StoredIsKnown'
    BY <1>1, <1>3, <1>6 DEF InternInv, StoredIsKnown
<1>11. IdsAreFresh'
  <2> SUFFICES ASSUME ~usedUp' PROVE IdsAreFresh'
    BY DEF IdsAreFresh
  <2>1. ~usedUp /\ pair \in byId
    BY <1>1 DEF InternInv, IdsAreFresh, pair
  <2>2. \A u \in Interner : Interning(u, "value")' => NewPair(u)' \in byId'
    BY <1>1, <1>4, <1>5, <2>1 DEF InternInv, IdsAreFresh, Interning, Busy
  <2> QED  BY <1>1, <1>3, <1>6, <2>1, <2>2 DEF InternInv, IdsAreFresh
<1> QED  BY <1>7, <1>8, <1>9, <1>10, <1>11 DEF InternInv

LEMMA BeginSaveKeepsInternInv ==
    ASSUME InternInv, BeginSave
    PROVE  InternInv'
<1>1. saving' = byId /\ UNCHANGED <<byValue, byId, nextId, intern, table, issued, usedUp>>
    BY DEF BeginSave
<1>2. Known' = Known
    BY <1>1 DEF Known, Busy, NewPair
<1>3. InternTypeOK' /\ StoredIsKnown'
    BY <1>1, <1>2 DEF InternInv, InternTypeOK, StoredIsKnown
<1>4. OneHolder' /\ WordsHaveOneId' /\ IdsAreFresh' /\ SavedTableLoads'
    BY <1>1, <1>2 DEF InternInv, OneHolder, WordsHaveOneId, IdsAreFresh, SavedTableLoads,
                      Busy, Interning, NewPair, Loads
<1> QED  BY <1>3, <1>4 DEF InternInv

(* Whatever a save sees of the changes made meanwhile is known, and a known *)
(* value has one id.                                                        *)
LEMMA EndSaveKeepsInternInv ==
    ASSUME InternInv, EndSave
    PROVE  InternInv'
<1>1. /\ saving # NoSave /\ saving' = NoSave
      /\ UNCHANGED <<byValue, byId, nextId, intern, issued, usedUp>>
    BY DEF EndSave
<1>2. PICK seen \in SUBSET ((byId \ saving) \union (saving \ byId)) :
        /\ table' = (saving \intersect byId) \union seen
        /\ \A p, q \in table' : p # q => IdOf(p) # IdOf(q)
    BY DEF EndSave
<1>3. table' \subseteq Known
    BY <1>1, <1>2 DEF InternInv, StoredIsKnown
<1>4. Loads(table')
    BY <1>2, <1>3 DEF Loads, InternInv, WordsHaveOneId
<1>5. Known' = Known
    BY <1>1 DEF Known, Busy, NewPair
<1>6. InternTypeOK'
    BY <1>1, <1>3, KnownArePairs DEF InternInv, InternTypeOK
<1>7. StoredIsKnown' /\ SavedTableLoads'
    BY <1>1, <1>4, <1>5 DEF InternInv, StoredIsKnown, SavedTableLoads
<1>8. OneHolder' /\ WordsHaveOneId' /\ IdsAreFresh'
    BY <1>1, <1>5 DEF InternInv, OneHolder, WordsHaveOneId, IdsAreFresh, Busy, Interning, NewPair
<1> QED  BY <1>6, <1>7, <1>8 DEF InternInv

(* A process that starts knows what it has loaded, and nothing more. *)
LEMMA RestartKeepsInternInv ==
    ASSUME InternInv, Restart
    PROVE  InternInv'
<1>1. /\ intern' = [t \in Interner |-> NoIntern]
      /\ saving' = NoSave /\ UNCHANGED table
    BY DEF Restart
<1>2. \A t \in Interner : ~Busy(t)' /\ ~Interning(t, "value")'
    BY <1>1 DEF Busy, Interning
<1>3. Known' = byValue'
    BY <1>2 DEF Known
<1>4. OneHolder' /\ SavedTableLoads'
    BY <1>1, <1>2 DEF InternInv, OneHolder, SavedTableLoads, Loads
<1>5. CASE table = NoTable
  <2>1. byId' = {} /\ byValue' = {} /\ nextId' = 0 /\ issued' = {} /\ usedUp' = FALSE
    BY <1>5 DEF Restart
  <2>2. InternTypeOK'
    BY <1>1, <2>1, LastIdIsNat DEF InternInv, InternTypeOK
  <2>3. WordsHaveOneId' /\ StoredIsKnown' /\ IdsAreFresh'
    BY <1>1, <1>2, <1>3, <2>1 DEF WordsHaveOneId, StoredIsKnown, IdsAreFresh
  <2> QED  BY <1>4, <2>2, <2>3 DEF InternInv
<1>6. CASE table # NoTable
  <2>1. /\ Loads(table)
        /\ byId' = table /\ byValue' = table /\ issued' = table
        /\ nextId' = NextAfter(table)
        /\ usedUp' = (LastId \in {IdOf(p) : p \in table})
    BY <1>6 DEF Restart
  <2>2. table \in SUBSET Pair
    BY <1>6 DEF InternInv, InternTypeOK
  <2>3. InternTypeOK'
    BY <1>1, <2>1, <2>2, NextAfterIsPast DEF InternInv, InternTypeOK
  <2>4. WordsHaveOneId' /\ StoredIsKnown'
    BY <1>1, <1>3, <2>1 DEF WordsHaveOneId, StoredIsKnown, Loads
  <2>5. IdsAreFresh'
    BY <1>2, <1>3, <2>1, <2>2, NextAfterIsPast DEF IdsAreFresh, Loads
  <2> QED  BY <1>4, <2>3, <2>4, <2>5 DEF InternInv
<1> QED  BY <1>5, <1>6

LEMMA NextKeepsInternInv == InternInv /\ [InternNext]_internVars => InternInv'
<1> SUFFICES ASSUME InternInv, [InternNext]_internVars PROVE InternInv'
    OBVIOUS
<1>1. ASSUME NEW w \in Word, Found(w) PROVE InternInv'
    BY <1>1, FoundKeepsInternInv
<1>2. ASSUME NEW t \in Interner, NEW w \in Word, TakeId(t, w) PROVE InternInv'
    BY <1>2, TakeIdKeepsInternInv
<1>3. ASSUME NEW t \in Interner, InsertId(t) PROVE InternInv'
    BY <1>3, InsertIdKeepsInternInv
<1>4. ASSUME NEW t \in Interner, InsertValue(t) PROVE InternInv'
    BY <1>4, InsertValueKeepsInternInv
<1>5. CASE BeginSave
    BY <1>5, BeginSaveKeepsInternInv
<1>6. CASE EndSave
    BY <1>6, EndSaveKeepsInternInv
<1>7. CASE Restart
    BY <1>7, RestartKeepsInternInv
<1>8. CASE UNCHANGED internVars
  <2>1. UNCHANGED <<byValue, byId, nextId, intern, saving, table, issued, usedUp>>
    BY <1>8 DEF internVars
  <2>2. Known' = Known
    BY <2>1 DEF Known, Busy, NewPair
  <2> QED
    BY <2>1, <2>2 DEF InternInv, InternTypeOK, OneHolder, WordsHaveOneId, StoredIsKnown,
                      IdsAreFresh, SavedTableLoads, Busy, Interning, NewPair, Loads
<1> QED  BY <1>1, <1>2, <1>3, <1>4, <1>5, <1>6, <1>7, <1>8 DEF InternNext
-----------------------------------------------------------------------------
(* The table, the threads and the save under way stay as InternInv says. *)
THEOREM InternInvariance == InternSpec => []InternInv
<1> QED  BY InitHoldsInternInv, NextKeepsInternInv, PTL DEF InternSpec

(* The types of the two maps, the counter, the threads and the file. *)
THEOREM InternTypeCorrect == InternSpec => []InternTypeOK
<1>1. InternInv => InternTypeOK
    BY DEF InternInv
<1> QED  BY <1>1, InternInvariance, PTL

(* An id that was returned or loaded names its value and no other, however  *)
(* many threads intern, until the last id is given out (interned.rs:62-82). *)
THEOREM StableIds == InternSpec => []IdsAreStable
<1>1. InternInv => IdsAreStable
    BY DEF InternInv, IdsAreStable, IdsAreFresh, StoredIsKnown, WordsHaveOneId, Known
<1> QED  BY <1>1, InternInvariance, PTL

(* What a save collects while values are interned is never refused by a     *)
(* load, also after the counter has wrapped (interned.rs:188-203).          *)
THEOREM TablesLoad == InternSpec => []SavedTableLoads
<1>1. InternInv => SavedTableLoads
    BY DEF InternInv
<1> QED  BY <1>1, InternInvariance, PTL

-----------------------------------------------------------------------------
(* The collector of traces.                                                 *)

TraceTypeOK ==
    /\ sent \in Seq(EventKind) /\ Len(sent) <= MaxSent
    /\ closed \in BOOLEAN /\ ended \in BOOLEAN
    /\ read \in 0..Len(sent)
    /\ inHand \in (1..Len(sent)) \union {NoEvent}
    /\ trace \in Seq(Nat)

\* The events up to d are recorded that are to be, and no others.
RecordedTo(d) ==
    /\ \A k \in DOMAIN trace : trace[k] \in 1..d /\ sent[trace[k]] # "RevisionSet"
    /\ \A k, l \in DOMAIN trace : k < l => trace[k] < trace[l]
    /\ \A n \in 1..d : sent[n] # "RevisionSet" => n \in ToSet(trace)

\* A collector that goes on has recorded all but what it has in hand; one that
\* has ended has nothing in hand, and may be past events it has not received.
TraceInv ==
    /\ TraceTypeOK
    /\ inHand # NoEvent => inHand = read /\ sent[read] # "RevisionSet" /\ ~ended
    /\ ~ended => RecordedTo(IF inHand = NoEvent THEN read ELSE read - 1)
    /\ \E d \in 0..Len(sent) : RecordedTo(d)

LEMMA InitHoldsTraceInv == TraceInit => TraceInv
<1> SUFFICES ASSUME TraceInit PROVE TraceInv
    OBVIOUS
<1>1. TraceTypeOK
    <2>1. sent = <<>> /\ trace = <<>> /\ read = 0 /\ inHand = NoEvent /\ ~closed /\ ~ended
        BY DEF TraceInit
    <2>2. Len(<<>>) = 0 /\ <<>> \in Seq(EventKind) /\ <<>> \in Seq(Nat)
        OBVIOUS
    <2>3. sent \in Seq(EventKind) /\ trace \in Seq(Nat) /\ Len(sent) = 0
        BY <2>1, <2>2
    <2>4. closed \in BOOLEAN /\ ended \in BOOLEAN
        BY DEF TraceInit
    <2> QED BY <2>1, <2>3, <2>4, ChannelHasRoom DEF TraceTypeOK
<1>2. RecordedTo(0)
    BY DEF TraceInit, RecordedTo
<1> QED BY <1>1, <1>2 DEF TraceInv, TraceInit

(* What has been recorded is not touched by what is sent later. *)
LEMMA SendKeepsTraceInv ==
    ASSUME TraceInv, NEW kind \in EventKind, Send(kind)
    PROVE  TraceInv'
<1>1. /\ sent \in Seq(EventKind) /\ Len(sent) < MaxSent
      /\ sent' = Append(sent, kind)
      /\ UNCHANGED <<closed, read, inHand, ended, trace>>
    BY DEF Send, TraceInv, TraceTypeOK
<1>2. /\ sent' \in Seq(EventKind) /\ Len(sent') = Len(sent) + 1 /\ Len(sent) \in Nat
      /\ \A n \in 1..Len(sent) : sent'[n] = sent[n]
    BY <1>1
<1>3. TraceTypeOK'
    BY <1>1, <1>2, ChannelHasRoom DEF TraceInv, TraceTypeOK
<1>4. \A d \in 0..Len(sent) : RecordedTo(d) => RecordedTo(d)'
    BY <1>1, <1>2 DEF RecordedTo
<1>5. inHand # NoEvent => read \in 1..Len(sent)
    BY DEF TraceInv, TraceTypeOK
<1>6. read \in 0..Len(sent)
    BY DEF TraceInv, TraceTypeOK
<1>7. (inHand # NoEvent => inHand = read /\ sent[read] # "RevisionSet" /\ ~ended)'
    BY <1>1, <1>2, <1>5 DEF TraceInv
<1>8. (~ended => RecordedTo(IF inHand = NoEvent THEN read ELSE read - 1))'
    <2>1. (IF inHand = NoEvent THEN read ELSE read - 1) \in 0..Len(sent)
        BY <1>2, <1>5, <1>6
    <2> QED BY <1>1, <1>4, <2>1 DEF TraceInv
<1>9. (\E d \in 0..Len(sent) : RecordedTo(d))'
    BY <1>2, <1>4 DEF TraceInv
<1> QED BY <1>3, <1>7, <1>8, <1>9 DEF TraceInv

(* An event is received, and is in hand unless it is not to be recorded. *)
LEMMA ReceiveKeepsTraceInv ==
    ASSUME TraceInv, Receive
    PROVE  TraceInv'
<1>1. /\ ~ended /\ inHand = NoEvent
      /\ read \in 0..Len(sent) /\ Len(sent) \in Nat /\ read + 1 \in 1..Len(sent)
      /\ read' = read + 1
      /\ inHand' = IF sent[read + 1] = "RevisionSet" THEN NoEvent ELSE read + 1
      /\ UNCHANGED <<sent, closed, ended, trace>>
    BY ChannelHasRoom DEF Receive, Receiving, Behind, Skipped, TraceInv, TraceTypeOK
<1>2. inHand' # NoEvent <=> sent[read + 1] # "RevisionSet"
    BY <1>1, ChannelHasRoom DEF TraceInv, TraceTypeOK
<1>3. TraceTypeOK'
    BY <1>1 DEF TraceInv, TraceTypeOK
<1>4. RecordedTo(read)
    BY <1>1 DEF TraceInv
<1>5. CASE sent[read + 1] = "RevisionSet"
    <2>1. RecordedTo(read)'
        BY <1>1, <1>4, <1>5 DEF RecordedTo
    <2>2. read' \in 0..Len(sent')
        BY <1>1
    <2> QED BY <1>1, <1>2, <1>3, <1>5, <2>1, <2>2 DEF TraceInv
<1>6. CASE sent[read + 1] # "RevisionSet"
    <2>1. RecordedTo(read - 1)'
        <3>1. read' - 1 = read
            BY <1>1
        <3> QED BY <1>1, <1>4, <3>1 DEF RecordedTo
    <2>2. read' - 1 \in 0..Len(sent')
        BY <1>1
    <2>3. (inHand # NoEvent)' /\ inHand' = read' /\ sent'[read'] # "RevisionSet" /\ ~ended'
        BY <1>1, <1>2, <1>6
    <2> QED BY <1>3, <2>1, <2>2, <2>3 DEF TraceInv
<1> QED BY <1>5, <1>6

(* After a lag the collector has ended: what it is past then is not in the   *)
(* trace, and nothing else will be.                                         *)
LEMMA ErrorKeepsTraceInv ==
    ASSUME TraceInv, NEW e \in {"Lagged", "Closed"}, ReceiveError(e)
    PROVE  TraceInv'
<1>1. /\ ended' /\ inHand = NoEvent
      /\ read' = read \/ (Len(sent) - read > Capacity /\ read' = Len(sent) - Capacity)
      /\ UNCHANGED <<sent, closed, inHand, trace>>
    BY DEF ReceiveError, Receiving, Leaves, Behind
<1>2. ended' = TRUE
    BY DEF ReceiveError, Leaves
<1>3. TraceTypeOK'
    BY <1>1, <1>2, ChannelHasRoom DEF TraceInv, TraceTypeOK
<1>4. (\E d \in 0..Len(sent) : RecordedTo(d))'
    BY <1>1 DEF TraceInv, RecordedTo
<1> QED BY <1>1, <1>3, <1>4 DEF TraceInv

(* The event in hand is the next one that is to be recorded. *)
LEMMA RecordKeepsTraceInv ==
    ASSUME TraceInv, Record
    PROVE  TraceInv'
<1>1. /\ inHand # NoEvent /\ inHand = read /\ sent[read] # "RevisionSet" /\ ~ended
      /\ read \in 1..Len(sent) /\ Len(sent) \in Nat
      /\ trace \in Seq(Nat)
      /\ trace' = Append(trace, read) /\ inHand' = NoEvent
      /\ UNCHANGED <<sent, closed, read, ended>>
    BY DEF Record, TraceInv, TraceTypeOK
<1>2. /\ trace' \in Seq(Nat) /\ Len(trace') = Len(trace) + 1 /\ Len(trace) \in Nat
      /\ trace'[Len(trace) + 1] = read
      /\ \A k \in 1..Len(trace) : trace'[k] = trace[k]
    BY <1>1
<1>3. TraceTypeOK'
    BY <1>1, <1>2 DEF TraceInv, TraceTypeOK
<1>4. RecordedTo(read - 1)
    BY <1>1 DEF TraceInv
<1>5. RecordedTo(read)'
    <2>1. \A k \in 1..Len(trace') : trace'[k] \in 1..read /\ sent[trace'[k]] # "RevisionSet"
        BY <1>1, <1>2, <1>4 DEF RecordedTo
    <2>2. \A k, l \in 1..Len(trace') : k < l => trace'[k] < trace'[l]
        <3> SUFFICES ASSUME NEW k \in 1..Len(trace'), NEW l \in 1..Len(trace'), k < l
                     PROVE  trace'[k] < trace'[l]
            OBVIOUS
        <3>1. k \in 1..Len(trace) /\ trace'[k] = trace[k] /\ trace[k] \in 1..(read - 1)
            BY <1>1, <1>2, <1>4 DEF RecordedTo
        <3>2. CASE l = Len(trace) + 1
            BY <1>1, <1>2, <3>1, <3>2
        <3>3. CASE l # Len(trace) + 1
            <4>1. l \in 1..(Len(trace) + 1)
                BY <1>2
            <4>2. l \in 1..Len(trace)
                BY <1>2, <3>3, <4>1
            <4>3. trace'[l] = trace[l]
                BY <1>2, <4>2
            <4> QED BY <1>1, <1>4, <3>1, <4>2, <4>3 DEF RecordedTo
        <3> QED BY <3>2, <3>3
    <2>3. ASSUME NEW n \in 1..read, sent[n] # "RevisionSet"
          PROVE  \E k \in 1..Len(trace') : trace'[k] = n
        <3>1. CASE n = read
            BY <1>2, <3>1
        <3>2. CASE n # read
            <4>1. n \in 1..(read - 1)
                BY <1>1, <3>2
            <4>2. PICK k \in 1..Len(trace) : trace[k] = n
                BY <1>1, <1>4, <2>3, <4>1 DEF RecordedTo, ToSet
            <4> QED BY <1>2, <4>2
        <3> QED BY <3>1, <3>2
    <2>4. DOMAIN trace' = 1..Len(trace')
        BY <1>2
    <2> QED BY <1>1, <2>1, <2>2, <2>3, <2>4 DEF RecordedTo, ToSet
<1> QED BY <1>1, <1>3, <1>5 DEF TraceInv

LEMMA NextKeepsTraceInv == TraceInv /\ [TraceNext]_traceVars => TraceInv'
<1> SUFFICES ASSUME TraceInv, [TraceNext]_traceVars PROVE TraceInv'
    OBVIOUS
<1>1. CASE UNCHANGED traceVars
    BY <1>1 DEF traceVars, TraceInv, TraceTypeOK, RecordedTo
<1>2. CASE DropRuntime
    BY <1>2 DEF DropRuntime, TraceInv, TraceTypeOK, RecordedTo
<1>3. CASE Collect
    BY <1>3, ReceiveKeepsTraceInv, RecordKeepsTraceInv, ErrorKeepsTraceInv DEF Collect
<1>4. CASE \E kind \in EventKind : Send(kind)
    BY <1>4, SendKeepsTraceInv
<1> QED BY <1>1, <1>2, <1>3, <1>4 DEF TraceNext

LEMMA RecordedHasNoGap == TraceInv => TraceHasNoGap
<1> SUFFICES ASSUME TraceInv PROVE TraceHasNoGap
    OBVIOUS
<1>1. PICK d \in 0..Len(sent) : RecordedTo(d)
    BY DEF TraceInv
<1>2. Len(sent) \in Nat
    BY DEF TraceInv, TraceTypeOK
<1> QED BY <1>1, <1>2 DEF RecordedTo, TraceHasNoGap

(* What a collector has recorded are the first of the events that are to be  *)
(* recorded, in their order, for any capacity of the channel and any timing  *)
(* of sender and collector: a lag ends it (debug.rs:373-437).               *)
THEOREM TracesHaveNoGap == TraceSpec => []TraceHasNoGap
    BY InitHoldsTraceInv, NextKeepsTraceInv, RecordedHasNoGap, PTL DEF TraceSpec

-----------------------------------------------------------------------------
(* The size limit of a save.                                                *)

OnlyBytes == options.recordBytes = NoLimit /\ options.perSection = NoLimit

\* What is left was collected; and when something is left of a class, all that
\* was collected of the classes that are dropped after it.
KeepInv ==
    /\ collected \in Saved
    /\ OnlyBytes =>
        /\ cache \in [Section -> Seq(FileRecord)]
        /\ \A s \in Section : ToSet(cache[s]) \subseteq ToSet(collected[s])
        /\ \A s, u \in Section :
            cache[s] # <<>> /\ <<SectionType[s], SectionType[u]>> \in LaterClasses
                => ToSet(cache[u]) = ToSet(collected[u])

LEMMA InitHoldsKeepInv == LimitsInit => KeepInv
    BY SavedAreRecords DEF LimitsInit, KeepInv

(* Sorting keeps the records of a section. *)
LEMMA SortingKeepsRecords ==
    ASSUME NEW records \in Seq(FileRecord), NEW sorted \in SortedByLength(records)
    PROVE  /\ sorted \in Seq(FileRecord)
           /\ ToSet(sorted) = ToSet(records)
           /\ sorted = <<>> <=> records = <<>>
<1>1. PICK p \in Bijection(DOMAIN records, DOMAIN records) :
        sorted = [k \in DOMAIN records |-> records[p[k]]]
    BY DEF SortedByLength
<1>2. /\ DOMAIN records = 1..Len(records) /\ Len(records) \in Nat
      /\ records \in [1..Len(records) -> FileRecord]
    OBVIOUS
<1>3. /\ p \in [1..Len(records) -> 1..Len(records)]
      /\ \A l \in 1..Len(records) : \E k \in 1..Len(records) : p[k] = l
    BY <1>1, <1>2 DEF Bijection, Surjection
<1>4. sorted \in [1..Len(records) -> FileRecord]
    BY <1>1, <1>2, <1>3
<1>5. sorted \in Seq(FileRecord) /\ Len(sorted) = Len(records)
    BY <1>2, <1>4
<1>6. ToSet(sorted) = ToSet(records)
    BY <1>1, <1>2, <1>3, <1>4 DEF ToSet
<1>7. sorted = <<>> <=> records = <<>>
    BY <1>5
<1> QED BY <1>5, <1>6, <1>7

LEMMA MeasureKeepsKeepInv ==
    ASSUME KeepInv, Measure
    PROVE  KeepInv'
<1>0. CASE ~OnlyBytes
    BY <1>0 DEF Measure, KeepInv, OnlyBytes
<1>1. cache' = cache \/ cache' \in SortedSections
    BY DEF Measure
<1>2. UNCHANGED <<options, collected>>
    BY DEF Measure
<1>3. CASE cache' = cache
    BY <1>2, <1>3 DEF KeepInv, OnlyBytes
<1>4. CASE cache' \in SortedSections /\ OnlyBytes
    <2>1. \A s \in Section : cache[s] \in Seq(FileRecord) /\ cache'[s] \in SortedByLength(cache[s])
        BY <1>4 DEF KeepInv, SortedSections
    <2>2. \A s \in Section :
            /\ cache'[s] \in Seq(FileRecord) /\ ToSet(cache'[s]) = ToSet(cache[s])
            /\ cache'[s] = <<>> <=> cache[s] = <<>>
        BY <2>1, SortingKeepsRecords
    <2>3. cache' \in [Section -> UNION {SortedByLength(cache[s]) : s \in Section}]
        BY <1>4 DEF SortedSections
    <2>4. cache' = [s \in Section |-> cache'[s]]
        BY <2>3
    <2>5. cache' \in [Section -> Seq(FileRecord)]
        BY <2>2, <2>4
    <2> QED BY <1>2, <2>2, <2>5 DEF KeepInv, OnlyBytes
<1> QED BY <1>0, <1>1, <1>3, <1>4

(* The other two options leave the records alone when they are not set. *)
LEMMA OptionsKeepKeepInv ==
    ASSUME KeepInv, RetainSmall \/ TruncateSections
    PROVE  KeepInv'
<1>1. UNCHANGED <<options, collected>> /\ (OnlyBytes => cache' = cache)
    BY DEF RetainSmall, TruncateSections, OnlyBytes
<1> QED BY <1>1 DEF KeepInv, OnlyBytes

(* A sequence without its last element. *)
LEMMA FrontLosesTheLast ==
    ASSUME NEW S, NEW records \in Seq(S), records # <<>>
    PROVE  /\ Front(records) \in Seq(S) /\ ToSet(Front(records)) \subseteq ToSet(records)
           /\ Len(Front(records)) = Len(records) - 1
           /\ \A k \in 1..(Len(records) - 1) : Front(records)[k] = records[k]
<1>1. PICK n \in Nat : Len(records) = n + 1
    <2>1. Len(records) \in Nat /\ Len(records) # 0
        OBVIOUS
    <2>2. Len(records) - 1 \in Nat /\ Len(records) = (Len(records) - 1) + 1
        BY <2>1
    <2> QED BY <2>2
<1>2. Front(records) = SubSeq(records, 1, n)
    BY <1>1 DEF Front
<1>3. n \in Int /\ \A k \in 1..n : records[k] \in S
    BY <1>1
<1>4. /\ SubSeq(records, 1, n) \in Seq(S)
      /\ Len(SubSeq(records, 1, n)) = IF 1 <= n THEN n - 1 + 1 ELSE 0
      /\ \A k \in 1..(n - 1 + 1) : SubSeq(records, 1, n)[k] = records[1 + k - 1]
    BY <1>3, SubSeqProperties
<1>5. n - 1 + 1 = n /\ (~(1 <= n) => n = 0) /\ \A k \in Int : 1 + k - 1 = k
    OBVIOUS
<1>6. /\ Front(records) \in Seq(S) /\ Len(Front(records)) = n
      /\ \A k \in 1..n : Front(records)[k] = records[k]
    BY <1>2, <1>4, <1>5
<1>7. DOMAIN Front(records) = 1..n /\ DOMAIN records = 1..(n + 1)
    BY <1>1, <1>6
<1>8. ToSet(Front(records)) \subseteq ToSet(records)
    BY <1>6, <1>7 DEF ToSet
<1>9. Len(records) - 1 = n
    BY <1>1
<1> QED BY <1>6, <1>8, <1>9

(* A record is dropped from a class before which all are empty. *)
LEMMA DropKeepsKeepInv ==
    ASSUME KeepInv, DropOne
    PROVE  KeepInv'
<1>1. PICK n \in DOMAIN DropOrder :
        /\ \A m \in 1..(n - 1) : OfType(DropOrder[m]) = {}
        /\ \E s \in OfType(DropOrder[n]) : cache' = [cache EXCEPT ![s] = Front(cache[s])]
    BY DEF DropOne
<1>2. PICK s \in OfType(DropOrder[n]) : cache' = [cache EXCEPT ![s] = Front(cache[s])]
    BY <1>1
<1>3. UNCHANGED <<options, collected>>
    BY DEF DropOne
<1>4. CASE ~OnlyBytes
    BY <1>3, <1>4 DEF KeepInv, OnlyBytes
<1>5. CASE OnlyBytes
    <2>1. cache \in [Section -> Seq(FileRecord)]
        BY <1>5 DEF KeepInv
    <2>2. s \in Section /\ SectionType[s] = DropOrder[n] /\ cache[s] # <<>>
        BY <1>2 DEF OfType
    <2>3. Front(cache[s]) \in Seq(FileRecord) /\ ToSet(Front(cache[s])) \subseteq ToSet(cache[s])
        BY <2>1, <2>2, FrontLosesTheLast
    <2>4. /\ cache' \in [Section -> Seq(FileRecord)]
          /\ cache'[s] = Front(cache[s])
          /\ \A u \in Section \ {s} : cache'[u] = cache[u]
        BY <1>2, <2>1, <2>2, <2>3
    <2>5. \A u \in Section : ToSet(cache'[u]) \subseteq ToSet(collected'[u])
        BY <1>3, <1>5, <2>3, <2>4 DEF KeepInv
    <2>6. \A a \in Section : <<SectionType[a], SectionType[s]>> \in LaterClasses => cache[a] = <<>>
        <3> SUFFICES ASSUME NEW a \in Section, cache[a] # <<>>,
                            <<SectionType[a], SectionType[s]>> \in LaterClasses
                     PROVE  FALSE
            OBVIOUS
        <3>1. n \in 1..3 /\ DropOrder[1] = "Derived" /\ DropOrder[2] = "Input"
              /\ DropOrder[3] = "Interned"
            BY DEF DropOrder
        <3>2. \E m \in 1..(n - 1) : SectionType[a] = DropOrder[m]
            <4>1. CASE n = 1
                BY <2>2, <3>1, <4>1 DEF LaterClasses
            <4>2. CASE n = 2
                BY <2>2, <3>1, <4>2 DEF LaterClasses
            <4>3. CASE n = 3
                BY <2>2, <3>1, <4>3 DEF LaterClasses
            <4> QED BY <3>1, <4>1, <4>2, <4>3
        <3> QED BY <1>1, <3>2 DEF OfType
    <2>7. ASSUME NEW a \in Section, NEW u \in Section, cache'[a] # <<>>,
                 <<SectionType[a], SectionType[u]>> \in LaterClasses
          PROVE  ToSet(cache'[u]) = ToSet(collected'[u])
        <3>1. a # s => cache[a] # <<>>
            BY <2>4, <2>7
        <3>2. cache[a] # <<>>
            BY <2>2, <3>1
        <3>3. u # s
            BY <2>6, <2>7, <3>2
        <3> QED BY <1>3, <1>5, <2>4, <2>7, <3>2, <3>3 DEF KeepInv
    <2> QED BY <1>3, <2>4, <2>5, <2>7 DEF KeepInv
<1> QED BY <1>4, <1>5

LEMMA NextKeepsKeepInv == KeepInv /\ [LimitsNext]_limitVars => KeepInv'
<1> SUFFICES ASSUME KeepInv, [LimitsNext]_limitVars PROVE KeepInv'
    OBVIOUS
<1>1. CASE UNCHANGED limitVars
    BY <1>1 DEF limitVars, KeepInv, OnlyBytes
<1>2. CASE Verify
    BY <1>2 DEF Verify, KeepInv, OnlyBytes
<1> QED BY <1>1, <1>2, MeasureKeepsKeepInv, OptionsKeepKeepInv, DropKeepsKeepInv DEF LimitsNext

LEMMA KeptDoesNotDangle == KeepInv => NothingDangles
<1> SUFFICES ASSUME KeepInv, OnlyBytes, NEW n \in Names(cache),
                    NEW m \in Refers[n] \intersect Names(collected)
             PROVE  m \in Names(cache)
    BY DEF NothingDangles, OnlyBytes
<1>1. PICK s \in Section : \E r \in ToSet(cache[s]) : r.name = n
    BY DEF Names
<1>2. PICK u \in Section : \E q \in ToSet(collected[u]) : q.name = m
    BY DEF Names
<1>3. PICK r \in ToSet(cache[s]) : r.name = n
    BY <1>1
<1>4. PICK q \in ToSet(collected[u]) : q.name = m
    BY <1>2
<1>5. r \in ToSet(collected[s]) /\ cache[s] # <<>>
    <2>1. r \in ToSet(collected[s])
        BY DEF KeepInv
    <2>2. ToSet(<<>>) = {}
        BY DEF ToSet
    <2> QED BY <2>1, <2>2
<1>6. <<SectionType[s], SectionType[u]>> \in LaterClasses
    BY <1>3, <1>4, <1>5, RefersToLaterClasses DEF KeepInv
<1>7. q \in ToSet(cache[u])
    BY <1>5, <1>6 DEF KeepInv
<1> QED BY <1>4, <1>7 DEF Names

(* A file that was made small by max_bytes alone has with each record those  *)
(* it refers to, whatever the records, their lengths and the limit: the      *)
(* classes are dropped in the order in which they refer to one another       *)
(* (persist.rs:505-512).                                                    *)
THEOREM NothingKeptDangles == LimitsSpec => []NothingDangles
    BY InitHoldsKeepInv, NextKeepsKeepInv, KeptDoesNotDangle, PTL DEF LimitsSpec

-----------------------------------------------------------------------------
(* The budget of a save.                                                    *)

\* The contents of a file, its lengths within the bound.
Sized(c) == c \in [Section -> Seq(FileRecord)] /\ \A s \in Section : Len(c[s]) <= MaxLength

\* From the sort on, the budget and what the file takes besides the records are
\* within the limit.
FitInv ==
    /\ Sized(cache)
    /\ options.bytes \in Limit \union {NoLimit} /\ options.perSection \in Limit \union {NoLimit}
    /\ step = "drop" =>
        /\ options.bytes \in Nat /\ budget \in Int
        /\ budget + FileBytes + Cardinality(Lengths(cache)) <= options.bytes

(* Finitely many triples. *)
LEMMA TriplesAreFinite ==
    ASSUME NEW A, NEW B, NEW C, IsFiniteSet(A), IsFiniteSet(B), IsFiniteSet(C)
    PROVE  IsFiniteSet(A \X B \X C)
<1> DEFINE P == (A \X B) \X C
           f == [x \in P |-> <<x[1][1], x[1][2], x[2]>>]
<1>1. IsFiniteSet(A \X B)
    BY FS_Product
<1>2. IsFiniteSet(P)
    BY <1>1, FS_Product
<1>3. f \in [P -> A \X B \X C]
    OBVIOUS
<1>4. ASSUME NEW y \in A \X B \X C PROVE \E x \in P : f[x] = y
    <2>1. y = <<y[1], y[2], y[3]>> /\ <<<<y[1], y[2]>>, y[3]>> \in P
        OBVIOUS
    <2>2. f[<<<<y[1], y[2]>>, y[3]>>] = y
        BY <2>1
    <2> QED BY <2>1, <2>2
<1>5. f \in Surjection(P, A \X B \X C)
    BY <1>3, <1>4 DEF Surjection
<1> HIDE DEF f, P
<1> QED BY <1>2, <1>5, FS_Surjection

(* What a file takes is a number, and so is what its records take of it. *)
LEMMA BytesAreCounted ==
    ASSUME NEW c
    PROVE  /\ IsFiniteSet(Lengths(c)) /\ Cardinality(Lengths(c)) \in Nat
           /\ RecordTotal(c) \in Nat
           /\ Overhead(c) = FileBytes + Cardinality(Lengths(c))
<1>1. 0 \in 0..MaxLength /\ MaxLength \in 0..MaxLength /\ LengthBytes[MaxLength] \in Int /\ MaxLength \in Int
    BY LengthsAreEncoded
<1>2. /\ IsFiniteSet(0..MaxLength) /\ IsFiniteSet(1..MaxLength)
      /\ IsFiniteSet(1..LengthBytes[MaxLength])
    BY <1>1, FS_Interval
<1>4. /\ IsFiniteSet(Section \X (0..MaxLength) \X (1..LengthBytes[MaxLength]))
      /\ IsFiniteSet(Section \X (1..MaxLength) \X (1..MaxLength))
    BY <1>2, SectionsAreFinite, TriplesAreFinite
<1>5. IsFiniteSet(Lengths(c)) /\ IsFiniteSet(RecordContents(c))
    BY <1>4, FS_Subset DEF Lengths, RecordContents
<1>6. Cardinality(Lengths(c)) \in Nat /\ Cardinality(RecordContents(c)) \in Nat
    BY <1>5, FS_CardinalityType
<1> HIDE DEF Lengths, RecordContents
<1> QED BY <1>5, <1>6, LengthsAreEncoded DEF Overhead, Encoded, RecordTotal

\* What is at place k of sorted was at place p[k].
Permutes(records, sorted, p) ==
    /\ p \in [1..Len(records) -> 1..Len(records)]
    /\ \A k, l \in 1..Len(records) : p[k] = p[l] => k = l
    /\ sorted = [k \in 1..Len(records) |-> records[p[k]]]

(* A file whose records are those of another in a different order has no     *)
(* more bytes of lengths.                                                   *)
LEMMA SortingKeepsLengths ==
    ASSUME NEW c, NEW d, Sized(c), d \in [Section -> Seq(FileRecord)],
           \A s \in Section : d[s] \in SortedByLength(c[s])
    PROVE  Sized(d) /\ Cardinality(Lengths(d)) <= Cardinality(Lengths(c))
<1> DEFINE P == [s \in Section |-> CHOOSE p : Permutes(c[s], d[s], p)]
           Move(b) == <<b[1], IF b[2] = 0 THEN 0 ELSE P[b[1]][b[2]], b[3]>>
           f == [b \in Lengths(d) |-> Move(b)]
<1>1. \A s \in Section : c[s] \in Seq(FileRecord) /\ d[s] \in Seq(FileRecord)
                         /\ Len(c[s]) \in 0..MaxLength /\ DOMAIN c[s] = 1..Len(c[s])
    BY DEF Sized
<1>2. ASSUME NEW s \in Section PROVE Permutes(c[s], d[s], P[s])
    <2>1. PICK p \in Bijection(DOMAIN c[s], DOMAIN c[s]) : d[s] = [k \in DOMAIN c[s] |-> c[s][p[k]]]
        BY DEF SortedByLength
    <2>2. p \in [1..Len(c[s]) -> 1..Len(c[s])]
        BY <1>1, <2>1 DEF Bijection, Injection
    <2>3. DOMAIN p = 1..Len(c[s]) /\ \A k, l \in DOMAIN p : p[k] = p[l] => k = l
        BY <2>1, <2>2 DEF Bijection, Injection, IsInjective
    <2>4. Permutes(c[s], d[s], p)
        BY <1>1, <2>1, <2>2, <2>3 DEF Permutes
    <2> QED BY <2>4
<1> HIDE DEF P
<1>3. \A s \in Section : Len(d[s]) = Len(c[s])
    BY <1>1, <1>2 DEF Permutes
<1>4. Sized(d)
    BY <1>3 DEF Sized
<1>5. \A s \in Section : \A k \in 1..Len(c[s]) :
        P[s][k] \in 1..Len(c[s]) /\ d[s][k] = c[s][P[s][k]]
    BY <1>2 DEF Permutes
<1>6. \A s \in Section : \A k, l \in 1..Len(c[s]) : P[s][k] = P[s][l] => k = l
    BY <1>2 DEF Permutes
<1>7. ASSUME NEW b \in Lengths(d) PROVE Move(b) \in Lengths(c)
    <2>1. /\ b[1] \in Section /\ b[2] \in 0..MaxLength /\ b[3] \in 1..LengthBytes[MaxLength]
          /\ b[2] <= Len(c[b[1]]) /\ b[3] <= LengthBytes[LengthAt(d, b[1], b[2])]
        BY <1>3 DEF Lengths
    <2>2. CASE b[2] = 0
        BY <1>3, <2>1, <2>2 DEF Lengths, LengthAt
    <2>3. CASE b[2] # 0
        <3>1. b[2] \in 1..Len(c[b[1]])
            BY <1>1, <2>1, <2>3
        <3>2. /\ P[b[1]][b[2]] \in 1..Len(c[b[1]])
              /\ d[b[1]][b[2]] = c[b[1]][P[b[1]][b[2]]]
            BY <1>5, <2>1, <3>1
        <3>3. P[b[1]][b[2]] \in 0..MaxLength /\ P[b[1]][b[2]] # 0 /\ P[b[1]][b[2]] <= Len(c[b[1]])
            <4>1. Len(c[b[1]]) \in 0..MaxLength /\ MaxLength \in Nat
                BY <1>1, <2>1, LengthsAreEncoded
            <4> QED BY <3>2, <4>1
        <3>4. LengthAt(d, b[1], b[2]) = LengthAt(c, b[1], P[b[1]][b[2]])
            BY <2>3, <3>2, <3>3 DEF LengthAt
        <3>5. Move(b) = <<b[1], P[b[1]][b[2]], b[3]>>
            BY <2>3
        <3> QED BY <2>1, <3>3, <3>4, <3>5 DEF Lengths
    <2> QED BY <2>2, <2>3
<1>8. ASSUME NEW a \in Lengths(d), NEW b \in Lengths(d), Move(a) = Move(b)
      PROVE  a = b
    <2>1. /\ a = <<a[1], a[2], a[3]>> /\ b = <<b[1], b[2], b[3]>>
          /\ a[1] \in Section /\ b[1] \in Section
          /\ a[2] \in 0..Len(c[a[1]]) /\ b[2] \in 0..Len(c[b[1]])
        BY <1>1, <1>3 DEF Lengths
    <2>2. /\ a[1] = b[1] /\ a[3] = b[3]
          /\ (IF a[2] = 0 THEN 0 ELSE P[a[1]][a[2]]) = (IF b[2] = 0 THEN 0 ELSE P[b[1]][b[2]])
        BY <1>8
    <2>3. a[2] = b[2]
        BY <1>1, <1>5, <1>6, <2>1, <2>2
    <2> QED BY <2>1, <2>2, <2>3
<1>9. f \in Injection(Lengths(d), Lengths(c))
    BY <1>7, <1>8 DEF Injection, IsInjective
<1> HIDE DEF f
<1> QED BY <1>4, <1>9, BytesAreCounted, FS_Injection

(* A file that lost the last record of a section has no more bytes of lengths. *)
LEMMA DroppingKeepsLengths ==
    ASSUME NEW c, NEW d, Sized(c), NEW s \in Section, c[s] # <<>>,
           d = [c EXCEPT ![s] = Front(c[s])]
    PROVE  Sized(d) /\ Cardinality(Lengths(d)) <= Cardinality(Lengths(c))
<1>1. /\ c \in [Section -> Seq(FileRecord)] /\ c[s] \in Seq(FileRecord)
      /\ \A u \in Section : Len(c[u]) \in 0..MaxLength /\ c[u] \in Seq(FileRecord)
    BY DEF Sized
<1>2. /\ Front(c[s]) \in Seq(FileRecord) /\ Len(Front(c[s])) = Len(c[s]) - 1
      /\ \A k \in 1..(Len(c[s]) - 1) : Front(c[s])[k] = c[s][k]
    BY <1>1, FrontLosesTheLast
<1>3. /\ d \in [Section -> Seq(FileRecord)] /\ d[s] = Front(c[s])
      /\ \A u \in Section \ {s} : d[u] = c[u]
    BY <1>1, <1>2
<1>4. Len(c[s]) \in Nat /\ Len(c[s]) # 0
    BY <1>1
<1>5. \A u \in Section : Len(d[u]) \in 0..Len(c[u]) /\ \A k \in 1..Len(d[u]) : d[u][k] = c[u][k]
    BY <1>1, <1>2, <1>3, <1>4
<1>6. Sized(d)
    BY <1>1, <1>3, <1>5, LengthsAreEncoded DEF Sized
<1>7. ASSUME NEW b \in Lengths(d) PROVE b \in Lengths(c)
    <2>1. /\ b \in Section \X (0..MaxLength) \X (1..LengthBytes[MaxLength])
          /\ b[1] \in Section /\ b[2] \in 0..MaxLength /\ b[3] \in Int
          /\ b[2] <= Len(d[b[1]]) /\ b[3] <= LengthBytes[LengthAt(d, b[1], b[2])]
        BY LengthsAreEncoded DEF Lengths
    <2>2. b[2] <= Len(c[b[1]])
        BY <1>1, <1>5, <2>1
    <2>3. /\ LengthAt(d, b[1], b[2]) \in 0..MaxLength /\ LengthAt(c, b[1], b[2]) \in 0..MaxLength
          /\ LengthAt(d, b[1], b[2]) <= LengthAt(c, b[1], b[2])
        <3>1. CASE b[2] = 0
            BY <1>1, <1>5, <2>1, <3>1, LengthsAreEncoded DEF LengthAt
        <3>2. CASE b[2] # 0
            <4>1. b[2] \in 1..Len(d[b[1]]) /\ b[2] \in 1..Len(c[b[1]])
                BY <1>1, <1>5, <2>1, <2>2, <3>2
            <4>2. LengthAt(d, b[1], b[2]) = LengthAt(c, b[1], b[2])
                BY <1>5, <2>1, <3>2, <4>1 DEF LengthAt
            <4>3. c[b[1]][b[2]] \in FileRecord
                BY <1>1, <2>1, <4>1
            <4>4. LengthAt(c, b[1], b[2]) \in 0..MaxLength
                BY <3>2, <4>3 DEF LengthAt, FileRecord
            <4> QED BY <4>2, <4>4, LengthsAreEncoded
        <3> QED BY <3>1, <3>2
    <2>4. /\ LengthBytes[LengthAt(d, b[1], b[2])] <= LengthBytes[LengthAt(c, b[1], b[2])]
          /\ LengthBytes[LengthAt(d, b[1], b[2])] \in Nat /\ LengthBytes[LengthAt(c, b[1], b[2])] \in Nat
        BY <2>3, LengthsAreEncoded
    <2>5. b[3] <= LengthBytes[LengthAt(c, b[1], b[2])]
        BY <2>1, <2>4
    <2> QED BY <2>1, <2>2, <2>5 DEF Lengths
<1>8. Cardinality(Lengths(d)) <= Cardinality(Lengths(c))
    BY <1>7, BytesAreCounted, FS_Subset
<1> QED BY <1>6, <1>8

(* What the options leave of a section, or a sort makes of it. *)
LEMMA RetainingKeepsSizes ==
    ASSUME NEW records \in Seq(FileRecord), Len(records) <= MaxLength,
           NEW kept \in Retained(records)
    PROVE  kept \in Seq(FileRecord) /\ Len(kept) <= MaxLength
<1> DEFINE K == SmallAt(records)
<1>1. K \subseteq 1..Len(records) /\ Len(records) \in Nat
    BY DEF SmallAt
<1>2. IsFiniteSet(1..Len(records)) /\ Cardinality(1..Len(records)) = Len(records)
    <2>1. PICK n \in Nat : n = Len(records)
        BY <1>1
    <2>2. IsFiniteSet(1..n) /\ Cardinality(1..n) = IF 1 > n THEN 0 ELSE n - 1 + 1
        BY FS_Interval
    <2> QED BY <2>1, <2>2
<1>3. Cardinality(K) \in Nat /\ Cardinality(K) <= Len(records)
    BY <1>1, <1>2, FS_Subset, FS_CardinalityType
<1>4. PICK e \in [1..Cardinality(K) -> K] : kept = [k \in DOMAIN e |-> records[e[k]]]
    BY DEF Retained, InOrder
<1> HIDE DEF K
<1>5. kept \in [1..Cardinality(K) -> FileRecord]
    <2>1. \A k \in 1..Len(records) : records[k] \in FileRecord
        OBVIOUS
    <2>2. \A k \in 1..Cardinality(K) : e[k] \in K
        OBVIOUS
    <2>3. \A k \in 1..Cardinality(K) : records[e[k]] \in FileRecord
        BY <1>1, <2>1, <2>2
    <2>4. kept = [k \in 1..Cardinality(K) |-> records[e[k]]]
        BY <1>4
    <2> QED BY <2>3, <2>4
<1>6. kept \in Seq(FileRecord) /\ Len(kept) = Cardinality(K)
    BY <1>3, <1>5
<1> QED BY <1>1, <1>3, <1>6, LengthsAreEncoded

LEMMA InitHoldsFitInv == LimitsInit => FitInv
    BY SavedAreRecords DEF LimitsInit, FitInv, Sized

LEMMA RetainKeepsFitInv ==
    ASSUME FitInv, RetainSmall
    PROVE  FitInv'
<1>1. step' = "truncate" /\ UNCHANGED options
    BY DEF RetainSmall
<1>2. Sized(cache)'
    <2>1. CASE cache' = cache
        BY <2>1 DEF FitInv, Sized
    <2>2. CASE /\ cache' \in [Section -> UNION {Retained(cache[s]) : s \in Section}]
               /\ \A s \in Section : cache'[s] \in Retained(cache[s])
        <3>1. \A s \in Section : cache'[s] \in Seq(FileRecord) /\ Len(cache'[s]) <= MaxLength
            BY <2>2, RetainingKeepsSizes DEF FitInv, Sized
        <3>2. cache' = [s \in Section |-> cache'[s]]
            BY <2>2
        <3>3. cache' \in [Section -> Seq(FileRecord)]
            BY <3>1, <3>2
        <3> QED BY <3>1, <3>3 DEF Sized
    <2> QED BY <2>1, <2>2 DEF RetainSmall
<1> QED BY <1>1, <1>2 DEF FitInv

LEMMA TruncateKeepsFitInv ==
    ASSUME FitInv, TruncateSections
    PROVE  FitInv'
<1>1. step' = "measure" /\ UNCHANGED options
    BY DEF TruncateSections
<1>2. Sized(cache)'
    <2>1. CASE cache' = cache
        BY <2>1 DEF FitInv, Sized
    <2>2. CASE options.perSection # NoLimit
        <3>1. options.perSection \in Nat
            BY <2>2, NoLimitIsNone DEF FitInv
        <3>2. ASSUME NEW s \in Section
              PROVE  cache'[s] \in Seq(FileRecord) /\ Len(cache'[s]) <= MaxLength
            <4>1. cache[s] \in Seq(FileRecord) /\ Len(cache[s]) \in Nat /\ Len(cache[s]) <= MaxLength
                BY DEF FitInv, Sized
            <4>2. cache'[s] = IF Len(cache[s]) <= options.perSection THEN cache[s]
                              ELSE SubSeq(cache[s], 1, options.perSection)
                BY <2>2 DEF TruncateSections
            <4>3. CASE Len(cache[s]) > options.perSection
                <5>1. \A k \in 1..options.perSection : cache[s][k] \in FileRecord
                    BY <3>1, <4>1, <4>3
                <5>2. /\ SubSeq(cache[s], 1, options.perSection) \in Seq(FileRecord)
                      /\ Len(SubSeq(cache[s], 1, options.perSection))
                            = IF 1 <= options.perSection THEN options.perSection - 1 + 1 ELSE 0
                    BY <3>1, <5>1, SubSeqProperties
                <5>3. Len(SubSeq(cache[s], 1, options.perSection)) = options.perSection
                    BY <3>1, <5>2
                <5> QED BY <3>1, <4>1, <4>2, <4>3, <5>2, <5>3, LengthsAreEncoded
            <4> QED BY <3>1, <4>1, <4>2, <4>3
        <3>3. cache' = [s \in Section |-> cache'[s]]
            BY <2>2 DEF TruncateSections
        <3>4. cache' \in [Section -> Seq(FileRecord)]
            BY <3>2, <3>3
        <3> QED BY <3>2, <3>4 DEF Sized
    <2> QED BY <2>1, <2>2 DEF TruncateSections
<1> QED BY <1>1, <1>2 DEF FitInv

LEMMA MeasureKeepsFitInv ==
    ASSUME FitInv, Measure
    PROVE  FitInv'
<1>1. UNCHANGED options
    BY DEF Measure
<1>2. CASE UNCHANGED <<cache, budget>> /\ step' # "drop"
    BY <1>1, <1>2 DEF FitInv, Sized
<1>3. CASE /\ options.bytes # NoLimit /\ step' = "drop"
           /\ budget' = options.bytes - Overhead(cache) /\ cache' \in SortedSections
    <2>1. options.bytes \in Nat
        BY <1>3, NoLimitIsNone DEF FitInv
    <2>2. Sized(cache) /\ \A s \in Section : cache[s] \in Seq(FileRecord)
        BY DEF FitInv, Sized
    <2>3. \A s \in Section : cache'[s] \in SortedByLength(cache[s])
        BY <1>3 DEF SortedSections
    <2>4. cache' \in [Section -> Seq(FileRecord)]
        <3>1. \A s \in Section : cache'[s] \in Seq(FileRecord)
            BY <2>2, <2>3, SortingKeepsRecords
        <3>2. cache' = [s \in Section |-> cache'[s]]
            BY <1>3 DEF SortedSections
        <3> QED BY <3>1, <3>2
    <2>5. Sized(cache') /\ Cardinality(Lengths(cache')) <= Cardinality(Lengths(cache))
        BY <2>2, <2>3, <2>4, SortingKeepsLengths
    <2>6. /\ Overhead(cache) = FileBytes + Cardinality(Lengths(cache))
          /\ Cardinality(Lengths(cache)) \in Nat /\ Cardinality(Lengths(cache')) \in Nat
        BY BytesAreCounted
    <2>7. budget' \in Int /\ budget' + FileBytes + Cardinality(Lengths(cache')) <= options.bytes
        BY <1>3, <2>1, <2>5, <2>6, LengthsAreEncoded
    <2> QED BY <1>1, <2>1, <2>5, <2>7 DEF FitInv, Sized, Lengths, LengthAt
<1> QED BY <1>2, <1>3 DEF Measure

LEMMA DropKeepsFitInv ==
    ASSUME FitInv, DropOne
    PROVE  FitInv'
<1>1. PICK n \in DOMAIN DropOrder : \E s \in OfType(DropOrder[n]) : cache' = [cache EXCEPT ![s] = Front(cache[s])]
    BY DEF DropOne
<1>2. PICK s \in OfType(DropOrder[n]) : cache' = [cache EXCEPT ![s] = Front(cache[s])]
    BY <1>1
<1>3. s \in Section /\ cache[s] # <<>> /\ Sized(cache)
    BY DEF OfType, FitInv
<1>4. Sized(cache') /\ Cardinality(Lengths(cache')) <= Cardinality(Lengths(cache))
    BY <1>2, <1>3, DroppingKeepsLengths
<1>5. Cardinality(Lengths(cache)) \in Nat /\ Cardinality(Lengths(cache')) \in Nat
    BY BytesAreCounted
<1>6. step = "drop" /\ UNCHANGED <<options, budget, step>>
    BY DEF DropOne
<1>7. budget' + FileBytes + Cardinality(Lengths(cache')) <= options.bytes
    BY <1>4, <1>5, <1>6, LengthsAreEncoded DEF FitInv
<1> QED BY <1>4, <1>6, <1>7 DEF FitInv, Sized, Lengths, LengthAt

LEMMA VerifyKeepsFitInv ==
    ASSUME FitInv, Verify
    PROVE  FitInv'
<1>1. UNCHANGED <<options, cache>> /\ step = "drop"
    BY DEF Verify
<1>2. /\ Overhead(cache) = FileBytes + Cardinality(Lengths(cache))
      /\ Cardinality(Lengths(cache)) \in Nat
    BY BytesAreCounted
<1>3. CASE step' # "drop"
    BY <1>1, <1>3 DEF FitInv, Sized
<1>4. CASE budget' = options.bytes - Overhead(cache) /\ UNCHANGED step
    <2>1. budget' \in Int /\ budget' + FileBytes + Cardinality(Lengths(cache)) <= options.bytes
        BY <1>1, <1>2, <1>4, LengthsAreEncoded DEF FitInv
    <2> QED BY <1>1, <1>4, <2>1 DEF FitInv, Sized, Lengths, LengthAt
<1> QED BY <1>3, <1>4 DEF Verify

LEMMA NextKeepsFitInv == FitInv /\ [LimitsNext]_limitVars => FitInv'
<1> SUFFICES ASSUME FitInv, [LimitsNext]_limitVars PROVE FitInv'
    OBVIOUS
<1>1. CASE UNCHANGED limitVars
    BY <1>1 DEF limitVars, FitInv, Sized, Lengths, LengthAt
<1> QED BY <1>1, RetainKeepsFitInv, TruncateKeepsFitInv, MeasureKeepsFitInv, DropKeepsFitInv,
           VerifyKeepsFitInv DEF LimitsNext

LEMMA BudgetFits == FitInv => DroppingSuffices
<1> SUFFICES ASSUME FitInv, step = "drop", WithinBudget
             PROVE  Encoded(cache) <= options.bytes
    BY DEF DroppingSuffices
<1>1. RecordTotal(cache) \in Nat /\ Cardinality(Lengths(cache)) \in Nat
    BY BytesAreCounted
<1>2. RecordTotal(cache) <= budget
    BY DEF WithinBudget
<1> QED BY <1>1, <1>2, LengthsAreEncoded DEF FitInv, Encoded

(* Once the records are within the budget the file fits, whatever the        *)
(* records, their lengths and the limits: the lengths that are left in the   *)
(* file take no more bytes than those the budget was computed with, so the   *)
(* rounds after the first find nothing to do (persist.rs:514-543).          *)
THEOREM OneRoundSuffices == LimitsSpec => []DroppingSuffices
    BY InitHoldsFitInv, NextKeepsFitInv, BudgetFits, PTL DEF LimitsSpec

-----------------------------------------------------------------------------
(* The equality of values.                                                  *)

(* A set of numbers with 0 and the successors of its members is that of all: *)
(* there is no least one that is missing.                                   *)
LEMMA SetInduction ==
    ASSUME NEW S \in SUBSET Nat, 0 \in S, \A n \in S : n + 1 \in S
    PROVE  S = Nat
<1> SUFFICES ASSUME Nat \ S # {} PROVE FALSE
    OBVIOUS
<1>1. PICK n \in Nat \ S : \A m \in Nat \ S : ~(<<m, n>> \in OpToRel(<, Nat))
    BY NatLessThanWellFounded, WFMin
<1>2. \A m \in Nat \ S : ~(m < n)
    BY <1>1 DEF OpToRel
<1>3. n # 0 /\ n - 1 \in Nat /\ n - 1 < n /\ (n - 1) + 1 = n
    OBVIOUS
<1>4. n - 1 \in S
    BY <1>2, <1>3
<1> QED BY <1>3, <1>4

LEMMA Items ==
    ASSUME NEW R, NEW s \in Seq(R)
    PROVE  /\ \A k \in DOMAIN s : s[k] \in R
           /\ DOMAIN s = 1..Len(s) /\ Len(s) \in Nat
           /\ ToSet(s) \subseteq R
    BY DEF ToSet

(* Everything a value is made of is a value that is less high. *)
LEMMA PartsAreLower ==
    ASSUME NEW v \in Value
    PROVE  /\ v.def \in {"leaf", "product", "map", "set"}
           /\ v.def = "product" =>
                /\ v.parts \in Seq(Value)
                /\ \A k \in DOMAIN v.parts :
                    v.parts[k] \in Value /\ Height[v.parts[k]] < Height[v]
           /\ v.def = "map" =>
                /\ v.entries \in Seq([key : Key, val : Value])
                /\ \A e \in ToSet(v.entries) : e.val \in Value /\ Height[e.val] < Height[v]
<1>1. v.def \in {"leaf", "product", "map", "set"}
    BY ValuesAreTrees
<1>2. ASSUME v.def = "product"
      PROVE  /\ v.parts \in Seq(Value)
             /\ \A k \in DOMAIN v.parts : v.parts[k] \in Value /\ Height[v.parts[k]] < Height[v]
    <2>1. v.parts \in Seq(Value) /\ \A k \in DOMAIN v.parts : Height[v.parts[k]] < Height[v]
        BY <1>2, ValuesAreTrees
    <2>2. \A k \in DOMAIN v.parts : v.parts[k] \in Value
        BY <2>1
    <2> QED BY <2>1, <2>2
<1>3. ASSUME v.def = "map"
      PROVE  /\ v.entries \in Seq([key : Key, val : Value])
             /\ \A e \in ToSet(v.entries) : e.val \in Value /\ Height[e.val] < Height[v]
    <2>1. /\ v.entries \in Seq([key : Key, val : Value])
          /\ \A k \in DOMAIN v.entries : Height[v.entries[k].val] < Height[v]
        BY <1>3, ValuesAreTrees
    <2>2. \A k \in DOMAIN v.entries : v.entries[k] \in [key : Key, val : Value]
        BY <2>1, Items
    <2>3. \A k \in DOMAIN v.entries : v.entries[k].val \in Value
        BY <2>2
    <2> QED BY <2>1, <2>3 DEF ToSet
<1> QED BY <1>1, <1>2, <1>3

(* What each definition says of a value depends on its parts alone. *)
LEMMA EqLooksAtParts ==
    ASSUME NEW a \in Value, NEW b \in Value, NEW g, NEW h,
           \A x, y \in Value : Height[x] < Height[a] => g[<<x, y>>] = h[<<x, y>>]
    PROVE  EqOf(g, a, b) = EqOf(h, a, b)
<1>1. CASE a.def = "product" /\ a.def = b.def /\ SameSize(a.parts, b.parts)
    <2>1. DOMAIN a.parts = DOMAIN b.parts
        BY <1>1, PartsAreLower DEF SameSize
    <2>2. \A k \in DOMAIN a.parts : g[<<a.parts[k], b.parts[k]>>] = h[<<a.parts[k], b.parts[k]>>]
        BY <1>1, <2>1, PartsAreLower
    <2> QED BY <1>1, <2>2 DEF EqOf
<1>2. CASE a.def = "map" /\ a.def = b.def
    <2>1. \A e \in ToSet(a.entries), f \in ToSet(b.entries) : g[<<e.val, f.val>>] = h[<<e.val, f.val>>]
        BY <1>2, PartsAreLower
    <2> QED BY <1>2, <2>1 DEF EqOf
<1> QED BY <1>1, <1>2 DEF EqOf

LEMMA MeaningLooksAtParts ==
    ASSUME NEW v \in Value, NEW g, NEW h,
           \A x \in Value : Height[x] < Height[v] => g[x] = h[x]
    PROVE  MeaningOf(g, v) = MeaningOf(h, v)
<1>1. CASE v.def = "product"
    <2>1. \A k \in DOMAIN v.parts : g[v.parts[k]] = h[v.parts[k]]
        BY <1>1, PartsAreLower
    <2> QED BY <1>1, <2>1 DEF MeaningOf
<1>2. CASE v.def = "map"
    <2>1. \A e \in ToSet(v.entries) : g[e.val] = h[e.val]
        BY <1>2, PartsAreLower
    <2>2. {<<e.key, g[e.val]>> : e \in ToSet(v.entries)} = {<<e.key, h[e.val]>> : e \in ToSet(v.entries)}
        BY <2>1
    <2> QED BY <1>2, <2>2 DEF MeaningOf
<1>3. CASE v.def = "leaf"
    BY <1>3 DEF MeaningOf
<1>4. CASE v.def = "set"
    BY <1>4 DEF MeaningOf
<1> QED BY <1>1, <1>2, <1>3, <1>4, PartsAreLower

LEMMA ComparableLooksAtParts ==
    ASSUME NEW v \in Value, NEW g, NEW h,
           \A x \in Value : Height[x] < Height[v] => g[x] = h[x]
    PROVE  ComparableOf(g, v) = ComparableOf(h, v)
<1>1. CASE v.def = "product"
    <2>1. \A k \in DOMAIN v.parts : g[v.parts[k]] = h[v.parts[k]]
        BY <1>1, PartsAreLower
    <2> QED BY <1>1, <2>1 DEF ComparableOf
<1>2. CASE v.def = "map"
    <2>1. \A e \in ToSet(v.entries) : g[e.val] = h[e.val]
        BY <1>2, PartsAreLower
    <2> QED BY <1>2, <2>1 DEF ComparableOf
<1>3. CASE v.def = "leaf"
    BY <1>3 DEF ComparableOf
<1>4. CASE v.def = "set"
    BY <1>4 DEF ComparableOf
<1> QED BY <1>1, <1>2, <1>3, <1>4, PartsAreLower

(* So each defines a function: one that is right up to a height is extended  *)
(* to the next, and no height is the least at which there is none.          *)
PairsBelow(n) == {p \in Value \X Value : Height[p[1]] < n}
EqBelow(g, n) == g = [p \in PairsBelow(n) |-> EqOf(g, p[1], p[2])]

LEMMA EqIsDefined ==
    \A a, b \in Value : PeekEq[<<a, b>>] = EqOf(PeekEq, a, b)
<1> DEFINE G == {n \in Nat : \E g : EqBelow(g, n)}
<1>1. \A v \in Value : Height[v] \in Nat /\ Height[v] < MaxHeight + 1
    BY ValuesAreTrees
<1>2. \E g : EqBelow(g, 0)
    <2>1. PairsBelow(0) = {}
        BY <1>1 DEF PairsBelow
    <2>2. EqBelow([p \in PairsBelow(0) |-> TRUE], 0)
        BY <2>1 DEF EqBelow
    <2> QED BY <2>2
<1>3. ASSUME NEW n \in Nat, NEW g, EqBelow(g, n) PROVE \E h : EqBelow(h, n + 1)
    <2> DEFINE h == [p \in PairsBelow(n + 1) |-> EqOf(g, p[1], p[2])]
    <2>2. ASSUME NEW p \in PairsBelow(n + 1) PROVE EqOf(g, p[1], p[2]) = EqOf(h, p[1], p[2])
        <3>1. p[1] \in Value /\ p[2] \in Value /\ Height[p[1]] <= n
            BY <1>1 DEF PairsBelow
        <3>2. ASSUME NEW x \in Value, NEW y \in Value, Height[x] < Height[p[1]]
              PROVE  g[<<x, y>>] = h[<<x, y>>]
            <4>0. Height[x] \in Nat /\ Height[p[1]] \in Nat
                BY <1>1, <3>1
            <4>1. <<x, y>> \in PairsBelow(n) /\ <<x, y>> \in PairsBelow(n + 1)
                BY <4>0, <3>1, <3>2 DEF PairsBelow
            <4>2. g[<<x, y>>] = EqOf(g, x, y)
                BY <1>3, <4>1 DEF EqBelow
            <4>3. h[<<x, y>>] = EqOf(g, x, y)
                BY <4>1
            <4> QED BY <4>2, <4>3
        <3> HIDE DEF h
        <3>3. \A x, y \in Value : Height[x] < Height[p[1]] => g[<<x, y>>] = h[<<x, y>>]
            BY <3>2
        <3>4. \A a, b \in Value :
                (\A x, y \in Value : Height[x] < Height[a] => g[<<x, y>>] = h[<<x, y>>])
                    => EqOf(g, a, b) = EqOf(h, a, b)
            BY EqLooksAtParts
        <3> QED BY <3>1, <3>3, <3>4
    <2>3. EqBelow(h, n + 1)
        BY <2>2 DEF EqBelow
    <2> QED BY <2>3
<1>4. G = Nat
    <2>1. G \subseteq Nat /\ 0 \in G /\ \A n \in G : n + 1 \in G
        BY <1>2, <1>3
    <2> HIDE DEF G
    <2> QED BY <2>1, SetInduction
<1>5. PICK g : EqBelow(g, MaxHeight + 1)
    <2>1. MaxHeight + 1 \in G
        BY <1>4, ValuesAreTrees
    <2> QED BY <2>1
<1>6. PairsBelow(MaxHeight + 1) = Value \X Value
    BY <1>1 DEF PairsBelow
<1>7. g = [p \in Value \X Value |-> EqOf(g, p[1], p[2])]
    BY <1>5, <1>6 DEF EqBelow
<1>8. PeekEq = [p \in Value \X Value |-> EqOf(PeekEq, p[1], p[2])]
    BY <1>7 DEF PeekEq
<1> QED BY <1>8

ValuesBelow(n) == {v \in Value : Height[v] < n}
MeaningBelow(g, n) == g = [v \in ValuesBelow(n) |-> MeaningOf(g, v)]

LEMMA MeaningIsDefined ==
    \A v \in Value : Meaning[v] = MeaningOf(Meaning, v)
<1> DEFINE G == {n \in Nat : \E g : MeaningBelow(g, n)}
<1>1. \A v \in Value : Height[v] \in Nat /\ Height[v] < MaxHeight + 1
    BY ValuesAreTrees
<1>2. \E g : MeaningBelow(g, 0)
    <2>1. ValuesBelow(0) = {}
        BY <1>1 DEF ValuesBelow
    <2>2. MeaningBelow([v \in ValuesBelow(0) |-> TRUE], 0)
        BY <2>1 DEF MeaningBelow
    <2> QED BY <2>2
<1>3. ASSUME NEW n \in Nat, NEW g, MeaningBelow(g, n) PROVE \E h : MeaningBelow(h, n + 1)
    <2> DEFINE h == [v \in ValuesBelow(n + 1) |-> MeaningOf(g, v)]
    <2>1. ASSUME NEW v \in ValuesBelow(n + 1) PROVE MeaningOf(g, v) = MeaningOf(h, v)
        <3>1. v \in Value /\ Height[v] <= n
            BY <1>1 DEF ValuesBelow
        <3>2. ASSUME NEW x \in Value, Height[x] < Height[v]
              PROVE  g[x] = h[x]
            <4>1. x \in ValuesBelow(n) /\ x \in ValuesBelow(n + 1)
                BY <1>1, <3>1, <3>2 DEF ValuesBelow
            <4>2. g[x] = MeaningOf(g, x)
                BY <1>3, <4>1 DEF MeaningBelow
            <4>3. h[x] = MeaningOf(g, x)
                BY <4>1
            <4> QED BY <4>2, <4>3
        <3> HIDE DEF h
        <3> QED BY <3>1, <3>2, MeaningLooksAtParts
    <2>2. MeaningBelow(h, n + 1)
        BY <2>1 DEF MeaningBelow
    <2> QED BY <2>2
<1>4. G = Nat
    <2>1. G \subseteq Nat /\ 0 \in G /\ \A n \in G : n + 1 \in G
        BY <1>2, <1>3
    <2> HIDE DEF G
    <2> QED BY <2>1, SetInduction
<1>5. PICK g : MeaningBelow(g, MaxHeight + 1)
    <2>1. MaxHeight + 1 \in G
        BY <1>4, ValuesAreTrees
    <2> QED BY <2>1
<1>6. ValuesBelow(MaxHeight + 1) = Value
    BY <1>1 DEF ValuesBelow
<1>7. g = [v \in Value |-> MeaningOf(g, v)]
    BY <1>5, <1>6 DEF MeaningBelow
<1>8. Meaning = [v \in Value |-> MeaningOf(Meaning, v)]
    BY <1>7 DEF Meaning
<1> QED BY <1>8

ComparableBelow(g, n) == g = [v \in ValuesBelow(n) |-> ComparableOf(g, v)]

LEMMA ComparableIsDefined ==
    \A v \in Value : Comparable[v] = ComparableOf(Comparable, v)
<1> DEFINE G == {n \in Nat : \E g : ComparableBelow(g, n)}
<1>1. \A v \in Value : Height[v] \in Nat /\ Height[v] < MaxHeight + 1
    BY ValuesAreTrees
<1>2. \E g : ComparableBelow(g, 0)
    <2>1. ValuesBelow(0) = {}
        BY <1>1 DEF ValuesBelow
    <2>2. ComparableBelow([v \in ValuesBelow(0) |-> TRUE], 0)
        BY <2>1 DEF ComparableBelow
    <2> QED BY <2>2
<1>3. ASSUME NEW n \in Nat, NEW g, ComparableBelow(g, n) PROVE \E h : ComparableBelow(h, n + 1)
    <2> DEFINE h == [v \in ValuesBelow(n + 1) |-> ComparableOf(g, v)]
    <2>1. ASSUME NEW v \in ValuesBelow(n + 1) PROVE ComparableOf(g, v) = ComparableOf(h, v)
        <3>1. v \in Value /\ Height[v] <= n
            BY <1>1 DEF ValuesBelow
        <3>2. ASSUME NEW x \in Value, Height[x] < Height[v]
              PROVE  g[x] = h[x]
            <4>1. x \in ValuesBelow(n) /\ x \in ValuesBelow(n + 1)
                BY <1>1, <3>1, <3>2 DEF ValuesBelow
            <4>2. g[x] = ComparableOf(g, x)
                BY <1>3, <4>1 DEF ComparableBelow
            <4>3. h[x] = ComparableOf(g, x)
                BY <4>1
            <4> QED BY <4>2, <4>3
        <3> HIDE DEF h
        <3> QED BY <3>1, <3>2, ComparableLooksAtParts
    <2>2. ComparableBelow(h, n + 1)
        BY <2>1 DEF ComparableBelow
    <2> QED BY <2>2
<1>4. G = Nat
    <2>1. G \subseteq Nat /\ 0 \in G /\ \A n \in G : n + 1 \in G
        BY <1>2, <1>3
    <2> HIDE DEF G
    <2> QED BY <2>1, SetInduction
<1>5. PICK g : ComparableBelow(g, MaxHeight + 1)
    <2>1. MaxHeight + 1 \in G
        BY <1>4, ValuesAreTrees
    <2> QED BY <2>1
<1>6. ValuesBelow(MaxHeight + 1) = Value
    BY <1>1 DEF ValuesBelow
<1>7. g = [v \in Value |-> ComparableOf(g, v)]
    BY <1>5, <1>6 DEF ComparableBelow
<1>8. Comparable = [v \in Value |-> ComparableOf(Comparable, v)]
    BY <1>7 DEF Comparable
<1> QED BY <1>8

(* An iteration without repetitions is as long as there are elements: two of *)
(* one length, the first over elements of the second, are over the same.     *)
LEMMA IterationsAreAsLong ==
    ASSUME NEW R, NEW s \in Seq(R), \A k, l \in DOMAIN s : s[k] = s[l] => k = l
    PROVE  IsFiniteSet(ToSet(s)) /\ Cardinality(ToSet(s)) = Len(s)
<1>1. DOMAIN s = 1..Len(s) /\ Len(s) \in Nat
    BY Items
<1>2. IsFiniteSet(DOMAIN s) /\ Cardinality(DOMAIN s) = Len(s)
    BY <1>1, FS_Interval
<1>3. s \in [DOMAIN s -> ToSet(s)] /\ \A x \in ToSet(s) : \E k \in DOMAIN s : s[k] = x
    BY DEF ToSet
<1>4. s \in Injection(DOMAIN s, ToSet(s))
    BY <1>3 DEF Injection, IsInjective
<1>5. s \in Surjection(DOMAIN s, ToSet(s))
    BY <1>3 DEF Surjection
<1> QED BY <1>2, <1>4, <1>5, FS_Surjection

LEMMA IterationsOfASet ==
    ASSUME NEW R, NEW s \in Seq(R), NEW t \in Seq(R),
           \A k, l \in DOMAIN s : s[k] = s[l] => k = l,
           \A k, l \in DOMAIN t : t[k] = t[l] => k = l
    PROVE  Len(s) = Len(t) /\ ToSet(s) \subseteq ToSet(t) <=> ToSet(s) = ToSet(t)
<1>1. /\ IsFiniteSet(ToSet(s)) /\ Cardinality(ToSet(s)) = Len(s)
      /\ IsFiniteSet(ToSet(t)) /\ Cardinality(ToSet(t)) = Len(t)
    BY IterationsAreAsLong
<1>2. ASSUME Len(s) = Len(t), ToSet(s) \subseteq ToSet(t) PROVE ToSet(s) = ToSet(t)
    BY <1>1, <1>2, FS_Subset
<1>3. ASSUME ToSet(s) = ToSet(t) PROVE Len(s) = Len(t)
    BY <1>1, <1>3
<1> QED BY <1>2, <1>3

\* The keys of a map, in the order of an iteration.
KeysOf(v) == [k \in DOMAIN v.entries |-> v.entries[k].key]

LEMMA KeysAreIterated ==
    ASSUME NEW v \in Value, v.def = "map"
    PROVE  /\ KeysOf(v) \in Seq(Key) /\ Len(KeysOf(v)) = Len(v.entries)
           /\ \A k, l \in DOMAIN KeysOf(v) : KeysOf(v)[k] = KeysOf(v)[l] => k = l
           /\ ToSet(KeysOf(v)) = {e.key : e \in ToSet(v.entries)}
           /\ \A e, f \in ToSet(v.entries) : e.key = f.key => e = f
<1>1. /\ v.entries \in Seq([key : Key, val : Value])
      /\ \A k, l \in DOMAIN v.entries : v.entries[k].key = v.entries[l].key => k = l
    BY ValuesAreTrees
<1>2. /\ \A k \in DOMAIN v.entries : v.entries[k] \in [key : Key, val : Value]
      /\ DOMAIN v.entries = 1..Len(v.entries) /\ Len(v.entries) \in Nat
    <2>1. \A k \in DOMAIN v.entries : v.entries[k] \in [key : Key, val : Value]
        BY <1>1, Items
    <2>2. DOMAIN v.entries = 1..Len(v.entries) /\ Len(v.entries) \in Nat
        BY <1>1, Items
    <2> QED BY <2>1, <2>2
<1>3. KeysOf(v) \in Seq(Key) /\ Len(KeysOf(v)) = Len(v.entries)
    <2>1. KeysOf(v) \in [1..Len(v.entries) -> Key]
        BY <1>2 DEF KeysOf
    <2> QED BY <1>2, <2>1
<1>4. \A k, l \in DOMAIN KeysOf(v) : KeysOf(v)[k] = KeysOf(v)[l] => k = l
    BY <1>1 DEF KeysOf
<1>5. ToSet(KeysOf(v)) = {e.key : e \in ToSet(v.entries)}
    BY DEF KeysOf, ToSet
<1>6. \A e, f \in ToSet(v.entries) : e.key = f.key => e = f
    BY <1>1 DEF ToSet
<1> QED BY <1>3, <1>4, <1>5, <1>6

-----------------------------------------------------------------------------
\* What the comparison of two values should say.
Unchanged(a, b) == Comparable[b] /\ Meaning[a] = Meaning[b]
RightBelow(n) ==
    \A a \in ValuesBelow(n), b \in Value : SameType(a, b) =>
        (PeekEq[<<a, b>>] <=> Unchanged(a, b))

LEMMA TypesAreTyped ==
    ASSUME NEW a \in Value, NEW b \in Value, SameType(a, b)
    PROVE  /\ a.def = b.def
           /\ a.def = "product" /\ a.tag = b.tag /\ Len(a.parts) = Len(b.parts) =>
                \A k \in DOMAIN a.parts : SameType(a.parts[k], b.parts[k])
           /\ a.def = "map" =>
                \A e \in ToSet(a.entries), f \in ToSet(b.entries) : SameType(e.val, f.val)
<1>1. PICK type \in DOMAIN ValueSet : a \in ValueSet[type] /\ b \in ValueSet[type]
    BY DEF SameType
<1> QED BY <1>1, ValuesAreTyped

LEMMA ProductsAreRight ==
    ASSUME NEW a \in Value, NEW b \in Value, SameType(a, b), a.def = "product",
           RightBelow(Height[a])
    PROVE  PeekEq[<<a, b>>] <=> Unchanged(a, b)
<1>1. b.def = "product"
    BY TypesAreTyped
<1>2. /\ a.parts \in Seq(Value) /\ b.parts \in Seq(Value)
      /\ \A k \in DOMAIN a.parts : a.parts[k] \in ValuesBelow(Height[a])
      /\ \A k \in DOMAIN b.parts : b.parts[k] \in Value
    BY <1>1, PartsAreLower DEF ValuesBelow
<1>3. /\ DOMAIN a.parts = 1..Len(a.parts) /\ Len(a.parts) \in Nat
      /\ DOMAIN b.parts = 1..Len(b.parts) /\ Len(b.parts) \in Nat
    BY <1>2, Items
<1>4. PeekEq[<<a, b>>] <=>
        /\ a.tag = b.tag /\ Len(a.parts) = Len(b.parts)
        /\ \A k \in DOMAIN a.parts : PeekEq[<<a.parts[k], b.parts[k]>>]
    <2>1. PeekEq[<<a, b>>] = EqOf(PeekEq, a, b)
        BY EqIsDefined
    <2> QED BY <1>1, <2>1 DEF EqOf, SameSize
<1>5. Unchanged(a, b) <=>
        /\ \A k \in DOMAIN b.parts : Comparable[b.parts[k]]
        /\ a.tag = b.tag
        /\ [k \in DOMAIN a.parts |-> Meaning[a.parts[k]]] =
             [k \in DOMAIN b.parts |-> Meaning[b.parts[k]]]
    <2>1. Comparable[b] <=> \A k \in DOMAIN b.parts : Comparable[b.parts[k]]
        BY <1>1, ComparableIsDefined DEF ComparableOf
    <2>2. Meaning[a] = <<a.tag, [k \in DOMAIN a.parts |-> Meaning[a.parts[k]]]>>
        BY MeaningIsDefined DEF MeaningOf
    <2>3. Meaning[b] = <<b.tag, [k \in DOMAIN b.parts |-> Meaning[b.parts[k]]]>>
        BY <1>1, MeaningIsDefined DEF MeaningOf
    <2> QED BY <2>1, <2>2, <2>3 DEF Unchanged
<1>6. CASE a.tag = b.tag /\ Len(a.parts) = Len(b.parts)
    <2>1. DOMAIN a.parts = DOMAIN b.parts
        BY <1>3, <1>6
    <2>2. ASSUME NEW k \in DOMAIN a.parts
          PROVE  PeekEq[<<a.parts[k], b.parts[k]>>] <=>
                    Comparable[b.parts[k]] /\ Meaning[a.parts[k]] = Meaning[b.parts[k]]
        <3>1. SameType(a.parts[k], b.parts[k])
            BY <1>6, TypesAreTyped
        <3> QED BY <1>2, <2>1, <3>1 DEF RightBelow, Unchanged
    <2>3. [k \in DOMAIN a.parts |-> Meaning[a.parts[k]]] = [k \in DOMAIN b.parts |-> Meaning[b.parts[k]]]
            <=> \A k \in DOMAIN a.parts : Meaning[a.parts[k]] = Meaning[b.parts[k]]
        BY <2>1
    <2> QED BY <1>4, <1>5, <1>6, <2>1, <2>2, <2>3
<1>7. CASE ~(a.tag = b.tag /\ Len(a.parts) = Len(b.parts))
    <2>1. ~PeekEq[<<a, b>>]
        BY <1>4, <1>7
    <2>2. ASSUME Unchanged(a, b) PROVE FALSE
        <3>1. DOMAIN a.parts = DOMAIN b.parts
            BY <1>5, <2>2
        <3>2. Len(a.parts) = Len(b.parts)
            BY <1>2, <3>1
        <3> QED BY <1>5, <1>7, <2>2, <3>2
    <2> QED BY <2>1, <2>2
<1> QED BY <1>6, <1>7

LEMMA MapsAreRight ==
    ASSUME NEW a \in Value, NEW b \in Value, SameType(a, b), a.def = "map",
           RightBelow(Height[a])
    PROVE  PeekEq[<<a, b>>] <=> Unchanged(a, b)
<1> DEFINE A == ToSet(a.entries)
           B == ToSet(b.entries)
<1>1. b.def = "map"
    BY TypesAreTyped
<1>2. /\ \A e \in A : e.val \in ValuesBelow(Height[a])
      /\ \A f \in B : f.val \in Value
    BY <1>1, PartsAreLower DEF ValuesBelow
<1>3. \A e \in A, f \in B :
        PeekEq[<<e.val, f.val>>] <=> Comparable[f.val] /\ Meaning[e.val] = Meaning[f.val]
    <2>1. \A e \in A, f \in B : SameType(e.val, f.val)
        BY TypesAreTyped
    <2> QED BY <1>2, <2>1 DEF RightBelow, Unchanged
<1>4. PeekEq[<<a, b>>] <=>
        /\ Len(a.entries) = Len(b.entries)
        /\ \A e \in A : \E f \in B : e.key = f.key /\ PeekEq[<<e.val, f.val>>]
    <2>1. PeekEq[<<a, b>>] = EqOf(PeekEq, a, b)
        BY EqIsDefined
    <2> QED BY <1>1, <2>1 DEF EqOf, SameSize
<1>5. Unchanged(a, b) <=>
        /\ \A f \in B : Comparable[f.val]
        /\ {<<e.key, Meaning[e.val]>> : e \in A} = {<<f.key, Meaning[f.val]>> : f \in B}
    <2>1. Comparable[b] <=> \A f \in B : Comparable[f.val]
        BY <1>1, ComparableIsDefined DEF ComparableOf
    <2>2. Meaning[a] = {<<e.key, Meaning[e.val]>> : e \in A}
        BY MeaningIsDefined DEF MeaningOf
    <2>3. Meaning[b] = {<<f.key, Meaning[f.val]>> : f \in B}
        BY <1>1, MeaningIsDefined DEF MeaningOf
    <2> QED BY <2>1, <2>2, <2>3 DEF Unchanged
<1>6. /\ \A e, f \in A : e.key = f.key => e = f
      /\ \A e, f \in B : e.key = f.key => e = f
      /\ Len(a.entries) = Len(b.entries) /\ {e.key : e \in A} \subseteq {f.key : f \in B}
            <=> {e.key : e \in A} = {f.key : f \in B}
    <2>1. /\ KeysOf(a) \in Seq(Key) /\ KeysOf(b) \in Seq(Key)
          /\ \A k, l \in DOMAIN KeysOf(a) : KeysOf(a)[k] = KeysOf(a)[l] => k = l
          /\ \A k, l \in DOMAIN KeysOf(b) : KeysOf(b)[k] = KeysOf(b)[l] => k = l
        BY <1>1, KeysAreIterated
    <2>2. /\ Len(KeysOf(a)) = Len(a.entries) /\ ToSet(KeysOf(a)) = {e.key : e \in A}
          /\ Len(KeysOf(b)) = Len(b.entries) /\ ToSet(KeysOf(b)) = {f.key : f \in B}
        BY <1>1, KeysAreIterated
    <2>3. Len(KeysOf(a)) = Len(KeysOf(b)) /\ ToSet(KeysOf(a)) \subseteq ToSet(KeysOf(b))
            <=> ToSet(KeysOf(a)) = ToSet(KeysOf(b))
        BY <2>1, IterationsOfASet
    <2>4. /\ \A e, f \in A : e.key = f.key => e = f
          /\ \A e, f \in B : e.key = f.key => e = f
        BY <1>1, KeysAreIterated
    <2> QED BY <2>2, <2>3, <2>4
<1> HIDE DEF A, B
<1>7. ASSUME PeekEq[<<a, b>>] PROVE Unchanged(a, b)
    <2>1. \A e \in A : \E f \in B : e.key = f.key /\ Comparable[f.val] /\ Meaning[e.val] = Meaning[f.val]
        BY <1>3, <1>4, <1>7
    <2>2. {e.key : e \in A} = {f.key : f \in B}
        <3>1. {e.key : e \in A} \subseteq {f.key : f \in B}
            BY <2>1
        <3> QED BY <1>4, <1>6, <1>7, <3>1
    <2>3. \A f \in B : \E e \in A : e.key = f.key /\ Comparable[f.val] /\ Meaning[e.val] = Meaning[f.val]
        <3> SUFFICES ASSUME NEW f \in B
                     PROVE  \E e \in A : e.key = f.key /\ Comparable[f.val] /\ Meaning[e.val] = Meaning[f.val]
            OBVIOUS
        <3>1. PICK e \in A : e.key = f.key
            BY <2>2
        <3>2. PICK g \in B : e.key = g.key /\ Comparable[g.val] /\ Meaning[e.val] = Meaning[g.val]
            BY <2>1
        <3>3. g = f
            BY <1>6, <3>1, <3>2
        <3> QED BY <3>1, <3>2, <3>3
    <2>4. {<<e.key, Meaning[e.val]>> : e \in A} = {<<f.key, Meaning[f.val]>> : f \in B}
        BY <2>1, <2>3
    <2> QED BY <1>5, <2>3, <2>4
<1>8. ASSUME Unchanged(a, b) PROVE PeekEq[<<a, b>>]
    <2>1. /\ \A f \in B : Comparable[f.val]
          /\ {<<e.key, Meaning[e.val]>> : e \in A} = {<<f.key, Meaning[f.val]>> : f \in B}
        BY <1>5, <1>8
    <2>2. ASSUME NEW e \in A PROVE \E f \in B : e.key = f.key /\ Meaning[e.val] = Meaning[f.val]
        <3>1. <<e.key, Meaning[e.val]>> \in {<<f.key, Meaning[f.val]>> : f \in B}
            BY <2>1
        <3> QED BY <3>1
    <2>3. ASSUME NEW f \in B PROVE \E e \in A : e.key = f.key /\ Meaning[e.val] = Meaning[f.val]
        <3>1. <<f.key, Meaning[f.val]>> \in {<<e.key, Meaning[e.val]>> : e \in A}
            BY <2>1
        <3> QED BY <3>1
    <2>4. {e.key : e \in A} = {f.key : f \in B}
        BY <2>2, <2>3
    <2> QED BY <1>3, <1>4, <1>6, <2>1, <2>2, <2>4
<1> QED BY <1>7, <1>8

(* The comparison of two values of one type says whether they mean the same, *)
(* and never that something did not change which cannot be compared.         *)
LEMMA EqIsRight ==
    ASSUME NEW a \in Value, NEW b \in Value, SameType(a, b)
    PROVE  PeekEq[<<a, b>>] <=> Unchanged(a, b)
<1> DEFINE G == {n \in Nat : RightBelow(n)}
<1>1. \A v \in Value : Height[v] \in Nat /\ Height[v] < MaxHeight + 1
    BY ValuesAreTrees
<1>2. RightBelow(0)
    BY <1>1 DEF RightBelow, ValuesBelow
<1>3. ASSUME NEW n \in Nat, RightBelow(n) PROVE RightBelow(n + 1)
    <2> SUFFICES ASSUME NEW x \in ValuesBelow(n + 1), NEW y \in Value, SameType(x, y)
                 PROVE  PeekEq[<<x, y>>] <=> Unchanged(x, y)
        BY DEF RightBelow
    <2>1. x \in Value /\ Height[x] \in Nat /\ Height[x] <= n /\ x.def = y.def
        BY <1>1, TypesAreTyped DEF ValuesBelow
    <2>2. RightBelow(Height[x])
        <3>1. \A v \in ValuesBelow(Height[x]) : v \in ValuesBelow(n)
            BY <1>1, <2>1 DEF ValuesBelow
        <3> QED BY <1>3, <3>1 DEF RightBelow
    <2>3. CASE x.def = "leaf"
        <3>1. PeekEq[<<x, y>>] <=> LeafEq(x, y)
            BY <2>1, <2>3, EqIsDefined DEF EqOf
        <3>2. Meaning[x] = x.of /\ Meaning[y] = y.of /\ (Comparable[y] <=> y.of \notin Unequal)
            BY <2>1, <2>3, MeaningIsDefined, ComparableIsDefined DEF MeaningOf, ComparableOf
        <3> QED BY <3>1, <3>2 DEF LeafEq, Unchanged
    <2>4. CASE x.def = "product"
        BY <2>1, <2>2, <2>4, ProductsAreRight
    <2>5. CASE x.def = "map"
        BY <2>1, <2>2, <2>5, MapsAreRight
    <2>6. CASE x.def = "set"
        <3>1. PeekEq[<<x, y>>] <=> Len(x.elems) = Len(y.elems) /\ ToSet(x.elems) \subseteq ToSet(y.elems)
            BY <2>1, <2>6, EqIsDefined DEF EqOf, SameSize
        <3>2. Meaning[x] = ToSet(x.elems) /\ Meaning[y] = ToSet(y.elems) /\ Comparable[y]
            BY <2>1, <2>6, MeaningIsDefined, ComparableIsDefined DEF MeaningOf, ComparableOf
        <3>3. /\ x.elems \in Seq(Key) /\ \A k, l \in DOMAIN x.elems : x.elems[k] = x.elems[l] => k = l
              /\ y.elems \in Seq(Key) /\ \A k, l \in DOMAIN y.elems : y.elems[k] = y.elems[l] => k = l
            BY <2>1, <2>6, ValuesAreTrees
        <3>4. Len(x.elems) = Len(y.elems) /\ ToSet(x.elems) \subseteq ToSet(y.elems)
                <=> ToSet(x.elems) = ToSet(y.elems)
            BY <3>3, IterationsOfASet
        <3> QED BY <3>1, <3>2, <3>4 DEF Unchanged
    <2> QED BY <2>1, <2>3, <2>4, <2>5, <2>6, PartsAreLower
<1>4. G = Nat
    <2>1. G \subseteq Nat /\ 0 \in G /\ \A n \in G : n + 1 \in G
        BY <1>2, <1>3
    <2> HIDE DEF G
    <2> QED BY <2>1, SetInduction
<1>5. RightBelow(MaxHeight + 1)
    <2>1. MaxHeight + 1 \in G
        BY <1>4, ValuesAreTrees
    <2> QED BY <2>1
<1> QED BY <1>1, <1>5 DEF RightBelow, ValuesBelow

\* What a set leaves behind: it compared values of one type.
ValueInv ==
    /\ entry \in Value
    /\ asked # NoValue =>
        /\ replaced \in Value /\ asked \in Value /\ SameType(replaced, asked)
        /\ bumped = ~PeekEq[<<replaced, asked>>]

LEMMA ValueInvHolds == ValueSpec => []ValueInv
<1>1. ValueInit => ValueInv
    BY DEF ValueInit, ValueInv, Value
<1>2. ASSUME ValueInv, [ValueNext]_valueVars PROVE ValueInv'
    <2>1. CASE UNCHANGED valueVars
        BY <1>2, <2>1 DEF ValueInv, valueVars
    <2>2. ASSUME NEW type \in DOMAIN ValueSet, entry \in ValueSet[type],
                 NEW v \in ValueSet[type], SetValue(v)
          PROVE  ValueInv'
        <3>1. entry \in Value /\ v \in Value /\ SameType(entry, v)
            BY <2>2 DEF Value, SameType
        <3> QED BY <2>2, <3>1 DEF SetValue, ValueInv
    <2> QED BY <1>2, <2>1, <2>2 DEF ValueNext
<1> QED BY <1>1, <1>2, PTL DEF ValueSpec

(* RevisionIffChanged for any types of values: a set that changes what the   *)
(* input means takes a new revision, and one of a value that can be compared *)
(* and means the same takes none (input.rs:397-412, facet_eq.rs).           *)
THEOREM RevisionsFollowMeaning == ValueSpec => []RevisionIffChanged
<1>1. ValueInv => RevisionIffChanged
    BY EqIsRight DEF ValueInv, RevisionIffChanged, Unchanged
<1> QED BY <1>1, ValueInvHolds, PTL
=============================================================================
