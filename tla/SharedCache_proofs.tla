------------------------- MODULE SharedCache_proofs -------------------------
(***************************************************************************)
(* The shared cache is bounded, for any keys, any threads and any limit, and *)
(* puts that do not overlap keep the newest records.                        *)
(***************************************************************************)
EXTENDS SharedCache, FiniteSetTheorems, SequenceTheorems, TLAPS

Putting(p) == put[p] # NoPut
OrderEntry(k, n) == [key |-> k, id |-> n]
Entries == [key : CacheKey, id : 1..MaxPuts]
Evictables == {k \in CacheKey : Evictable(k)}
Inserting == {p \in Putter : PutAt(p, "insert")}

CacheTypeOK ==
    /\ maxEntries \in Nat
    /\ records \in [CacheKey -> 0..MaxPuts]
    /\ order \in Seq(Entries)
    /\ lastId \in 0..MaxPuts
    /\ put \in [Putter -> PutCall \union {NoPut}]
    /\ overlap \in BOOLEAN
    /\ lastPut \in [CacheKey -> 0..MaxPuts]

\* Ids come from the counter; that of a put under way is nowhere else.
IdsAreGivenOut ==
    /\ \A k \in CacheKey : records[k] <= lastId /\ lastPut[k] <= lastId
    /\ \A n \in 1..Len(order) : order[n].id <= lastId
    /\ \A p \in Putter : Putting(p) =>
        /\ put[p].id <= lastId
        /\ \A k \in CacheKey : records[k] # put[p].id
        /\ \A q \in Putter : Putting(q) /\ put[q].id = put[p].id => q = p

\* A thread that is about to insert has made room for what it inserts.
RoomIsMade ==
    /\ IsFiniteSet(Cached)
    /\ Cardinality(Evictables) + Cardinality(Inserting) <= maxEntries + Cardinality(Putter)

BoundInv == CacheTypeOK /\ IdsAreGivenOut /\ RoomIsMade

-----------------------------------------------------------------------------
(* While no two puts have overlapped *)

OneAtATime == \A p, q \in Putter : Putting(p) /\ Putting(q) => p = q

OrderIsByAge == \A m, n \in 1..Len(order) : m < n => order[m].id < order[n].id

\* What is being put is newer than anything, and the last in the order.
NewestIsLast ==
    \A p \in Putter : Putting(p) =>
        /\ \A k \in CacheKey : lastPut[k] < put[p].id
        /\ put[p].at = "lock" => \A n \in 1..Len(order) : order[n].id < put[p].id
        /\ put[p].at # "lock" =>
            order # <<>> /\ order[Len(order)] = OrderEntry(put[p].key, put[p].id)

\* A record can be evicted, but for the one that is just being evicted, which
\* is the oldest.
CachedAreEntered ==
    \A k \in Cached :
        /\ records[k] = lastPut[k]
        /\ \/ \E n \in 1..Len(order) : order[n] = OrderEntry(k, records[k])
           \/ \E p \in Putter : PutAt(p, "remove") /\ put[p].victim = k

VictimIsOldest ==
    \A p \in Putter : PutAt(p, "remove") =>
        /\ put[p].victim \in Cached
        /\ \A k \in Cached : k # put[p].victim => records[put[p].victim] < records[k]

OneOver ==
    /\ Cardinality(Cached) <= maxEntries + 1
    /\ \A p \in Putter : PutAt(p, "insert") => Cardinality(Cached) <= maxEntries

GoneAreOlder == \A k \in Cached : \A l \in CacheKey \ Cached : lastPut[l] < records[k]

AgeInv ==
    /\ OneAtATime
    /\ OrderIsByAge
    /\ NewestIsLast
    /\ CachedAreEntered
    /\ VictimIsOldest
    /\ OneOver
    /\ GoneAreOlder

NewestInv == BoundInv /\ (~overlap => AgeInv)

-----------------------------------------------------------------------------
(* A put under way, in parts. *)
LEMMA PutParts ==
    ASSUME CacheTypeOK, NEW p \in Putter, Putting(p)
    PROVE  /\ put[p] \in PutCall
           /\ put[p].key \in CacheKey /\ put[p].victim \in CacheKey
           /\ put[p].id \in 1..MaxPuts
           /\ put[p].at \in {"lock", "evict", "remove", "insert"}
    BY DEF CacheTypeOK, Putting, PutCall

LEMMA IdleIsNone == \A c \in PutCall : c # NoPut
    BY NoPutIsNone

LEMMA BoundsAreNat == MaxPuts \in Nat /\ MaxChoices \subseteq Nat /\ MaxOverlaps \in Nat /\ MaxOverlaps <= MaxPuts
    BY LimitsAreNat

(* What a thread does to its own put only. *)
LEMMA OthersPut ==
    ASSUME CacheTypeOK, NEW p \in Putter, NEW c, put' = [put EXCEPT ![p] = c]
    PROVE  put'[p] = c /\ \A q \in Putter : q # p => put'[q] = put[q]
    BY DEF CacheTypeOK

(* The entries of a queue are those of its elements. *)
LEMMA Elements ==
    ASSUME NEW S, NEW s \in Seq(S)
    PROVE  \A e : e \in ToSet(s) <=> \E n \in 1..Len(s) : s[n] = e
    BY DEF ToSet

LEMMA AtTheEnd ==
    ASSUME NEW S, NEW s \in Seq(S), NEW e \in S
    PROVE  /\ Append(s, e) \in Seq(S)
           /\ Len(Append(s, e)) = Len(s) + 1
           /\ \A n \in 1..Len(s) : Append(s, e)[n] = s[n]
           /\ Append(s, e)[Len(s) + 1] = e
    BY AppendProperties

LEMMA WithoutTheFirst ==
    ASSUME NEW S, NEW s \in Seq(S), s # <<>>
    PROVE  /\ Tail(s) \in Seq(S)
           /\ Len(s) \in Nat \ {0}
           /\ Len(Tail(s)) = Len(s) - 1
           /\ \A n \in 1..Len(s) - 1 : Tail(s)[n] = s[n + 1]
           /\ Head(s) = s[1] /\ s[1] \in S
    BY HeadTailProperties, EmptySeq, LenProperties

(* Of the records that can be evicted, those of a part are fewer. *)
LEMMA Fewer ==
    ASSUME NEW S, NEW T, IsFiniteSet(T), S \subseteq T
    PROVE  IsFiniteSet(S) /\ Cardinality(S) \in Nat /\ Cardinality(T) \in Nat
           /\ Cardinality(S) <= Cardinality(T)
    BY FS_Subset, FS_CardinalityType

LEMMA OneMore ==
    ASSUME NEW S, NEW T, NEW x, IsFiniteSet(T), S \subseteq T \union {x}
    PROVE  IsFiniteSet(S) /\ Cardinality(S) \in Nat /\ Cardinality(T) \in Nat
           /\ Cardinality(S) <= Cardinality(T) + 1
<1>2. Cardinality(T) \in Nat
    BY FS_CardinalityType
<1>4. /\ IsFiniteSet(T \union {x})
      /\ Cardinality(T \union {x}) = IF x \in T THEN Cardinality(T) ELSE Cardinality(T) + 1
    BY FS_AddElement
<1>1. IsFiniteSet(T \union {x}) /\ Cardinality(T \union {x}) <= Cardinality(T) + 1
    BY <1>2, <1>4
<1>3. Cardinality(T \union {x}) \in Nat
    BY <1>1, FS_CardinalityType
<1> QED  BY <1>1, <1>2, <1>3, Fewer

LEMMA EvictablesAreCached == Evictables \subseteq Cached
    BY DEF Evictables, Evictable, Cached

-----------------------------------------------------------------------------
(* A step that makes nothing evictable and brings nobody to its insert keeps *)
(* the room.                                                                *)
LEMMA RoomIsKept ==
    ASSUME BoundInv, maxEntries' = maxEntries,
           Cached' \subseteq Cached, Evictables' \subseteq Evictables, Inserting' \subseteq Inserting
    PROVE  RoomIsMade'
<1>1. IsFiniteSet(Cached) /\ IsFiniteSet(Evictables) /\ IsFiniteSet(Inserting)
    BY EvictablesAreCached, Fewer, PuttersAreFinite DEF BoundInv, RoomIsMade, Inserting
<1>2. IsFiniteSet(Cached')
    BY <1>1, Fewer
<1>3. /\ Cardinality(Evictables') <= Cardinality(Evictables)
      /\ Cardinality(Evictables') \in Nat /\ Cardinality(Evictables) \in Nat
    BY <1>1, Fewer
<1>4. /\ Cardinality(Inserting') <= Cardinality(Inserting)
      /\ Cardinality(Inserting') \in Nat /\ Cardinality(Inserting) \in Nat
    BY <1>1, Fewer
<1>5. maxEntries \in Nat /\ Cardinality(Putter) \in Nat
    BY PuttersAreFinite, FS_CardinalityType DEF BoundInv, CacheTypeOK
<1> QED  BY <1>2, <1>3, <1>4, <1>5 DEF BoundInv, RoomIsMade

LEMMA InitMakesRoom == CacheInit => BoundInv
<1> SUFFICES ASSUME CacheInit PROVE BoundInv
    OBVIOUS
<1>1. CacheTypeOK
  <2>1. 0 \in 0..MaxPuts
    BY BoundsAreNat
  <2>2. <<>> \in Seq(Entries)
    BY EmptySeq
  <2> QED  BY <2>1, <2>2, BoundsAreNat DEF CacheInit, CacheTypeOK
<1>2. IdsAreGivenOut
  <2>1. Len(order) = 0 /\ \A p \in Putter : ~Putting(p)
    BY EmptySeq DEF CacheInit, Putting
  <2> QED  BY <2>1 DEF CacheInit, IdsAreGivenOut
<1>3. Cached = {} /\ Evictables = {} /\ Inserting = {}
    BY DEF CacheInit, Cached, Evictables, Evictable, Inserting, PutAt
<1>4. RoomIsMade
    BY <1>1, <1>3, FS_EmptySet, FS_CardinalityType, PuttersAreFinite DEF RoomIsMade, CacheTypeOK
<1> QED  BY <1>1, <1>2, <1>4 DEF BoundInv

LEMMA BeginPutBound ==
    ASSUME BoundInv, NEW p \in Putter, NEW k \in CacheKey, BeginPut(p, k)
    PROVE  BoundInv'
<1>1. CacheTypeOK /\ IdsAreGivenOut
    BY DEF BoundInv
<1> DEFINE c == [key |-> k, id |-> lastId + 1, at |-> "lock", victim |-> k]
<1>2. /\ put[p] = NoPut /\ lastId' = lastId + 1 /\ put' = [put EXCEPT ![p] = c]
      /\ UNCHANGED <<maxEntries, records, order, lastPut>>
      /\ overlap' = (overlap \/ \E q \in Putter : put[q] # NoPut)
    BY DEF BeginPut
<1>3. lastId < MaxPuts /\ lastId \in Nat
    BY <1>1, BoundsAreNat DEF BeginPut, CacheTypeOK
<1>4. c \in PutCall /\ c.id = lastId + 1 /\ c.at = "lock"
    BY <1>3, BoundsAreNat DEF PutCall
<1> HIDE DEF c
<1>5. put'[p] = c /\ \A q \in Putter : q # p => put'[q] = put[q]
    BY <1>1, <1>2, OthersPut
<1>6. CacheTypeOK'
  <2>1. put' \in [Putter -> PutCall \union {NoPut}]
    BY <1>1, <1>2, <1>4 DEF CacheTypeOK
  <2>2. lastId' \in 0..MaxPuts
    BY <1>2, <1>3, BoundsAreNat
  <2>3. overlap' \in BOOLEAN
    BY <1>2
  <2> QED  BY <1>1, <1>2, <2>1, <2>2, <2>3 DEF CacheTypeOK
<1>7. IdsAreGivenOut'
  <2>1. \A l \in CacheKey : records'[l] <= lastId' /\ lastPut'[l] <= lastId' /\ records[l] # lastId + 1
    BY <1>1, <1>2, <1>3, BoundsAreNat DEF IdsAreGivenOut, CacheTypeOK
  <2>2. \A n \in 1..Len(order') : order'[n].id <= lastId'
    <3> TAKE n \in 1..Len(order')
    <3>1. order[n] \in Entries /\ order[n].id <= lastId
      BY <1>1, <1>2, ElementOfSeq DEF CacheTypeOK, IdsAreGivenOut
    <3>2. order[n].id \in Nat
      BY <3>1, BoundsAreNat DEF Entries
    <3> QED  BY <1>2, <1>3, <3>1, <3>2
  <2>3. \A q \in Putter : q # p /\ Putting(q) => put[q].id <= lastId /\ put[q].id \in Nat
    BY <1>1, PutParts, BoundsAreNat DEF IdsAreGivenOut
  <2>4. \A q \in Putter : Putting(q)' =>
            /\ put'[q].id <= lastId'
            /\ \A l \in CacheKey : records'[l] # put'[q].id
            /\ \A u \in Putter : Putting(u)' /\ put'[u].id = put'[q].id => u = q
    <3> TAKE q \in Putter
    <3> HAVE Putting(q)'
    <3>1. CASE q = p
      <4>1. put'[q].id = lastId + 1
        BY <1>4, <1>5, <3>1
      <4>2. \A u \in Putter : u # p /\ Putting(u)' => put'[u].id <= lastId /\ put'[u].id \in Nat
        BY <1>5, <2>3 DEF Putting
      <4>3. \A u \in Putter : Putting(u)' /\ put'[u].id = put'[q].id => u = q
        BY <4>1, <4>2, <3>1, <1>3
      <4> QED  BY <4>1, <4>3, <1>2, <1>3, <2>1
    <3>2. CASE q # p
      <4>1. put'[q] = put[q] /\ Putting(q) /\ put[q].id <= lastId /\ put[q].id \in Nat
        BY <1>5, <2>3, <3>2 DEF Putting
      <4>2. \A u \in Putter : Putting(u)' /\ put'[u].id = put'[q].id => u = q
        <5> TAKE u \in Putter
        <5> HAVE Putting(u)' /\ put'[u].id = put'[q].id
        <5>1. u # p
          BY <1>3, <1>4, <1>5, <4>1
        <5>2. put'[u] = put[u] /\ Putting(u)
          BY <1>5, <5>1 DEF Putting
        <5> QED  BY <1>1, <4>1, <5>2 DEF IdsAreGivenOut
      <4> QED  BY <1>1, <1>2, <1>3, <4>1, <4>2 DEF IdsAreGivenOut
    <3> QED  BY <3>1, <3>2
  <2> QED  BY <2>1, <2>2, <2>4 DEF IdsAreGivenOut
<1>8. Cached' = Cached /\ Evictables' = Evictables
    BY <1>2 DEF Cached, Evictables, Evictable
<1>9. Inserting' \subseteq Inserting
    BY <1>4, <1>5 DEF Inserting, PutAt
<1> QED  BY <1>2, <1>6, <1>7, <1>8, <1>9, RoomIsKept DEF BoundInv

\* A put goes on: the thread is at another point of it.
MovesOn(p, c) ==
    /\ Putting(p)
    /\ c \in PutCall
    /\ c.id = put[p].id
    /\ put' = [put EXCEPT ![p] = c]
    /\ UNCHANGED <<maxEntries, lastId, overlap, lastPut>>

\* Records go, and nothing is in the order that was not given out.
NothingNew ==
    /\ records' \in [CacheKey -> 0..MaxPuts]
    /\ \A k \in CacheKey : records'[k] \in {0, records[k]}
    /\ order' \in Seq(Entries)
    /\ \A n \in 1..Len(order') : order'[n].id <= lastId

LEMMA MovingOn ==
    ASSUME BoundInv, NEW p \in Putter, NEW c, MovesOn(p, c), NothingNew
    PROVE  CacheTypeOK' /\ IdsAreGivenOut'
<1>1. CacheTypeOK /\ IdsAreGivenOut
    BY DEF BoundInv
<1>2. put'[p] = c /\ \A q \in Putter : q # p => put'[q] = put[q]
    BY <1>1, OthersPut DEF MovesOn
<1>3. CacheTypeOK'
    BY <1>1 DEF CacheTypeOK, MovesOn, NothingNew
<1>4. \A q \in Putter : Putting(q)' => Putting(q) /\ put'[q].id = put[q].id /\ put[q].id \in 1..MaxPuts
    BY <1>1, <1>2, PutParts DEF MovesOn, Putting
<1>5. \A k \in CacheKey : records'[k] <= lastId' /\ lastPut'[k] <= lastId'
    <2> TAKE k \in CacheKey
    <2>1. records[k] <= lastId /\ lastPut[k] <= lastId /\ lastId \in Nat
      BY <1>1, BoundsAreNat DEF IdsAreGivenOut, CacheTypeOK
    <2>2. records'[k] = 0 \/ records'[k] = records[k]
      BY DEF NothingNew
    <2> QED  BY <2>1, <2>2 DEF MovesOn
<1>6. \A n \in 1..Len(order') : order'[n].id <= lastId'
    BY DEF NothingNew, MovesOn
<1>7. ASSUME NEW q \in Putter, Putting(q)'
      PROVE  /\ put'[q].id <= lastId'
             /\ \A k \in CacheKey : records'[k] # put'[q].id
             /\ \A u \in Putter : Putting(u)' /\ put'[u].id = put'[q].id => u = q
  <2>1. Putting(q) /\ put'[q].id = put[q].id /\ put[q].id # 0
    BY <1>4, <1>7, BoundsAreNat
  <2>2. put'[q].id <= lastId'
    BY <1>1, <2>1 DEF IdsAreGivenOut, MovesOn
  <2>3. \A k \in CacheKey : records'[k] # put'[q].id
    BY <1>1, <2>1 DEF IdsAreGivenOut, NothingNew
  <2>4. \A u \in Putter : Putting(u)' /\ put'[u].id = put'[q].id => u = q
    BY <1>1, <1>4, <2>1 DEF IdsAreGivenOut
  <2> QED  BY <2>2, <2>3, <2>4
<1> QED  BY <1>3, <1>5, <1>6, <1>7 DEF IdsAreGivenOut

\* What the actions within a put do.
LEMMA EnterOrderIs ==
    ASSUME BoundInv, NEW p \in Putter, EnterOrder(p)
    PROVE  /\ MovesOn(p, [put[p] EXCEPT !.at = "evict"]) /\ NothingNew
           /\ order' = Append(order, OrderEntry(put[p].key, put[p].id))
           /\ OrderEntry(put[p].key, put[p].id) \in Entries
<1>1. CacheTypeOK /\ IdsAreGivenOut /\ Putting(p)
    BY DEF BoundInv, EnterOrder, PutAt, Putting
<1> DEFINE c == [put[p] EXCEPT !.at = "evict"]
           e == OrderEntry(put[p].key, put[p].id)
<1>2. c \in PutCall /\ c.id = put[p].id
    BY <1>1, PutParts DEF PutCall
<1>3. put' = [put EXCEPT ![p] = c] /\ order' = Append(order, e) /\ UNCHANGED <<records, maxEntries, lastId, overlap, lastPut>>
    BY <1>1 DEF EnterOrder, OrderEntry, CacheTypeOK
<1>4. e \in Entries /\ e.id = put[p].id
    BY <1>1, PutParts DEF Entries, OrderEntry
<1> HIDE DEF c, e
<1>5. /\ order' \in Seq(Entries) /\ Len(order') = Len(order) + 1 /\ Len(order) \in Nat
      /\ (\A n \in 1..Len(order) : order'[n] = order[n]) /\ order'[Len(order) + 1] = e
    BY <1>1, <1>3, <1>4, AtTheEnd, LenProperties DEF CacheTypeOK
<1>6. e.id <= lastId
    BY <1>1, <1>4 DEF IdsAreGivenOut
<1>7. \A n \in 1..Len(order') : order'[n].id <= lastId
    <2> TAKE n \in 1..Len(order')
    <2>1. n \in 1..Len(order) \/ n = Len(order) + 1
      BY <1>5
    <2> QED  BY <1>1, <1>5, <1>6, <2>1 DEF IdsAreGivenOut
<1>8. MovesOn(p, c)
    BY <1>1, <1>2, <1>3 DEF MovesOn
<1>9. NothingNew
    BY <1>1, <1>3, <1>5, <1>7 DEF NothingNew, CacheTypeOK
<1> QED  BY <1>3, <1>4, <1>8, <1>9 DEF c, e

LEMMA TakeOldestIs ==
    ASSUME BoundInv, NEW p \in Putter, TakeOldest(p)
    PROVE  /\ order # <<>> /\ order[1] \in Entries
           /\ order' = Tail(order)
           /\ UNCHANGED records
           /\ NothingNew
           /\ \/ /\ Unreplaced(order[1])
                 /\ MovesOn(p, [put[p] EXCEPT !.at = "remove", !.victim = order[1].key])
              \/ ~Unreplaced(order[1]) /\ put' = put /\ MovesOn(p, put[p])
<1>1. CacheTypeOK /\ IdsAreGivenOut /\ Putting(p)
    BY DEF BoundInv, TakeOldest, PutAt, Putting
<1>2. order # <<>> /\ order' = Tail(order) /\ UNCHANGED <<records, maxEntries, lastId, overlap, lastPut>>
    BY DEF TakeOldest
<1>3. /\ Tail(order) \in Seq(Entries) /\ Len(order) \in Nat \ {0} /\ Len(Tail(order)) = Len(order) - 1
      /\ (\A n \in 1..Len(order) - 1 : Tail(order)[n] = order[n + 1])
      /\ Head(order) = order[1] /\ order[1] \in Entries
    BY <1>1, <1>2, WithoutTheFirst DEF CacheTypeOK
<1>4. \A n \in 1..Len(order') : order'[n].id <= lastId
    <2> TAKE n \in 1..Len(order')
    <2>1. n \in 1..Len(order) - 1 /\ n + 1 \in 1..Len(order)
      BY <1>2, <1>3
    <2> QED  BY <1>1, <1>2, <1>3, <2>1 DEF IdsAreGivenOut
<1>5. NothingNew
    BY <1>1, <1>2, <1>3, <1>4 DEF NothingNew, CacheTypeOK
<1>6. CASE Unreplaced(order[1])
  <2> DEFINE c == [put[p] EXCEPT !.at = "remove", !.victim = order[1].key]
  <2>1. order[1].key \in CacheKey
    BY <1>3 DEF Entries
  <2>2. c \in PutCall /\ c.id = put[p].id
    BY <1>1, <2>1, PutParts DEF PutCall
  <2>3. put' = [put EXCEPT ![p] = c]
    BY <1>3, <1>6, <1>1 DEF TakeOldest, CacheTypeOK
  <2>4. MovesOn(p, c)
    BY <1>1, <1>2, <2>2, <2>3 DEF MovesOn
  <2> QED  BY <1>2, <1>3, <1>5, <1>6, <2>4
<1>7. CASE ~Unreplaced(order[1])
  <2>1. put' = put
    BY <1>3, <1>7 DEF TakeOldest
  <2>2. put = [put EXCEPT ![p] = put[p]]
    BY <1>1 DEF CacheTypeOK
  <2>3. MovesOn(p, put[p])
    BY <1>1, <1>2, <2>1, <2>2, PutParts DEF MovesOn
  <2> QED  BY <1>2, <1>3, <1>5, <1>7, <2>1, <2>3
<1> QED  BY <1>6, <1>7

LEMMA RemoveVictimIs ==
    ASSUME BoundInv, NEW p \in Putter, RemoveVictim(p)
    PROVE  /\ MovesOn(p, [put[p] EXCEPT !.at = "evict"]) /\ NothingNew
           /\ put[p].victim \in CacheKey
           /\ records'[put[p].victim] = 0
           /\ \A k \in CacheKey : k # put[p].victim => records'[k] = records[k]
           /\ order' = order
<1>1. CacheTypeOK /\ IdsAreGivenOut /\ Putting(p)
    BY DEF BoundInv, RemoveVictim, PutAt, Putting
<1> DEFINE c == [put[p] EXCEPT !.at = "evict"]
<1>2. c \in PutCall /\ c.id = put[p].id /\ put[p].victim \in CacheKey
    BY <1>1, PutParts DEF PutCall
<1>3. /\ put' = [put EXCEPT ![p] = c] /\ records' = [records EXCEPT ![put[p].victim] = 0]
      /\ UNCHANGED <<order, maxEntries, lastId, overlap, lastPut>>
    BY <1>1 DEF RemoveVictim, CacheTypeOK
<1> HIDE DEF c
<1>4. /\ records'[put[p].victim] = 0
      /\ \A k \in CacheKey : k # put[p].victim => records'[k] = records[k]
    BY <1>1, <1>2, <1>3 DEF CacheTypeOK
<1>5. records' \in [CacheKey -> 0..MaxPuts]
  <2>1. 0 \in 0..MaxPuts
    BY BoundsAreNat
  <2> QED  BY <1>1, <1>3, <2>1 DEF CacheTypeOK
<1>6. NothingNew
    BY <1>1, <1>3, <1>4, <1>5 DEF NothingNew, CacheTypeOK, IdsAreGivenOut
<1>7. MovesOn(p, c)
    BY <1>1, <1>2, <1>3 DEF MovesOn
<1> QED  BY <1>2, <1>3, <1>4, <1>6, <1>7 DEF c

LEMMA UnlockIs ==
    ASSUME BoundInv, NEW p \in Putter, Unlock(p)
    PROVE  /\ MovesOn(p, [put[p] EXCEPT !.at = "insert"]) /\ NothingNew
           /\ UNCHANGED <<records, order>>
<1>1. CacheTypeOK /\ IdsAreGivenOut /\ Putting(p)
    BY DEF BoundInv, Unlock, PutAt, Putting
<1> DEFINE c == [put[p] EXCEPT !.at = "insert"]
<1>2. c \in PutCall /\ c.id = put[p].id
    BY <1>1, PutParts DEF PutCall
<1>3. put' = [put EXCEPT ![p] = c] /\ UNCHANGED <<records, order, maxEntries, lastId, overlap, lastPut>>
    BY <1>1 DEF Unlock, CacheTypeOK
<1> HIDE DEF c
<1>4. NothingNew
    BY <1>1, <1>3 DEF NothingNew, CacheTypeOK, IdsAreGivenOut
<1>5. MovesOn(p, c)
    BY <1>1, <1>2, <1>3 DEF MovesOn
<1> QED  BY <1>3, <1>4, <1>5 DEF c

\* A thread that moves on, but not to its insert, keeps the room.
LEMMA MovingKeepsRoom ==
    ASSUME BoundInv, NEW p \in Putter, NEW c, MovesOn(p, c), NothingNew, c.at # "insert",
           Evictables' \subseteq Evictables
    PROVE  BoundInv'
<1>1. CacheTypeOK
    BY DEF BoundInv
<1>2. Inserting' \subseteq Inserting
  <2>1. put'[p] = c /\ \A q \in Putter : q # p => put'[q] = put[q]
    BY <1>1, OthersPut DEF MovesOn
  <2> QED  BY <2>1 DEF Inserting, PutAt
<1>3. Cached' \subseteq Cached
    BY DEF Cached, NothingNew
<1> QED  BY <1>2, <1>3, MovingOn, RoomIsKept DEF BoundInv, MovesOn

LEMMA EnterOrderBound ==
    ASSUME BoundInv, NEW p \in Putter, EnterOrder(p)
    PROVE  BoundInv'
<1> DEFINE e == OrderEntry(put[p].key, put[p].id)
<1>1. CacheTypeOK /\ IdsAreGivenOut /\ Putting(p)
    BY DEF BoundInv, EnterOrder, PutAt, Putting
<1>2. /\ MovesOn(p, [put[p] EXCEPT !.at = "evict"]) /\ NothingNew
      /\ order' = Append(order, e) /\ e \in Entries
    BY EnterOrderIs
<1>3. \A k \in CacheKey : OrderEntry(k, records[k]) # e
    BY <1>1 DEF IdsAreGivenOut, OrderEntry
<1> HIDE DEF e
<1>4. ASSUME NEW x, x \in ToSet(order'), x # e PROVE x \in ToSet(order)
  <2>1. order \in Seq(Entries) /\ order' \in Seq(Entries)
    BY <1>1, <1>2, AtTheEnd DEF CacheTypeOK
  <2>2. PICK n \in 1..Len(order') : order'[n] = x
    BY <1>4, <2>1, Elements
  <2>3. /\ Len(order') = Len(order) + 1 /\ Len(order) \in Nat /\ order'[Len(order) + 1] = e
        /\ \A m \in 1..Len(order) : order'[m] = order[m]
    BY <1>2, <2>1, AtTheEnd, LenProperties
  <2>4. n \in 1..Len(order)
    BY <1>4, <2>2, <2>3
  <2> QED  BY <2>1, <2>2, <2>3, <2>4, Elements
<1>5. records' = records
    BY DEF EnterOrder
<1>6. Evictables' \subseteq Evictables
    BY <1>3, <1>4, <1>5 DEF Evictables, Evictable, OrderEntry
<1>7. put[p] \in PutCall
    BY <1>1, PutParts
<1>8. [put[p] EXCEPT !.at = "evict"].at = "evict"
    BY <1>7 DEF PutCall
<1> QED  BY <1>2, <1>6, <1>8, MovingKeepsRoom

LEMMA TakeOldestBound ==
    ASSUME BoundInv, NEW p \in Putter, TakeOldest(p)
    PROVE  BoundInv'
<1>1. CacheTypeOK /\ Putting(p) /\ put[p].at = "evict" /\ put[p] \in PutCall
    BY PutParts DEF BoundInv, TakeOldest, PutAt, Putting
<1>2. order # <<>> /\ order[1] \in Entries /\ order' = Tail(order) /\ records' = records /\ NothingNew
    BY TakeOldestIs
<1>3. \A x : x \in ToSet(order') => x \in ToSet(order)
  <2> TAKE x
  <2> HAVE x \in ToSet(order')
  <2>1. order \in Seq(Entries)
    BY <1>1 DEF CacheTypeOK
  <2>2. /\ order' \in Seq(Entries) /\ Len(order) \in Nat \ {0} /\ Len(order') = Len(order) - 1
        /\ \A n \in 1..Len(order) - 1 : order'[n] = order[n + 1]
    BY <1>2, <2>1, WithoutTheFirst
  <2>3. PICK n \in 1..Len(order') : order'[n] = x
    BY <2>2, Elements
  <2>4. n + 1 \in 1..Len(order) /\ order[n + 1] = x
    BY <2>2, <2>3
  <2> QED  BY <2>1, <2>4, Elements
<1>4. Evictables' \subseteq Evictables
    BY <1>2, <1>3 DEF Evictables, Evictable
<1>5. CASE MovesOn(p, [put[p] EXCEPT !.at = "remove", !.victim = order[1].key])
  <2>1. [put[p] EXCEPT !.at = "remove", !.victim = order[1].key].at = "remove"
    BY <1>1 DEF PutCall
  <2> QED  BY <1>2, <1>4, <1>5, <2>1, MovingKeepsRoom
<1>6. CASE MovesOn(p, put[p])
    BY <1>1, <1>2, <1>4, <1>6, MovingKeepsRoom
<1> QED  BY <1>5, <1>6, TakeOldestIs

LEMMA RemoveVictimBound ==
    ASSUME BoundInv, NEW p \in Putter, RemoveVictim(p)
    PROVE  BoundInv'
<1>1. Putting(p) /\ CacheTypeOK
    BY DEF BoundInv, RemoveVictim, PutAt, Putting
<1>2. [put[p] EXCEPT !.at = "evict"].at = "evict"
    BY <1>1, PutParts DEF PutCall
<1>3. Evictables' \subseteq Evictables
  <2>1. \A k \in CacheKey : records'[k] # 0 => records'[k] = records[k]
    BY RemoveVictimIs
  <2>2. order' = order
    BY RemoveVictimIs
  <2> QED  BY <2>1, <2>2 DEF Evictables, Evictable
<1> QED  BY <1>2, <1>3, RemoveVictimIs, MovingKeepsRoom

\* Who unlocks has seen room for everything that can be evicted, or nothing.
LEMMA UnlockBound ==
    ASSUME BoundInv, NEW p \in Putter, Unlock(p)
    PROVE  BoundInv'
<1>1. CacheTypeOK /\ RoomIsMade
    BY DEF BoundInv
<1>2. UNCHANGED <<records, order, maxEntries>>
    BY DEF Unlock
<1>3. Cached' = Cached /\ Evictables' = Evictables
    BY <1>2 DEF Cached, Evictables, Evictable
<1>4. Cardinality(Evictables) <= maxEntries /\ IsFiniteSet(Evictables)
  <2>1. maxEntries \in Nat /\ IsFiniteSet(Cached)
    BY <1>1 DEF CacheTypeOK, RoomIsMade
  <2>2. CASE ~Over
    <3>1. Cardinality(Cached) <= maxEntries
      BY <2>1, <2>2, FS_CardinalityType DEF Over
    <3> QED  BY <2>1, <3>1, EvictablesAreCached, Fewer
  <2>3. CASE order = <<>>
    <3>1. ToSet(order) = {}
      BY <2>3, EmptySeq DEF ToSet
    <3>2. Evictables = {}
      BY <3>1 DEF Evictables, Evictable
    <3> QED  BY <2>1, <3>2, FS_EmptySet
  <2> QED  BY <2>2, <2>3 DEF Unlock
<1>5. Cardinality(Inserting') <= Cardinality(Putter) /\ Cardinality(Inserting') \in Nat /\ Cardinality(Putter) \in Nat
  <2>1. Inserting' \subseteq Putter
    BY DEF Inserting
  <2> QED  BY <2>1, PuttersAreFinite, Fewer
<1>6. Cardinality(Evictables) \in Nat
    BY <1>4, FS_CardinalityType
<1>7. RoomIsMade'
    BY <1>1, <1>2, <1>3, <1>4, <1>5, <1>6 DEF RoomIsMade, CacheTypeOK
<1> QED  BY <1>7, UnlockIs, MovingOn DEF BoundInv

LEMMA InsertRecordIs ==
    ASSUME BoundInv, NEW p \in Putter, InsertRecord(p)
    PROVE  /\ Putting(p) /\ put[p].at = "insert" /\ put[p].key \in CacheKey /\ put[p].id \in 1..MaxPuts
           /\ put'[p] = NoPut /\ \A q \in Putter : q # p => put'[q] = put[q]
           /\ records'[put[p].key] = put[p].id /\ lastPut'[put[p].key] = put[p].id
           /\ \A k \in CacheKey : k # put[p].key => records'[k] = records[k] /\ lastPut'[k] = lastPut[k]
           /\ UNCHANGED <<maxEntries, order, lastId, overlap>>
           /\ CacheTypeOK'
<1>1. CacheTypeOK /\ Putting(p) /\ put[p].at = "insert"
    BY DEF BoundInv, InsertRecord, PutAt, Putting
<1>2. put[p].key \in CacheKey /\ put[p].id \in 1..MaxPuts
    BY <1>1, PutParts
<1>3. /\ put' = [put EXCEPT ![p] = NoPut]
      /\ records' = [records EXCEPT ![put[p].key] = put[p].id]
      /\ lastPut' = [lastPut EXCEPT ![put[p].key] = put[p].id]
      /\ UNCHANGED <<maxEntries, order, lastId, overlap>>
    BY DEF InsertRecord
<1>4. put[p].id \in 0..MaxPuts
    BY <1>2, BoundsAreNat
<1>5. CacheTypeOK'
    BY <1>1, <1>2, <1>3, <1>4 DEF CacheTypeOK
<1>6. put'[p] = NoPut /\ \A q \in Putter : q # p => put'[q] = put[q]
    BY <1>1, <1>3, OthersPut
<1>7. /\ records'[put[p].key] = put[p].id /\ lastPut'[put[p].key] = put[p].id
      /\ \A k \in CacheKey : k # put[p].key => records'[k] = records[k] /\ lastPut'[k] = lastPut[k]
    BY <1>1, <1>2, <1>3 DEF CacheTypeOK
<1> QED  BY <1>1, <1>2, <1>3, <1>5, <1>6, <1>7

LEMMA InsertRecordBound ==
    ASSUME BoundInv, NEW p \in Putter, InsertRecord(p)
    PROVE  BoundInv'
<1>1. CacheTypeOK /\ IdsAreGivenOut /\ RoomIsMade
    BY DEF BoundInv
<1>2. /\ Putting(p) /\ put[p].at = "insert" /\ put[p].key \in CacheKey /\ put[p].id \in 1..MaxPuts
      /\ put'[p] = NoPut /\ (\A q \in Putter : q # p => put'[q] = put[q])
      /\ records'[put[p].key] = put[p].id /\ lastPut'[put[p].key] = put[p].id
      /\ (\A k \in CacheKey : k # put[p].key => records'[k] = records[k] /\ lastPut'[k] = lastPut[k])
      /\ UNCHANGED <<maxEntries, order, lastId, overlap>>
    BY InsertRecordIs
<1>3. IdsAreGivenOut'
  <2>1. put[p].id <= lastId
    BY <1>1, <1>2 DEF IdsAreGivenOut
  <2>2. \A k \in CacheKey : records'[k] <= lastId' /\ lastPut'[k] <= lastId'
    BY <1>1, <1>2, <2>1 DEF IdsAreGivenOut
  <2>3. \A n \in 1..Len(order') : order'[n].id <= lastId'
    BY <1>1, <1>2 DEF IdsAreGivenOut
  <2>4. ASSUME NEW q \in Putter, Putting(q)'
        PROVE  /\ put'[q].id <= lastId'
               /\ \A k \in CacheKey : records'[k] # put'[q].id
               /\ \A u \in Putter : Putting(u)' /\ put'[u].id = put'[q].id => u = q
    <3>1. q # p /\ put'[q] = put[q] /\ Putting(q)
      BY <1>2, <2>4 DEF Putting
    <3>2. put[q].id # put[p].id
      BY <1>1, <1>2, <3>1 DEF IdsAreGivenOut
    <3>3. \A k \in CacheKey : records'[k] # put'[q].id
      BY <1>1, <1>2, <3>1, <3>2 DEF IdsAreGivenOut
    <3>4. \A u \in Putter : Putting(u)' => put'[u] = put[u] /\ Putting(u)
      BY <1>2 DEF Putting
    <3> QED  BY <1>1, <1>2, <3>1, <3>3, <3>4 DEF IdsAreGivenOut
  <2> QED  BY <2>2, <2>3, <2>4 DEF IdsAreGivenOut
<1>4. RoomIsMade'
  <2>1. IsFiniteSet(Cached) /\ IsFiniteSet(Evictables) /\ IsFiniteSet(Inserting)
    BY <1>1, EvictablesAreCached, Fewer, PuttersAreFinite DEF RoomIsMade, Inserting
  <2>2. IsFiniteSet(Cached')
    <3>1. Cached' \subseteq Cached \union {put[p].key}
      BY <1>2 DEF Cached
    <3> QED  BY <2>1, <3>1, OneMore
  <2>3. /\ Cardinality(Evictables') <= Cardinality(Evictables) + 1
        /\ Cardinality(Evictables') \in Nat /\ Cardinality(Evictables) \in Nat
    <3>1. Evictables' \subseteq Evictables \union {put[p].key}
      BY <1>2 DEF Evictables, Evictable
    <3>2. IsFiniteSet(Evictables')
      BY <2>1, <3>1, OneMore
    <3> QED  BY <2>1, <3>1, <3>2, OneMore, FS_CardinalityType
  <2>4. /\ Cardinality(Inserting') = Cardinality(Inserting) - 1
        /\ Cardinality(Inserting') \in Nat /\ Cardinality(Inserting) \in Nat
    <3>1. p \in Inserting
      BY <1>2 DEF Inserting, PutAt, Putting
    <3>2. Inserting' = Inserting \ {p}
      BY <1>2 DEF Inserting, PutAt, Putting
    <3>3. IsFiniteSet(Inserting \ {p}) /\ Cardinality(Inserting \ {p}) = Cardinality(Inserting) - 1
      BY <2>1, <3>1, FS_RemoveElement
    <3> QED  BY <2>1, <3>2, <3>3, FS_CardinalityType
  <2>5. maxEntries \in Nat /\ Cardinality(Putter) \in Nat
    BY <1>1, PuttersAreFinite, FS_CardinalityType DEF CacheTypeOK
  <2> QED  BY <1>1, <1>2, <2>2, <2>3, <2>4, <2>5 DEF RoomIsMade
<1> QED  BY <1>3, <1>4, InsertRecordIs DEF BoundInv

LEMMA StepKeepsBound == BoundInv /\ [CacheNext]_cacheVars => BoundInv'
<1> SUFFICES ASSUME BoundInv, [CacheNext]_cacheVars PROVE BoundInv'
    OBVIOUS
<1>1. CASE UNCHANGED cacheVars
    BY <1>1 DEF cacheVars, BoundInv, CacheTypeOK, IdsAreGivenOut, RoomIsMade, Putting, PutAt,
                Cached, Evictables, Evictable, Inserting
<1>2. CASE CacheNext
    BY <1>2, BeginPutBound, EnterOrderBound, TakeOldestBound, RemoveVictimBound, UnlockBound,
       InsertRecordBound DEF CacheNext
<1> QED  BY <1>1, <1>2

(* The ids of records, puts and order entries are from the counter. *)
THEOREM CacheTypeCorrect == CacheSpec => [](CacheTypeOK /\ IdsAreGivenOut)
<1>1. BoundInv => CacheTypeOK /\ IdsAreGivenOut
    BY DEF BoundInv
<1> QED  BY <1>1, InitMakesRoom, StepKeepsBound, PTL DEF CacheSpec

(* However many threads put at the same time, the records that can be      *)
(* evicted exceed the limit by at most one for each (inflight.rs:109-127). *)
THEOREM CacheIsBounded == CacheSpec => []EvictableAreBounded
<1>1. BoundInv => EvictableAreBounded
  <2> SUFFICES ASSUME BoundInv PROVE EvictableAreBounded
    OBVIOUS
  <2>1. /\ Cardinality(Evictables) + Cardinality(Inserting) <= maxEntries + Cardinality(Putter)
        /\ IsFiniteSet(Cached) /\ maxEntries \in Nat
    BY DEF BoundInv, RoomIsMade, CacheTypeOK
  <2>2. Cardinality(Evictables) \in Nat
    BY <2>1, EvictablesAreCached, Fewer
  <2>3. Cardinality(Inserting) \in Nat /\ Cardinality(Putter) \in Nat
    BY PuttersAreFinite, Fewer DEF Inserting
  <2>4. Cardinality(Evictables) <= maxEntries + Cardinality(Putter)
    BY <2>1, <2>2, <2>3
  <2> QED  BY <2>4 DEF EvictableAreBounded, Evictables
<1> QED  BY <1>1, InitMakesRoom, StepKeepsBound, PTL DEF CacheSpec

-----------------------------------------------------------------------------
(* Puts that do not overlap.  The thread whose put is under way is the only *)
(* one, so a fact about a put is a fact about its own.                      *)

LEMMA InitIsByAge == CacheInit => AgeInv
<1> SUFFICES ASSUME CacheInit PROVE AgeInv
    OBVIOUS
<1>1. Cached = {} /\ Len(order) = 0 /\ (\A p \in Putter : ~Putting(p) /\ ~PutAt(p, "remove") /\ ~PutAt(p, "insert"))
    BY EmptySeq DEF CacheInit, Cached, Putting, PutAt
<1>2. Cardinality(Cached) = 0 /\ maxEntries \in Nat
    BY <1>1, FS_EmptySet, BoundsAreNat DEF CacheInit
<1> QED  BY <1>1, <1>2 DEF AgeInv, OneAtATime, OrderIsByAge, NewestIsLast, CachedAreEntered,
            VictimIsOldest, OneOver, GoneAreOlder

LEMMA BeginPutAge ==
    ASSUME NewestInv, NEW p \in Putter, NEW k \in CacheKey, BeginPut(p, k), ~overlap'
    PROVE  AgeInv'
<1> DEFINE c == [key |-> k, id |-> lastId + 1, at |-> "lock", victim |-> k]
<1>1. /\ \A q \in Putter : put[q] = NoPut
      /\ lastId' = lastId + 1 /\ put' = [put EXCEPT ![p] = c]
      /\ UNCHANGED <<maxEntries, records, order, lastPut>>
      /\ ~overlap
    BY DEF BeginPut
<1>2. AgeInv /\ CacheTypeOK /\ IdsAreGivenOut
    BY <1>1 DEF NewestInv, BoundInv
<1>3. c.id = lastId + 1 /\ c.at = "lock"
    OBVIOUS
<1> HIDE DEF c
<1>4. put'[p] = c /\ \A q \in Putter : q # p => put'[q] = NoPut
    BY <1>1, <1>2, OthersPut
<1>5. \A q \in Putter : Putting(q)' => q = p /\ put'[q] = c
    BY <1>4 DEF Putting
<1>6. lastId \in Nat
    BY <1>2, BoundsAreNat DEF CacheTypeOK
<1>7. \A l \in CacheKey : lastPut[l] < c.id
    BY <1>2, <1>3, <1>6, BoundsAreNat DEF IdsAreGivenOut, CacheTypeOK
<1>8. \A n \in 1..Len(order) : order[n].id < c.id
  <2> TAKE n \in 1..Len(order)
  <2>1. order[n] \in Entries /\ order[n].id <= lastId
    BY <1>2, ElementOfSeq DEF CacheTypeOK, IdsAreGivenOut
  <2>2. order[n].id \in Nat
    BY <2>1, BoundsAreNat DEF Entries
  <2> QED  BY <1>3, <1>6, <2>1, <2>2
<1>9. NewestIsLast'
    BY <1>1, <1>3, <1>5, <1>7, <1>8 DEF NewestIsLast
<1>10. Cached' = Cached
    BY <1>1 DEF Cached
<1>11. \A q \in Putter : ~PutAt(q, "remove")' /\ ~PutAt(q, "insert")' /\ ~PutAt(q, "remove")
    BY <1>1, <1>3, <1>5 DEF PutAt, Putting
<1>12. CachedAreEntered'
    BY <1>1, <1>2, <1>10, <1>11 DEF AgeInv, CachedAreEntered
<1> QED  BY <1>1, <1>2, <1>5, <1>9, <1>10, <1>11, <1>12
         DEF AgeInv, OneAtATime, OrderIsByAge, VictimIsOldest, OneOver, GoneAreOlder

\* What a thread that goes on leaves of the argument to the others: nothing,
\* it is alone.
LEMMA MovingAlone ==
    ASSUME NewestInv, ~overlap, NEW p \in Putter, NEW c, MovesOn(p, c)
    PROVE  /\ AgeInv /\ CacheTypeOK /\ IdsAreGivenOut /\ IsFiniteSet(Cached)
           /\ ~overlap'
           /\ put'[p] = c
           /\ \A q \in Putter : Putting(q) => q = p
           /\ \A q \in Putter : Putting(q)' => q = p
           /\ OneAtATime'
           /\ \A k \in CacheKey : lastPut'[k] < c.id
<1>1. AgeInv /\ CacheTypeOK /\ IdsAreGivenOut /\ IsFiniteSet(Cached) /\ ~overlap'
    BY DEF NewestInv, BoundInv, RoomIsMade, MovesOn
<1>2. put'[p] = c /\ \A q \in Putter : q # p => put'[q] = put[q]
    BY <1>1, OthersPut DEF MovesOn
<1>3. \A q \in Putter : Putting(q) => q = p
    BY <1>1 DEF AgeInv, OneAtATime, MovesOn
<1>4. \A q \in Putter : Putting(q)' => q = p
    BY <1>2, <1>3 DEF Putting
<1>5. \A k \in CacheKey : lastPut'[k] < c.id
    BY <1>1 DEF AgeInv, NewestIsLast, MovesOn
<1> QED  BY <1>1, <1>2, <1>3, <1>4, <1>5 DEF OneAtATime

LEMMA EnterOrderAge ==
    ASSUME NewestInv, NEW p \in Putter, EnterOrder(p), ~overlap'
    PROVE  AgeInv'
<1> DEFINE e == OrderEntry(put[p].key, put[p].id)
           c == [put[p] EXCEPT !.at = "evict"]
<1>1. BoundInv
    BY DEF NewestInv
<1>2. MovesOn(p, c) /\ NothingNew /\ order' = Append(order, e) /\ e \in Entries
    BY <1>1, EnterOrderIs
<1>3. ~overlap
    BY <1>2 DEF MovesOn
<1>4. /\ AgeInv /\ CacheTypeOK /\ IdsAreGivenOut /\ put'[p] = c /\ OneAtATime'
      /\ (\A q \in Putter : Putting(q) => q = p) /\ (\A q \in Putter : Putting(q)' => q = p)
      /\ (\A k \in CacheKey : lastPut'[k] < c.id)
    BY <1>2, <1>3, MovingAlone
<1>5. Putting(p) /\ put[p].at = "lock" /\ put[p] \in PutCall
    BY <1>4, PutParts DEF EnterOrder, PutAt, Putting
<1>6. c.at = "evict" /\ c.id = put[p].id /\ c.key = put[p].key /\ e.id = put[p].id
      /\ e = OrderEntry(c.key, c.id)
    BY <1>5 DEF PutCall, OrderEntry
<1> HIDE DEF c, e
<1>7. /\ order' \in Seq(Entries) /\ Len(order') = Len(order) + 1 /\ Len(order) \in Nat
      /\ (\A n \in 1..Len(order) : order'[n] = order[n]) /\ order'[Len(order) + 1] = e
    BY <1>2, <1>4, AtTheEnd, LenProperties DEF CacheTypeOK
<1>8. UNCHANGED <<records, maxEntries, lastPut>>
    BY DEF EnterOrder
<1>9. Cached' = Cached
    BY <1>8 DEF Cached
<1>10. \A n \in 1..Len(order) : order[n].id < e.id
    BY <1>4, <1>5, <1>6 DEF AgeInv, NewestIsLast
<1>11. OrderIsByAge'
  <2> SUFFICES ASSUME NEW m \in 1..Len(order'), NEW n \in 1..Len(order'), m < n
               PROVE  order'[m].id < order'[n].id
    BY DEF OrderIsByAge
  <2>1. m \in 1..Len(order) /\ (n \in 1..Len(order) \/ n = Len(order) + 1)
    BY <1>7
  <2> QED  BY <1>4, <1>7, <1>10, <2>1 DEF AgeInv, OrderIsByAge
<1>12. NewestIsLast'
  <2>1. order' # <<>> /\ order'[Len(order')] = OrderEntry(c.key, c.id)
    <3>1. Len(order') # 0
      BY <1>7
    <3>2. order' # <<>>
      BY <3>1, EmptySeq
    <3> QED  BY <1>6, <1>7, <3>2
  <2> QED  BY <1>4, <1>6, <2>1 DEF NewestIsLast
<1>13. \A q \in Putter : ~PutAt(q, "remove") /\ ~PutAt(q, "remove")' /\ ~PutAt(q, "insert")'
    BY <1>4, <1>5, <1>6 DEF PutAt, Putting
<1>14. CachedAreEntered'
  <2> SUFFICES ASSUME NEW k \in Cached
               PROVE  /\ records'[k] = lastPut'[k]
                      /\ \E n \in 1..Len(order') : order'[n] = OrderEntry(k, records'[k])
    BY <1>9 DEF CachedAreEntered
  <2>1. records[k] = lastPut[k] /\ \E n \in 1..Len(order) : order[n] = OrderEntry(k, records[k])
    BY <1>4, <1>13 DEF AgeInv, CachedAreEntered
  <2>2. PICK n \in 1..Len(order) : order[n] = OrderEntry(k, records[k])
    BY <2>1
  <2>3. n \in 1..Len(order') /\ order'[n] = order[n]
    BY <1>7
  <2> QED  BY <1>8, <2>1, <2>2, <2>3
<1>15. OneOver'
    BY <1>4, <1>8, <1>9, <1>13 DEF AgeInv, OneOver
<1>16. GoneAreOlder'
    BY <1>4, <1>8, <1>9 DEF AgeInv, GoneAreOlder
<1>17. VictimIsOldest'
    BY <1>13 DEF VictimIsOldest
<1> QED  BY <1>4, <1>11, <1>12, <1>14, <1>15, <1>16, <1>17 DEF AgeInv

\* While there are too many, what is put is not the only entry, so its own
\* entry stays in the order; the oldest entry is of the oldest record.
LEMMA TakeOldestAge ==
    ASSUME NewestInv, NEW p \in Putter, TakeOldest(p), ~overlap'
    PROVE  AgeInv'
<1>1. BoundInv /\ Over
    BY DEF NewestInv, TakeOldest
<1>2. /\ order # <<>> /\ order[1] \in Entries /\ order' = Tail(order) /\ UNCHANGED records
      /\ NothingNew
    BY <1>1, TakeOldestIs
<1>3. PICK c : MovesOn(p, c) /\ \/ /\ Unreplaced(order[1])
                                   /\ c = [put[p] EXCEPT !.at = "remove", !.victim = order[1].key]
                                \/ ~Unreplaced(order[1]) /\ c = put[p]
    BY <1>1, TakeOldestIs
<1>4. /\ AgeInv /\ CacheTypeOK /\ IdsAreGivenOut /\ IsFiniteSet(Cached) /\ put'[p] = c /\ OneAtATime'
      /\ (\A q \in Putter : Putting(q) => q = p) /\ (\A q \in Putter : Putting(q)' => q = p)
      /\ (\A k \in CacheKey : lastPut'[k] < c.id)
    BY <1>3, MovingAlone DEF MovesOn
<1>5. Putting(p) /\ put[p].at = "evict" /\ put[p] \in PutCall
    BY <1>4, PutParts DEF TakeOldest, PutAt, Putting
<1>6. c.id = put[p].id /\ c.key = put[p].key /\ c.at \in {"evict", "remove"}
    BY <1>3, <1>5 DEF PutCall
<1>7. /\ Unreplaced(order[1]) => c.at = "remove" /\ c.victim = order[1].key
      /\ ~Unreplaced(order[1]) => c.at = "evict"
    BY <1>3, <1>5 DEF PutCall
<1>8. UNCHANGED <<maxEntries, lastPut>>
    BY DEF TakeOldest
<1>9. /\ Len(order) \in Nat \ {0} /\ Len(order') = Len(order) - 1 /\ order' \in Seq(Entries)
      /\ (\A n \in 1..Len(order) - 1 : order'[n] = order[n + 1])
    BY <1>2, <1>4, WithoutTheFirst DEF CacheTypeOK
<1>10. Cached' = Cached
    BY <1>2 DEF Cached
<1>11. \A q \in Putter : ~PutAt(q, "remove") /\ ~PutAt(q, "insert")'
    BY <1>4, <1>5, <1>6 DEF PutAt, Putting
<1>12. \A k \in Cached : /\ records[k] = lastPut[k]
                         /\ \E n \in 1..Len(order) : order[n] = OrderEntry(k, records[k])
    BY <1>4, <1>11 DEF AgeInv, CachedAreEntered
<1>13. order[Len(order)] = OrderEntry(put[p].key, put[p].id)
    BY <1>4, <1>5 DEF AgeInv, NewestIsLast
<1>14. Len(order) # 1
  <2>1. PICK k \in Cached : TRUE
    <3>1. maxEntries \in Nat /\ Cardinality(Cached) \in Nat /\ Cardinality(Cached) > maxEntries
      BY <1>1, <1>4, FS_CardinalityType DEF Over, CacheTypeOK
    <3>2. Cached # {}
      BY <3>1, FS_EmptySet
    <3> QED  BY <3>2
  <2>2. PICK n \in 1..Len(order) : order[n] = OrderEntry(k, records[k])
    BY <1>12
  <2>3. records[k] # put[p].id
    BY <1>4, <1>5 DEF IdsAreGivenOut, Cached
  <2>4. n # Len(order)
    BY <1>13, <2>2, <2>3 DEF OrderEntry
  <2> QED  BY <1>9, <2>4
<1>15. OrderIsByAge'
  <2> SUFFICES ASSUME NEW m \in 1..Len(order'), NEW n \in 1..Len(order'), m < n
               PROVE  order'[m].id < order'[n].id
    BY DEF OrderIsByAge
  <2>1. m + 1 \in 1..Len(order) /\ n + 1 \in 1..Len(order) /\ m + 1 < n + 1
        /\ m \in 1..Len(order) - 1 /\ n \in 1..Len(order) - 1
    BY <1>9
  <2>2. order'[m] = order[m + 1] /\ order'[n] = order[n + 1]
    BY <1>9, <2>1
  <2> QED  BY <1>4, <2>1, <2>2 DEF AgeInv, OrderIsByAge
<1>16. NewestIsLast'
  <2>1. order' # <<>> /\ order'[Len(order')] = OrderEntry(c.key, c.id)
    <3>1. Len(order') # 0 /\ Len(order') \in 1..Len(order) - 1 /\ Len(order') + 1 = Len(order)
      BY <1>9, <1>14
    <3>2. order' # <<>>
      BY <3>1, EmptySeq
    <3>3. order'[Len(order')] = order[Len(order)]
      BY <1>9, <3>1
    <3> QED  BY <1>6, <1>13, <3>2, <3>3
  <2> QED  BY <1>4, <1>6, <2>1 DEF NewestIsLast
<1>17. ASSUME NEW k \in Cached, k # order[1].key \/ ~Unreplaced(order[1])
       PROVE  \E n \in 1..Len(order') : /\ order'[n] = OrderEntry(k, records[k])
                                        /\ order[1].id < records[k]
  <2>1. PICK n \in 1..Len(order) : order[n] = OrderEntry(k, records[k])
    BY <1>12
  <2>2. n # 1
    BY <1>17, <2>1 DEF OrderEntry, Unreplaced
  <2>3. n - 1 \in 1..Len(order) - 1 /\ n - 1 \in 1..Len(order') /\ (n - 1) + 1 = n /\ 1 < n /\ 1 \in 1..Len(order)
    BY <1>9, <2>2
  <2>4. order[1].id < order[n].id
    BY <1>4, <2>3 DEF AgeInv, OrderIsByAge
  <2>5. order[n].id = records[k]
    BY <2>1 DEF OrderEntry
  <2> QED  BY <1>9, <2>1, <2>3, <2>4, <2>5
<1>18. CachedAreEntered'
  <2> SUFFICES ASSUME NEW k \in Cached
               PROVE  /\ records'[k] = lastPut'[k]
                      /\ \/ \E n \in 1..Len(order') : order'[n] = OrderEntry(k, records'[k])
                         \/ \E q \in Putter : PutAt(q, "remove")' /\ put'[q].victim = k
    BY <1>10 DEF CachedAreEntered
  <2>1. CASE k # order[1].key \/ ~Unreplaced(order[1])
    BY <1>2, <1>8, <1>12, <1>17, <2>1
  <2>2. CASE k = order[1].key /\ Unreplaced(order[1])
    <3>1. c \in PutCall
      BY <1>3 DEF MovesOn
    <3>2. PutAt(p, "remove")' /\ put'[p].victim = k
      BY <1>4, <1>7, <2>2, <3>1, IdleIsNone DEF PutAt
    <3> QED  BY <1>2, <1>8, <1>12, <3>2
  <2> QED  BY <2>1, <2>2
<1>19. VictimIsOldest'
  <2> SUFFICES ASSUME NEW q \in Putter, PutAt(q, "remove")'
               PROVE  /\ put'[q].victim \in Cached
                      /\ \A k \in Cached : k # put'[q].victim => records[put'[q].victim] < records[k]
    BY <1>2, <1>10 DEF VictimIsOldest
  <2>1. q = p /\ c.at = "remove"
    BY <1>4 DEF PutAt, Putting
  <2>2. Unreplaced(order[1]) /\ put'[q].victim = order[1].key
    BY <1>4, <1>7, <2>1
  <2>3. records[order[1].key] = order[1].id /\ order[1].key \in CacheKey /\ order[1].id \in 1..MaxPuts
    BY <1>2, <2>2 DEF Unreplaced, Entries
  <2>4. order[1].key \in Cached
    BY <2>3, BoundsAreNat DEF Cached
  <2>5. \A k \in Cached : k # order[1].key => order[1].id < records[k]
    BY <1>17
  <2> QED  BY <2>2, <2>3, <2>4, <2>5
<1>20. OneOver'
    BY <1>4, <1>8, <1>10, <1>11 DEF AgeInv, OneOver
<1>21. GoneAreOlder'
    BY <1>2, <1>4, <1>8, <1>10 DEF AgeInv, GoneAreOlder
<1> QED  BY <1>4, <1>15, <1>16, <1>18, <1>19, <1>20, <1>21 DEF AgeInv

LEMMA RemoveVictimAge ==
    ASSUME NewestInv, NEW p \in Putter, RemoveVictim(p), ~overlap'
    PROVE  AgeInv'
<1> DEFINE c == [put[p] EXCEPT !.at = "evict"]
           gone == put[p].victim
<1>1. BoundInv
    BY DEF NewestInv
<1>2. /\ MovesOn(p, c) /\ NothingNew /\ gone \in CacheKey /\ records'[gone] = 0
      /\ (\A k \in CacheKey : k # gone => records'[k] = records[k]) /\ order' = order
    BY <1>1, RemoveVictimIs
<1>3. /\ AgeInv /\ CacheTypeOK /\ IsFiniteSet(Cached) /\ put'[p] = c /\ OneAtATime'
      /\ (\A q \in Putter : Putting(q) => q = p) /\ (\A q \in Putter : Putting(q)' => q = p)
      /\ (\A k \in CacheKey : lastPut'[k] < c.id)
    BY <1>2, MovingAlone DEF MovesOn
<1>4. PutAt(p, "remove") /\ Putting(p) /\ put[p].at = "remove" /\ put[p] \in PutCall
    BY <1>3, PutParts DEF RemoveVictim, PutAt, Putting
<1>5. c.at = "evict" /\ c.id = put[p].id /\ c.key = put[p].key
    BY <1>4 DEF PutCall
<1>6. UNCHANGED <<maxEntries, lastPut>>
    BY DEF RemoveVictim
<1>7. gone \in Cached /\ \A k \in Cached : k # gone => records[gone] < records[k]
    BY <1>3, <1>4 DEF AgeInv, VictimIsOldest
<1> HIDE DEF c
<1>8. Cached' = Cached \ {gone}
    BY <1>2 DEF Cached
<1>9. \A q \in Putter : ~PutAt(q, "remove")' /\ ~PutAt(q, "insert")'
    BY <1>3, <1>5 DEF PutAt, Putting
<1>10. OrderIsByAge'
    BY <1>2, <1>3 DEF AgeInv, OrderIsByAge
<1>11. NewestIsLast'
  <2>1. order # <<>> /\ order[Len(order)] = OrderEntry(put[p].key, put[p].id)
    BY <1>3, <1>4 DEF AgeInv, NewestIsLast
  <2> QED  BY <1>2, <1>3, <1>5, <2>1 DEF NewestIsLast
<1>12. CachedAreEntered'
  <2> SUFFICES ASSUME NEW k \in Cached, k # gone
               PROVE  /\ records'[k] = lastPut'[k]
                      /\ \E n \in 1..Len(order') : order'[n] = OrderEntry(k, records'[k])
    BY <1>8 DEF CachedAreEntered
  <2>1. \A q \in Putter : PutAt(q, "remove") => put[q].victim # k
    BY <1>3 DEF PutAt, Putting
  <2>2. records[k] = lastPut[k] /\ \E n \in 1..Len(order) : order[n] = OrderEntry(k, records[k])
    BY <1>3, <2>1 DEF AgeInv, CachedAreEntered
  <2>3. records'[k] = records[k]
    BY <1>2 DEF Cached
  <2> QED  BY <1>2, <1>6, <2>2, <2>3
<1>13. OneOver'
  <2>1. Cardinality(Cached') <= Cardinality(Cached) /\ Cardinality(Cached') \in Nat /\ Cardinality(Cached) \in Nat
    <3>1. IsFiniteSet(Cached')
      BY <1>3, <1>8, Fewer
    <3> QED  BY <1>3, <1>8, <3>1, Fewer, FS_CardinalityType
  <2>2. maxEntries \in Nat /\ Cardinality(Cached) <= maxEntries + 1
    BY <1>3 DEF AgeInv, OneOver, CacheTypeOK
  <2>3. Cardinality(Cached') <= maxEntries' + 1
    BY <1>6, <2>1, <2>2
  <2> QED  BY <1>9, <2>3 DEF OneOver
<1>14. GoneAreOlder'
  <2> SUFFICES ASSUME NEW k \in Cached, k # gone, NEW l \in CacheKey, l \notin Cached \/ l = gone
               PROVE  lastPut[l] < records[k]
    <3>1. \A k \in Cached : k # gone => records'[k] = records[k]
      BY <1>2 DEF Cached
    <3> QED  BY <1>6, <1>8, <3>1 DEF GoneAreOlder
  <2>1. CASE l \notin Cached
    BY <1>3, <2>1 DEF AgeInv, GoneAreOlder
  <2>2. CASE l = gone
    BY <1>3, <1>7, <2>2 DEF AgeInv, CachedAreEntered
  <2> QED  BY <2>1, <2>2
<1>15. VictimIsOldest'
    BY <1>9 DEF VictimIsOldest
<1> QED  BY <1>3, <1>10, <1>11, <1>12, <1>13, <1>14, <1>15 DEF AgeInv

\* The order is not empty, it has the own entry: who unlocks has seen room.
LEMMA UnlockAge ==
    ASSUME NewestInv, NEW p \in Putter, Unlock(p), ~overlap'
    PROVE  AgeInv'
<1> DEFINE c == [put[p] EXCEPT !.at = "insert"]
<1>1. BoundInv
    BY DEF NewestInv
<1>2. MovesOn(p, c) /\ UNCHANGED <<records, order>>
    BY <1>1, UnlockIs
<1>3. /\ AgeInv /\ CacheTypeOK /\ IsFiniteSet(Cached) /\ put'[p] = c /\ OneAtATime'
      /\ (\A q \in Putter : Putting(q) => q = p) /\ (\A q \in Putter : Putting(q)' => q = p)
      /\ (\A k \in CacheKey : lastPut'[k] < c.id)
    BY <1>2, MovingAlone DEF MovesOn
<1>4. Putting(p) /\ put[p].at = "evict" /\ put[p] \in PutCall
    BY <1>3, PutParts DEF Unlock, PutAt, Putting
<1>5. c.at = "insert" /\ c.id = put[p].id /\ c.key = put[p].key
    BY <1>4 DEF PutCall
<1>6. UNCHANGED <<maxEntries, lastPut>>
    BY DEF Unlock
<1> HIDE DEF c
<1>7. Cached' = Cached
    BY <1>2 DEF Cached
<1>8. \A q \in Putter : ~PutAt(q, "remove")' /\ ~PutAt(q, "remove")
    BY <1>3, <1>4, <1>5 DEF PutAt, Putting
<1>9. order # <<>> /\ order[Len(order)] = OrderEntry(put[p].key, put[p].id)
    BY <1>3, <1>4 DEF AgeInv, NewestIsLast
<1>10. Cardinality(Cached) <= maxEntries
  <2>1. Cardinality(Cached) \in Nat /\ maxEntries \in Nat
    BY <1>3, FS_CardinalityType DEF CacheTypeOK
  <2> QED  BY <1>9, <2>1 DEF Unlock, Over
<1>11. NewestIsLast'
    BY <1>2, <1>3, <1>5, <1>9 DEF NewestIsLast
<1>12. OneOver'
    BY <1>3, <1>6, <1>7, <1>10 DEF AgeInv, OneOver
<1>13. CachedAreEntered'
    BY <1>2, <1>3, <1>6, <1>7, <1>8 DEF AgeInv, CachedAreEntered
<1>14. OrderIsByAge' /\ GoneAreOlder'
    BY <1>2, <1>3, <1>6, <1>7 DEF AgeInv, OrderIsByAge, GoneAreOlder
<1>15. VictimIsOldest'
    BY <1>8 DEF VictimIsOldest
<1> QED  BY <1>3, <1>11, <1>12, <1>13, <1>14, <1>15 DEF AgeInv

LEMMA InsertRecordAge ==
    ASSUME NewestInv, NEW p \in Putter, InsertRecord(p), ~overlap'
    PROVE  AgeInv'
<1> DEFINE key == put[p].key
           id == put[p].id
<1>1. /\ Putting(p) /\ put[p].at = "insert" /\ key \in CacheKey /\ id \in 1..MaxPuts
      /\ put'[p] = NoPut /\ (\A q \in Putter : q # p => put'[q] = put[q])
      /\ records'[key] = id /\ lastPut'[key] = id
      /\ (\A k \in CacheKey : k # key => records'[k] = records[k] /\ lastPut'[k] = lastPut[k])
      /\ UNCHANGED <<maxEntries, order, lastId, overlap>>
    BY InsertRecordIs DEF NewestInv
<1>2. AgeInv /\ CacheTypeOK /\ IdsAreGivenOut /\ IsFiniteSet(Cached)
    BY <1>1 DEF NewestInv, BoundInv, RoomIsMade
<1>3. /\ \A q \in Putter : Putting(q) => q = p
      /\ \A q \in Putter : ~Putting(q)'
    BY <1>1, <1>2 DEF AgeInv, OneAtATime, Putting
<1>4. \A q \in Putter : ~PutAt(q, "remove") /\ ~PutAt(q, "remove")' /\ ~PutAt(q, "insert")'
    BY <1>1, <1>3 DEF PutAt, Putting
<1>5. /\ \A k \in CacheKey : lastPut[k] < id
      /\ order # <<>> /\ order[Len(order)] = OrderEntry(key, id)
    BY <1>1, <1>2 DEF AgeInv, NewestIsLast
<1>6. PutAt(p, "insert") /\ Cardinality(Cached) <= maxEntries
    BY <1>1, <1>2 DEF AgeInv, OneOver, PutAt, Putting
<1> HIDE DEF key, id
<1>7. Cached' = Cached \union {key}
    BY <1>1, BoundsAreNat DEF Cached
<1>8. CachedAreEntered'
  <2> SUFFICES ASSUME NEW k \in Cached \union {key}
               PROVE  /\ records'[k] = lastPut'[k]
                      /\ \E n \in 1..Len(order') : order'[n] = OrderEntry(k, records'[k])
    BY <1>7 DEF CachedAreEntered
  <2>1. CASE k = key
    <3>1. Len(order) \in 1..Len(order)
      <4>1. Len(order) \in Nat \ {0}
        BY <1>2, <1>5, WithoutTheFirst DEF CacheTypeOK
      <4> QED  BY <4>1
    <3> QED  BY <1>1, <1>5, <2>1, <3>1
  <2>2. CASE k # key
    <3>1. k \in Cached /\ k \in CacheKey
      BY <2>2 DEF Cached
    <3>2. records[k] = lastPut[k] /\ \E n \in 1..Len(order) : order[n] = OrderEntry(k, records[k])
      BY <1>2, <1>4, <3>1 DEF AgeInv, CachedAreEntered
    <3> QED  BY <1>1, <2>2, <3>1, <3>2
  <2> QED  BY <2>1, <2>2
<1>9. OneOver'
  <2>1. IsFiniteSet(Cached')
    BY <1>2, <1>7, OneMore
  <2>2. Cardinality(Cached') <= Cardinality(Cached) + 1 /\ Cardinality(Cached') \in Nat /\ Cardinality(Cached) \in Nat
    BY <1>2, <1>7, <2>1, OneMore, FS_CardinalityType
  <2>3. maxEntries \in Nat
    BY <1>2 DEF CacheTypeOK
  <2>4. Cardinality(Cached') <= maxEntries' + 1
    BY <1>1, <1>6, <2>2, <2>3
  <2> QED  BY <1>4, <2>4 DEF OneOver
<1>10. GoneAreOlder'
  <2> SUFFICES ASSUME NEW k \in Cached \union {key}, NEW l \in CacheKey, l \notin Cached, l # key
               PROVE  lastPut'[l] < records'[k]
    BY <1>7 DEF GoneAreOlder
  <2>1. lastPut'[l] = lastPut[l]
    BY <1>1
  <2>2. CASE k = key
    BY <1>1, <1>5, <2>1, <2>2
  <2>3. CASE k # key
    <3>1. k \in Cached /\ k \in CacheKey
      BY <2>3 DEF Cached
    <3> QED  BY <1>1, <1>2, <2>1, <2>3, <3>1 DEF AgeInv, GoneAreOlder
  <2> QED  BY <2>2, <2>3
<1>11. OneAtATime' /\ NewestIsLast'
    BY <1>3 DEF OneAtATime, NewestIsLast
<1>12. VictimIsOldest'
    BY <1>4 DEF VictimIsOldest
<1>13. OrderIsByAge'
    BY <1>1, <1>2 DEF AgeInv, OrderIsByAge
<1> QED  BY <1>8, <1>9, <1>10, <1>11, <1>12, <1>13 DEF AgeInv

LEMMA StepKeepsNewest == NewestInv /\ [CacheNext]_cacheVars => NewestInv'
<1> SUFFICES ASSUME NewestInv, [CacheNext]_cacheVars PROVE NewestInv'
    OBVIOUS
<1>1. BoundInv'
    BY StepKeepsBound DEF NewestInv
<1>2. CASE UNCHANGED cacheVars
    BY <1>1, <1>2 DEF cacheVars, NewestInv, AgeInv, OneAtATime, OrderIsByAge, NewestIsLast,
        CachedAreEntered, VictimIsOldest, OneOver, GoneAreOlder, Putting, PutAt, Cached
<1>3. ASSUME CacheNext, ~overlap' PROVE AgeInv'
    BY <1>3, BeginPutAge, EnterOrderAge, TakeOldestAge, RemoveVictimAge, UnlockAge,
       InsertRecordAge DEF CacheNext
<1> QED  BY <1>1, <1>2, <1>3 DEF NewestInv

(* Puts that do not overlap keep the newest records, whatever is put again: *)
(* what the cache has is newer than what it has not, and it is over the     *)
(* limit by one at most (inflight.rs:107-130).                              *)
THEOREM NewestStay == CacheSpec => []NewestAreKept
<1>1. NewestInv => NewestAreKept
  <2> SUFFICES ASSUME NewestInv, ~overlap, \A p \in Putter : put[p] = NoPut
               PROVE  /\ Cardinality(Cached) <= maxEntries + 1
                      /\ \A k \in Cached : Evictable(k) /\ records[k] = lastPut[k]
                      /\ \A k \in Cached : \A l \in CacheKey \ Cached : lastPut[l] < records[k]
    BY DEF NewestAreKept
  <2>1. AgeInv /\ order \in Seq(Entries)
    BY DEF NewestInv, BoundInv, CacheTypeOK
  <2>2. \A k \in Cached : /\ records[k] = lastPut[k]
                          /\ \E n \in 1..Len(order) : order[n] = OrderEntry(k, records[k])
    BY <2>1 DEF AgeInv, CachedAreEntered, PutAt
  <2>3. \A k \in Cached : Evictable(k)
    BY <2>1, <2>2, Elements DEF Evictable, Cached, OrderEntry
  <2> QED  BY <2>1, <2>2, <2>3 DEF AgeInv, OneOver, GoneAreOlder
<1>2. CacheInit => NewestInv
    BY InitMakesRoom, InitIsByAge DEF NewestInv
<1> QED  BY <1>1, <1>2, StepKeepsNewest, PTL DEF CacheSpec
=============================================================================
