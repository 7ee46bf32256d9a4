---------------------------- MODULE SharedCache ----------------------------
(***************************************************************************)
(* The eviction of the process-wide cache of completed results             *)
(* (crates/picante/src/inflight.rs:30-134): a concurrent map of records and *)
(* a queue of what was put, oldest first, under a lock of its own.  A put   *)
(* makes room first and inserts its record after it has let go of the lock. *)
(*                                                                         *)
(* Of a record only the insert id matters here; what the records are worth  *)
(* is in Derived, where eviction may happen at any moment.                  *)
(***************************************************************************)
EXTENDS Naturals, Sequences, SequencesExt, FiniteSets

CONSTANTS
    CacheKey,    \* scope, query and key
    Putter,      \* threads
    MaxChoices,  \* what shared_cache_max_entries can be set to
    MaxPuts,     \* bound on the number of puts ...
    MaxOverlaps, \* ... and when some of them overlap
    NoPut

ASSUME LimitsAreNat == MaxChoices \subseteq Nat /\ MaxPuts \in Nat /\ MaxOverlaps \in 0..MaxPuts
ASSUME PuttersAreFinite == IsFiniteSet(Putter)

VARIABLES
    maxEntries,  \* shared_cache_max_entries; set before the first put
    records,     \* SHARED_CACHE: the insert id of the record of each key, or 0
    order,       \* SHARED_CACHE_ORDER
    lastId,      \* the last insert id given out
    put,         \* the put each thread is in
    overlap,     \* history: two puts were under way at the same time
    lastPut      \* history: the id of the last put of each key that returned

PutCall == [key : CacheKey, id : 1..MaxPuts, at : {"lock", "evict", "remove", "insert"}, victim : CacheKey]
ASSUME NoPutIsNone == NoPut \notin PutCall

cacheVars == <<maxEntries, records, order, lastId, put, overlap, lastPut>>

Cached == {k \in CacheKey : records[k] # 0}

\* Mutant: room is made only when the limit has been passed by one.
OverByOne == Cardinality(Cached) > maxEntries + 1

\* SHARED_CACHE.len() > max
Over == Cardinality(Cached) > maxEntries

CacheInit ==
    /\ maxEntries \in MaxChoices
    /\ records = [k \in CacheKey |-> 0]
    /\ order = <<>>
    /\ lastId = 0
    /\ put = [p \in Putter |-> NoPut]
    /\ overlap = FALSE
    /\ lastPut = [k \in CacheKey |-> 0]

PutAt(p, point) == put[p] # NoPut /\ put[p].at = point
OrderLocked == \E p \in Putter : PutAt(p, "evict") \/ PutAt(p, "remove")

\* shared_cache_put: the record gets its id.
BeginPut(p, k) ==
    /\ put[p] = NoPut
    /\ overlap' = (overlap \/ \E q \in Putter : put[q] # NoPut)
    /\ lastId < IF overlap' THEN MaxOverlaps ELSE MaxPuts
    /\ lastId' = lastId + 1
    /\ put' = [put EXCEPT ![p] = [key |-> k, id |-> lastId + 1, at |-> "lock", victim |-> k]]
    /\ UNCHANGED <<maxEntries, records, order, lastPut>>

\* The order is locked and the put entered in it.
EnterOrder(p) ==
    /\ PutAt(p, "lock")
    /\ ~OrderLocked
    /\ order' = Append(order, [key |-> put[p].key, id |-> put[p].id])
    /\ put' = [put EXCEPT ![p].at = "evict"]
    /\ UNCHANGED <<maxEntries, records, lastId, overlap, lastPut>>

\* Mutant: whatever the key has by now is evicted.
PresentAtAll(e) == records[e.key] # 0

\* The record of the order entry is still the one the entry was made for.
Unreplaced(e) == records[e.key] = e.id

\* While there are too many: the oldest entry is taken and its record looked at.
TakeOldest(p) ==
    /\ PutAt(p, "evict")
    /\ Over /\ order # <<>>
    /\ order' = Tail(order)
    /\ put' = IF Unreplaced(Head(order))
              THEN [put EXCEPT ![p].at = "remove", ![p].victim = Head(order).key]
              ELSE put
    /\ UNCHANGED <<maxEntries, records, lastId, overlap, lastPut>>

\* The key is removed, whatever it has by now.
RemoveVictim(p) ==
    /\ PutAt(p, "remove")
    /\ records' = [records EXCEPT ![put[p].victim] = 0]
    /\ put' = [put EXCEPT ![p].at = "evict"]
    /\ UNCHANGED <<maxEntries, order, lastId, overlap, lastPut>>

\* There is room, or nothing is left to evict: the order is unlocked.
Unlock(p) ==
    /\ PutAt(p, "evict")
    /\ ~Over \/ order = <<>>
    /\ put' = [put EXCEPT ![p].at = "insert"]
    /\ UNCHANGED <<maxEntries, records, order, lastId, overlap, lastPut>>

InsertRecord(p) ==
    /\ PutAt(p, "insert")
    /\ records' = [records EXCEPT ![put[p].key] = put[p].id]
    /\ lastPut' = [lastPut EXCEPT ![put[p].key] = put[p].id]
    /\ put' = [put EXCEPT ![p] = NoPut]
    /\ UNCHANGED <<maxEntries, order, lastId, overlap>>

CacheNext ==
    \E p \in Putter :
        \/ \E k \in CacheKey : BeginPut(p, k)
        \/ EnterOrder(p) \/ TakeOldest(p) \/ RemoveVictim(p) \/ Unlock(p)
        \/ InsertRecord(p)

CacheSpec == CacheInit /\ [][CacheNext]_cacheVars

-----------------------------------------------------------------------------
\* A record that an order entry can still evict.
Evictable(k) == records[k] # 0 /\ [key |-> k, id |-> records[k]] \in ToSet(order)

(* Threads that put at the same time each go over the limit by one record   *)
(* at most, since each makes room before it inserts and nobody inserts      *)
(* twice without making room (inflight.rs:109-127).  Records whose order    *)
(* entry was used up before they were inserted are not counted: a put that  *)
(* is overtaken between its unlock and its insert leaves such a one, which   *)
(* stays until its key is put again.                                        *)
EvictableAreBounded ==
    Cardinality({k \in CacheKey : Evictable(k)}) <= maxEntries + Cardinality(Putter)

(* Puts that do not overlap keep the newest records: the cache has at most  *)
(* one over the limit, what it has can be evicted, and what it does not     *)
(* have was put before all that it has, although a key put again leaves its *)
(* old entry in the queue (the comment at inflight.rs:107-108).             *)
NewestAreKept ==
    ~overlap /\ (\A p \in Putter : put[p] = NoPut) =>
        /\ Cardinality(Cached) <= maxEntries + 1
        /\ \A k \in Cached : Evictable(k) /\ records[k] = lastPut[k]
        /\ \A k \in Cached : \A l \in CacheKey \ Cached : lastPut[l] < records[k]
=============================================================================
