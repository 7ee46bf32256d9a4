------------------------------ MODULE InFlight ------------------------------
(***************************************************************************)
(* The in-flight registry of crates/picante/src/inflight.rs: concurrent    *)
(* requests for the same key coalesce into one computation.  A request is  *)
(* made by a holder, which either becomes the leader (it owns the          *)
(* InFlightGuard) or a follower (it shares the leader's InFlightEntry and  *)
(* waits for it).  An entry is an Arc: it lives while anybody refers to it *)
(* and is Free, and so reusable in this model, when nobody does.           *)
(*                                                                         *)
(* Every step of a holder that another thread can interleave with is an    *)
(* action of its own: settling an entry, waking its waiters and removing   *)
(* it from the registry are three, and so are subscribing to an entry and  *)
(* reading its state.                                                      *)
(***************************************************************************)
EXTENDS Naturals, FiniteSets

CONSTANTS
    Holder,    \* who may ask: an access of a key by a task
    Key,       \* InFlightKey: scope, revision, query kind and key
    Entry,     \* identities of the InFlightEntry allocations
    Result,    \* payloads of a settled entry: a computed value or an error
    NoEntry, NoKey, NoResult

ASSUME EntriesSuffice ==
    /\ IsFiniteSet(Holder)
    /\ IsFiniteSet(Entry)
    /\ Cardinality(Entry) >= Cardinality(Holder)
ASSUME NullsAreNull == NoEntry \notin Entry /\ NoKey \notin Key /\ NoResult \notin Result

VARIABLES
    registry,      \* IN_FLIGHT_REGISTRY: the entry under each key, or NoEntry
    entryState,    \* InFlightEntry.state of each entry, Free if unallocated
    entryResult,   \* the payload of a settled entry
    entryWaiters,  \* holders whose Notified future on the entry has not fired
    role,          \* where each holder is in its use of the registry
    entryOf,       \* the entry a holder refers to
    keyOf          \* the key a holder asked for

vars == <<registry, entryState, entryResult, entryWaiters, role, entryOf, keyOf>>

States  == {"Free", "Running", "Done", "Failed", "Cancelled"}
Settled == {"Done", "Failed", "Cancelled"}
Leading == {"leader", "settled", "notified"}        \* owns the guard
Following == {"follower", "subscribed", "waiting"}  \* shares the entry
Roles == {"idle"} \union Leading \union Following

Init ==
    /\ registry = [k \in Key |-> NoEntry]
    /\ entryState = [e \in Entry |-> "Free"]
    /\ entryResult = [e \in Entry |-> NoResult]
    /\ entryWaiters = [e \in Entry |-> {}]
    /\ role = [h \in Holder |-> "idle"]
    /\ entryOf = [h \in Holder |-> NoEntry]
    /\ keyOf = [h \in Holder |-> NoKey]

-----------------------------------------------------------------------------
\* An entry nobody refers to: its allocation has been returned.
FreeEntry == {e \in Entry : \A h \in Holder : entryOf[h] # e}

\* h lets go of its Arc; the entry is freed with the last one.
Release(h) ==
    LET last == \A g \in Holder \ {h} : entryOf[g] # entryOf[h]
        freed == {e \in Entry : e = entryOf[h] /\ last}
    IN  /\ entryState' = [e \in Entry |-> IF e \in freed THEN "Free" ELSE entryState[e]]
        /\ entryResult' = [e \in Entry |-> IF e \in freed THEN NoResult ELSE entryResult[e]]
        /\ entryWaiters' = [e \in Entry |-> entryWaiters[e] \ {h}]
        /\ entryOf' = [entryOf EXCEPT ![h] = NoEntry]
        /\ keyOf' = [keyOf EXCEPT ![h] = NoKey]
        /\ role' = [role EXCEPT ![h] = "idle"]

\* Mutant: try_lead that does not look for an entry under the key.
LeadUnchecked(h, k) ==
    LET e == CHOOSE x \in FreeEntry : TRUE
    IN  /\ role[h] = "idle"
        /\ FreeEntry # {}
        /\ registry' = [registry EXCEPT ![k] = e]
        /\ entryState' = [entryState EXCEPT ![e] = "Running"]
        /\ role' = [role EXCEPT ![h] = "leader"]
        /\ entryOf' = [entryOf EXCEPT ![h] = e]
        /\ keyOf' = [keyOf EXCEPT ![h] = k]
        /\ UNCHANGED <<entryResult, entryWaiters>>

\* try_lead on a vacant key: a new Running entry, and the guard is h's.
Lead(h, k) ==
    LET e == CHOOSE x \in FreeEntry : TRUE
    IN  /\ role[h] = "idle"
        /\ registry[k] = NoEntry
        /\ FreeEntry # {}
        /\ registry' = [registry EXCEPT ![k] = e]
        /\ entryState' = [entryState EXCEPT ![e] = "Running"]
        /\ role' = [role EXCEPT ![h] = "leader"]
        /\ entryOf' = [entryOf EXCEPT ![h] = e]
        /\ keyOf' = [keyOf EXCEPT ![h] = k]
        /\ UNCHANGED <<entryResult, entryWaiters>>

\* try_lead on an occupied key, whatever the state of the entry there.
Join(h, k) ==
    /\ role[h] = "idle"
    /\ registry[k] # NoEntry
    /\ role' = [role EXCEPT ![h] = "follower"]
    /\ entryOf' = [entryOf EXCEPT ![h] = registry[k]]
    /\ keyOf' = [keyOf EXCEPT ![h] = k]
    /\ UNCHANGED <<registry, entryState, entryResult, entryWaiters>>

\* Mutant: the entry leaves the registry as soon as it is settled.
SettleAndRemove(h, st, r) ==
    /\ role[h] = "leader"
    /\ registry' = [registry EXCEPT ![keyOf[h]] = NoEntry]
    /\ entryState' = [entryState EXCEPT ![entryOf[h]] = st]
    /\ entryResult' = [entryResult EXCEPT ![entryOf[h]] = r]
    /\ role' = [role EXCEPT ![h] = "settled"]
    /\ UNCHANGED <<entryWaiters, entryOf, keyOf>>

\* The leader publishes how the computation ended: InFlightEntry::complete,
\* ::fail, or ::cancel from the guard's Drop.
Settle(h, st, r) ==
    /\ role[h] = "leader"
    /\ entryState' = [entryState EXCEPT ![entryOf[h]] = st]
    /\ entryResult' = [entryResult EXCEPT ![entryOf[h]] = r]
    /\ role' = [role EXCEPT ![h] = "settled"]
    /\ UNCHANGED <<registry, entryWaiters, entryOf, keyOf>>

Complete(h, r) == Settle(h, "Done", r)
Fail(h, r) == Settle(h, "Failed", r)

\* Mutant: Drop that removes the entry and leaves it Running.
CancelUnsettled(h) ==
    /\ role[h] = "leader"
    /\ role' = [role EXCEPT ![h] = "notified"]
    /\ UNCHANGED <<registry, entryState, entryResult, entryWaiters, entryOf, keyOf>>

\* Mutant: Drop that does not ask whether the guard was completed.
CancelCompleted(h) ==
    /\ role[h] \in {"leader", "settled"}
    /\ entryState' = [entryState EXCEPT ![entryOf[h]] = "Cancelled"]
    /\ entryResult' = [entryResult EXCEPT ![entryOf[h]] = NoResult]
    /\ role' = [role EXCEPT ![h] = "settled"]
    /\ UNCHANGED <<registry, entryWaiters, entryOf, keyOf>>

CancelLead(h) == Settle(h, "Cancelled", NoResult)

\* Mutant: nobody is woken.
NotifyNobody(h) ==
    /\ role[h] = "settled"
    /\ role' = [role EXCEPT ![h] = "notified"]
    /\ UNCHANGED <<registry, entryState, entryResult, entryWaiters, entryOf, keyOf>>

\* notify_waiters: every Notified future created so far fires.
NotifyWaiters(h) ==
    /\ role[h] = "settled"
    /\ entryWaiters' = [entryWaiters EXCEPT ![entryOf[h]] = {}]
    /\ role' = [role EXCEPT ![h] = "notified"]
    /\ UNCHANGED <<registry, entryState, entryResult, entryOf, keyOf>>

\* IN_FLIGHT_REGISTRY.remove(&self.key), and the guard is dropped.
Remove(h) ==
    /\ role[h] = "notified"
    /\ registry' = [registry EXCEPT ![keyOf[h]] = NoEntry]
    /\ Release(h)

\* A follower creates its Notified future ...
Subscribe(h) ==
    /\ role[h] = "follower"
    /\ entryWaiters' = [entryWaiters EXCEPT ![entryOf[h]] = @ \union {h}]
    /\ role' = [role EXCEPT ![h] = "subscribed"]
    /\ UNCHANGED <<registry, entryState, entryResult, entryOf, keyOf>>

\* Mutant: a follower that waits without having read the state.
WaitUnchecked(h) ==
    /\ role[h] = "subscribed"
    /\ role' = [role EXCEPT ![h] = "waiting"]
    /\ UNCHANGED <<registry, entryState, entryResult, entryWaiters, entryOf, keyOf>>

\* ... then reads the state: it waits on a Running entry,
Wait(h) ==
    /\ role[h] = "subscribed"
    /\ entryState[entryOf[h]] = "Running"
    /\ role' = [role EXCEPT ![h] = "waiting"]
    /\ UNCHANGED <<registry, entryState, entryResult, entryWaiters, entryOf, keyOf>>

\* Mutant: a follower that keeps its Arc when it is done.
TakeAndKeep(h) ==
    /\ role[h] = "subscribed"
    /\ entryState[entryOf[h]] # "Running"
    /\ role' = [role EXCEPT ![h] = "idle"]
    /\ UNCHANGED <<registry, entryState, entryResult, entryWaiters, entryOf, keyOf>>

\* and takes the outcome of a settled one and is done with it.
Take(h) ==
    /\ role[h] = "subscribed"
    /\ entryState[entryOf[h]] # "Running"
    /\ Release(h)
    /\ UNCHANGED registry

\* The future fired: the follower loops.
Wake(h) ==
    /\ role[h] = "waiting"
    /\ h \notin entryWaiters[entryOf[h]]
    /\ role' = [role EXCEPT ![h] = "follower"]
    /\ UNCHANGED <<registry, entryState, entryResult, entryWaiters, entryOf, keyOf>>

\* A follower's task is dropped: its future and its Arc go with it.
Abandon(h) ==
    /\ role[h] \in Following
    /\ Release(h)
    /\ UNCHANGED registry

-----------------------------------------------------------------------------
TryLead(h, k) == Lead(h, k) \/ Join(h, k)

Follow(h) == Subscribe(h) \/ Wait(h) \/ Take(h) \/ Wake(h)

Publish(h) == NotifyWaiters(h) \/ Remove(h)

Compute(h) ==
    \/ \E r \in Result : Complete(h, r) \/ Fail(h, r)
    \/ CancelLead(h)

Next ==
    \E h \in Holder :
        \/ \E k \in Key : TryLead(h, k)
        \/ Compute(h)
        \/ Publish(h)
        \/ Follow(h)
        \/ Abandon(h)

Spec == Init /\ [][Next]_vars

\* A leader's computation ends (it completes, fails, panics or is dropped)
\* and a runnable task is polled again; nobody has to ask or give up.
Fairness ==
    \A h \in Holder :
        WF_vars(Compute(h)) /\ WF_vars(Publish(h)) /\ WF_vars(Follow(h))

FairSpec == Spec /\ Fairness

-----------------------------------------------------------------------------
(* Type correctness of the registry, the entries and their holders, who     *)
(* refer to an entry and a key exactly while they use the registry.         *)
TypeOK ==
    /\ registry \in [Key -> Entry \union {NoEntry}]
    /\ entryState \in [Entry -> States]
    /\ entryResult \in [Entry -> Result \union {NoResult}]
    /\ entryWaiters \in [Entry -> SUBSET Holder]
    /\ role \in [Holder -> Roles]
    /\ entryOf \in [Holder -> Entry \union {NoEntry}]
    /\ keyOf \in [Holder -> Key \union {NoKey}]
    /\ \A h \in Holder :
        /\ role[h] = "idle" <=> entryOf[h] = NoEntry
        /\ role[h] = "idle" <=> keyOf[h] = NoKey

(* Single flight: the computation of a key runs once at a time (the purpose *)
(* of the registry, inflight.rs:21), counting a leader until its entry is   *)
(* out of the registry: a second leader of the key cannot exist before.     *)
SingleFlight ==
    \A g, h \in Holder :
        role[g] \in Leading /\ role[h] \in Leading /\ keyOf[g] = keyOf[h] => g = h

(* What a leader removes is its own entry and no later one under its key:   *)
(* remove(&self.key) at inflight.rs:256, 264 and 272 compares nothing.      *)
OwnEntryRegistered ==
    \A h \in Holder : role[h] \in Leading => registry[keyOf[h]] = entryOf[h]

(* No orphan: an entry under a key, or still Running, has a leader alive     *)
(* that will settle it and remove it.  Followers rely on nothing else.      *)
EveryFlightIsLed ==
    /\ \A k \in Key : registry[k] # NoEntry =>
        \E h \in Holder : role[h] \in Leading /\ entryOf[h] = registry[k] /\ keyOf[h] = k
    /\ \A e \in Entry : entryState[e] = "Running" =>
        \E h \in Holder : role[h] = "leader" /\ entryOf[h] = e

(* No lost wake-up: a follower asleep on an entry that is settled either    *)
(* has been woken or its leader is about to wake it (the Notified future is *)
(* created before the state is read, derived.rs:512-513).                   *)
NoLostWakeup ==
    \A h \in Holder :
        role[h] = "waiting" /\ h \in entryWaiters[entryOf[h]] /\ entryState[entryOf[h]] # "Running" =>
            \E g \in Holder : role[g] = "settled" /\ entryOf[g] = entryOf[h]

(* An outcome is final: while anybody refers to a settled entry its state   *)
(* and payload do not change, so all followers of a flight see one outcome. *)
OutcomeIsFinal ==
    [][\A e \in Entry :
        entryState[e] \in Settled /\ (\E h \in Holder : entryOf[h] = e /\ entryOf'[h] = e) =>
            entryState'[e] = entryState[e] /\ entryResult'[e] = entryResult[e]]_vars

(* Every follower is eventually released, whatever its leader's fate        *)
(* (docs/spec/picante.md, derived.cancel-progress).                         *)
FollowersReleased ==
    \A h \in Holder : role[h] \in Following ~> role[h] = "idle"
=============================================================================
