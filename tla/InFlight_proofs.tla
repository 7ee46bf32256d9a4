-------------------------- MODULE InFlight_proofs --------------------------
(***************************************************************************)
(* The safety of the in-flight registry, for any holders, keys, entries    *)
(* and results.  The inductive invariant ties the three places where a     *)
(* flight is known together: the holder that leads it, its entry, and the  *)
(* entry's place in the registry.                                          *)
(***************************************************************************)
EXTENDS InFlight, TLAPS

\* A flight is led by one holder.
EntryLedOnce ==
    \A g, h \in Holder :
        role[g] \in Leading /\ role[h] \in Leading /\ entryOf[g] = entryOf[h] => g = h

\* Its entry is Running until the leader settles it.
LeaderMatchesEntry ==
    \A h \in Holder :
        /\ role[h] = "leader" => entryState[entryOf[h]] = "Running"
        /\ role[h] \in {"settled", "notified"} => entryState[entryOf[h]] \in Settled

RegisteredIsLed ==
    \A k \in Key : registry[k] # NoEntry =>
        \E h \in Holder : role[h] \in Leading /\ entryOf[h] = registry[k] /\ keyOf[h] = k

RunningIsLed ==
    \A e \in Entry : entryState[e] = "Running" =>
        \E h \in Holder : role[h] = "leader" /\ entryOf[h] = e

IInv ==
    /\ TypeOK
    /\ EntryLedOnce
    /\ LeaderMatchesEntry
    /\ OwnEntryRegistered
    /\ RegisteredIsLed
    /\ RunningIsLed
    /\ NoLostWakeup
-----------------------------------------------------------------------------
(* An idle holder that finds no entry under its key starts a new flight: a  *)
(* free entry is nobody else's.                                             *)
LEMMA LeadKeepsIInv ==
    ASSUME IInv, NEW h \in Holder, NEW k \in Key, Lead(h, k)
    PROVE  IInv'
<1>1. PICK e \in Entry :
        /\ \A g \in Holder : entryOf[g] # e
        /\ registry' = [registry EXCEPT ![k] = e]
        /\ entryState' = [entryState EXCEPT ![e] = "Running"]
        /\ entryOf' = [entryOf EXCEPT ![h] = e]
    BY DEF Lead, FreeEntry
<1>2. /\ role[h] = "idle" /\ registry[k] = NoEntry
      /\ role' = [role EXCEPT ![h] = "leader"]
      /\ keyOf' = [keyOf EXCEPT ![h] = k]
      /\ entryResult' = entryResult /\ entryWaiters' = entryWaiters
    BY DEF Lead
<1>3. TypeOK'
    BY <1>1, <1>2, NullsAreNull DEF IInv, TypeOK, States, Roles, Leading
<1>4. EntryLedOnce' /\ LeaderMatchesEntry'
    BY <1>1, <1>2 DEF IInv, TypeOK, EntryLedOnce, LeaderMatchesEntry, Leading
<1>5. OwnEntryRegistered' /\ RegisteredIsLed'
    BY <1>1, <1>2, NullsAreNull
    DEF IInv, TypeOK, OwnEntryRegistered, RegisteredIsLed, Roles, Leading, Following
<1>6. RunningIsLed'
    BY <1>1, <1>2 DEF IInv, TypeOK, RunningIsLed
<1>7. NoLostWakeup'
    BY <1>1, <1>2 DEF IInv, TypeOK, NoLostWakeup
<1> QED BY <1>3, <1>4, <1>5, <1>6, <1>7 DEF IInv
(* A holder that finds an entry under its key shares it. *)
LEMMA JoinKeepsIInv ==
    ASSUME IInv, NEW h \in Holder, NEW k \in Key, Join(h, k)
    PROVE  IInv'
<1>1. /\ role[h] = "idle" /\ registry[k] \in Entry
      /\ role' = [role EXCEPT ![h] = "follower"]
      /\ entryOf' = [entryOf EXCEPT ![h] = registry[k]]
      /\ keyOf' = [keyOf EXCEPT ![h] = k]
      /\ UNCHANGED <<registry, entryState, entryResult, entryWaiters>>
    BY DEF Join, IInv, TypeOK
<1>2. TypeOK'
    BY <1>1, NullsAreNull DEF IInv, TypeOK, Roles, Following
<1>3. EntryLedOnce' /\ LeaderMatchesEntry'
    BY <1>1 DEF IInv, TypeOK, EntryLedOnce, LeaderMatchesEntry, Leading
<1>4. OwnEntryRegistered' /\ RegisteredIsLed'
    BY <1>1 DEF IInv, TypeOK, OwnEntryRegistered, RegisteredIsLed, Leading
<1>5. RunningIsLed' /\ NoLostWakeup'
    BY <1>1 DEF IInv, TypeOK, RunningIsLed, NoLostWakeup
<1> QED BY <1>2, <1>3, <1>4, <1>5 DEF IInv

(* A leader settles its entry: it is the only leader of it. *)
LEMMA SettleKeepsIInv ==
    ASSUME IInv, NEW h \in Holder, NEW st \in Settled, NEW r \in Result \union {NoResult},
           Settle(h, st, r)
    PROVE  IInv'
<1>1. /\ role[h] = "leader" /\ entryOf[h] \in Entry
      /\ entryState' = [entryState EXCEPT ![entryOf[h]] = st]
      /\ entryResult' = [entryResult EXCEPT ![entryOf[h]] = r]
      /\ role' = [role EXCEPT ![h] = "settled"]
      /\ UNCHANGED <<registry, entryWaiters, entryOf, keyOf>>
    BY DEF Settle, IInv, TypeOK
<1>2. TypeOK'
    BY <1>1 DEF IInv, TypeOK, States, Settled, Roles, Leading
<1>3. EntryLedOnce' /\ LeaderMatchesEntry'
    BY <1>1 DEF IInv, TypeOK, EntryLedOnce, LeaderMatchesEntry, Leading, Settled
<1>4. OwnEntryRegistered' /\ RegisteredIsLed'
    BY <1>1 DEF IInv, TypeOK, OwnEntryRegistered, RegisteredIsLed, Leading
<1>5. RunningIsLed'
    BY <1>1 DEF IInv, TypeOK, RunningIsLed, Settled
<1>6. NoLostWakeup'
    BY <1>1 DEF IInv, TypeOK, NoLostWakeup
<1> QED BY <1>2, <1>3, <1>4, <1>5, <1>6 DEF IInv

(* A leader wakes the followers of its entry. *)
LEMMA NotifyKeepsIInv ==
    ASSUME IInv, NEW h \in Holder, NotifyWaiters(h)
    PROVE  IInv'
<1>1. /\ role[h] = "settled" /\ entryOf[h] \in Entry
      /\ entryWaiters' = [entryWaiters EXCEPT ![entryOf[h]] = {}]
      /\ role' = [role EXCEPT ![h] = "notified"]
      /\ UNCHANGED <<registry, entryState, entryResult, entryOf, keyOf>>
    BY DEF NotifyWaiters, IInv, TypeOK
<1>2. TypeOK'
    BY <1>1 DEF IInv, TypeOK, Roles, Leading
<1>3. EntryLedOnce' /\ LeaderMatchesEntry'
    BY <1>1 DEF IInv, TypeOK, EntryLedOnce, LeaderMatchesEntry, Leading
<1>4. OwnEntryRegistered' /\ RegisteredIsLed'
    BY <1>1 DEF IInv, TypeOK, OwnEntryRegistered, RegisteredIsLed, Leading
<1>5. RunningIsLed' /\ NoLostWakeup'
    BY <1>1 DEF IInv, TypeOK, RunningIsLed, NoLostWakeup
<1> QED BY <1>2, <1>3, <1>4, <1>5 DEF IInv

(* A follower subscribes to its entry, sleeps on it or wakes up: none of    *)
(* this concerns a leader, and it sleeps only on an entry it has just seen  *)
(* Running.                                                                 *)
LEMMA FollowingKeepsIInv ==
    ASSUME IInv, NEW h \in Holder, Subscribe(h) \/ Wait(h) \/ Wake(h)
    PROVE  IInv'
<1>1. /\ role[h] \in Following /\ entryOf[h] \in Entry
      /\ UNCHANGED <<registry, entryState, entryResult, entryOf, keyOf>>
    BY DEF Subscribe, Wait, Wake, Following, IInv, TypeOK
<1>2. PICK x \in Following : role' = [role EXCEPT ![h] = x]
    BY DEF Subscribe, Wait, Wake, Following
<1>3. entryWaiters' \in [Entry -> SUBSET Holder]
    BY <1>1 DEF Subscribe, Wait, Wake, IInv, TypeOK
<1>4. TypeOK'
    BY <1>1, <1>2, <1>3 DEF IInv, TypeOK, Roles, Following
<1>5. EntryLedOnce' /\ LeaderMatchesEntry'
    BY <1>1, <1>2 DEF IInv, TypeOK, EntryLedOnce, LeaderMatchesEntry, Leading, Following
<1>6. OwnEntryRegistered' /\ RegisteredIsLed'
    BY <1>1, <1>2 DEF IInv, TypeOK, OwnEntryRegistered, RegisteredIsLed, Leading, Following
<1>7. RunningIsLed'
    BY <1>1, <1>2 DEF IInv, TypeOK, RunningIsLed, Following
<1>8. NoLostWakeup'
    BY <1>1 DEF Subscribe, Wait, Wake, IInv, TypeOK, NoLostWakeup
<1> QED BY <1>4, <1>5, <1>6, <1>7, <1>8 DEF IInv

(* What every holder that lets go of its entry has in common: no other      *)
(* holder sees its entry freed.                                             *)
LEMMA ReleaseFrees ==
    ASSUME IInv, NEW h \in Holder, role[h] # "idle", Release(h)
    PROVE  /\ role' = [role EXCEPT ![h] = "idle"]
           /\ entryOf' = [entryOf EXCEPT ![h] = NoEntry]
           /\ keyOf' = [keyOf EXCEPT ![h] = NoKey]
           /\ entryState' \in [Entry -> States]
           /\ entryResult' \in [Entry -> Result \union {NoResult}]
           /\ entryWaiters' = [e \in Entry |-> entryWaiters[e] \ {h}]
           /\ \A g \in Holder \ {h}, e \in Entry : entryOf[g] = e =>
                entryState'[e] = entryState[e] /\ entryResult'[e] = entryResult[e]
           /\ \A e \in Entry : entryState'[e] = "Running" => entryState[e] = "Running"
    BY DEF Release, IInv, TypeOK, States

(* A follower leaves. *)
LEMMA LeaveKeepsIInv ==
    ASSUME IInv, NEW h \in Holder, Take(h) \/ Abandon(h)
    PROVE  IInv'
<1>1. role[h] \in Following /\ Release(h) /\ registry' = registry
    BY DEF Take, Abandon, Following
<1>2. role[h] # "idle"
    BY <1>1 DEF Following
<1>3. TypeOK'
    BY <1>1, <1>2, ReleaseFrees DEF IInv, TypeOK, Roles
<1>4. EntryLedOnce' /\ LeaderMatchesEntry'
    BY <1>1, <1>2, ReleaseFrees
    DEF IInv, TypeOK, EntryLedOnce, LeaderMatchesEntry, Leading, Following
<1>5. OwnEntryRegistered' /\ RegisteredIsLed'
    BY <1>1, <1>2, ReleaseFrees
    DEF IInv, TypeOK, OwnEntryRegistered, RegisteredIsLed, Leading, Following
<1>6. RunningIsLed'
    BY <1>1, <1>2, ReleaseFrees DEF IInv, TypeOK, RunningIsLed, Following
<1>7. NoLostWakeup'
    BY <1>1, <1>2, ReleaseFrees DEF IInv, TypeOK, NoLostWakeup, Following
<1> QED BY <1>3, <1>4, <1>5, <1>6, <1>7 DEF IInv

(* A leader removes its entry: what is under its key is its own. *)
LEMMA RemoveKeepsIInv ==
    ASSUME IInv, NEW h \in Holder, Remove(h)
    PROVE  IInv'
<1>1. /\ role[h] = "notified" /\ Release(h)
      /\ keyOf[h] \in Key /\ registry' = [registry EXCEPT ![keyOf[h]] = NoEntry]
    BY DEF Remove, IInv, TypeOK
<1>2. \A g \in Holder : role[g] \in Leading /\ keyOf[g] = keyOf[h] => g = h
    BY <1>1 DEF IInv, OwnEntryRegistered, EntryLedOnce, Leading
<1>3. TypeOK'
    BY <1>1, ReleaseFrees DEF IInv, TypeOK, Roles
<1>4. EntryLedOnce' /\ LeaderMatchesEntry'
    BY <1>1, ReleaseFrees DEF IInv, TypeOK, EntryLedOnce, LeaderMatchesEntry, Leading
<1>5. OwnEntryRegistered'
    BY <1>1, <1>2, ReleaseFrees DEF IInv, TypeOK, OwnEntryRegistered, Leading
<1>6. RegisteredIsLed'
    BY <1>1, <1>2, ReleaseFrees DEF IInv, TypeOK, RegisteredIsLed, Leading
<1>7. RunningIsLed'
    BY <1>1, ReleaseFrees DEF IInv, TypeOK, RunningIsLed
<1>8. NoLostWakeup'
    BY <1>1, ReleaseFrees DEF IInv, TypeOK, NoLostWakeup
<1> QED BY <1>3, <1>4, <1>5, <1>6, <1>7, <1>8 DEF IInv

-----------------------------------------------------------------------------
(* The three facts of the inductive invariant. *)
LEMMA InitHoldsIInv == Init => IInv
    BY NullsAreNull
    DEF Init, IInv, TypeOK, States, Roles, EntryLedOnce, LeaderMatchesEntry, OwnEntryRegistered,
        RegisteredIsLed, RunningIsLed, NoLostWakeup, Leading

LEMMA NextKeepsIInv == IInv /\ [Next]_vars => IInv'
<1> SUFFICES ASSUME IInv, [Next]_vars PROVE IInv'
    OBVIOUS
<1>1. CASE UNCHANGED vars
    BY <1>1 DEF vars, IInv, TypeOK, EntryLedOnce, LeaderMatchesEntry, OwnEntryRegistered,
                RegisteredIsLed, RunningIsLed, NoLostWakeup
<1>2. CASE Next
    <2> PICK h \in Holder :
            \/ \E k \in Key : TryLead(h, k)
            \/ Compute(h) \/ Publish(h) \/ Follow(h) \/ Abandon(h)
        BY <1>2 DEF Next
    <2>1. CASE \E k \in Key : TryLead(h, k)
        BY <2>1, LeadKeepsIInv, JoinKeepsIInv DEF TryLead
    <2>2. CASE Compute(h)
        BY <2>2, SettleKeepsIInv DEF Compute, Complete, Fail, CancelLead, Settled
    <2>3. CASE Publish(h)
        BY <2>3, NotifyKeepsIInv, RemoveKeepsIInv DEF Publish
    <2>4. CASE Follow(h) \/ Abandon(h)
        BY <2>4, FollowingKeepsIInv, LeaveKeepsIInv DEF Follow
    <2> QED BY <2>1, <2>2, <2>3, <2>4
<1> QED BY <1>1, <1>2

THEOREM Invariance == Spec => []IInv
    BY InitHoldsIInv, NextKeepsIInv, PTL DEF Spec
-----------------------------------------------------------------------------
(* The registry, its entries and their holders keep their types: Lead finds *)
(* an allocation, Release returns it, and nobody keeps a part of its state. *)
THEOREM TypeCorrect == Spec => []TypeOK
    BY Invariance, PTL DEF IInv

(* try_lead makes one leader of a key at a time, its removal from the       *)
(* registry included: two leaders of one key would have the entry that is   *)
(* registered under it in common, and an entry is led once.                 *)
THEOREM SingleFlightHolds == Spec => []SingleFlight
<1>1. IInv => SingleFlight
    BY DEF IInv, OwnEntryRegistered, EntryLedOnce, SingleFlight
<1> QED BY <1>1, Invariance, PTL

(* complete, fail and Drop remove the entry of their own guard. *)
THEOREM RemovesItsOwn == Spec => []OwnEntryRegistered
    BY Invariance, PTL DEF IInv

(* An entry that can be found, or that followers wait on, has a leader. *)
THEOREM FlightsAreLed == Spec => []EveryFlightIsLed
<1>1. IInv => EveryFlightIsLed
    BY DEF IInv, RegisteredIsLed, RunningIsLed, EveryFlightIsLed
<1> QED BY <1>1, Invariance, PTL

(* A follower that subscribed before it read the state is not forgotten. *)
THEOREM WakeupsAreKept == Spec => []NoLostWakeup
    BY Invariance, PTL DEF IInv

(* An entry is settled once: the followers of a flight see one outcome. *)
LEMMA SettledStays ==
    ASSUME IInv, [Next]_vars, NEW e \in Entry, entryState[e] \in Settled,
           NEW f \in Holder, entryOf[f] = e, entryOf'[f] = e
    PROVE  entryState'[e] = entryState[e] /\ entryResult'[e] = entryResult[e]
<1>1. CASE UNCHANGED vars
    BY <1>1 DEF vars
<1>2. CASE Next
    <2> PICK h \in Holder :
            \/ \E k \in Key : TryLead(h, k)
            \/ Compute(h) \/ Publish(h) \/ Follow(h) \/ Abandon(h)
        BY <1>2 DEF Next
    <2>1. CASE \E k \in Key : TryLead(h, k)
        BY <2>1 DEF TryLead, Lead, Join, FreeEntry, IInv, TypeOK
    <2>2. CASE Compute(h)
        \* The only leader of a settled entry has settled it.
        BY <2>2 DEF Compute, Complete, Fail, CancelLead, Settle,
                    IInv, TypeOK, LeaderMatchesEntry, Settled
    <2>3. CASE NotifyWaiters(h) \/ Subscribe(h) \/ Wait(h) \/ Wake(h)
        BY <2>3 DEF NotifyWaiters, Subscribe, Wait, Wake
    <2>4. CASE Remove(h) \/ Take(h) \/ Abandon(h)
        <3>1. Release(h) /\ role[h] # "idle"
            BY <2>4 DEF Remove, Take, Abandon, Following
        <3>2. f # h
            BY <3>1, ReleaseFrees, NullsAreNull DEF IInv, TypeOK
        <3> QED BY <3>1, <3>2, ReleaseFrees
    <2> QED BY <2>1, <2>2, <2>3, <2>4 DEF Publish, Follow
<1> QED BY <1>1, <1>2

THEOREM OutcomesAreFinal == Spec => OutcomeIsFinal
<1>1. IInv /\ [Next]_vars =>
        [\A e \in Entry :
            entryState[e] \in Settled /\ (\E h \in Holder : entryOf[h] = e /\ entryOf'[h] = e) =>
                entryState'[e] = entryState[e] /\ entryResult'[e] = entryResult[e]]_vars
    BY SettledStays
<1> QED BY <1>1, Invariance, PTL DEF Spec, OutcomeIsFinal
=============================================================================
