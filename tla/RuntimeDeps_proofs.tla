------------------------- MODULE RuntimeDeps_proofs -------------------------
(***************************************************************************)
(* The two maps of the dependency graph agree, for any graph and any        *)
(* threads.  The inductive invariant says of each call under way which      *)
(* edges it still owes: a computation those it has to remove and to insert, *)
(* a load those of the queries it has not come to.  On one thread, who is   *)
(* out of date has been told: the second invariant says it of the graph as  *)
(* a walk or a load is in the middle of it.  The reports on the graph agree *)
(* with each other, and the paths that are found are those that there are.  *)
(***************************************************************************)
EXTENDS DebugGraph, FiniteSetTheorems, SequenceTheorems, WellFoundedInduction, TLAPS

\* What update_query_deps inserts are dependencies, and what it removes are not.
OwedEdges ==
    \A t \in Caller : In(t, "update") =>
        /\ job[t].add \subseteq forward[job[t].query]
        /\ job[t].drop \intersect forward[job[t].query] = {}

RestoreIsAlone ==
    \A t, u \in Caller : In(t, "restore") /\ t # u => Idle(u)

\* What a load has not come to has no edges.
TodoIsBare ==
    \A t \in Caller : In(t, "restore") /\ job[t].cleared =>
        \A q \in job[t].todo : forward[q] = {}

OneThread ==
    ~parallel => \A t \in Caller : t = OnlyThread \/ Idle(t)

\* On one thread an entry that is about to be removed is still empty.
DiscardsNothing ==
    ~parallel =>
        \A t \in Caller : In(t, "update") /\ job[t].at = "discard" => reverse[job[t].node] = {}

GraphInv ==
    /\ DepsTypeOK
    /\ OwedEdges
    /\ RestoreIsAlone
    /\ TodoIsBare
    /\ OneThread
    /\ DiscardsNothing
    /\ NoPhantomEdge
    /\ EdgesMirrored
-----------------------------------------------------------------------------
(* The kinds of calls are told apart by their field call. *)
LEMMA JobKinds ==
    ASSUME NEW x \in Job
    PROVE  /\ x.call \in {"update", "write", "restore"}
           /\ x.call = "update" =>
                /\ x \in [call : {"update"}, query : Computed, drop : SUBSET Node,
                          add : SUBSET Node, node : Node \union {NoNode},
                          at : {"next", "test", "discard"}]
           /\ x.call = "write" =>
                /\ x \in [call : {"write"}, input : Source, rev : 0..MaxRevision,
                          queue : Seq(Node), seen : SUBSET Node]
           /\ x.call = "restore" =>
                /\ x \in [call : {"restore"}, saved : [Computed -> SUBSET Node],
                          todo : SUBSET Computed, cleared : BOOLEAN]
    BY DEF Job

LEMMA InitHoldsGraphInv == DepsInit => GraphInv
    BY BoundsAreNat
    DEF DepsInit, GraphInv, DepsTypeOK, OwedEdges, RestoreIsAlone, TodoIsBare, OneThread,
        DiscardsNothing, NoPhantomEdge, EdgesMirrored, In, Idle

(* A computation has its old edges to remove and its new ones to insert. *)
LEMMA UpdateKeepsGraphInv ==
    ASSUME GraphInv, NEW t \in Caller, NEW q \in Computed, NEW ds \in DepChoices[q],
           Update(t, q, ds)
    PROVE  GraphInv'
<1> DEFINE new == Swapping(q, ds)
<1>1. /\ Idle(t) /\ (parallel \/ t = OnlyThread)
      /\ \A u \in Caller : ~(In(u, "update") /\ job[u].query = q) /\ ~In(u, "restore")
      /\ job' = [job EXCEPT ![t] = IF new.drop = {} /\ new.add = {} /\ new.at = "next"
                                   THEN NoJob ELSE new]
      /\ forward' = [forward EXCEPT ![q] = ds]
      /\ known' = known \union {q}
      /\ verifiedAt' = [verifiedAt EXCEPT ![q] = revision]
      /\ UNCHANGED <<parallel, revision, changedAt, reverse, announced>>
    BY DEF Update, MayBegin, ContinueUpdate, Continue
<1>2. /\ ds \in SUBSET Node
      /\ new \in Job /\ new # NoJob
      /\ new.call = "update" /\ new.query = q /\ new.add = ds
      /\ new.drop = forward[q] \ ds /\ new.at = "next"
    BY ChoicesAreDeps, NoJobIsNone DEF Swapping, Job, GraphInv, DepsTypeOK
<1> HIDE DEF new
<1>3. DepsTypeOK'
    BY <1>1, <1>2 DEF GraphInv, DepsTypeOK
<1>4. \A u \in Caller \ {t} : job'[u] = job[u]
    BY <1>1 DEF GraphInv, DepsTypeOK
<1>5. \/ job'[t] = NoJob /\ new.drop = {} /\ new.add = {}
      \/ job'[t] = new
    BY <1>1 DEF GraphInv, DepsTypeOK
<1>6. OwedEdges'
    BY <1>1, <1>2, <1>4, <1>5, JobKinds DEF GraphInv, DepsTypeOK, OwedEdges, In, Idle
<1>7. RestoreIsAlone' /\ TodoIsBare'
    BY <1>1, <1>2, <1>4, <1>5 DEF GraphInv, RestoreIsAlone, TodoIsBare, In, Idle
<1>8. OneThread' /\ DiscardsNothing'
    BY <1>1, <1>2, <1>4, <1>5 DEF GraphInv, OneThread, DiscardsNothing, In, Idle
<1>9. NoPhantomEdge'
    BY <1>1, <1>2, <1>4, <1>5 DEF GraphInv, DepsTypeOK, NoPhantomEdge, In, Idle
<1>10. EdgesMirrored'
    BY <1>1, <1>2, <1>4, <1>5 DEF GraphInv, DepsTypeOK, EdgesMirrored, In, Idle
<1> QED BY <1>3, <1>6, <1>7, <1>8, <1>9, <1>10 DEF GraphInv

(* What passes revalidation stays as it is. *)
LEMMA RevalidateKeepsGraphInv ==
    ASSUME GraphInv, NEW t \in Caller, NEW q \in Computed, Revalidate(t, q)
    PROVE  GraphInv'
<1>1. /\ verifiedAt' = [verifiedAt EXCEPT ![q] = revision]
      /\ UNCHANGED <<parallel, revision, changedAt, forward, reverse, known, job, announced>>
    BY DEF Revalidate, graph
<1>2. DepsTypeOK'
    BY <1>1 DEF GraphInv, DepsTypeOK
<1>3. OwedEdges' /\ RestoreIsAlone' /\ TodoIsBare' /\ OneThread' /\ DiscardsNothing'
    BY <1>1
    DEF GraphInv, OwedEdges, RestoreIsAlone, TodoIsBare, OneThread, DiscardsNothing, In, Idle
<1>4. NoPhantomEdge' /\ EdgesMirrored'
    BY <1>1 DEF GraphInv, NoPhantomEdge, EdgesMirrored, In, Idle
<1> QED BY <1>2, <1>3, <1>4 DEF GraphInv

(* A thread in update_query_deps has the rest of its call before it. *)
LEMMA UpdatingJob ==
    ASSUME GraphInv, NEW t \in Caller, In(t, "update"),
           NEW left \in Job, left.call = "update", left.query = job[t].query,
           ContinueUpdate(t, left)
    PROVE  /\ job' \in [Caller -> Job \union {NoJob}]
           /\ \A u \in Caller \ {t} : job'[u] = job[u]
           /\ \/ /\ job'[t] = NoJob
                 /\ left.drop = {} /\ left.add = {} /\ left.at = "next"
              \/ job'[t] = left /\ left # NoJob
           /\ parallel \/ t = OnlyThread
           /\ \A u \in Caller : ~In(u, "restore")
<1>1. job' = [job EXCEPT ![t] = IF left.drop = {} /\ left.add = {} /\ left.at = "next"
                               THEN NoJob ELSE left]
    BY DEF ContinueUpdate, Continue
<1>2. job \in [Caller -> Job \union {NoJob}]
    BY DEF GraphInv, DepsTypeOK
<1>3. \A u \in Caller : ~In(u, "restore")
    BY DEF GraphInv, RestoreIsAlone, In, Idle
<1>4. parallel \/ t = OnlyThread
    BY DEF GraphInv, OneThread, In
<1> QED BY <1>1, <1>2, <1>3, <1>4, NoJobIsNone

(* An edge is removed that the query no longer has. *)
LEMMA RemoveKeepsGraphInv ==
    ASSUME GraphInv, NEW t \in Caller, NEW n \in Node, RemoveEdge(t, n)
    PROVE  GraphInv'
<1> DEFINE q == job[t].query
           left == [job[t] EXCEPT !.drop = @ \ {n}]
           next == IF reverse[n] = {} THEN left ELSE [left EXCEPT !.node = n, !.at = "test"]
<1>1. /\ In(t, "update") /\ job[t].at = "next" /\ n \in job[t].drop
      /\ reverse' = [reverse EXCEPT ![n] = @ \ {q}]
      /\ ContinueUpdate(t, next)
      /\ UNCHANGED <<parallel, revision, changedAt, forward, known, verifiedAt, announced>>
    BY DEF RemoveEdge
<1>2. job[t] \in Job /\ job[t].call = "update"
    BY <1>1 DEF GraphInv, DepsTypeOK, In, Idle
<1>3. /\ next \in Job /\ next.call = "update" /\ next.query = q /\ q \in Computed
      /\ next.add = job[t].add /\ next.drop = job[t].drop \ {n} /\ next.at # "discard"
    BY <1>1, <1>2, JobKinds DEF Job
<1> HIDE DEF next
<1>4. /\ job' \in [Caller -> Job \union {NoJob}]
      /\ \A u \in Caller \ {t} : job'[u] = job[u]
      /\ \/ job'[t] = NoJob /\ next.drop = {} /\ next.add = {}
         \/ job'[t] = next /\ next # NoJob
      /\ parallel \/ t = OnlyThread
      /\ \A u \in Caller : ~In(u, "restore")
    BY <1>1, <1>3, UpdatingJob
<1>5. DepsTypeOK'
    BY <1>1, <1>4 DEF GraphInv, DepsTypeOK
<1>6. OwedEdges'
    BY <1>1, <1>3, <1>4 DEF GraphInv, DepsTypeOK, OwedEdges, In, Idle
<1>7. RestoreIsAlone' /\ TodoIsBare'
    BY <1>1, <1>3, <1>4 DEF RestoreIsAlone, TodoIsBare, In, Idle
<1>8. OneThread' /\ DiscardsNothing'
    BY <1>1, <1>3, <1>4 DEF GraphInv, OneThread, DiscardsNothing, In, Idle
<1>9. NoPhantomEdge'
    BY <1>1, <1>3, <1>4 DEF GraphInv, DepsTypeOK, NoPhantomEdge, In, Idle
<1>10. EdgesMirrored'
    BY <1>1, <1>3, <1>4 DEF GraphInv, DepsTypeOK, OwedEdges, EdgesMirrored, In, Idle
<1> QED BY <1>5, <1>6, <1>7, <1>8, <1>9, <1>10 DEF GraphInv

(* The set is found to be empty, which on one thread it stays. *)
LEMMA TestKeepsGraphInv ==
    ASSUME GraphInv, NEW t \in Caller, TestEmpty(t)
    PROVE  GraphInv'
<1> DEFINE next == IF Emptied(job[t].node) THEN [job[t] EXCEPT !.at = "discard"] ELSE Resumed(t)
<1>1. /\ In(t, "update") /\ job[t].at = "test"
      /\ ContinueUpdate(t, next)
      /\ UNCHANGED <<parallel, revision, changedAt, forward, reverse, known, verifiedAt, announced>>
    BY DEF TestEmpty, graph
<1>2. job[t] \in Job /\ job[t].call = "update"
    BY <1>1 DEF GraphInv, DepsTypeOK, In, Idle
<1>3. /\ next \in Job /\ next.call = "update" /\ next.query = job[t].query
      /\ next.add = job[t].add /\ next.drop = job[t].drop
      /\ next.at = "discard" => reverse[next.node] = {}
    BY <1>1, <1>2, JobKinds DEF Job, Emptied, Resumed
<1> HIDE DEF next
<1>4. /\ job' \in [Caller -> Job \union {NoJob}]
      /\ \A u \in Caller \ {t} : job'[u] = job[u]
      /\ \/ job'[t] = NoJob /\ next.drop = {} /\ next.add = {}
         \/ job'[t] = next /\ next # NoJob
      /\ parallel \/ t = OnlyThread
      /\ \A u \in Caller : ~In(u, "restore")
    BY <1>1, <1>3, UpdatingJob
<1>5. DepsTypeOK'
    BY <1>1, <1>4 DEF GraphInv, DepsTypeOK
<1>6. OwedEdges'
    BY <1>1, <1>3, <1>4 DEF GraphInv, OwedEdges, In, Idle
<1>7. RestoreIsAlone' /\ TodoIsBare'
    BY <1>1, <1>3, <1>4 DEF RestoreIsAlone, TodoIsBare, In, Idle
<1>8. OneThread' /\ DiscardsNothing'
    BY <1>1, <1>3, <1>4 DEF GraphInv, OneThread, DiscardsNothing, In, Idle
<1>9. NoPhantomEdge' /\ EdgesMirrored'
    BY <1>1, <1>3, <1>4 DEF GraphInv, NoPhantomEdge, EdgesMirrored, In, Idle
<1> QED BY <1>5, <1>6, <1>7, <1>8, <1>9 DEF GraphInv

(* The entry is removed: edges are lost only if another thread has come     *)
(* between.                                                                 *)
LEMMA DiscardKeepsGraphInv ==
    ASSUME GraphInv, NEW t \in Caller, DiscardEntry(t)
    PROVE  GraphInv'
<1> DEFINE next == Resumed(t)
<1>1. /\ In(t, "update") /\ job[t].at = "discard"
      /\ reverse' = [reverse EXCEPT ![job[t].node] = {}]
      /\ ContinueUpdate(t, next)
      /\ UNCHANGED <<parallel, revision, changedAt, forward, known, verifiedAt, announced>>
    BY DEF DiscardEntry
<1>2. job[t] \in Job /\ job[t].call = "update"
    BY <1>1 DEF GraphInv, DepsTypeOK, In, Idle
<1>3. /\ next \in Job /\ next.call = "update" /\ next.query = job[t].query
      /\ next.add = job[t].add /\ next.drop = job[t].drop /\ next.at = "next"
    BY <1>1, <1>2, JobKinds DEF Job, Resumed
<1> HIDE DEF next
<1>4. /\ job' \in [Caller -> Job \union {NoJob}]
      /\ \A u \in Caller \ {t} : job'[u] = job[u]
      /\ \/ job'[t] = NoJob /\ next.drop = {} /\ next.add = {}
         \/ job'[t] = next /\ next # NoJob
      /\ parallel \/ t = OnlyThread
      /\ \A u \in Caller : ~In(u, "restore")
    BY <1>1, <1>3, UpdatingJob
<1>5. /\ reverse' \in [Node -> SUBSET Computed]
      /\ \A m \in Node : reverse'[m] \subseteq reverse[m]
      /\ ~parallel => reverse' = reverse
    BY <1>1 DEF GraphInv, DepsTypeOK, DiscardsNothing
<1>6. DepsTypeOK'
    BY <1>1, <1>4, <1>5 DEF GraphInv, DepsTypeOK
<1>7. OwedEdges'
    BY <1>1, <1>3, <1>4 DEF GraphInv, OwedEdges, In, Idle
<1>8. RestoreIsAlone' /\ TodoIsBare'
    BY <1>1, <1>3, <1>4 DEF RestoreIsAlone, TodoIsBare, In, Idle
<1>9. OneThread' /\ DiscardsNothing'
    BY <1>1, <1>3, <1>4, <1>5 DEF GraphInv, OneThread, DiscardsNothing, In, Idle
<1>10. NoPhantomEdge'
    BY <1>1, <1>3, <1>4, <1>5 DEF GraphInv, NoPhantomEdge, In, Idle
<1>11. EdgesMirrored'
    BY <1>1, <1>3, <1>4, <1>5 DEF GraphInv, EdgesMirrored, In, Idle
<1> QED BY <1>6, <1>7, <1>8, <1>9, <1>10, <1>11 DEF GraphInv

(* An edge is inserted that the query has. *)
LEMMA InsertKeepsGraphInv ==
    ASSUME GraphInv, NEW t \in Caller, NEW n \in Node, InsertEdge(t, n)
    PROVE  GraphInv'
<1> DEFINE q == job[t].query
           next == [job[t] EXCEPT !.add = @ \ {n}]
<1>1. /\ In(t, "update") /\ job[t].at = "next" /\ n \in job[t].add
      /\ reverse' = [reverse EXCEPT ![n] = @ \union {q}]
      /\ ContinueUpdate(t, next)
      /\ UNCHANGED <<parallel, revision, changedAt, forward, known, verifiedAt, announced>>
    BY DEF InsertEdge
<1>2. job[t] \in Job /\ job[t].call = "update"
    BY <1>1 DEF GraphInv, DepsTypeOK, In, Idle
<1>3. /\ next \in Job /\ next.call = "update" /\ next.query = q /\ q \in Computed
      /\ next.add = job[t].add \ {n} /\ next.drop = job[t].drop /\ next.at = "next"
    BY <1>1, <1>2, JobKinds DEF Job
<1> HIDE DEF next
<1>4. /\ job' \in [Caller -> Job \union {NoJob}]
      /\ \A u \in Caller \ {t} : job'[u] = job[u]
      /\ \/ job'[t] = NoJob /\ next.drop = {} /\ next.add = {}
         \/ job'[t] = next /\ next # NoJob
      /\ parallel \/ t = OnlyThread
      /\ \A u \in Caller : ~In(u, "restore")
    BY <1>1, <1>3, UpdatingJob
<1>5. DepsTypeOK'
    BY <1>1, <1>3, <1>4 DEF GraphInv, DepsTypeOK
<1>6. OwedEdges' /\ n \in forward[q]
    BY <1>1, <1>3, <1>4 DEF GraphInv, OwedEdges, In, Idle
<1>7. RestoreIsAlone' /\ TodoIsBare'
    BY <1>1, <1>3, <1>4 DEF RestoreIsAlone, TodoIsBare, In, Idle
<1>8. OneThread' /\ DiscardsNothing'
    BY <1>1, <1>3, <1>4 DEF GraphInv, OneThread, DiscardsNothing, In, Idle
<1>9. NoPhantomEdge'
    BY <1>1, <1>3, <1>4, <1>6 DEF GraphInv, DepsTypeOK, NoPhantomEdge, In, Idle
<1>10. EdgesMirrored'
    BY <1>1, <1>3, <1>4 DEF GraphInv, DepsTypeOK, EdgesMirrored, In, Idle
<1> QED BY <1>5, <1>6, <1>7, <1>8, <1>9, <1>10 DEF GraphInv

(* The write of an input leaves the graph alone. *)
LEMMA WriteKeepsEdges ==
    ASSUME GraphInv, NEW t \in Caller, Idle(t) \/ In(t, "write"),
           Idle(t) => (parallel \/ t = OnlyThread) /\ \A u \in Caller : ~In(u, "restore"),
           NEW next \in Job \union {NoJob}, next = NoJob \/ next.call = "write",
           job' = [job EXCEPT ![t] = next], UNCHANGED <<parallel, graph>>
    PROVE  /\ job' \in [Caller -> Job \union {NoJob}]
           /\ OwedEdges' /\ RestoreIsAlone' /\ TodoIsBare' /\ OneThread'
           /\ DiscardsNothing' /\ NoPhantomEdge' /\ EdgesMirrored'
<1>1. /\ job' \in [Caller -> Job \union {NoJob}]
      /\ job'[t] = next
      /\ \A u \in Caller \ {t} : job'[u] = job[u]
      /\ UNCHANGED <<parallel, forward, reverse>>
    BY DEF GraphInv, DepsTypeOK, graph
<1>2. OwedEdges' /\ TodoIsBare'
    BY <1>1 DEF GraphInv, OwedEdges, TodoIsBare, In, Idle
<1>3. RestoreIsAlone' /\ OneThread' /\ DiscardsNothing'
    BY <1>1 DEF GraphInv, RestoreIsAlone, OneThread, DiscardsNothing, In, Idle
<1>4. NoPhantomEdge' /\ EdgesMirrored'
    BY <1>1 DEF GraphInv, NoPhantomEdge, EdgesMirrored, In, Idle
<1> QED BY <1>1, <1>2, <1>3, <1>4

LEMMA BumpKeepsGraphInv ==
    ASSUME GraphInv, NEW t \in Caller, NEW i \in Source, BumpRevision(t, i)
    PROVE  GraphInv'
<1> DEFINE next == [call |-> "write", input |-> i, rev |-> revision + 1,
                    queue |-> <<>>, seen |-> {}]
<1>1. /\ Idle(t) /\ (parallel \/ t = OnlyThread)
      /\ \A u \in Caller : ~In(u, "restore")
      /\ revision' = revision + 1 /\ revision + 1 \in 0..MaxRevision
      /\ job' = [job EXCEPT ![t] = next]
      /\ UNCHANGED <<parallel, changedAt, graph, verifiedAt, announced>>
    BY BoundsAreNat DEF BumpRevision, MayBegin, GraphInv, DepsTypeOK
<1>2. next \in Job /\ next.call = "write"
    BY <1>1 DEF Job
<1> HIDE DEF next
<1>3. /\ job' \in [Caller -> Job \union {NoJob}]
      /\ OwedEdges' /\ RestoreIsAlone' /\ TodoIsBare' /\ OneThread'
      /\ DiscardsNothing' /\ NoPhantomEdge' /\ EdgesMirrored'
    BY <1>1, <1>2, WriteKeepsEdges
<1>4. DepsTypeOK'
    BY <1>1, <1>3 DEF GraphInv, DepsTypeOK, graph
<1> QED BY <1>3, <1>4 DEF GraphInv

LEMMA EntryKeepsGraphInv ==
    ASSUME GraphInv, NEW t \in Caller, WriteEntry(t)
    PROVE  GraphInv'
<1> DEFINE next == [job[t] EXCEPT !.queue = <<job[t].input>>, !.seen = {job[t].input}]
<1>1. /\ In(t, "write")
      /\ changedAt' = [changedAt EXCEPT ![job[t].input] = job[t].rev]
      /\ job' = [job EXCEPT ![t] = next]
      /\ UNCHANGED <<parallel, revision, graph, verifiedAt, announced>>
    BY DEF WriteEntry, Continue
<1>2. /\ job \in [Caller -> Job \union {NoJob}]
      /\ job[t] \in [call : {"write"}, input : Source, rev : 0..MaxRevision,
                     queue : Seq(Node), seen : SUBSET Node]
    BY <1>1, JobKinds DEF GraphInv, DepsTypeOK, In, Idle
<1>3. next \in [call : {"write"}, input : Source, rev : 0..MaxRevision,
                 queue : Seq(Node), seen : SUBSET Node]
    <2>1. <<job[t].input>> \in Seq(Node) /\ {job[t].input} \in SUBSET Node
        BY <1>2 DEF Node
    <2> QED BY <1>2, <2>1
<1>4. next \in Job /\ next.call = "write"
    BY <1>3 DEF Job
<1> HIDE DEF next
<1>5. /\ job' \in [Caller -> Job \union {NoJob}]
      /\ OwedEdges' /\ RestoreIsAlone' /\ TodoIsBare' /\ OneThread'
      /\ DiscardsNothing' /\ NoPhantomEdge' /\ EdgesMirrored'
    BY <1>1, <1>3, <1>4, WriteKeepsEdges DEF In
<1>6. DepsTypeOK'
    BY <1>1, <1>2, <1>5 DEF GraphInv, DepsTypeOK, graph
<1> QED BY <1>5, <1>6 DEF GraphInv

(* The dependents of a node are finitely many: they can be put in a queue. *)
LEMMA DependentsInQueue ==
    ASSUME NEW S \in SUBSET Computed, NEW s \in SetToSeqs(S)
    PROVE  s \in Seq(Node)
<1>1. IsFiniteSet(S)
    BY NodesApart, FS_Subset DEF Node
<1>2. Cardinality(S) \in Nat
    BY <1>1, FS_CardinalityType
<1>3. s \in [1..Cardinality(S) -> Node]
    BY DEF SetToSeqs, Node
<1> QED BY <1>2, <1>3

LEMMA VisitKeepsGraphInv ==
    ASSUME GraphInv, NEW t \in Caller, Visit(t)
    PROVE  GraphInv'
<1> DEFINE fresh == Fresh(t, Head(job[t].queue))
<1>1. PICK s \in SetToSeqs(fresh) :
        job' = [job EXCEPT ![t] =
                  IF Tail(job[t].queue) \o s = <<>> THEN NoJob
                  ELSE [job[t] EXCEPT !.queue = Tail(job[t].queue) \o s, !.seen = @ \union fresh]]
    BY DEF Visit, Continue
<1>2. /\ In(t, "write") /\ job[t].queue # <<>>
      /\ announced' = [q \in Computed |->
            IF q \in fresh /\ job[t].rev > announced[q] THEN job[t].rev ELSE announced[q]]
      /\ UNCHANGED <<parallel, revision, changedAt, graph, verifiedAt>>
    BY DEF Visit
<1>3. job[t] \in [call : {"write"}, input : Source, rev : 0..MaxRevision,
                  queue : Seq(Node), seen : SUBSET Node]
    BY <1>2, JobKinds DEF GraphInv, DepsTypeOK, In, Idle
<1>4. fresh \in SUBSET Computed
    <2>1. Head(job[t].queue) \in Node
        BY <1>2, <1>3
    <2> QED BY <2>1 DEF Fresh, GraphInv, DepsTypeOK
<1> DEFINE queue == Tail(job[t].queue) \o s
           left == [job[t] EXCEPT !.queue = queue, !.seen = @ \union fresh]
           next == IF queue = <<>> THEN NoJob ELSE left
<1>5. queue \in Seq(Node)
    <2>1. Tail(job[t].queue) \in Seq(Node)
        BY <1>2, <1>3
    <2> QED BY <1>1, <1>4, <2>1, DependentsInQueue
<1>6. left \in Job /\ left.call = "write"
    BY <1>3, <1>4, <1>5 DEF Job, Node
<1>7. job' = [job EXCEPT ![t] = next]
    BY <1>1
<1>8. next \in Job \union {NoJob} /\ (next = NoJob \/ next.call = "write")
    BY <1>6
<1>9. announced' \in [Computed -> 0..MaxRevision]
    BY <1>2, <1>3 DEF GraphInv, DepsTypeOK
<1> HIDE DEF next, fresh
<1>10. /\ job' \in [Caller -> Job \union {NoJob}]
       /\ OwedEdges' /\ RestoreIsAlone' /\ TodoIsBare' /\ OneThread'
       /\ DiscardsNothing' /\ NoPhantomEdge' /\ EdgesMirrored'
    BY <1>2, <1>7, <1>8, WriteKeepsEdges DEF In
<1>11. DepsTypeOK'
    BY <1>2, <1>9, <1>10 DEF GraphInv, DepsTypeOK, graph
<1> QED BY <1>10, <1>11 DEF GraphInv

-----------------------------------------------------------------------------
(* A load begins when no call is under way: no edge is owed. *)
LEMMA BeginRestoreKeepsGraphInv ==
    ASSUME GraphInv, NEW t \in Caller, BeginRestore(t)
    PROVE  GraphInv'
<1>1. PICK kept \in SUBSET known :
        job' = [job EXCEPT ![t] = [call |-> "restore", saved |-> forward, todo |-> kept,
                                   cleared |-> FALSE]]
    BY DEF BeginRestore
<1>2. /\ \A u \in Caller : job[u] = NoJob
      /\ parallel \/ t = OnlyThread
      /\ UNCHANGED <<parallel, revision, changedAt, graph, verifiedAt, announced>>
    BY DEF BeginRestore, MayBegin, AllIdle, Idle
<1> DEFINE next == [call |-> "restore", saved |-> forward, todo |-> kept, cleared |-> FALSE]
<1>3. next \in Job /\ next.call = "restore" /\ next.cleared = FALSE
    BY <1>1 DEF GraphInv, DepsTypeOK, Job
<1>4. job' = [job EXCEPT ![t] = next]
    BY <1>1
<1> HIDE DEF next
<1>5. /\ job' \in [Caller -> Job \union {NoJob}]
      /\ job'[t] = next /\ \A u \in Caller \ {t} : job'[u] = NoJob
    BY <1>2, <1>3, <1>4 DEF GraphInv, DepsTypeOK
<1>6. DepsTypeOK'
    BY <1>2, <1>5 DEF GraphInv, DepsTypeOK, graph
<1>7. OwedEdges' /\ RestoreIsAlone' /\ TodoIsBare' /\ OneThread' /\ DiscardsNothing'
    BY <1>2, <1>3, <1>5
    DEF OwedEdges, RestoreIsAlone, TodoIsBare, OneThread, DiscardsNothing, In, Idle
<1>8. NoPhantomEdge' /\ EdgesMirrored'
    BY <1>2, <1>5 DEF GraphInv, NoPhantomEdge, EdgesMirrored, In, Idle, graph
<1> QED BY <1>6, <1>7, <1>8 DEF GraphInv

(* What a load goes on with. *)
LEMMA RestoringJob ==
    ASSUME GraphInv, NEW t \in Caller, In(t, "restore"),
           NEW left \in Job, left.call = "restore", ContinueRestore(t, left)
    PROVE  /\ job' \in [Caller -> Job \union {NoJob}]
           /\ job'[t] = NoJob \/ job'[t] = left
           /\ \A u \in Caller \ {t} : job'[u] = NoJob
           /\ \A u \in Caller : ~In(u, "update")
           /\ parallel \/ t = OnlyThread
<1>1. \A u \in Caller \ {t} : job[u] = NoJob
    BY DEF GraphInv, RestoreIsAlone, Idle
<1>2. parallel \/ t = OnlyThread
    BY DEF GraphInv, OneThread, In
<1> QED BY <1>1, <1>2 DEF ContinueRestore, Continue, GraphInv, DepsTypeOK, In, Idle

LEMMA ClearKeepsGraphInv ==
    ASSUME GraphInv, NEW t \in Caller, ClearGraph(t)
    PROVE  GraphInv'
<1> DEFINE next == [job[t] EXCEPT !.cleared = TRUE]
<1>1. /\ In(t, "restore")
      /\ forward' = [q \in Computed |-> {}] /\ known' = {}
      /\ reverse' = [n \in Node |-> {}]
      /\ ContinueRestore(t, next)
      /\ UNCHANGED <<parallel, revision, changedAt, verifiedAt, announced>>
    BY DEF ClearGraph
<1>2. job[t] \in [call : {"restore"}, saved : [Computed -> SUBSET Node],
                  todo : SUBSET Computed, cleared : BOOLEAN]
    BY <1>1, JobKinds DEF GraphInv, DepsTypeOK, In, Idle
<1>3. next \in Job /\ next.call = "restore" /\ next.todo \in SUBSET Computed
    BY <1>2 DEF Job
<1> HIDE DEF next
<1>4. /\ job' \in [Caller -> Job \union {NoJob}]
      /\ job'[t] = NoJob \/ job'[t] = next
      /\ \A u \in Caller \ {t} : job'[u] = NoJob
      /\ parallel \/ t = OnlyThread
    BY <1>1, <1>3, RestoringJob
<1>5. DepsTypeOK'
    BY <1>1, <1>4 DEF GraphInv, DepsTypeOK
<1>6. OwedEdges' /\ RestoreIsAlone' /\ TodoIsBare' /\ OneThread' /\ DiscardsNothing'
    BY <1>1, <1>3, <1>4
    DEF OwedEdges, RestoreIsAlone, TodoIsBare, OneThread, DiscardsNothing, In, Idle
<1>7. NoPhantomEdge' /\ EdgesMirrored'
    BY <1>1 DEF NoPhantomEdge, EdgesMirrored
<1> QED BY <1>5, <1>6, <1>7 DEF GraphInv

(* A query that is restored had no edges: it gets those it was saved with. *)
LEMMA RestoreKeepsGraphInv ==
    ASSUME GraphInv, NEW t \in Caller, NEW q \in Computed, RestoreQuery(t, q)
    PROVE  GraphInv'
<1> DEFINE next == [job[t] EXCEPT !.todo = @ \ {q}]
           ds == job[t].saved[q]
<1>1. /\ In(t, "restore") /\ job[t].cleared /\ q \in job[t].todo
      /\ forward' = [forward EXCEPT ![q] = ds]
      /\ reverse' = [n \in Node |-> IF n \in ds THEN reverse[n] \union {q} ELSE reverse[n]]
      /\ known' = known \union {q}
      /\ ContinueRestore(t, next)
      /\ UNCHANGED <<parallel, revision, changedAt, verifiedAt, announced>>
    BY DEF RestoreQuery
<1>2. job[t] \in [call : {"restore"}, saved : [Computed -> SUBSET Node],
                  todo : SUBSET Computed, cleared : BOOLEAN]
    BY <1>1, JobKinds DEF GraphInv, DepsTypeOK, In, Idle
<1>3. /\ next \in Job /\ next.call = "restore" /\ next.todo = job[t].todo \ {q}
      /\ next.todo \in SUBSET Computed /\ ds \in SUBSET Node
    BY <1>2 DEF Job
<1>4. forward[q] = {} /\ \A p \in job[t].todo : forward[p] = {}
    BY <1>1 DEF GraphInv, TodoIsBare
<1> HIDE DEF next, ds
<1>5. /\ job' \in [Caller -> Job \union {NoJob}]
      /\ job'[t] = NoJob \/ job'[t] = next
      /\ \A u \in Caller \ {t} : job'[u] = NoJob
      /\ \A u \in Caller : ~In(u, "update")
      /\ parallel \/ t = OnlyThread
    BY <1>1, <1>3, RestoringJob
<1>6. DepsTypeOK'
    BY <1>1, <1>3, <1>5 DEF GraphInv, DepsTypeOK
<1>7. OwedEdges' /\ RestoreIsAlone' /\ OneThread' /\ DiscardsNothing'
    BY <1>1, <1>3, <1>5 DEF OwedEdges, RestoreIsAlone, OneThread, DiscardsNothing, In, Idle
<1>8. TodoIsBare'
    BY <1>1, <1>3, <1>4, <1>5 DEF GraphInv, DepsTypeOK, TodoIsBare, In, Idle
<1>9. NoPhantomEdge'
    BY <1>1, <1>3, <1>4, <1>5 DEF GraphInv, DepsTypeOK, NoPhantomEdge
<1>10. EdgesMirrored'
    BY <1>1, <1>3, <1>5 DEF GraphInv, DepsTypeOK, EdgesMirrored
<1> QED BY <1>6, <1>7, <1>8, <1>9, <1>10 DEF GraphInv
-----------------------------------------------------------------------------
LEMMA NextKeepsGraphInv == GraphInv /\ [DepsNext]_depsVars => GraphInv'
<1> SUFFICES ASSUME GraphInv, [DepsNext]_depsVars PROVE GraphInv'
    OBVIOUS
<1>1. CASE UNCHANGED depsVars
    BY <1>1
    DEF depsVars, graph, GraphInv, DepsTypeOK, OwedEdges, RestoreIsAlone, TodoIsBare, OneThread,
        DiscardsNothing, NoPhantomEdge, EdgesMirrored, In, Idle
<1>2. CASE DepsNext
    <2> PICK t \in Caller : BeginCall(t) \/ CallStep(t)
        BY <1>2 DEF DepsNext
    <2>1. CASE BeginCall(t)
        BY <2>1, UpdateKeepsGraphInv, RevalidateKeepsGraphInv, BumpKeepsGraphInv,
           BeginRestoreKeepsGraphInv DEF BeginCall
    <2>2. CASE \E n \in Node : RemoveEdge(t, n) \/ InsertEdge(t, n)
        BY <2>2, RemoveKeepsGraphInv, InsertKeepsGraphInv
    <2>3. CASE TestEmpty(t) \/ DiscardEntry(t)
        BY <2>3, TestKeepsGraphInv, DiscardKeepsGraphInv
    <2>4. CASE WriteEntry(t) \/ Visit(t)
        BY <2>4, EntryKeepsGraphInv, VisitKeepsGraphInv
    <2>5. CASE ClearGraph(t) \/ \E q \in Computed : RestoreQuery(t, q)
        BY <2>5, ClearKeepsGraphInv, RestoreKeepsGraphInv
    <2> QED BY <2>1, <2>2, <2>3, <2>4, <2>5 DEF CallStep
<1> QED BY <1>1, <1>2

THEOREM GraphInvariance == DepsSpec => []GraphInv
    BY InitHoldsGraphInv, NextKeepsGraphInv, PTL DEF DepsSpec

(* Both maps, the calls under way and the histories keep their types. *)
THEOREM GraphTypeCorrect == DepsSpec => []DepsTypeOK
    BY GraphInvariance, PTL DEF GraphInv

(* An edge of reverse_deps without a dependency behind it is about to be     *)
(* removed, however threads interleave: update_query_deps knows of all that  *)
(* it has inserted, since nobody else updates the query meanwhile.           *)
THEOREM NoPhantoms == DepsSpec => []NoPhantomEdge
    BY GraphInvariance, PTL DEF GraphInv

(* On one thread every dependency has its reverse edge or is about to get    *)
(* it: what remove-if-empty removes is empty.                                *)
THEOREM MirroredOnOneThread == DepsSpec => []EdgesMirrored
    BY GraphInvariance, PTL DEF GraphInv
-----------------------------------------------------------------------------
(* Who is out of date has been told, on one thread.  The graph is a         *)
(* parameter here, because a load has the graph that it restores in the     *)
(* call.                                                                    *)

\* S has what q depends on in the graph g.
Covers(g, q, S) ==
    g[q] \subseteq S /\ \A p \in S \intersect Computed : g[p] \subseteq S

Reaches(g, q, n) == \A S \in SUBSET Node : Covers(g, q, S) => n \in S

\* What a query of qs depends on was verified when it was, or later.
VerifiedBelow(g, qs) ==
    \A q \in qs : \A p \in g[q] \intersect Computed :
        p \in qs /\ verifiedAt[q] <= verifiedAt[p]

\* A query of qs that has not been told since it was verified is up to date
\* with what it depends on, except for what is being announced.
ToldOrCurrent(g, qs, beingTold) ==
    \A q \in qs : \A i \in Source :
        Reaches(g, q, i) /\ announced[q] <= verifiedAt[q] /\ i \notin beingTold
            => changedAt[i] <= verifiedAt[q]

NothingAhead ==
    /\ \A i \in Source : changedAt[i] <= revision
    /\ \A q \in Computed : verifiedAt[q] <= revision /\ announced[q] <= revision

\* The input whose write has made its entry and walks.
Walking == {job[t].input : t \in {u \in Caller : In(u, "write") /\ job[u].seen # {}}}

\* What a walk has seen has been told, and so has what depends on it, but for
\* the dependents of what is in its queue.
WalksAreClosed ==
    \A t \in Caller : In(t, "write") =>
        /\ job[t].rev = revision
        /\ \A q \in Computed : verifiedAt[q] < revision
        /\ job[t].seen = {} => job[t].queue = <<>>
        /\ job[t].seen # {} => job[t].input \in job[t].seen
        /\ \A n \in job[t].seen :
            n \in ToSet(job[t].queue) \/ reverse[n] \subseteq job[t].seen
        /\ \A q \in job[t].seen \intersect Computed : announced[q] = revision

\* The queries that a load keeps: those to come, and those it has come to.
Kept(t) == job[t].todo \union IF job[t].cleared THEN known ELSE {}

LoadsKeepMeaning ==
    \A t \in Caller : In(t, "restore") =>
        /\ \A q \in Computed : forward[q] \subseteq job[t].saved[q]
        /\ VerifiedBelow(job[t].saved, Kept(t))
        /\ ToldOrCurrent(job[t].saved, Kept(t), {})

ToldInv ==
    /\ NothingAhead
    /\ WalksAreClosed
    /\ LoadsKeepMeaning
    /\ (\A t \in Caller : ~In(t, "restore")) =>
        VerifiedBelow(forward, known) /\ ToldOrCurrent(forward, known, Walking)

GraphToldInv == GraphInv /\ (~parallel => ToldInv)

(* The least set that covers a query in a graph does cover it. *)
LEMMA ReachedCovers ==
    ASSUME NEW g \in [Computed -> SUBSET Node], NEW q \in Computed
    PROVE  Covers(g, q, {n \in Node : Reaches(g, q, n)})
<1> DEFINE D == {n \in Node : Reaches(g, q, n)}
<1>1. g[q] \subseteq D
    BY DEF Reaches, Covers
<1>2. ASSUME NEW p \in D \intersect Computed PROVE g[p] \subseteq D
    BY DEF Reaches, Covers
<1> QED BY <1>1, <1>2 DEF Covers

(* What a query depends on depends on nothing else than the query does. *)
LEMMA ReachesThrough ==
    ASSUME NEW g, NEW q \in Computed, NEW p \in Computed, NEW n,
           Reaches(g, q, p), Reaches(g, p, n)
    PROVE  Reaches(g, q, n)
    BY DEF Reaches, Covers

(* With more edges no less is reached. *)
LEMMA ReachesMore ==
    ASSUME NEW f, NEW g, NEW q \in Computed, NEW n,
           \A p \in Computed : f[p] \subseteq g[p], Reaches(f, q, n)
    PROVE  Reaches(g, q, n)
<1> SUFFICES ASSUME NEW S \in SUBSET Node, Covers(g, q, S) PROVE n \in S
    BY DEF Reaches
<1>1. Covers(f, q, S)
    BY DEF Covers
<1> QED BY <1>1 DEF Reaches

LEMMA DependsOnReached ==
    ASSUME NEW q \in Computed, NEW n \in Node
    PROVE  n \in DependsOn(q) <=> Reaches(forward, q, n)
    BY DEF DependsOn, Reaches, Covers

(* All that a query depends on was verified when it was, or later. *)
LEMMA ReachedIsVerified ==
    ASSUME NEW g \in [Computed -> SUBSET Node], NEW qs \in SUBSET Computed,
           verifiedAt \in [Computed -> Nat], VerifiedBelow(g, qs),
           NEW q \in qs, NEW p \in Computed, Reaches(g, q, p)
    PROVE  p \in qs /\ verifiedAt[q] <= verifiedAt[p]
<1> DEFINE S == {n \in Node : n \in Source \/ (n \in qs /\ verifiedAt[q] <= verifiedAt[n])}
<1>1. g[q] \subseteq S
    BY DEF VerifiedBelow, Node
<1>2. ASSUME NEW r \in S \intersect Computed PROVE g[r] \subseteq S
    <2>1. r \in qs /\ verifiedAt[q] <= verifiedAt[r]
        BY NodesApart
    <2> SUFFICES ASSUME NEW n \in g[r], n \in Computed PROVE n \in S
        BY DEF Node
    <2>2. n \in qs /\ verifiedAt[r] <= verifiedAt[n]
        BY <2>1 DEF VerifiedBelow
    <2> QED BY <2>1, <2>2 DEF Node
<1>3. S \in SUBSET Node
    OBVIOUS
<1> HIDE DEF S
<1>4. p \in S
    BY <1>1, <1>2, <1>3 DEF Reaches, Covers
<1> QED BY <1>4, NodesApart DEF S

(* A query that has been told nothing since it was verified is not stale in *)
(* the least.                                                               *)
LEMMA ToldMeansTold ==
    ASSUME ToldOrCurrent(forward, known, {}), VerifiedBelow(forward, known),
           DepsTypeOK, NEW q \in known, announced[q] <= verifiedAt[q],
           NEW p \in known, Reaches(forward, q, p)
    PROVE  ~Stale(p)
<1>0. /\ verifiedAt \in [Computed -> Nat] /\ changedAt \in [Source -> Nat]
      /\ forward \in [Computed -> SUBSET Node] /\ known \in SUBSET Computed
    BY BoundsAreNat DEF DepsTypeOK
<1>1. verifiedAt[q] <= verifiedAt[p]
    BY <1>0, ReachedIsVerified
<1>2. ASSUME NEW i \in Source, i \in DependsOn(p) PROVE changedAt[i] <= verifiedAt[p]
    <2>1. i \in Node /\ Reaches(forward, p, i)
        BY <1>0, <1>2, DependsOnReached DEF Node
    <2>2. Reaches(forward, q, i)
        BY <1>0, <2>1, ReachesThrough
    <2>3. changedAt[i] <= verifiedAt[q]
        BY <2>2 DEF ToldOrCurrent
    <2> QED BY <1>0, <1>1, <2>3
<1> QED BY <1>0, <1>2 DEF Stale

(* On one thread no other call is under way. *)
LEMMA OneCall ==
    ASSUME GraphInv, ~parallel, NEW t \in Caller, MayBegin(t) \/ ~Idle(t)
    PROVE  \A u \in Caller \ {t} : Idle(u)
    BY DEF GraphInv, OneThread, MayBegin

LEMMA NobodyCalls ==
    ASSUME GraphInv, ~parallel, NEW t \in Caller, MayBegin(t)
    PROVE  AllIdle
    BY OneCall DEF AllIdle, MayBegin

LEMMA QuietGraph ==
    ASSUME ToldInv, AllIdle
    PROVE  VerifiedBelow(forward, known) /\ ToldOrCurrent(forward, known, {})
<1>1. (\A u \in Caller : ~In(u, "restore")) /\ Walking = {}
    BY DEF AllIdle, In, Walking
<1> QED BY <1>1 DEF ToldInv

(* Nothing is announced while a query updates its edges. *)
LEMMA UpdatingKeepsTold ==
    ASSUME GraphInv, ~parallel, ToldInv, NEW t \in Caller, In(t, "update"),
           NEW left \in Job, left.call = "update", left.query = job[t].query,
           ContinueUpdate(t, left),
           UNCHANGED <<revision, changedAt, forward, known, verifiedAt, announced>>
    PROVE  ToldInv'
<1>1. \A u \in Caller \ {t} : Idle(u)
    BY OneCall DEF In
<1>2. /\ \A u \in Caller \ {t} : job'[u] = NoJob
      /\ job'[t] = NoJob \/ job'[t] = left
    BY <1>1, UpdatingJob DEF Idle
<1>3. \A u \in Caller : ~In(u, "write") /\ ~In(u, "restore")
    BY <1>1 DEF In
<1>4. \A u \in Caller : ~In(u, "write")' /\ ~In(u, "restore")'
    BY <1>2 DEF In, Idle
<1>5. Walking = {} /\ Walking' = {}
    BY <1>3, <1>4 DEF Walking
<1>6. VerifiedBelow(forward, known) /\ ToldOrCurrent(forward, known, {})
    BY <1>3, <1>5 DEF ToldInv
<1>7. VerifiedBelow(forward, known)' /\ ToldOrCurrent(forward, known, Walking)'
    BY <1>5, <1>6 DEF VerifiedBelow, ToldOrCurrent, Reaches, Covers
<1>8. NothingAhead'
    BY DEF ToldInv, NothingAhead
<1>9. WalksAreClosed' /\ LoadsKeepMeaning'
    BY <1>4 DEF WalksAreClosed, LoadsKeepMeaning
<1> QED BY <1>7, <1>8, <1>9 DEF ToldInv

LEMMA EdgeStepsKeepTold ==
    ASSUME GraphInv, ~parallel, ToldInv, NEW t \in Caller,
           \/ \E n \in Node : RemoveEdge(t, n) \/ InsertEdge(t, n)
           \/ TestEmpty(t) \/ DiscardEntry(t)
    PROVE  ToldInv'
<1>1. In(t, "update") /\ UNCHANGED <<revision, changedAt, forward, known, verifiedAt, announced>>
    BY DEF RemoveEdge, InsertEdge, TestEmpty, DiscardEntry, graph
<1>2. job[t] \in Job /\ job[t].call = "update"
    BY <1>1 DEF GraphInv, DepsTypeOK, In, Idle
<1>3. /\ job[t] \in [call : {"update"}, query : Computed, drop : SUBSET Node, add : SUBSET Node,
                     node : Node \union {NoNode}, at : {"next", "test", "discard"}]
    BY <1>2, JobKinds
<1>4. CASE \E n \in Node : RemoveEdge(t, n)
    <2> PICK n \in Node : RemoveEdge(t, n)
        BY <1>4
    <2> DEFINE left == [job[t] EXCEPT !.drop = @ \ {n}]
               next == IF reverse[n] = {} THEN left ELSE [left EXCEPT !.node = n, !.at = "test"]
    <2>1. ContinueUpdate(t, next)
        BY DEF RemoveEdge
    <2>2. next \in Job /\ next.call = "update" /\ next.query = job[t].query
        BY <1>3 DEF Job
    <2> QED BY <1>1, <2>1, <2>2, UpdatingKeepsTold
<1>5. CASE \E n \in Node : InsertEdge(t, n)
    <2> PICK n \in Node : InsertEdge(t, n)
        BY <1>5
    <2> DEFINE next == [job[t] EXCEPT !.add = @ \ {n}]
    <2>1. ContinueUpdate(t, next)
        BY DEF InsertEdge
    <2>2. next \in Job /\ next.call = "update" /\ next.query = job[t].query
        BY <1>3 DEF Job
    <2> QED BY <1>1, <2>1, <2>2, UpdatingKeepsTold
<1>6. Resumed(t) \in Job /\ Resumed(t).call = "update" /\ Resumed(t).query = job[t].query
    BY <1>3 DEF Job, Resumed
<1>7. CASE TestEmpty(t)
    <2> DEFINE next == IF Emptied(job[t].node) THEN [job[t] EXCEPT !.at = "discard"] ELSE Resumed(t)
    <2>1. ContinueUpdate(t, next)
        BY <1>7 DEF TestEmpty
    <2>2. next \in Job /\ next.call = "update" /\ next.query = job[t].query
        BY <1>3, <1>6 DEF Job
    <2> QED BY <1>1, <2>1, <2>2, UpdatingKeepsTold
<1>8. CASE DiscardEntry(t)
    BY <1>1, <1>6, <1>8, UpdatingKeepsTold DEF DiscardEntry
<1> QED BY <1>4, <1>5, <1>7, <1>8

(* A query that depends on the one that is computed anew, and has not been  *)
(* told, depends on nothing that has changed: so the query reads again what *)
(* it read before.                                                          *)
LEMMA UpdateKeepsTold ==
    ASSUME GraphInv, ~parallel, ToldInv,
           NEW t \in Caller, NEW q \in Computed, NEW ds \in DepChoices[q], Update(t, q, ds)
    PROVE  ToldInv'
<1> DEFINE new == Swapping(q, ds)
<1>1. /\ MayBegin(t)
      /\ ~UpToDate(q)
      /\ q \notin known \/ Stale(q) \/ ds = forward[q]
      /\ \A p \in ds \intersect Computed : UpToDate(p)
      /\ job' = [job EXCEPT ![t] = IF new.drop = {} /\ new.add = {} /\ new.at = "next"
                                   THEN NoJob ELSE new]
      /\ forward' = [forward EXCEPT ![q] = ds]
      /\ known' = known \union {q}
      /\ verifiedAt' = [verifiedAt EXCEPT ![q] = revision]
      /\ UNCHANGED <<parallel, revision, changedAt, reverse, announced>>
    BY DEF Update, ContinueUpdate, Continue
<1>2. AllIdle
    BY <1>1, NobodyCalls
<1>3. VerifiedBelow(forward, known) /\ ToldOrCurrent(forward, known, {})
    BY <1>2, QuietGraph
<1>4. /\ forward \in [Computed -> SUBSET Node] /\ known \in SUBSET Computed
      /\ verifiedAt \in [Computed -> Nat] /\ changedAt \in [Source -> Nat]
      /\ revision \in Nat /\ announced \in [Computed -> Nat]
      /\ job \in [Caller -> Job \union {NoJob}]
      /\ DepsTypeOK
    BY BoundsAreNat DEF GraphInv, DepsTypeOK
<1>5. /\ \A i \in Source : changedAt[i] <= revision
      /\ \A p \in Computed : verifiedAt[p] <= revision /\ announced[p] <= revision
    BY DEF ToldInv, NothingAhead
<1>6. NothingAhead'
    BY <1>1, <1>4, <1>5 DEF NothingAhead
<1>7. \A u \in Caller : ~In(u, "write")' /\ ~In(u, "restore")'
    <2>1. new.call = "update"
        BY DEF Swapping
    <2> QED BY <1>1, <1>2, <1>4, <2>1 DEF AllIdle, In, Idle
<1> HIDE DEF new
<1>8. /\ forward' \in [Computed -> SUBSET Node]
      /\ forward'[q] = ds /\ \A p \in Computed \ {q} : forward'[p] = forward[p]
      /\ verifiedAt'[q] = revision
      /\ \A p \in Computed \ {q} : verifiedAt'[p] = verifiedAt[p]
    BY <1>1, <1>4, ChoicesAreDeps
<1>9. VerifiedBelow(forward, known)'
    <2> SUFFICES ASSUME NEW r \in known', NEW p \in forward'[r] \intersect Computed
                 PROVE  p \in known' /\ verifiedAt'[r] <= verifiedAt'[p]
        BY DEF VerifiedBelow
    <2>1. CASE r = q
        BY <1>1, <1>4, <1>8, <2>1 DEF UpToDate
    <2>2. CASE r # q
        <3>1. r \in known /\ p \in forward[r]
            BY <1>1, <1>4, <1>8, <2>2
        <3>2. p \in known /\ verifiedAt[r] <= verifiedAt[p]
            BY <1>3, <3>1 DEF VerifiedBelow
        <3> QED BY <1>1, <1>4, <1>5, <1>8, <2>2, <3>1, <3>2
    <2> QED BY <2>1, <2>2
<1>10. ASSUME NEW r \in known', NEW i \in Source,
              Reaches(forward', r, i), announced'[r] <= verifiedAt'[r]
       PROVE  changedAt'[i] <= verifiedAt'[r]
    <2>1. CASE r = q
        BY <1>1, <1>5, <1>8, <2>1
    <2>2. CASE r # q
        <3>1. r \in known /\ r \in Computed /\ announced[r] <= verifiedAt[r]
            BY <1>1, <1>4, <1>8, <1>10, <2>2
        <3>2. Reaches(forward, r, i)
            <4>1. CASE Reaches(forward, r, q)
                <5>1. q \in known
                    BY <1>3, <1>4, <3>1, <4>1, ReachedIsVerified
                <5>2. ~Stale(q)
                    BY <1>3, <1>4, <3>1, <4>1, <5>1, ToldMeansTold
                <5>3. forward' = forward
                    BY <1>1, <1>4, <5>1, <5>2
                <5> QED BY <1>10, <5>3
            <4>2. CASE ~Reaches(forward, r, q)
                <5> DEFINE D == {n \in Node : Reaches(forward, r, n)}
                <5>1. Covers(forward, r, D)
                    BY <1>4, <3>1, ReachedCovers
                <5>2. q \notin D
                    BY <4>2
                <5>3. Covers(forward', r, D)
                    BY <1>8, <2>2, <3>1, <5>1, <5>2 DEF Covers
                <5>4. D \in SUBSET Node
                    OBVIOUS
                <5> HIDE DEF D
                <5>5. i \in D
                    BY <1>10, <5>3, <5>4 DEF Reaches
                <5> QED BY <5>5 DEF D
            <4> QED BY <4>1, <4>2
        <3> QED BY <1>1, <1>3, <1>8, <2>2, <3>1, <3>2 DEF ToldOrCurrent
    <2> QED BY <2>1, <2>2
<1>11. ToldOrCurrent(forward, known, Walking)'
    BY <1>10 DEF ToldOrCurrent, Reaches, Covers
<1>12. WalksAreClosed' /\ LoadsKeepMeaning'
    BY <1>7 DEF WalksAreClosed, LoadsKeepMeaning
<1> QED BY <1>6, <1>9, <1>11, <1>12 DEF ToldInv

(* What is revalidated is verified at the revision that nothing is ahead of. *)
LEMMA RevalidateKeepsTold ==
    ASSUME GraphInv, ~parallel, ToldInv,
           NEW t \in Caller, NEW q \in Computed, Revalidate(t, q)
    PROVE  ToldInv'
<1>1. /\ MayBegin(t) /\ q \in known
      /\ \A p \in forward[q] \intersect Computed : UpToDate(p)
      /\ verifiedAt' = [verifiedAt EXCEPT ![q] = revision]
      /\ UNCHANGED <<parallel, revision, changedAt, forward, reverse, known, job, announced>>
    BY DEF Revalidate, graph
<1>2. AllIdle
    BY <1>1, NobodyCalls
<1>3. VerifiedBelow(forward, known) /\ ToldOrCurrent(forward, known, {})
    BY <1>2, QuietGraph
<1>4. /\ forward \in [Computed -> SUBSET Node] /\ known \in SUBSET Computed
      /\ verifiedAt \in [Computed -> Nat] /\ changedAt \in [Source -> Nat]
      /\ revision \in Nat /\ announced \in [Computed -> Nat]
    BY BoundsAreNat DEF GraphInv, DepsTypeOK
<1>5. /\ \A i \in Source : changedAt[i] <= revision
      /\ \A p \in Computed : verifiedAt[p] <= revision /\ announced[p] <= revision
    BY DEF ToldInv, NothingAhead
<1>6. /\ verifiedAt'[q] = revision
      /\ \A p \in Computed \ {q} : verifiedAt'[p] = verifiedAt[p]
    BY <1>1, <1>4
<1>7. NothingAhead'
    BY <1>1, <1>4, <1>5, <1>6 DEF NothingAhead
<1>8. VerifiedBelow(forward, known)'
    BY <1>1, <1>3, <1>4, <1>5, <1>6 DEF VerifiedBelow, UpToDate
<1>9. ToldOrCurrent(forward, known, Walking)'
    <2> SUFFICES ASSUME NEW r \in known, NEW i \in Source,
                        Reaches(forward, r, i), announced[r] <= verifiedAt'[r]
                 PROVE  changedAt[i] <= verifiedAt'[r]
        BY <1>1 DEF ToldOrCurrent, Reaches, Covers
    <2> QED BY <1>3, <1>4, <1>5, <1>6 DEF ToldOrCurrent
<1>10. WalksAreClosed' /\ LoadsKeepMeaning'
    BY <1>1, <1>2 DEF WalksAreClosed, LoadsKeepMeaning, AllIdle, In, Idle
<1> QED BY <1>7, <1>8, <1>9, <1>10 DEF ToldInv

(* A new revision is ahead of all that was verified before. *)
LEMMA BumpKeepsTold ==
    ASSUME GraphInv, ~parallel, ToldInv,
           NEW t \in Caller, NEW i \in Source, BumpRevision(t, i)
    PROVE  ToldInv'
<1> DEFINE next == [call |-> "write", input |-> i, rev |-> revision + 1,
                    queue |-> <<>>, seen |-> {}]
<1>1. /\ MayBegin(t)
      /\ revision' = revision + 1
      /\ job' = [job EXCEPT ![t] = next]
      /\ UNCHANGED <<parallel, changedAt, forward, reverse, known, verifiedAt, announced>>
    BY DEF BumpRevision, graph
<1>2. AllIdle
    BY <1>1, NobodyCalls
<1>3. VerifiedBelow(forward, known) /\ ToldOrCurrent(forward, known, {})
    BY <1>2, QuietGraph
<1>4. /\ verifiedAt \in [Computed -> Nat] /\ changedAt \in [Source -> Nat]
      /\ revision \in Nat /\ announced \in [Computed -> Nat]
      /\ job \in [Caller -> Job \union {NoJob}]
    BY BoundsAreNat DEF GraphInv, DepsTypeOK
<1>5. /\ \A k \in Source : changedAt[k] <= revision
      /\ \A p \in Computed : verifiedAt[p] <= revision /\ announced[p] <= revision
    BY DEF ToldInv, NothingAhead
<1>6. NothingAhead'
    BY <1>1, <1>4, <1>5 DEF NothingAhead
<1>7. job'[t] = next /\ \A u \in Caller \ {t} : job'[u] = NoJob
    BY <1>1, <1>2, <1>4 DEF AllIdle, Idle
<1>8. LoadsKeepMeaning'
    BY <1>7 DEF LoadsKeepMeaning, In, Idle
<1>9. WalksAreClosed'
    BY <1>1, <1>4, <1>5, <1>7 DEF WalksAreClosed, In, Idle
<1>10. VerifiedBelow(forward, known)' /\ ToldOrCurrent(forward, known, Walking)'
    BY <1>1, <1>3 DEF VerifiedBelow, ToldOrCurrent, Reaches, Covers
<1> QED BY <1>6, <1>8, <1>9, <1>10 DEF ToldInv

(* From here on the input is being announced. *)
LEMMA EntryKeepsTold ==
    ASSUME GraphInv, ~parallel, ToldInv, NEW t \in Caller, WriteEntry(t)
    PROVE  ToldInv'
<1> DEFINE i == job[t].input
           next == [job[t] EXCEPT !.queue = <<i>>, !.seen = {i}]
<1>1. /\ In(t, "write") /\ job[t].seen = {}
      /\ changedAt' = [changedAt EXCEPT ![i] = job[t].rev]
      /\ job' = [job EXCEPT ![t] = next]
      /\ UNCHANGED <<parallel, revision, forward, reverse, known, verifiedAt, announced>>
    BY DEF WriteEntry, Continue, graph
<1>2. \A u \in Caller \ {t} : Idle(u)
    BY <1>1, OneCall DEF In
<1>3. /\ verifiedAt \in [Computed -> Nat] /\ changedAt \in [Source -> Nat]
      /\ revision \in Nat /\ announced \in [Computed -> Nat]
      /\ job \in [Caller -> Job \union {NoJob}]
    BY BoundsAreNat DEF GraphInv, DepsTypeOK
<1>4. job[t] \in [call : {"write"}, input : Source, rev : 0..MaxRevision,
                  queue : Seq(Node), seen : SUBSET Node]
    BY <1>1, <1>3, JobKinds DEF In, Idle
<1>5. i \in Source /\ i \notin Computed
    BY <1>4, NodesApart
<1>6. job[t].rev = revision /\ \A q \in Computed : verifiedAt[q] < revision
    BY <1>1 DEF ToldInv, WalksAreClosed
<1>7. NothingAhead'
    BY <1>1, <1>3, <1>5, <1>6 DEF ToldInv, NothingAhead
<1>8. /\ next.call = "write" /\ next.input = i /\ next.rev = job[t].rev
      /\ next.queue = <<i>> /\ next.seen = {i}
      /\ next # NoJob
    <2>1. <<i>> \in Seq(Node) /\ {i} \in SUBSET Node
        BY <1>5 DEF Node
    <2>2. next \in Job
        BY <1>4, <2>1 DEF Job
    <2> QED BY <1>4, <2>2, NoJobIsNone
<1> HIDE DEF next
<1>9. job'[t] = next /\ \A u \in Caller \ {t} : job'[u] = NoJob
    BY <1>1, <1>2, <1>3 DEF Idle
<1>10. LoadsKeepMeaning'
    BY <1>8, <1>9 DEF LoadsKeepMeaning, In, Idle
<1>11. ToSet(<<i>>) = {i}
    BY DEF ToSet
<1>12. WalksAreClosed'
    BY <1>1, <1>5, <1>6, <1>8, <1>9, <1>11 DEF WalksAreClosed, In, Idle
<1>13. \A u \in Caller : ~In(u, "restore")
    BY <1>1, <1>2 DEF In
<1>14. Walking = {} /\ Walking' = {i}
    <2>1. \A u \in Caller : ~(In(u, "write") /\ job[u].seen # {})
        BY <1>1, <1>2 DEF In
    <2>2. \A u \in Caller : (In(u, "write") /\ job[u].seen # {})' <=> u = t
        BY <1>8, <1>9 DEF In, Idle
    <2> QED BY <1>8, <1>9, <2>1, <2>2 DEF Walking
<1>15. VerifiedBelow(forward, known) /\ ToldOrCurrent(forward, known, {})
    BY <1>13, <1>14 DEF ToldInv
<1>16. VerifiedBelow(forward, known)'
    BY <1>1, <1>15 DEF VerifiedBelow
<1>17. ToldOrCurrent(forward, known, Walking)'
    BY <1>1, <1>3, <1>14, <1>15 DEF ToldOrCurrent, Reaches, Covers
<1> QED BY <1>7, <1>10, <1>12, <1>16, <1>17 DEF ToldInv

(* A permutation of a finite set has its elements. *)
LEMMA InAnyOrder ==
    ASSUME NEW S \in SUBSET Computed, NEW s \in SetToSeqs(S)
    PROVE  S \subseteq ToSet(s)
<1>1. IsFiniteSet(S)
    BY NodesApart, FS_Subset DEF Node
<1>2. Cardinality(S) \in Nat
    BY <1>1, FS_CardinalityType
<1> DEFINE c == Cardinality(S)
<1>3. s \in [1..c -> S] /\ \A k, l \in 1..c : k # l => s[k] # s[l]
    BY DEF SetToSeqs
<1>4. s \in Injection(1..c, S)
    BY <1>3 DEF Injection, IsInjective
<1>5. Cardinality(1..c) = c
    BY <1>2, FS_Interval
<1>6. s \in Surjection(1..c, S)
    BY <1>1, <1>4, <1>5, FS_Injection
<1> QED BY <1>3, <1>6 DEF Surjection, ToSet

(* A queue loses its head, and gets what is put behind it. *)
LEMMA QueueGoesOn ==
    ASSUME NEW queue \in Seq(Node), queue # <<>>, NEW s \in Seq(Node)
    PROVE  /\ \A m \in ToSet(queue) : m = Head(queue) \/ m \in ToSet(Tail(queue) \o s)
           /\ ToSet(s) \subseteq ToSet(Tail(queue) \o s)
<1> DEFINE rest == Tail(queue)
           all == rest \o s
<1>0. Len(queue) \in Nat \ {0}
    OBVIOUS
<1>1. /\ rest \in Seq(Node) /\ Len(rest) = Len(queue) - 1 /\ Len(queue) \in Nat
      /\ \A k \in 1..Len(rest) : rest[k] = queue[k + 1]
    BY <1>0
<1> HIDE DEF rest
<1>2. /\ all \in Seq(Node) /\ Len(all) = Len(rest) + Len(s)
      /\ \A k \in 1..Len(rest) : all[k] = rest[k]
      /\ \A k \in 1..Len(s) : all[Len(rest) + k] = s[k]
    <2> rest \in Seq(Node)
        BY <1>1
    <2>1. all \in Seq(Node) /\ Len(all) = Len(rest) + Len(s)
        OBVIOUS
    <2>2. \A k \in 1..Len(rest) : all[k] = rest[k]
        BY <1>1
    <2>3. ASSUME NEW k \in 1..Len(s) PROVE all[Len(rest) + k] = s[k]
        <3>1. Len(s) \in Nat /\ Len(rest) \in Nat
            BY <1>1
        <3>2. Len(rest) + k \in 1..(Len(rest) + Len(s)) /\ Len(rest) + k > Len(rest)
            BY <3>1
        <3> QED BY <1>1, <3>1, <3>2
    <2> QED BY <2>1, <2>2, <2>3
<1> HIDE DEF all
<1>3. ASSUME NEW k \in 1..Len(queue)
      PROVE  queue[k] = Head(queue) \/ \E l \in 1..Len(all) : all[l] = queue[k]
    <2>1. CASE k = 1
        BY <2>1
    <2>2. CASE k # 1
        <3>1. k - 1 \in 1..Len(rest) /\ rest[k - 1] = queue[k]
            BY <1>1, <2>2
        <3>2. k - 1 \in 1..Len(all) /\ all[k - 1] = queue[k]
            BY <1>1, <1>2, <3>1
        <3> QED BY <3>2
    <2> QED BY <2>1, <2>2
<1>4. ASSUME NEW k \in 1..Len(s)
      PROVE  \E l \in 1..Len(all) : all[l] = s[k]
    <2>1. Len(rest) + k \in 1..Len(all) /\ all[Len(rest) + k] = s[k]
        BY <1>1, <1>2
    <2> QED BY <2>1
<1>5. /\ ToSet(queue) = {queue[k] : k \in 1..Len(queue)}
      /\ ToSet(s) = {s[k] : k \in 1..Len(s)}
      /\ ToSet(all) = {all[k] : k \in 1..Len(all)}
    BY <1>2 DEF ToSet
<1>6. /\ \A m \in ToSet(queue) : m = Head(queue) \/ m \in ToSet(all)
      /\ ToSet(s) \subseteq ToSet(all)
    BY <1>3, <1>4, <1>5
<1> QED BY <1>6 DEF all, rest

(* What a walk that is over has not seen depends on nothing that it has     *)
(* seen.                                                                    *)
LEMMA UnseenDependsOnUnseen ==
    ASSUME NEW g \in [Computed -> SUBSET Node], NEW seen \in SUBSET Node,
           \A p \in Computed : \A n \in g[p] : n \in seen => p \in seen,
           NEW q \in Computed \ seen, NEW n \in seen
    PROVE  ~Reaches(g, q, n)
<1> DEFINE S == Node \ seen
<1>1. Covers(g, q, S)
    BY DEF Covers
<1>2. S \in SUBSET Node /\ n \notin S
    OBVIOUS
<1> QED BY <1>1, <1>2 DEF Reaches

(* A step of a walk tells the dependents of one node.  When the last node   *)
(* has been visited, all that depend on the input have been told.           *)
LEMMA VisitKeepsTold ==
    ASSUME GraphInv, ~parallel, ToldInv, NEW t \in Caller, Visit(t)
    PROVE  ToldInv'
<1> DEFINE n == Head(job[t].queue)
           fresh == Fresh(t, n)
           seen == job[t].seen \union fresh
<1>1. PICK s \in SetToSeqs(fresh) :
        job' = [job EXCEPT ![t] =
                  IF Tail(job[t].queue) \o s = <<>> THEN NoJob
                  ELSE [job[t] EXCEPT !.queue = Tail(job[t].queue) \o s, !.seen = @ \union fresh]]
    BY DEF Visit, Continue
<1>2. /\ In(t, "write") /\ job[t].queue # <<>>
      /\ announced' = [q \in Computed |->
            IF q \in fresh /\ job[t].rev > announced[q] THEN job[t].rev ELSE announced[q]]
      /\ UNCHANGED <<parallel, revision, changedAt, forward, reverse, known, verifiedAt>>
    BY DEF Visit, graph
<1> DEFINE queue == Tail(job[t].queue) \o s
           left == [job[t] EXCEPT !.queue = queue, !.seen = @ \union fresh]
<1>3. /\ verifiedAt \in [Computed -> Nat] /\ changedAt \in [Source -> Nat]
      /\ revision \in Nat /\ announced \in [Computed -> Nat]
      /\ job \in [Caller -> Job \union {NoJob}]
      /\ reverse \in [Node -> SUBSET Computed]
      /\ forward \in [Computed -> SUBSET Node] /\ known \in SUBSET Computed
    BY BoundsAreNat DEF GraphInv, DepsTypeOK
<1>4. job[t] \in [call : {"write"}, input : Source, rev : 0..MaxRevision,
                  queue : Seq(Node), seen : SUBSET Node]
    BY <1>2, <1>3, JobKinds DEF In, Idle
<1>5. /\ job[t].rev = revision
      /\ \A q \in Computed : verifiedAt[q] < revision
      /\ job[t].seen # {} /\ job[t].input \in job[t].seen
      /\ \A m \in job[t].seen : m \in ToSet(job[t].queue) \/ reverse[m] \subseteq job[t].seen
      /\ \A q \in job[t].seen \intersect Computed : announced[q] = revision
    BY <1>2 DEF ToldInv, WalksAreClosed
<1>6. \A u \in Caller \ {t} : Idle(u)
    BY <1>2, OneCall DEF In
<1>7. n \in Node /\ Tail(job[t].queue) \in Seq(Node)
    BY <1>2, <1>4
<1>8. fresh \in SUBSET Computed /\ reverse[n] \subseteq seen /\ seen \in SUBSET Node
    BY <1>3, <1>4, <1>7 DEF Fresh, Node
<1>9. s \in Seq(Node) /\ fresh \subseteq ToSet(s)
    BY <1>1, <1>8, DependentsInQueue, InAnyOrder
<1>10. queue \in Seq(Node)
    BY <1>7, <1>9
<1>11. /\ \A m \in ToSet(job[t].queue) : m = n \/ m \in ToSet(queue)
       /\ ToSet(s) \subseteq ToSet(queue)
    BY <1>2, <1>4, <1>9, QueueGoesOn
<1>12. fresh \subseteq ToSet(queue)
    BY <1>9, <1>11
<1>13. \A m \in seen : m \in ToSet(queue) \/ reverse[m] \subseteq seen
    BY <1>5, <1>8, <1>11, <1>12
<1>14. /\ announced' \in [Computed -> Nat]
       /\ \A q \in Computed : announced[q] <= announced'[q] /\ announced'[q] <= revision
       /\ \A q \in seen \intersect Computed : announced'[q] = revision
    BY <1>2, <1>3, <1>5 DEF ToldInv, NothingAhead
<1>15. /\ left.call = "write" /\ left.input = job[t].input /\ left.rev = revision
       /\ left.queue = queue /\ left.seen = seen /\ left # NoJob
    <2>1. left \in Job
        BY <1>4, <1>8, <1>10 DEF Job
    <2> QED BY <1>4, <1>5, <2>1, NoJobIsNone
<1> HIDE DEF fresh, seen, queue, left, n
<1>16. /\ job'[t] = IF queue = <<>> THEN NoJob ELSE left
       /\ \A u \in Caller \ {t} : job'[u] = NoJob
    <2>1. job' = [job EXCEPT ![t] = IF queue = <<>> THEN NoJob ELSE left]
        BY <1>1 DEF queue, left, seen
    <2> QED BY <1>3, <1>6, <2>1 DEF Idle
<1>17. NothingAhead'
    BY <1>2, <1>14 DEF ToldInv, NothingAhead
<1>18. WalksAreClosed'
    BY <1>2, <1>5, <1>13, <1>14, <1>15, <1>16 DEF WalksAreClosed, seen, In, Idle
<1>19. LoadsKeepMeaning'
    BY <1>15, <1>16 DEF LoadsKeepMeaning, In, Idle
<1>20. Walking = {job[t].input}
    <2>1. \A u \in Caller : (In(u, "write") /\ job[u].seen # {}) <=> u = t
        BY <1>2, <1>5, <1>6 DEF In
    <2> QED BY <2>1 DEF Walking
<1>21. VerifiedBelow(forward, known) /\ ToldOrCurrent(forward, known, {job[t].input})
    BY <1>2, <1>6, <1>20 DEF ToldInv, In
<1>22. VerifiedBelow(forward, known)'
    BY <1>2, <1>21 DEF VerifiedBelow
<1>23. ASSUME NEW q \in known, NEW i \in Source, Reaches(forward, q, i),
              announced'[q] <= verifiedAt[q], i \notin Walking'
       PROVE  changedAt[i] <= verifiedAt[q]
    <2>1. announced[q] <= verifiedAt[q]
        BY <1>3, <1>14, <1>23
    <2>2. CASE i # job[t].input
        BY <1>21, <1>23, <2>1, <2>2 DEF ToldOrCurrent
    <2>3. CASE i = job[t].input
        <3>1. queue = <<>>
            <4> SUFFICES ASSUME queue # <<>> PROVE FALSE
                OBVIOUS
            <4>1. job'[t] = left
                BY <1>16
            <4>2. In(t, "write")' /\ job'[t].seen # {}
                BY <1>5, <1>15, <4>1 DEF In, Idle, seen
            <4> QED BY <1>15, <1>23, <2>3, <4>1, <4>2 DEF Walking
        <3>2. \A m \in seen : reverse[m] \subseteq seen
            BY <1>13, <3>1 DEF ToSet
        <3>3. \A p \in Computed : \A m \in forward[p] : m \in seen => p \in seen
            <4> SUFFICES ASSUME NEW p \in Computed, NEW m \in forward[p], m \in seen
                         PROVE  p \in seen
                OBVIOUS
            <4>1. \A u \in Caller : ~In(u, "update")
                BY <1>2, <1>6 DEF In
            <4>2. p \in reverse[m]
                BY <4>1 DEF GraphInv, EdgesMirrored
            <4> QED BY <3>2, <4>2
        <3>4. q \notin seen
            BY <1>3, <1>5, <1>14, <1>23
        <3>5. i \in seen /\ seen \in SUBSET Node
            BY <1>5, <1>8, <2>3 DEF seen
        <3> QED BY <1>3, <1>23, <3>3, <3>4, <3>5, UnseenDependsOnUnseen
    <2> QED BY <2>2, <2>3
<1>24. ToldOrCurrent(forward, known, Walking)'
    BY <1>2, <1>23 DEF ToldOrCurrent, Reaches, Covers
<1> QED BY <1>17, <1>18, <1>19, <1>22, <1>24 DEF ToldInv

(* A graph with fewer edges tells no less. *)
LEMMA LessToTell ==
    ASSUME NEW f \in [Computed -> SUBSET Node], NEW g \in [Computed -> SUBSET Node],
           NEW qs \in SUBSET Computed, \A p \in Computed : f[p] \subseteq g[p],
           VerifiedBelow(g, qs), ToldOrCurrent(g, qs, {})
    PROVE  VerifiedBelow(f, qs) /\ ToldOrCurrent(f, qs, {})
<1>1. VerifiedBelow(f, qs)
    BY DEF VerifiedBelow
<1>2. \A q \in qs : \A i \in Source : Reaches(f, q, i) => Reaches(g, q, i)
    BY ReachesMore
<1>3. ToldOrCurrent(f, qs, {})
    BY <1>2 DEF ToldOrCurrent
<1> QED BY <1>1, <1>3

(* What a load keeps has its dependencies with it. *)
LEMMA BeginRestoreKeepsTold ==
    ASSUME GraphInv, ~parallel, ToldInv, NEW t \in Caller, BeginRestore(t)
    PROVE  ToldInv'
<1>1. /\ MayBegin(t) /\ AllIdle
      /\ UNCHANGED <<parallel, revision, changedAt, forward, reverse, known, verifiedAt, announced>>
    BY DEF BeginRestore, graph
<1>2. PICK kept \in SUBSET known :
        /\ \A q \in kept : forward[q] \intersect Computed \subseteq kept
        /\ job' = [job EXCEPT ![t] = [call |-> "restore", saved |-> forward, todo |-> kept,
                                      cleared |-> FALSE]]
    BY DEF BeginRestore
<1> DEFINE next == [call |-> "restore", saved |-> forward, todo |-> kept, cleared |-> FALSE]
<1>3. VerifiedBelow(forward, known) /\ ToldOrCurrent(forward, known, {})
    BY <1>1, QuietGraph
<1>4. VerifiedBelow(forward, kept) /\ ToldOrCurrent(forward, kept, {})
    <2>1. VerifiedBelow(forward, kept)
        BY <1>2, <1>3 DEF VerifiedBelow
    <2>2. ToldOrCurrent(forward, kept, {})
        BY <1>3 DEF ToldOrCurrent
    <2> QED BY <2>1, <2>2
<1>5. next \in Job
    BY <1>2 DEF Job, GraphInv, DepsTypeOK
<1>6. /\ next.call = "restore" /\ next.saved = forward /\ next.todo = kept
      /\ next.cleared = FALSE /\ next # NoJob
    BY <1>5, NoJobIsNone
<1>7. job'[t] = next /\ \A u \in Caller \ {t} : job'[u] = NoJob
    BY <1>1, <1>2 DEF AllIdle, Idle, GraphInv, DepsTypeOK
<1> HIDE DEF next
<1>8. NothingAhead'
    BY <1>1 DEF ToldInv, NothingAhead
<1>9. WalksAreClosed'
    BY <1>6, <1>7 DEF WalksAreClosed, In, Idle
<1>10. In(t, "restore")' /\ Kept(t)' = kept
    BY <1>6, <1>7 DEF In, Idle, Kept
<1>11. LoadsKeepMeaning'
    <2>1. VerifiedBelow(job[t].saved, Kept(t))'
        BY <1>1, <1>4, <1>6, <1>7, <1>10 DEF VerifiedBelow
    <2>2. ToldOrCurrent(job[t].saved, Kept(t), {})'
        BY <1>1, <1>4, <1>6, <1>7, <1>10 DEF ToldOrCurrent, Reaches, Covers
    <2>3. \A u \in Caller : In(u, "restore")' => u = t
        BY <1>7 DEF In, Idle
    <2>4. \A q \in Computed : forward'[q] \subseteq job'[t].saved[q]
        BY <1>1, <1>6, <1>7
    <2> QED BY <2>1, <2>2, <2>3, <2>4 DEF LoadsKeepMeaning
<1> QED BY <1>8, <1>9, <1>10, <1>11 DEF ToldInv

(* A load goes on, or ends with the graph it has restored: either way the   *)
(* queries that it keeps are the same, and no edge is there that was not    *)
(* saved.                                                                   *)
LEMMA RestoringKeepsTold ==
    ASSUME GraphInv, ~parallel, ToldInv, NEW t \in Caller, In(t, "restore"),
           NEW left \in Job, left.call = "restore", left.saved = job[t].saved,
           left.cleared, left.todo \union known' = Kept(t),
           ContinueRestore(t, left),
           forward' \in [Computed -> SUBSET Node],
           \A q \in Computed : forward'[q] \subseteq job[t].saved[q],
           UNCHANGED <<revision, changedAt, verifiedAt, announced>>
    PROVE  ToldInv'
<1>1. \A u \in Caller \ {t} : job'[u] = NoJob
    BY RestoringJob
<1>2. job'[t] = IF left.todo = {} THEN NoJob ELSE left
    BY DEF ContinueRestore, Continue, GraphInv, DepsTypeOK
<1>3. left # NoJob
    BY NoJobIsNone
<1>4. VerifiedBelow(job[t].saved, Kept(t)) /\ ToldOrCurrent(job[t].saved, Kept(t), {})
    BY DEF ToldInv, LoadsKeepMeaning
<1>5. NothingAhead'
    BY DEF ToldInv, NothingAhead
<1>6. WalksAreClosed' /\ Walking' = {}
    BY <1>1, <1>2 DEF WalksAreClosed, Walking, In, Idle
<1>7. CASE left.todo # {}
    <2>1. In(t, "restore")' /\ job'[t] = left /\ Kept(t)' = Kept(t)
        BY <1>2, <1>3, <1>7 DEF In, Idle, Kept
    <2>2. VerifiedBelow(job[t].saved, Kept(t))'
        BY <1>4, <2>1 DEF VerifiedBelow
    <2>3. ToldOrCurrent(job[t].saved, Kept(t), {})'
        BY <1>4, <2>1 DEF ToldOrCurrent, Reaches, Covers
    <2>4. \A u \in Caller : In(u, "restore")' => u = t
        BY <1>1 DEF In, Idle
    <2>5. LoadsKeepMeaning'
        BY <2>1, <2>2, <2>3, <2>4 DEF LoadsKeepMeaning
    <2> QED BY <1>5, <1>6, <2>1, <2>5 DEF ToldInv
<1>8. CASE left.todo = {}
    <2>1. \A u \in Caller : job'[u] = NoJob
        BY <1>1, <1>2, <1>8
    <2>2. LoadsKeepMeaning'
        BY <2>1 DEF LoadsKeepMeaning, In, Idle
    <2>3. known' = Kept(t)
        BY <1>8
    <2>4. VerifiedBelow(forward, known)'
        <3>1. known' \in SUBSET Computed
            BY <2>3, JobKinds DEF Kept, GraphInv, DepsTypeOK, In, Idle
        <3> QED BY <1>4, <2>3, <3>1 DEF VerifiedBelow
    <2>5. \A q \in Computed : \A i \in Source :
            Reaches(forward', q, i) => Reaches(job[t].saved, q, i)
        BY DEF Reaches, Covers
    <2>6. ToldOrCurrent(forward, known, {})'
        <3>1. known' \in SUBSET Computed
            BY <2>3, JobKinds DEF Kept, GraphInv, DepsTypeOK, In, Idle
        <3> SUFFICES ASSUME NEW q \in known', NEW i \in Source, Reaches(forward', q, i),
                            announced[q] <= verifiedAt[q]
                     PROVE  changedAt[i] <= verifiedAt[q]
            BY DEF ToldOrCurrent, Reaches, Covers
        <3> QED BY <1>4, <2>3, <2>5, <3>1 DEF ToldOrCurrent
    <2> QED BY <1>5, <1>6, <2>2, <2>4, <2>6 DEF ToldInv
<1> QED BY <1>7, <1>8

LEMMA LoadStepsKeepTold ==
    ASSUME GraphInv, ~parallel, ToldInv, NEW t \in Caller,
           ClearGraph(t) \/ \E q \in Computed : RestoreQuery(t, q)
    PROVE  ToldInv'
<1>1. In(t, "restore") /\ UNCHANGED <<revision, changedAt, verifiedAt, announced>>
    BY DEF ClearGraph, RestoreQuery
<1>2. /\ job[t] \in [call : {"restore"}, saved : [Computed -> SUBSET Node],
                     todo : SUBSET Computed, cleared : BOOLEAN]
      /\ forward \in [Computed -> SUBSET Node] /\ known \in SUBSET Computed
    BY <1>1, JobKinds DEF GraphInv, DepsTypeOK, In, Idle
<1>3. \A q \in Computed : forward[q] \subseteq job[t].saved[q]
    BY <1>1 DEF ToldInv, LoadsKeepMeaning
<1>4. CASE ClearGraph(t)
    <2> DEFINE next == [job[t] EXCEPT !.cleared = TRUE]
    <2>1. /\ ~job[t].cleared
          /\ forward' = [q \in Computed |-> {}] /\ known' = {}
          /\ ContinueRestore(t, next)
        BY <1>4 DEF ClearGraph
    <2>2. /\ next \in Job /\ next.call = "restore" /\ next.saved = job[t].saved
          /\ next.cleared /\ next.todo \union known' = Kept(t)
        BY <1>2, <2>1 DEF Job, Kept
    <2>3. /\ forward' \in [Computed -> SUBSET Node]
          /\ \A q \in Computed : forward'[q] \subseteq job[t].saved[q]
        BY <2>1
    <2> HIDE DEF next
    <2> QED BY <1>1, <2>1, <2>2, <2>3, RestoringKeepsTold
<1>5. CASE \E q \in Computed : RestoreQuery(t, q)
    <2> PICK q \in Computed : RestoreQuery(t, q)
        BY <1>5
    <2> DEFINE next == [job[t] EXCEPT !.todo = @ \ {q}]
    <2>1. /\ job[t].cleared /\ q \in job[t].todo
          /\ forward' = [forward EXCEPT ![q] = job[t].saved[q]]
          /\ known' = known \union {q}
          /\ ContinueRestore(t, next)
        BY DEF RestoreQuery
    <2>2. /\ next \in Job /\ next.call = "restore" /\ next.saved = job[t].saved
          /\ next.cleared /\ next.todo \union known' = Kept(t)
        BY <1>2, <2>1 DEF Job, Kept
    <2>3. /\ forward' \in [Computed -> SUBSET Node]
          /\ \A p \in Computed : forward'[p] \subseteq job[t].saved[p]
        BY <1>2, <1>3, <2>1
    <2> HIDE DEF next
    <2> QED BY <1>1, <2>1, <2>2, <2>3, RestoringKeepsTold
<1> QED BY <1>4, <1>5

-----------------------------------------------------------------------------
LEMMA InitHoldsToldInv == DepsInit => ToldInv
    BY DEF DepsInit, ToldInv, NothingAhead, WalksAreClosed, LoadsKeepMeaning, VerifiedBelow,
           ToldOrCurrent, In, Idle

LEMMA NextKeepsTold ==
    ASSUME GraphInv, ~parallel => ToldInv, [DepsNext]_depsVars, ~parallel'
    PROVE  ToldInv'
<1>1. CASE UNCHANGED depsVars
    <2>1. UNCHANGED <<parallel, revision, changedAt, forward, reverse, known, job, verifiedAt,
                      announced>>
        BY <1>1 DEF depsVars, graph
    <2>2. Walking' = Walking
        BY <2>1 DEF Walking, In, Idle
    <2>3. NothingAhead' /\ WalksAreClosed'
        BY <2>1 DEF ToldInv, NothingAhead, WalksAreClosed, In, Idle
    <2>4. LoadsKeepMeaning'
        BY <2>1 DEF ToldInv, LoadsKeepMeaning, VerifiedBelow, ToldOrCurrent, Reaches, Covers,
                    Kept, In, Idle
    <2>5. (\A t \in Caller : ~In(t, "restore"))' =>
            VerifiedBelow(forward, known)' /\ ToldOrCurrent(forward, known, Walking)'
        BY <2>1, <2>2 DEF ToldInv, VerifiedBelow, ToldOrCurrent, Reaches, Covers, In, Idle
    <2> QED BY <2>3, <2>4, <2>5 DEF ToldInv
<1>2. CASE DepsNext
    <2> PICK t \in Caller : BeginCall(t) \/ CallStep(t)
        BY <1>2 DEF DepsNext
    <2>1. parallel' = parallel
        <3>1. CASE BeginCall(t)
            BY <3>1 DEF BeginCall, Update, Revalidate, BumpRevision, BeginRestore
        <3>2. CASE CallStep(t)
            BY <3>2 DEF CallStep, RemoveEdge, InsertEdge, TestEmpty, DiscardEntry, WriteEntry,
                        Visit, ClearGraph, RestoreQuery
        <3> QED BY <3>1, <3>2
    <2>2. CASE BeginCall(t)
        BY <2>1, <2>2, UpdateKeepsTold, RevalidateKeepsTold, BumpKeepsTold, BeginRestoreKeepsTold
        DEF BeginCall
    <2>3. CASE CallStep(t)
        BY <2>1, <2>3, EdgeStepsKeepTold, EntryKeepsTold, VisitKeepsTold, LoadStepsKeepTold
        DEF CallStep
    <2> QED BY <2>2, <2>3
<1> QED BY <1>1, <1>2

LEMMA ToldInvariance == DepsSpec => []GraphToldInv
<1>1. DepsInit => GraphToldInv
    BY InitHoldsGraphInv, InitHoldsToldInv DEF GraphToldInv
<1>2. GraphToldInv /\ [DepsNext]_depsVars => GraphToldInv'
    BY NextKeepsGraphInv, NextKeepsTold DEF GraphToldInv
<1> QED BY <1>1, <1>2, PTL DEF DepsSpec

LEMMA ToldIsAnnounced == GraphToldInv => StaleIsAnnounced
<1> SUFFICES ASSUME GraphToldInv, ~parallel, AllIdle,
                    NEW q \in known, NEW i \in DependsOn(q) \intersect Source,
                    changedAt[i] > verifiedAt[q]
             PROVE  announced[q] > verifiedAt[q]
    BY DEF StaleIsAnnounced
<1>1. /\ verifiedAt \in [Computed -> Nat] /\ changedAt \in [Source -> Nat]
      /\ announced \in [Computed -> Nat] /\ known \in SUBSET Computed
    BY BoundsAreNat DEF GraphToldInv, GraphInv, DepsTypeOK
<1>2. ToldOrCurrent(forward, known, {})
    BY QuietGraph DEF GraphToldInv
<1>3. Reaches(forward, q, i)
    BY <1>1, DependsOnReached DEF Node
<1> QED BY <1>1, <1>2, <1>3 DEF ToldOrCurrent

(* On one thread, a query that is out of date with an input it depends on    *)
(* has been announced as invalidated since it was last verified: the walk    *)
(* of propagate_invalidation reaches it through any graph, whatever was      *)
(* computed anew, revalidated or loaded between.                             *)
THEOREM StaleQueriesAreAnnounced == DepsSpec => []StaleIsAnnounced
    BY ToldInvariance, ToldIsAnnounced, PTL

-----------------------------------------------------------------------------
(* The reports on the graph.                                                *)

\* An entry of the forward map goes with the dependencies in it.
KnownHaveDeps == \A q \in Computed : forward[q] # {} => q \in known

LEMMA KnownHaveDepsInvariance == DepsSpec => []KnownHaveDeps
<1>1. DepsInit => KnownHaveDeps
    BY DEF DepsInit, KnownHaveDeps
<1>2. ASSUME DepsTypeOK, KnownHaveDeps, [DepsNext]_depsVars PROVE KnownHaveDeps'
    <2>1. CASE UNCHANGED <<forward, known>>
        BY <1>2, <2>1 DEF KnownHaveDeps
    <2>2. ASSUME NEW t \in Caller, NEW q \in Computed, NEW ds \in DepChoices[q], Update(t, q, ds)
          PROVE  KnownHaveDeps'
        BY <1>2, <2>2 DEF Update, KnownHaveDeps, DepsTypeOK
    <2>3. ASSUME NEW t \in Caller, ClearGraph(t)
          PROVE  KnownHaveDeps'
        BY <2>3 DEF ClearGraph, KnownHaveDeps
    <2>4. ASSUME NEW t \in Caller, NEW q \in Computed, RestoreQuery(t, q)
          PROVE  KnownHaveDeps'
        BY <1>2, <2>4 DEF RestoreQuery, KnownHaveDeps, DepsTypeOK
    <2>5. ASSUME NEW t \in Caller, BeginCall(t) PROVE KnownHaveDeps'
        <3>1. ASSUME NEW q \in Computed, Revalidate(t, q) PROVE UNCHANGED <<forward, known>>
            BY <3>1 DEF Revalidate, graph
        <3>2. ASSUME NEW i \in Source, BumpRevision(t, i) PROVE UNCHANGED <<forward, known>>
            BY <3>2 DEF BumpRevision, graph
        <3>3. BeginRestore(t) => UNCHANGED <<forward, known>>
            BY DEF BeginRestore, graph
        <3> QED BY <2>1, <2>2, <2>5, <3>1, <3>2, <3>3 DEF BeginCall
    <2>6. ASSUME NEW t \in Caller, CallStep(t) PROVE KnownHaveDeps'
        <3>1. ASSUME NEW n \in Node, RemoveEdge(t, n) \/ InsertEdge(t, n)
              PROVE  UNCHANGED <<forward, known>>
            BY <3>1 DEF RemoveEdge, InsertEdge
        <3>2. TestEmpty(t) \/ WriteEntry(t) \/ Visit(t) => UNCHANGED <<forward, known>>
            BY DEF TestEmpty, WriteEntry, Visit, graph
        <3>3. DiscardEntry(t) => UNCHANGED <<forward, known>>
            BY DEF DiscardEntry
        <3> QED BY <2>1, <2>3, <2>4, <2>6, <3>1, <3>2, <3>3 DEF CallStep
    <2>7. CASE UNCHANGED depsVars
        BY <2>1, <2>7 DEF depsVars, graph
    <2> QED BY <1>2, <2>5, <2>6, <2>7 DEF DepsNext
<1> QED BY <1>1, <1>2, GraphTypeCorrect, PTL DEF DepsSpec

(* The list of a query has its dependencies, whatever of them it has twice. *)
LEMMA ListsAre ==
    ASSUME DepsTypeOK, NEW q \in known
    PROVE  /\ q \in DOMAIN ForwardDeps /\ q \in Computed /\ forward[q] \in SUBSET Node
           /\ ForwardDeps[q] \in SeqOf(Node, MaxReads) /\ ToSet(ForwardDeps[q]) = forward[q]
           /\ ForwardDeps[q] \in Seq(Node) /\ Len(ForwardDeps[q]) \in Nat
<1>1. q \in Computed /\ forward[q] \in SUBSET Node
    BY DEF DepsTypeOK
<1>2. q \in DOMAIN ForwardDeps /\ ForwardDeps[q] = DepList[q][forward[q]]
    BY DEF ForwardDeps
<1>3. ForwardDeps[q] \in SeqOf(Node, MaxReads) /\ ToSet(ForwardDeps[q]) = forward[q]
    BY <1>1, <1>2, ListsAreOfDeps
<1>4. PICK m \in 0..MaxReads : ForwardDeps[q] \in [1..m -> Node]
    BY <1>3 DEF SeqOf
<1>5. m \in Nat
    BY ListsAreOfDeps
<1>6. ForwardDeps[q] \in Seq(Node) /\ Len(ForwardDeps[q]) \in Nat
    BY <1>4, <1>5
<1> QED BY <1>1, <1>2, <1>3, <1>6

(* To each read there is an edge of the two maps, and to each edge a read:   *)
(* one, if nothing is read twice.                                           *)
LEMMA ReadsAreCounted ==
    ASSUME DepsTypeOK,
           \A q \in Computed, n \in Node : q \in reverse[n] <=> q \in known /\ n \in forward[q]
    PROVE  /\ Cardinality(Reads) \in Nat /\ Cardinality(ReverseEdges) \in Nat
           /\ Cardinality(Reads) >= Cardinality(ReverseEdges)
           /\ Cardinality(Reads) = Cardinality(ReverseEdges) <=> NothingReadTwice
<1> DEFINE edge == [r \in Reads |-> <<r[1], ForwardDeps[r[1]][r[2]]>>]
<1>1. /\ forward \in [Computed -> SUBSET Node] /\ reverse \in [Node -> SUBSET Computed]
      /\ known \in SUBSET Computed /\ DOMAIN ForwardDeps = known
    BY DEF DepsTypeOK, ForwardDeps
<1>2. \A r : r \in Reads <=>
        \E q \in known : \E k \in DOMAIN ForwardDeps[q] : r = <<q, k>>
    BY <1>1 DEF Reads
<1>3. \A e : e \in ReverseEdges <=>
        \E q \in known : \E n \in forward[q] : e = <<q, n>>
    <2>1. /\ DOMAIN ReverseDeps = {n \in Node : reverse[n] # {}}
          /\ \A n \in DOMAIN ReverseDeps : ReverseDeps[n] = reverse[n]
        BY DEF ReverseDeps
    <2>2. \A e : e \in ReverseEdges <=>
            \E n \in DOMAIN ReverseDeps : \E q \in ReverseDeps[n] : e = <<q, n>>
        BY DEF ReverseEdges
    <2>3. \A e : e \in ReverseEdges <=> \E n \in Node : \E q \in reverse[n] : e = <<q, n>>
        BY <2>1, <2>2
    <2> QED BY <1>1, <2>3
<1>4. \A q \in known : /\ \A k \in DOMAIN ForwardDeps[q] : ForwardDeps[q][k] \in forward[q]
                       /\ \A n \in forward[q] : \E k \in DOMAIN ForwardDeps[q] : ForwardDeps[q][k] = n
    <2> SUFFICES ASSUME NEW q \in known
                 PROVE  forward[q] = {ForwardDeps[q][k] : k \in DOMAIN ForwardDeps[q]}
        OBVIOUS
    <2> QED BY ListsAre DEF ToSet
<1>5. edge \in Surjection(Reads, ReverseEdges)
    <2>1. ASSUME NEW r \in Reads PROVE edge[r] \in ReverseEdges
        <3>0. PICK q \in known : \E k \in DOMAIN ForwardDeps[q] : r = <<q, k>>
            BY <1>2
        <3>1. PICK k \in DOMAIN ForwardDeps[q] : r = <<q, k>>
            BY <3>0
        <3>2. edge[r] = <<q, ForwardDeps[q][k]>>
            BY <3>1
        <3> QED BY <1>3, <1>4, <3>1, <3>2
    <2>2. ASSUME NEW e \in ReverseEdges PROVE \E r \in Reads : edge[r] = e
        <3>0. PICK q \in known : \E n \in forward[q] : e = <<q, n>>
            BY <1>3
        <3>1. PICK n \in forward[q] : e = <<q, n>>
            BY <3>0
        <3>2. PICK k \in DOMAIN ForwardDeps[q] : ForwardDeps[q][k] = n
            BY <1>4
        <3>3. <<q, k>> \in Reads
            BY <1>2
        <3>4. edge[<<q, k>>] = <<q, n>>
            BY <3>2, <3>3
        <3> QED BY <3>1, <3>3, <3>4
    <2>3. edge \in [Reads -> ReverseEdges]
        BY <2>1
    <2> QED BY <2>2, <2>3 DEF Surjection
<1>6. IsFiniteSet(Reads)
    <2>1. Reads \subseteq Computed \X (1..MaxReads)
        <3>1. ASSUME NEW q \in known, NEW k \in DOMAIN ForwardDeps[q] PROVE k \in 1..MaxReads
            <4>1. PICK m \in 0..MaxReads : ForwardDeps[q] \in [1..m -> Node]
                BY ListsAre DEF SeqOf
            <4> QED BY <4>1, ListsAreOfDeps
        <3> QED BY <1>1, <1>2, <3>1
    <2>2. IsFiniteSet(Computed) /\ IsFiniteSet(1..MaxReads)
        BY NodesApart, ListsAreOfDeps, FS_Subset, FS_Interval DEF Node
    <2> QED BY <2>1, <2>2, FS_Product, FS_Subset
<1>7. edge \in Injection(Reads, ReverseEdges) <=> NothingReadTwice
    <2>1. ASSUME edge \in Injection(Reads, ReverseEdges), NEW q \in known,
                 NEW k \in DOMAIN ForwardDeps[q], NEW l \in DOMAIN ForwardDeps[q],
                 ForwardDeps[q][k] = ForwardDeps[q][l]
          PROVE  k = l
        <3>1. <<q, k>> \in Reads /\ <<q, l>> \in Reads
            BY <1>2
        <3>2. edge[<<q, k>>] = edge[<<q, l>>]
            BY <2>1, <3>1
        <3>3. <<q, k>> = <<q, l>>
            BY <2>1, <3>1, <3>2 DEF Injection, IsInjective
        <3> QED BY <3>3
    <2>2. ASSUME NothingReadTwice, NEW r \in Reads, NEW s \in Reads, edge[r] = edge[s]
          PROVE  r = s
        <3>0. PICK q \in known : \E k \in DOMAIN ForwardDeps[q] : r = <<q, k>>
            BY <1>2
        <3>1. PICK k \in DOMAIN ForwardDeps[q] : r = <<q, k>>
            BY <3>0
        <3>5. PICK p \in known : \E l \in DOMAIN ForwardDeps[p] : s = <<p, l>>
            BY <1>2
        <3>2. PICK l \in DOMAIN ForwardDeps[p] : s = <<p, l>>
            BY <3>5
        <3>3. q = p /\ ForwardDeps[q][k] = ForwardDeps[p][l]
            BY <2>2, <3>1, <3>2
        <3>4. k = l
            BY <1>1, <2>2, <3>2, <3>3 DEF NothingReadTwice, IsInjective
        <3> QED BY <3>1, <3>2, <3>3, <3>4
    <2>3. edge \in [Reads -> ReverseEdges]
        BY <1>5 DEF Surjection
    <2> HIDE DEF edge
    <2> QED BY <1>1, <2>1, <2>2, <2>3 DEF Injection, IsInjective, NothingReadTwice
<1> HIDE DEF edge
<1> QED BY <1>5, <1>6, <1>7, FS_Surjection, FS_CardinalityType

(* With no call under way on one thread, the two maps hold the same edges,   *)
(* so the counts differ by repeated reads alone, and what depends on         *)
(* something is what has dependencies (debug.rs:145-158, 228-244).          *)
LEMMA QuietReportsAgree ==
    ASSUME GraphInv, KnownHaveDeps PROVE ReportsAgree
<1> SUFFICES ASSUME Reportable
             PROVE  /\ CacheStats.totalDependencyEdges >= Cardinality(ReverseEdges)
                    /\ CacheStats.totalDependencyEdges = Cardinality(ReverseEdges)
                         <=> NothingReadTwice
                    /\ CacheStats.rootQueryCount + Cardinality(Dependents)
                         = CacheStats.forwardDepsCount
    BY DEF ReportsAgree
<1>1. /\ DepsTypeOK
      /\ forward \in [Computed -> SUBSET Node] /\ reverse \in [Node -> SUBSET Computed]
      /\ known \in SUBSET Computed
    BY DEF GraphInv, DepsTypeOK
<1>2. \A q \in Computed, n \in Node : q \in reverse[n] <=> q \in known /\ n \in forward[q]
    <2>1. ~parallel /\ \A t \in Caller : ~In(t, "update")
        BY DEF Reportable, AllIdle, In
    <2>2. \A n \in Node : \A q \in reverse[n] : n \in forward[q]
        BY <2>1 DEF GraphInv, NoPhantomEdge
    <2>3. \A q \in Computed : \A n \in forward[q] : q \in reverse[n]
        BY <2>1 DEF GraphInv, EdgesMirrored
    <2> QED BY <1>1, <2>2, <2>3 DEF KnownHaveDeps
<1>3. DOMAIN ForwardDeps = known
    BY DEF ForwardDeps
<1>4. /\ DOMAIN ReverseDeps = {n \in Node : reverse[n] # {}}
      /\ \A n \in DOMAIN ReverseDeps : ReverseDeps[n] = reverse[n]
    BY DEF ReverseDeps
<1>5. /\ Cardinality(Reads) >= Cardinality(ReverseEdges)
      /\ Cardinality(Reads) = Cardinality(ReverseEdges) <=> NothingReadTwice
    BY <1>1, <1>2, ReadsAreCounted
<1>6. Dependents = {q \in known : forward[q] # {}}
    <2>1. Dependents = {q \in Computed : \E n \in Node : q \in reverse[n]}
        BY <1>1, <1>4 DEF Dependents
    <2>2. \A q \in Computed : (\E n \in Node : q \in reverse[n]) <=> q \in known /\ forward[q] # {}
        BY <1>1, <1>2
    <2> QED BY <1>1, <2>1, <2>2
<1>7. RootQueries = {q \in known : forward[q] = {}}
    <2>1. ASSUME NEW q \in known PROVE ForwardDeps[q] = <<>> <=> forward[q] = {}
        <3>1. ToSet(ForwardDeps[q]) = forward[q] /\ ForwardDeps[q] \in Seq(Node)
            BY <1>1, ListsAre
        <3>2. ForwardDeps[q] = <<>> => ToSet(ForwardDeps[q]) = {}
            BY DEF ToSet
        <3>3. ASSUME ForwardDeps[q] # <<>> PROVE ToSet(ForwardDeps[q]) # {}
            <4>1. 1 \in DOMAIN ForwardDeps[q]
                BY <3>1, <3>3
            <4> QED BY <4>1 DEF ToSet
        <3> QED BY <3>1, <3>2, <3>3
    <2> QED BY <1>3, <2>1 DEF RootQueries
<1>8. Cardinality(RootQueries) + Cardinality(Dependents) = Cardinality(known)
    <2>1. IsFiniteSet(known)
        BY <1>1, NodesApart, FS_Subset DEF Node
    <2>2. RootQueries \subseteq known /\ Dependents = known \ RootQueries
        BY <1>6, <1>7
    <2>3. /\ Cardinality(known \ RootQueries) =
                Cardinality(known) - Cardinality(known \intersect RootQueries)
        BY <2>1, FS_Difference
    <2>4. known \intersect RootQueries = RootQueries
        BY <2>2
    <2>5. Cardinality(known) \in Nat /\ Cardinality(RootQueries) \in Nat
        BY <2>1, <2>2, FS_CardinalityType, FS_Subset
    <2>6. Cardinality(Dependents) = Cardinality(known) - Cardinality(RootQueries)
        BY <2>2, <2>3, <2>4, Zenon
    <2> QED BY <2>5, <2>6
<1> QED BY <1>3, <1>5, <1>8 DEF CacheStats

(* ReportsAgree for any graph and any calls that have ended. *)
THEOREM ReportsAgreeOnOneThread == DepsSpec => []ReportsAgree
    BY GraphInvariance, KnownHaveDepsInvariance, QuietReportsAgree, PTL

-----------------------------------------------------------------------------
(* The paths between two nodes.                                             *)

(* A set of numbers with 0 and the successors of its members is that of all: *)
(* there is no least one that is missing.                                   *)
LEMMA SetInduction ==
    ASSUME NEW S \in SUBSET Nat, 0 \in S, \A n \in S : n + 1 \in S
    PROVE  S = Nat
<1> SUFFICES ASSUME Nat \ S # {} PROVE FALSE
    OBVIOUS
<1>1. PICK n \in Nat \ S : \A m \in Nat \ S : ~(<<m, n>> \in OpToRel(<, Nat))
    BY NatLessThanWellFounded, WFMin
<1>2. \A m \in Nat \ S : ~(m < n)
    BY <1>1 DEF OpToRel
<1>3. n # 0 /\ n - 1 \in Nat /\ n - 1 < n /\ (n - 1) + 1 = n
    OBVIOUS
<1>4. n - 1 \in S
    BY <1>2, <1>3
<1> QED BY <1>3, <1>4

LEMMA BoundedSeqs ==
    ASSUME NEW S, NEW n \in Nat, NEW s
    PROVE  s \in SeqOf(S, n) <=> s \in Seq(S) /\ Len(s) <= n
<1>1. ASSUME s \in SeqOf(S, n) PROVE s \in Seq(S) /\ Len(s) <= n
    <2>1. PICK m \in 0..n : s \in [1..m -> S]
        BY <1>1 DEF SeqOf
    <2> QED BY <2>1
<1>2. ASSUME s \in Seq(S), Len(s) <= n PROVE s \in SeqOf(S, n)
    <2>1. Len(s) \in 0..n /\ s \in [1..Len(s) -> S]
        BY <1>2
    <2> QED BY <2>1 DEF SeqOf
<1> QED BY <1>1, <1>2

NodeCount == Cardinality(Node)
LEMMA NodesAreCounted == NodeCount \in Nat
    BY NodesApart, FS_CardinalityType DEF NodeCount

\* The dependencies of a node, as a set and as they are listed.
DepsOf(n) == IF n \in known THEN forward[n] ELSE {}
DepsList(n) == IF n \in DOMAIN ForwardDeps THEN ForwardDeps[n] ELSE <<>>

LEMMA DepsAreListed ==
    ASSUME DepsTypeOK, NEW n \in Node
    PROVE  /\ DepsList(n) \in SeqOf(Node, MaxReads) /\ ToSet(DepsList(n)) = DepsOf(n)
           /\ DepsOf(n) \in SUBSET Node
<1>1. DOMAIN ForwardDeps = known
    BY DEF ForwardDeps
<1>2. CASE n \in known
    BY <1>1, <1>2, ListsAre DEF DepsOf, DepsList
<1>3. CASE n \notin known
    <2>1. DepsOf(n) = {} /\ DepsList(n) = <<>>
        BY <1>1, <1>3 DEF DepsOf, DepsList
    <2>2. <<>> \in Seq(Node) /\ Len(<<>>) <= MaxReads
        BY ListsAreOfDeps
    <2>3. <<>> \in SeqOf(Node, MaxReads)
        BY <2>2, BoundedSeqs, ListsAreOfDeps
    <2> QED BY <2>1, <2>3 DEF ToSet
<1> QED BY <1>2, <1>3

\* The calls that find_paths_recursive makes at the node n, and over the rest.
Deeper(n, there, s) ==
    [todo |-> DepsList(n), end |-> s.end, path |-> there, visited |-> s.visited \union {n}]
Further(s, seen) == [s EXCEPT !.todo = Tail(@), !.visited = seen]

\* The next node of a search, and the path that is come to it by.
NextNode(s) == Head(s.todo)
NextPath(s) == Append(s.path, Head(s.todo))

\* The search gets deeper, or has less to do: both can be counted as one.
Rank(s) == (MaxDepth - Len(s.path)) * (MaxReads + 1) + Len(s.todo)

LEMMA SearchIsTyped ==
    ASSUME NEW s \in Search
    PROVE  /\ s.todo \in Seq(Node) /\ Len(s.todo) \in Nat /\ Len(s.todo) <= MaxReads
           /\ s.end \in Node /\ s.visited \in SUBSET Node
           /\ s.path \in Seq(Node) /\ Len(s.path) \in Nat /\ Len(s.path) < MaxDepth
           /\ Rank(s) \in Nat
<1>1. MaxDepth - 1 \in Nat
    BY DepthIsPositive
<1>2. /\ s.todo \in SeqOf(Node, MaxReads) /\ s.path \in SeqOf(Node, MaxDepth - 1)
      /\ s.end \in Node /\ s.visited \in SUBSET Node
    BY DEF Search
<1>3. s.todo \in Seq(Node) /\ Len(s.todo) \in Nat /\ Len(s.todo) <= MaxReads
    BY <1>2, BoundedSeqs, ListsAreOfDeps
<1>4. s.path \in Seq(Node) /\ Len(s.path) \in Nat /\ Len(s.path) <= MaxDepth - 1
    BY <1>1, <1>2, BoundedSeqs
<1>5. MaxDepth - Len(s.path) \in Nat /\ MaxReads + 1 \in Nat /\ Len(s.path) < MaxDepth
    BY <1>4, DepthIsPositive, ListsAreOfDeps
<1>6. \A a, b, c \in Nat : a * b + c \in Nat
    OBVIOUS
<1>7. Rank(s) \in Nat
    BY <1>3, <1>5, <1>6 DEF Rank
<1> QED BY <1>2, <1>3, <1>4, <1>5, <1>7

LEMMA SearchEnds ==
    ASSUME DepsTypeOK, NEW s \in Search, s.todo # <<>>, NEW n, n = Head(s.todo),
           NEW there, there = Append(s.path, n)
    PROVE  /\ n \in Node /\ ToSet(s.todo) = {n} \union ToSet(Tail(s.todo))
           /\ there \in Seq(Node) /\ Len(there) = Len(s.path) + 1
           /\ \A seen \in SUBSET Node :
                Further(s, seen) \in Search /\ Rank(Further(s, seen)) < Rank(s)
           /\ Len(there) < MaxDepth =>
                Deeper(n, there, s) \in Search /\ Rank(Deeper(n, there, s)) < Rank(s)
<1>1. /\ s.todo \in Seq(Node) /\ Len(s.todo) \in Nat /\ Len(s.todo) <= MaxReads
      /\ s.end \in Node /\ s.visited \in SUBSET Node
      /\ s.path \in Seq(Node) /\ Len(s.path) \in Nat /\ Len(s.path) < MaxDepth
    BY SearchIsTyped
<1>2. n \in Node /\ Tail(s.todo) \in Seq(Node) /\ Len(Tail(s.todo)) = Len(s.todo) - 1
    BY <1>1
<1>3. ToSet(s.todo) = {n} \union ToSet(Tail(s.todo))
    <2>1. \A k \in 1..Len(Tail(s.todo)) : Tail(s.todo)[k] = s.todo[k + 1]
        BY <1>1
    <2>2. /\ DOMAIN s.todo = 1..Len(s.todo) /\ DOMAIN Tail(s.todo) = 1..Len(Tail(s.todo))
          /\ n = s.todo[1]
        BY <1>1, <1>2
    <2>3. \A k \in DOMAIN s.todo : k = 1 \/ (k - 1 \in DOMAIN Tail(s.todo) /\ (k - 1) + 1 = k)
        BY <1>1, <1>2, <2>2
    <2>4. \A k \in DOMAIN Tail(s.todo) : k + 1 \in DOMAIN s.todo
        BY <1>1, <1>2, <2>2
    <2>5. 1 \in DOMAIN s.todo
        BY <1>1, <2>2
    <2>6. ASSUME NEW x \in ToSet(s.todo) PROVE x = n \/ x \in ToSet(Tail(s.todo))
        <3>1. PICK k \in DOMAIN s.todo : x = s.todo[k]
            BY DEF ToSet
        <3>2. CASE k = 1
            BY <2>2, <3>1, <3>2
        <3>3. CASE k # 1
            <4>1. k - 1 \in DOMAIN Tail(s.todo) /\ x = Tail(s.todo)[k - 1]
                BY <2>1, <2>2, <2>3, <3>1, <3>3
            <4> QED BY <4>1 DEF ToSet
        <3> QED BY <3>2, <3>3
    <2>7. ToSet(Tail(s.todo)) \subseteq ToSet(s.todo)
        BY <2>1, <2>2, <2>4 DEF ToSet
    <2>8. n \in ToSet(s.todo)
        BY <2>2, <2>5 DEF ToSet
    <2> QED BY <2>6, <2>7, <2>8
<1>4. there \in Seq(Node) /\ Len(there) = Len(s.path) + 1
    BY <1>1, <1>2
<1>5. MaxDepth - 1 \in Nat /\ MaxDepth \in Nat
    BY DepthIsPositive
<1>6. ASSUME NEW seen \in SUBSET Node
      PROVE  Further(s, seen) \in Search /\ Rank(Further(s, seen)) < Rank(s)
    <2>1. Len(Tail(s.todo)) <= MaxReads /\ Len(Tail(s.todo)) \in Nat
        BY <1>1, <1>2, ListsAreOfDeps
    <2>2. Tail(s.todo) \in SeqOf(Node, MaxReads)
        BY <1>2, <2>1, BoundedSeqs, ListsAreOfDeps
    <2>3. Further(s, seen) \in Search
        BY <2>2 DEF Further, Search
    <2>4. Further(s, seen).todo = Tail(s.todo) /\ Further(s, seen).path = s.path
        BY DEF Further, Search
    <2> DEFINE c == (MaxDepth - Len(s.path)) * (MaxReads + 1)
    <2>5. c \in Int
        <3>1. MaxDepth - Len(s.path) \in Int /\ MaxReads + 1 \in Int
            BY <1>1, <1>5, ListsAreOfDeps
        <3> QED BY <3>1
    <2>6. Rank(Further(s, seen)) = c + Len(Tail(s.todo)) /\ Rank(s) = c + Len(s.todo)
        BY <2>4 DEF Rank
    <2> HIDE DEF c
    <2>7. Rank(Further(s, seen)) < Rank(s)
        BY <1>1, <1>2, <2>1, <2>5, <2>6
    <2> QED BY <2>3, <2>7
<1>7. ASSUME Len(there) < MaxDepth
      PROVE  Deeper(n, there, s) \in Search /\ Rank(Deeper(n, there, s)) < Rank(s)
    <2>1. DepsList(n) \in SeqOf(Node, MaxReads)
        BY <1>2, DepsAreListed
    <2>0. Len(there) <= MaxDepth - 1
        <3>1. Len(there) \in Nat
            BY <1>1, <1>4
        <3> QED BY <1>5, <1>7, <3>1
    <2>2. there \in SeqOf(Node, MaxDepth - 1)
        BY <1>4, <1>5, <2>0, BoundedSeqs
    <2>3. Deeper(n, there, s) \in Search
        BY <1>1, <1>2, <2>1, <2>2 DEF Deeper, Search
    <2>4. Len(DepsList(n)) \in Nat /\ Len(DepsList(n)) <= MaxReads
        BY <2>1, BoundedSeqs, ListsAreOfDeps
    <2>5. \A a, b, c, d \in Nat : c < b /\ a # 0 => (a - 1) * b + c < a * b + d
        <3> SUFFICES ASSUME NEW a \in Nat, NEW b \in Nat, NEW c \in Nat, NEW d \in Nat, c < b
                     PROVE  (a - 1) * b + c < a * b + d
            OBVIOUS
        <3>1. (a - 1) * b = a * b - b /\ a * b \in Int
            OBVIOUS
        <3> QED BY <3>1
    <2> DEFINE a == MaxDepth - Len(s.path)
    <2>6. a \in Nat /\ a # 0 /\ MaxReads + 1 \in Nat /\ Len(DepsList(n)) < MaxReads + 1
          /\ MaxDepth - Len(there) = a - 1
        <3>1. \A d, l \in Nat : l < d => d - l \in Nat /\ d - l # 0 /\ d - (l + 1) = (d - l) - 1
            OBVIOUS
        <3>2. a \in Nat /\ a # 0 /\ MaxDepth - Len(there) = a - 1
            <4>1. a \in Nat /\ a # 0 /\ MaxDepth - (Len(s.path) + 1) = a - 1
                BY <1>1, <1>5, <3>1, Zenon
            <4> QED BY <1>4, <4>1, Zenon
        <3>3. MaxReads + 1 \in Nat /\ Len(DepsList(n)) < MaxReads + 1
            BY <2>4, ListsAreOfDeps
        <3> QED BY <3>2, <3>3
    <2>7. /\ Rank(Deeper(n, there, s)) = (a - 1) * (MaxReads + 1) + Len(DepsList(n))
          /\ Rank(s) = a * (MaxReads + 1) + Len(s.todo)
        BY <2>6 DEF Rank, Deeper
    <2> HIDE DEF a
    <2>8. Rank(Deeper(n, there, s)) < Rank(s)
        BY <1>1, <2>4, <2>5, <2>6, <2>7
    <2> QED BY <2>3, <2>8
<1> QED BY <1>2, <1>3, <1>4, <1>6, <1>7

Result == [found : SUBSET Seq(Node), visited : SUBSET Node]

LEMMA ResultsAreTyped ==
    ASSUME NEW ps \in SUBSET Seq(Node), NEW seen \in SUBSET Node
    PROVE  [found |-> ps, visited |-> seen] \in Result
    BY DEF Result

\* What is found at the first node of the list.
AtFirst(over, s) ==
    PathsAt(over, Head(s.todo), s.end, Append(s.path, Head(s.todo)), s.visited)

WithoutNode(result, n) == [found |-> result.found, visited |-> result.visited \ {n}]

LEMMA PathsAtFirst ==
    ASSUME NEW over, NEW s
    PROVE  /\ Len(NextPath(s)) >= MaxDepth =>
                AtFirst(over, s) = [found |-> {}, visited |-> s.visited]
           /\ ~(Len(NextPath(s)) >= MaxDepth) =>
                /\ NextNode(s) = s.end =>
                    AtFirst(over, s) = [found |-> {NextPath(s)}, visited |-> s.visited]
                /\ NextNode(s) # s.end /\ NextNode(s) \in s.visited =>
                    AtFirst(over, s) = [found |-> {}, visited |-> s.visited]
                /\ NextNode(s) # s.end /\ NextNode(s) \notin s.visited =>
                    AtFirst(over, s) =
                        WithoutNode(over[Deeper(NextNode(s), NextPath(s), s)], NextNode(s))
<1>1. AtFirst(over, s) = PathsAt(over, NextNode(s), s.end, NextPath(s), s.visited)
    BY DEF AtFirst, NextNode, NextPath
<1>2. CASE Len(NextPath(s)) >= MaxDepth
    BY <1>1, <1>2 DEF PathsAt
<1>3. CASE ~(Len(NextPath(s)) >= MaxDepth)
    BY <1>1, <1>3 DEF PathsAt, Deeper, DepsList, Unvisited, WithoutNode
<1> QED BY <1>2, <1>3

Together(ps, result) == [found |-> ps \union result.found, visited |-> result.visited]

LEMMA PathsOverList ==
    ASSUME NEW over, NEW s
    PROVE  /\ s.todo = <<>> => PathsOverOf(over, s) = [found |-> {}, visited |-> s.visited]
           /\ s.todo # <<>> => PathsOverOf(over, s) =
                Together(AtFirst(over, s).found, over[Further(s, AtFirst(over, s).visited)])
    BY DEF PathsOverOf, AtFirst, Further, Together

(* What a search finds depends on the searches below it alone. *)
LEMMA SearchLooksDown ==
    ASSUME DepsTypeOK, NEW s \in Search, NEW g, NEW h,
           \A r \in Search : Rank(r) < Rank(s) => g[r] \in Result /\ g[r] = h[r]
    PROVE  PathsOverOf(g, s) \in Result /\ PathsOverOf(g, s) = PathsOverOf(h, s)
<1>1. /\ s.visited \in SUBSET Node
      /\ s.path \in Seq(Node) /\ Len(s.path) \in Nat /\ MaxDepth \in Nat
    BY SearchIsTyped, DepthIsPositive
<1>2. CASE s.todo = <<>>
    <2>1. /\ PathsOverOf(g, s) = [found |-> {}, visited |-> s.visited]
          /\ PathsOverOf(h, s) = [found |-> {}, visited |-> s.visited]
        BY <1>2, PathsOverList
    <2>2. [found |-> {}, visited |-> s.visited] \in Result
        BY <1>1, ResultsAreTyped
    <2> QED BY <2>1, <2>2
<1>3. CASE s.todo # <<>>
    <2> DEFINE n == Head(s.todo)
               there == Append(s.path, n)
    <2>1. /\ n \in Node /\ there \in Seq(Node) /\ Len(there) = Len(s.path) + 1
          /\ \A seen \in SUBSET Node :
                Further(s, seen) \in Search /\ Rank(Further(s, seen)) < Rank(s)
          /\ Len(there) < MaxDepth =>
                Deeper(n, there, s) \in Search /\ Rank(Deeper(n, there, s)) < Rank(s)
        BY <1>3, SearchEnds
    <2>2. AtFirst(g, s) \in Result /\ AtFirst(g, s) = AtFirst(h, s)
        <3>1. n = NextNode(s) /\ there = NextPath(s)
            BY DEF NextNode, NextPath
        <3> HIDE DEF n, there
        <3>2. CASE Len(there) >= MaxDepth
            <4>1. \A over : AtFirst(over, s) = [found |-> {}, visited |-> s.visited]
                BY <3>1, <3>2, PathsAtFirst
            <4>2. [found |-> {}, visited |-> s.visited] \in Result
                BY <1>1, ResultsAreTyped
            <4> QED BY <4>1, <4>2
        <3>3. CASE ~(Len(there) >= MaxDepth) /\ n = s.end
            <4>1. \A over : AtFirst(over, s) = [found |-> {there}, visited |-> s.visited]
                BY <3>1, <3>3, PathsAtFirst
            <4>2. [found |-> {there}, visited |-> s.visited] \in Result
                BY <1>1, <2>1, ResultsAreTyped
            <4> QED BY <4>1, <4>2
        <3>4. CASE ~(Len(there) >= MaxDepth) /\ n # s.end /\ n \in s.visited
            <4>1. \A over : AtFirst(over, s) = [found |-> {}, visited |-> s.visited]
                BY <3>1, <3>4, PathsAtFirst
            <4>2. [found |-> {}, visited |-> s.visited] \in Result
                BY <1>1, ResultsAreTyped
            <4> QED BY <4>1, <4>2
        <3>5. CASE ~(Len(there) >= MaxDepth) /\ n # s.end /\ n \notin s.visited
            <4> DEFINE d == Deeper(n, there, s)
            <4>1. g[d] \in Result /\ g[d] = h[d]
                <5>1. Len(there) < MaxDepth
                    BY <1>1, <2>1, <3>5
                <5> QED BY <2>1, <5>1
            <4>2. AtFirst(g, s) = WithoutNode(g[d], n) /\ AtFirst(h, s) = WithoutNode(h[d], n)
                <5>1. \A over : AtFirst(over, s) = WithoutNode(over[Deeper(n, there, s)], n)
                    BY <3>1, <3>5, PathsAtFirst
                <5> QED BY <5>1
            <4> HIDE DEF d
            <4> QED BY <4>1, <4>2 DEF Result, WithoutNode
        <3> QED BY <3>2, <3>3, <3>4, <3>5
    <2> DEFINE f == Further(s, AtFirst(g, s).visited)
    <2>3. AtFirst(g, s).visited \in SUBSET Node /\ AtFirst(g, s).found \in SUBSET Seq(Node)
        BY <2>2 DEF Result
    <2>4. g[f] \in Result /\ g[f] = h[f]
        BY <2>1, <2>3
    <2>5. /\ PathsOverOf(g, s) = Together(AtFirst(g, s).found, g[f])
          /\ PathsOverOf(h, s) = Together(AtFirst(g, s).found, h[f])
        BY <1>3, <2>2, PathsOverList
    <2> HIDE DEF f
    <2> QED BY <2>3, <2>4, <2>5 DEF Result, Together
<1> QED BY <1>2, <1>3

SearchBelow(m) == {s \in Search : Rank(s) < m}
SearchedBelow(g, m) ==
    /\ g = [s \in SearchBelow(m) |-> PathsOverOf(g, s)]
    /\ \A s \in SearchBelow(m) : g[s] \in Result

LEMMA RanksAreBounded ==
    \E m \in Nat : \A s \in Search : Rank(s) < m
<1> DEFINE w == MaxReads + 1
           m == MaxDepth * w + w
<1>1. w \in Nat /\ MaxDepth \in Nat
    BY ListsAreOfDeps, DepthIsPositive
<1>2. \A a, b, c \in Nat : c * b \in Nat /\ a * b \in Nat /\ (c <= a => (a - c) * b = a * b - c * b)
    OBVIOUS
<1>3. m \in Nat
    BY <1>1, <1>2
<1>4. ASSUME NEW s \in Search PROVE Rank(s) < m
    <2>1. /\ Len(s.path) \in Nat /\ Len(s.path) <= MaxDepth
          /\ Len(s.todo) \in Nat /\ Len(s.todo) < w
        BY SearchIsTyped, ListsAreOfDeps, DepthIsPositive
    <2>2. /\ (MaxDepth - Len(s.path)) * w = MaxDepth * w - Len(s.path) * w
          /\ Len(s.path) * w \in Nat /\ MaxDepth * w \in Nat
        BY <1>1, <1>2, <2>1
    <2>3. Rank(s) = (MaxDepth * w - Len(s.path) * w) + Len(s.todo)
        BY <2>2 DEF Rank
    <2>4. \A x, y, z, v \in Nat : z < v => (x - y) + z < x + v
        OBVIOUS
    <2> HIDE DEF w
    <2> QED BY <1>1, <2>1, <2>2, <2>3, <2>4
<1> QED BY <1>3, <1>4

(* So find_paths_recursive is defined: there is no number at which the       *)
(* searches that are ranked below it could not be given what they find.      *)
LEMMA SearchIsDefined ==
    ASSUME DepsTypeOK
    PROVE  \A s \in Search : PathsOver[s] = PathsOverOf(PathsOver, s)
<1> DEFINE G == {m \in Nat : \E g : SearchedBelow(g, m)}
<1>1. \A s \in Search : Rank(s) \in Nat
    BY SearchIsTyped
<1>2. \E g : SearchedBelow(g, 0)
    <2>1. SearchBelow(0) = {}
        BY <1>1 DEF SearchBelow
    <2>2. SearchedBelow([s \in SearchBelow(0) |-> TRUE], 0)
        BY <2>1 DEF SearchedBelow
    <2> QED BY <2>2
<1>3. ASSUME NEW m \in Nat, NEW g, SearchedBelow(g, m) PROVE \E h : SearchedBelow(h, m + 1)
    <2> DEFINE h == [s \in SearchBelow(m + 1) |-> PathsOverOf(g, s)]
    <2>1. ASSUME NEW s \in SearchBelow(m + 1)
          PROVE  PathsOverOf(g, s) \in Result /\ PathsOverOf(g, s) = PathsOverOf(h, s)
        <3>1. s \in Search /\ Rank(s) <= m
            BY <1>1 DEF SearchBelow
        <3>2. ASSUME NEW r \in Search, Rank(r) < Rank(s)
              PROVE  g[r] \in Result /\ g[r] = h[r]
            <4>1. r \in SearchBelow(m) /\ r \in SearchBelow(m + 1)
                <5>1. Rank(r) \in Nat /\ Rank(s) \in Nat
                    BY <1>1, <3>1
                <5> QED BY <3>1, <3>2, <5>1 DEF SearchBelow
            <4>2. g[r] = PathsOverOf(g, r) /\ g[r] \in Result
                BY <1>3, <4>1 DEF SearchedBelow
            <4>3. h[r] = PathsOverOf(g, r)
                BY <4>1
            <4> QED BY <4>2, <4>3
        <3> HIDE DEF h
        <3> QED BY <3>1, <3>2, SearchLooksDown
    <2>2. SearchedBelow(h, m + 1)
        BY <2>1 DEF SearchedBelow
    <2> QED BY <2>2
<1>4. G = Nat
    <2>1. G \subseteq Nat /\ 0 \in G /\ \A m \in G : m + 1 \in G
        BY <1>2, <1>3
    <2> HIDE DEF G
    <2> QED BY <2>1, SetInduction
<1>5. PICK m \in Nat : \A s \in Search : Rank(s) < m
    BY RanksAreBounded
<1>6. PICK g : SearchedBelow(g, m)
    <2>1. m \in G
        BY <1>4
    <2> QED BY <2>1
<1>7. SearchBelow(m) = Search
    BY <1>5 DEF SearchBelow
<1>8. g = [s \in Search |-> PathsOverOf(g, s)]
    BY <1>6, <1>7 DEF SearchedBelow
<1>9. PathsOver = [s \in Search |-> PathsOverOf(PathsOver, s)]
    BY <1>8 DEF PathsOver
<1> QED BY <1>9

\* What p has after its first m nodes is a path to end from a node of ns, that
\* comes by no node twice and by none of visited.
LeadsOn(p, m, ns, visited, end) ==
    /\ m < Len(p) /\ Len(p) < MaxDepth
    /\ p[m + 1] \in ns
    /\ \A k \in (m + 1)..(Len(p) - 1) : p[k] \in known /\ p[k + 1] \in forward[p[k]]
    /\ \A k, l \in (m + 1)..Len(p) : p[k] = p[l] => k = l
    /\ \A k \in (m + 1)..Len(p) : p[k] \notin visited
    /\ p[Len(p)] = end
Behind(p, path) == \A k \in 1..Len(path) : p[k] = path[k]
Ways(path, ns, visited, end) ==
    {p \in Seq(Node) : Behind(p, path) /\ LeadsOn(p, Len(path), ns, visited, end)}

\* There is what one comes by, having come by path, at n.
Goes(there, path, n) ==
    /\ Len(there) = Len(path) + 1 /\ there[Len(path) + 1] = n
    /\ \A k \in 1..Len(path) : there[k] = path[k]

LEMMA OneNodeOn ==
    ASSUME NEW path \in Seq(Node), NEW n \in Node
    PROVE  Append(path, n) \in Seq(Node) /\ Goes(Append(path, n), path, n)
    BY DEF Goes

WaysOver(path, n, there, visited, end) ==
    /\ Len(there) >= MaxDepth => Ways(path, {n}, visited, end) = {}
    /\ ~(Len(there) >= MaxDepth) =>
        /\ n = end => Ways(path, {n}, visited, end) = {there}
        /\ n # end /\ n \in visited => Ways(path, {n}, visited, end) = {}
        /\ n # end /\ n \notin visited =>
            Ways(path, {n}, visited, end) = Ways(there, DepsOf(n), visited \union {n}, end)

(* A way over n ends there, or goes on over a dependency of n. *)
LEMMA WaysOverNode ==
    ASSUME DepsTypeOK, NEW path \in Seq(Node), NEW n \in Node,
           NEW there \in Seq(Node), Goes(there, path, n),
           NEW visited \in SUBSET Node, NEW end \in Node \ visited
    PROVE  WaysOver(path, n, there, visited, end)
<1> DEFINE m == Len(path)
<1>1. /\ m \in Nat /\ there \in Seq(Node) /\ Len(there) = m + 1 /\ there[m + 1] = n
      /\ \A k \in 1..m : there[k] = path[k]
      /\ MaxDepth \in Nat
    BY DepthIsPositive DEF Goes
<1>2. \A p \in Ways(path, {n}, visited, end) :
        /\ p \in Seq(Node) /\ Len(p) \in Nat /\ m < Len(p) /\ Len(p) < MaxDepth
        /\ \A k \in 1..m : p[k] = path[k]
        /\ p[m + 1] = n /\ n \notin visited /\ p[Len(p)] = end
        /\ \A k \in (m + 1)..(Len(p) - 1) : p[k] \in known /\ p[k + 1] \in forward[p[k]]
        /\ \A k, l \in (m + 1)..Len(p) : p[k] = p[l] => k = l
        /\ \A k \in (m + 1)..Len(p) : p[k] \notin visited
    <2> SUFFICES ASSUME NEW p \in Ways(path, {n}, visited, end)
                 PROVE  /\ p \in Seq(Node) /\ Behind(p, path) /\ LeadsOn(p, m, {n}, visited, end)
                        /\ n \notin visited /\ Len(p) \in Nat
        BY DEF Behind, LeadsOn
    <2>1. p \in Seq(Node) /\ Behind(p, path) /\ LeadsOn(p, m, {n}, visited, end)
        BY DEF Ways
    <2>2. Len(p) \in Nat
        BY <2>1
    <2>3. m + 1 \in (m + 1)..Len(p)
        BY <1>1, <2>1, <2>2 DEF LeadsOn
    <2>4. p[m + 1] = n /\ p[m + 1] \notin visited
        BY <2>1, <2>3 DEF LeadsOn
    <2> QED BY <2>1, <2>2, <2>4
<1> HIDE DEF m
<1>0. \A k \in 1..(m + 1) : k = m + 1 \/ k \in 1..m
    BY <1>1
<1>00. m + 1 \in 1..(m + 1) /\ 1..m \subseteq 1..(m + 1)
    BY <1>1
<1>3. CASE Len(there) >= MaxDepth
    <2>1. \A p \in Ways(path, {n}, visited, end) : FALSE
        BY <1>1, <1>2, <1>3
    <2> QED BY <1>3, <2>1 DEF WaysOver
<1>4. CASE ~(Len(there) >= MaxDepth) /\ n = end
    <2>1. ASSUME NEW p \in Ways(path, {n}, visited, end) PROVE p = there
        <3>0. p \in Seq(Node) /\ Len(p) \in Nat /\ m < Len(p)
            BY <1>2
        <3>1. m + 1 = Len(p)
            <4>1. m + 1 \in (m + 1)..Len(p) /\ Len(p) \in (m + 1)..Len(p)
                BY <1>1, <3>0
            <4>2. p[m + 1] = p[Len(p)]
                BY <1>2, <1>4
            <4> QED BY <1>2, <4>1, <4>2
        <3>2. \A k \in 1..(m + 1) : p[k] = there[k]
            BY <1>0, <1>1, <1>2
        <3>3. Len(p) = Len(there) /\ \A k \in 1..Len(p) : p[k] = there[k]
            BY <1>1, <3>1, <3>2
        <3> QED BY <3>0, <3>3, SeqEqual
    <2>2. there \in Ways(path, {n}, visited, end)
        <3>1. Behind(there, path)
            BY <1>1 DEF Behind, m
        <3>2. LeadsOn(there, m, {n}, visited, end)
            BY <1>1, <1>4 DEF LeadsOn
        <3> QED BY <1>1, <3>1, <3>2 DEF Ways, m
    <2>3. Ways(path, {n}, visited, end) = {there}
        BY <2>1, <2>2
    <2> QED BY <1>4, <2>3 DEF WaysOver
<1>5. CASE ~(Len(there) >= MaxDepth) /\ n # end /\ n \in visited
    <2>1. \A p \in Ways(path, {n}, visited, end) : FALSE
        BY <1>2, <1>5
    <2> QED BY <1>5, <2>1 DEF WaysOver
<1>6. CASE ~(Len(there) >= MaxDepth) /\ n # end /\ n \notin visited
    <2> DEFINE W == Ways(there, DepsOf(n), visited \union {n}, end)
    <2>1. ASSUME NEW p \in Ways(path, {n}, visited, end) PROVE p \in W
        <3>1. m + 1 < Len(p)
            <4>1. m + 1 # Len(p)
                BY <1>2, <1>6
            <4>2. Len(p) \in Nat /\ m < Len(p)
                BY <1>2
            <4> QED BY <1>1, <4>1, <4>2
        <3>2. Behind(p, there)
            <4>1. \A k \in 1..(m + 1) : p[k] = there[k]
                BY <1>0, <1>1, <1>2
            <4> QED BY <1>1, <4>1 DEF Behind
        <3>3. n \in known /\ p[m + 2] \in forward[n]
            <4>1. m + 1 \in (m + 1)..(Len(p) - 1) /\ (m + 1) + 1 = m + 2
                BY <1>1, <1>2, <3>1
            <4> QED BY <1>2, <4>1
        <3>4. p[(m + 1) + 1] \in DepsOf(n)
            BY <1>1, <3>3 DEF DepsOf
        <3>5. \A k \in ((m + 1) + 1)..Len(p) : k \in (m + 1)..Len(p) /\ k # m + 1
            BY <1>1, <1>2
        <3>6. \A k \in ((m + 1) + 1)..(Len(p) - 1) : k \in (m + 1)..(Len(p) - 1)
            BY <1>1, <1>2
        <3>7. \A k \in ((m + 1) + 1)..Len(p) : p[k] \notin visited \union {n}
            <4>1. m + 1 \in (m + 1)..Len(p)
                BY <1>1, <1>2, <3>1
            <4> QED BY <1>2, <3>5, <4>1
        <3>8. LeadsOn(p, m + 1, DepsOf(n), visited \union {n}, end)
            BY <1>2, <3>1, <3>4, <3>5, <3>6, <3>7 DEF LeadsOn
        <3> QED BY <1>1, <1>2, <3>2, <3>8 DEF Ways
    <2>2. ASSUME NEW p \in W PROVE p \in Ways(path, {n}, visited, end)
        <3>1. /\ p \in Seq(Node) /\ Len(p) \in Nat
              /\ Behind(p, there) /\ LeadsOn(p, m + 1, DepsOf(n), visited \union {n}, end)
            BY <1>1 DEF Ways
        <3>2. /\ m + 1 < Len(p) /\ Len(p) < MaxDepth
              /\ p[(m + 1) + 1] \in DepsOf(n) /\ p[Len(p)] = end
            BY <3>1 DEF LeadsOn
        <3>3. p[m + 1] = n /\ \A k \in 1..m : p[k] = path[k]
            <4>1. \A k \in 1..(m + 1) : p[k] = there[k]
                BY <1>1, <3>1 DEF Behind
            <4> QED BY <1>00, <1>1, <4>1
        <3>4. n \in known /\ DepsOf(n) = forward[n]
            BY <3>2 DEF DepsOf
        <3>5. \A k \in (m + 1)..Len(p) : k = m + 1 \/ k \in ((m + 1) + 1)..Len(p)
            BY <1>1, <3>1
        <3>6. \A k \in (m + 1)..(Len(p) - 1) : p[k] \in known /\ p[k + 1] \in forward[p[k]]
            <4>1. \A k \in (m + 1)..(Len(p) - 1) : k = m + 1 \/ k \in ((m + 1) + 1)..(Len(p) - 1)
                BY <1>1, <3>1
            <4>2. \A k \in ((m + 1) + 1)..(Len(p) - 1) : p[k] \in known /\ p[k + 1] \in forward[p[k]]
                BY <3>1 DEF LeadsOn
            <4> QED BY <3>2, <3>3, <3>4, <4>1, <4>2
        <3>7. /\ \A k \in ((m + 1) + 1)..Len(p) : p[k] \notin visited \union {n}
              /\ \A k, l \in ((m + 1) + 1)..Len(p) : p[k] = p[l] => k = l
            BY <3>1 DEF LeadsOn
        <3>8. /\ \A k, l \in (m + 1)..Len(p) : p[k] = p[l] => k = l
              /\ \A k \in (m + 1)..Len(p) : p[k] \notin visited
            BY <1>6, <3>3, <3>5, <3>7
        <3>9. LeadsOn(p, m, {n}, visited, end)
            <4>1. m < Len(p)
                BY <1>1, <3>1, <3>2
            <4> QED BY <3>2, <3>3, <3>6, <3>8, <4>1 DEF LeadsOn
        <3>10. Behind(p, path)
            BY <3>3 DEF Behind, m
        <3> QED BY <3>1, <3>9, <3>10 DEF Ways, m
    <2>3. Ways(path, {n}, visited, end) = W
        BY <2>1, <2>2
    <2> QED BY <1>6, <2>3 DEF WaysOver
<1> QED BY <1>3, <1>4, <1>5, <1>6

\* What a search should say: it finds the ways on, and leaves the set as it was.
Found(s) ==
    [found |-> Ways(s.path, ToSet(s.todo), s.visited, s.end), visited |-> s.visited]
RightBelow(m) ==
    \A s \in SearchBelow(m) : s.end \notin s.visited => PathsOver[s] = Found(s)

LEMMA FirstIsRight ==
    ASSUME DepsTypeOK, NEW s \in Search, s.todo # <<>>, s.end \notin s.visited,
           RightBelow(Rank(s))
    PROVE  AtFirst(PathsOver, s) =
            [found |-> Ways(s.path, {NextNode(s)}, s.visited, s.end), visited |-> s.visited]
<1> DEFINE n == NextNode(s)
           there == NextPath(s)
<1>1. /\ s.visited \in SUBSET Node /\ s.end \in Node /\ s.path \in Seq(Node)
      /\ Len(s.path) \in Nat /\ MaxDepth \in Nat
    BY SearchIsTyped, DepthIsPositive
<1>2. /\ n \in Node /\ there \in Seq(Node) /\ Len(there) = Len(s.path) + 1
      /\ Len(there) < MaxDepth =>
            Deeper(n, there, s) \in Search /\ Rank(Deeper(n, there, s)) < Rank(s)
    BY SearchEnds DEF NextNode, NextPath
<1>3. Goes(there, s.path, n)
    <2>1. Goes(Append(s.path, n), s.path, n)
        BY <1>1, <1>2, OneNodeOn
    <2> QED BY <2>1 DEF NextPath, NextNode
<1>4. s.end \in Node \ s.visited
    BY <1>1
<1> HIDE DEF n, there
<1>5. /\ Len(there) >= MaxDepth => Ways(s.path, {n}, s.visited, s.end) = {}
      /\ ~(Len(there) >= MaxDepth) =>
            /\ n = s.end => Ways(s.path, {n}, s.visited, s.end) = {there}
            /\ n # s.end /\ n \in s.visited => Ways(s.path, {n}, s.visited, s.end) = {}
            /\ n # s.end /\ n \notin s.visited =>
                Ways(s.path, {n}, s.visited, s.end) =
                    Ways(there, DepsOf(n), s.visited \union {n}, s.end)
    <2>1. WaysOver(s.path, n, there, s.visited, s.end)
        BY <1>1, <1>2, <1>3, <1>4, WaysOverNode
    <2> QED BY <2>1 DEF WaysOver
<1>6. n = NextNode(s) /\ there = NextPath(s)
    BY DEF n, there
<1>7. CASE Len(there) >= MaxDepth
    BY <1>5, <1>6, <1>7, PathsAtFirst
<1>8. CASE ~(Len(there) >= MaxDepth) /\ n = s.end
    BY <1>5, <1>6, <1>8, PathsAtFirst
<1>9. CASE ~(Len(there) >= MaxDepth) /\ n # s.end /\ n \in s.visited
    BY <1>5, <1>6, <1>9, PathsAtFirst
<1>10. CASE ~(Len(there) >= MaxDepth) /\ n # s.end /\ n \notin s.visited
    <2> DEFINE d == Deeper(n, there, s)
    <2>1. d \in Search /\ Rank(d) < Rank(s)
        <3>1. Len(there) < MaxDepth
            BY <1>1, <1>2, <1>10
        <3> QED BY <1>2, <3>1
    <2>2. /\ d.end = s.end /\ d.visited = s.visited \union {n} /\ d.path = there
          /\ ToSet(d.todo) = DepsOf(n)
        BY <1>2, DepsAreListed DEF Deeper
    <2>3. d.end \notin d.visited
        BY <1>10, <2>2
    <2> HIDE DEF d
    <2>4. PathsOver[d] = [found |-> Ways(there, DepsOf(n), s.visited \union {n}, s.end),
                          visited |-> s.visited \union {n}]
        <3>1. d \in SearchBelow(Rank(s))
            BY <2>1 DEF SearchBelow
        <3>2. PathsOver[d] = Found(d)
            BY <2>3, <3>1 DEF RightBelow
        <3> QED BY <2>2, <3>2 DEF Found
    <2>5. AtFirst(PathsOver, s) = WithoutNode(PathsOver[d], n)
        <3>1. \A over : AtFirst(over, s) =
                WithoutNode(over[Deeper(NextNode(s), NextPath(s), s)], NextNode(s))
            BY <1>6, <1>10, PathsAtFirst
        <3> QED BY <1>6, <3>1 DEF d
    <2>6. WithoutNode(PathsOver[d], n) =
            [found |-> Ways(there, DepsOf(n), s.visited \union {n}, s.end),
             visited |-> (s.visited \union {n}) \ {n}]
        BY <2>4 DEF WithoutNode
    <2>7. (s.visited \union {n}) \ {n} = s.visited
        BY <1>10
    <2> QED BY <1>5, <1>6, <1>10, <2>5, <2>6, <2>7
<1> QED BY <1>7, <1>8, <1>9, <1>10

(* What is found over a list of nodes are the ways over each of them.        *)
LEMMA SearchIsRight ==
    ASSUME DepsTypeOK, NEW s \in Search, s.end \notin s.visited
    PROVE  PathsOver[s] = Found(s)
<1> DEFINE G == {m \in Nat : RightBelow(m)}
<1>1. \A r \in Search : Rank(r) \in Nat
    BY SearchIsTyped
<1>2. RightBelow(0)
    BY <1>1 DEF RightBelow, SearchBelow
<1>3. ASSUME NEW m \in Nat, RightBelow(m) PROVE RightBelow(m + 1)
    <2> SUFFICES ASSUME NEW r \in SearchBelow(m + 1), r.end \notin r.visited
                 PROVE  PathsOver[r] = Found(r)
        BY DEF RightBelow
    <2>1. r \in Search /\ Rank(r) \in Nat /\ Rank(r) <= m
        BY <1>1 DEF SearchBelow
    <2>2. RightBelow(Rank(r))
        <3>1. \A x \in SearchBelow(Rank(r)) : x \in SearchBelow(m)
            BY <1>1, <2>1 DEF SearchBelow
        <3> QED BY <1>3, <3>1 DEF RightBelow
    <2>3. PathsOver[r] = PathsOverOf(PathsOver, r)
        BY <2>1, SearchIsDefined
    <2>4. CASE r.todo = <<>>
        <3>1. PathsOver[r] = [found |-> {}, visited |-> r.visited]
            BY <2>3, <2>4, PathsOverList
        <3>2. ToSet(r.todo) = {}
            BY <2>4 DEF ToSet
        <3>3. Ways(r.path, {}, r.visited, r.end) = {}
            BY DEF Ways, LeadsOn
        <3> QED BY <3>1, <3>2, <3>3 DEF Found
    <2>5. CASE r.todo # <<>>
        <3> DEFINE n == NextNode(r)
                   rest == ToSet(Tail(r.todo))
                   f == Further(r, r.visited)
        <3>1. AtFirst(PathsOver, r) =
                [found |-> Ways(r.path, {n}, r.visited, r.end), visited |-> r.visited]
            BY <2>1, <2>2, <2>5, FirstIsRight
        <3>2. ToSet(r.todo) = {n} \union rest
            BY <2>1, <2>5, SearchEnds DEF NextNode
        <3>3. f \in Search /\ Rank(f) < Rank(r)
            BY <2>1, <2>5, SearchEnds, SearchIsTyped
        <3>4. /\ f.todo = Tail(r.todo) /\ f.path = r.path /\ f.end = r.end
              /\ f.visited = r.visited
            BY <2>1 DEF Further, Search
        <3> HIDE DEF f
        <3>5. PathsOver[f] =
                [found |-> Ways(r.path, rest, r.visited, r.end), visited |-> r.visited]
            <4>1. f \in SearchBelow(Rank(r)) /\ f.end \notin f.visited
                BY <3>3, <3>4 DEF SearchBelow
            <4>2. PathsOver[f] = Found(f)
                BY <2>2, <4>1 DEF RightBelow
            <4> QED BY <3>4, <4>2 DEF Found
        <3>6. PathsOver[r] =
                Together(AtFirst(PathsOver, r).found,
                         PathsOver[Further(r, AtFirst(PathsOver, r).visited)])
            BY <2>3, <2>5, PathsOverList
        <3>7. /\ AtFirst(PathsOver, r).visited = r.visited
              /\ AtFirst(PathsOver, r).found = Ways(r.path, {n}, r.visited, r.end)
            BY <3>1
        <3>8. PathsOver[r] = Together(Ways(r.path, {n}, r.visited, r.end), PathsOver[f])
            BY <3>6, <3>7 DEF f
        <3>9. Ways(r.path, {n} \union rest, r.visited, r.end) =
                Ways(r.path, {n}, r.visited, r.end) \union Ways(r.path, rest, r.visited, r.end)
            BY DEF Ways, LeadsOn
        <3> HIDE DEF n, rest
        <3>10. PathsOver[r] = [found |-> Ways(r.path, {n} \union rest, r.visited, r.end),
                               visited |-> r.visited]
            <4>1. /\ PathsOver[f].found = Ways(r.path, rest, r.visited, r.end)
                  /\ PathsOver[f].visited = r.visited
                BY <3>5
            <4>2. PathsOver[r] = [found |-> Ways(r.path, {n}, r.visited, r.end)
                                                \union Ways(r.path, rest, r.visited, r.end),
                                  visited |-> r.visited]
                BY <3>8, <4>1 DEF Together
            <4> QED BY <3>9, <4>2
        <3> QED BY <3>2, <3>10 DEF Found
    <2> QED BY <2>4, <2>5
<1>4. G = Nat
    <2>1. G \subseteq Nat /\ 0 \in G /\ \A m \in G : m + 1 \in G
        BY <1>2, <1>3
    <2> HIDE DEF G
    <2> QED BY <2>1, SetInduction
<1>5. Rank(s) \in Nat /\ Rank(s) + 1 \in G /\ Rank(s) < Rank(s) + 1
    BY <1>1, <1>4
<1>6. RightBelow(Rank(s) + 1)
    BY <1>5
<1>7. s \in SearchBelow(Rank(s) + 1)
    BY <1>5 DEF SearchBelow
<1> QED BY <1>6, <1>7 DEF RightBelow

(* The lists of different nodes are not longer than there are nodes, so the  *)
(* paths without a cycle are all among them.                                 *)
LEMMA PathsAreSimple ==
    ASSUME NEW s
    PROVE  s \in SimplePaths <=>
            /\ s \in Seq(Node) /\ Len(s) >= 1
            /\ \A k, l \in 1..Len(s) : s[k] = s[l] => k = l
            /\ \A k \in 1..(Len(s) - 1) : s[k] \in known /\ s[k + 1] \in forward[s[k]]
<1>1. s \in DistinctLists <=>
        s \in Seq(Node) /\ Len(s) >= 1 /\ \A k, l \in 1..Len(s) : s[k] = s[l] => k = l
    <2>1. ASSUME s \in DistinctLists
          PROVE  s \in Seq(Node) /\ Len(s) >= 1 /\ \A k, l \in 1..Len(s) : s[k] = s[l] => k = l
        <3>1. PICK m \in 1..NodeCount : s \in [1..m -> Node] /\ IsInjective(s)
            BY <2>1 DEF DistinctLists, NodeCount
        <3>2. m \in Nat /\ m >= 1
            BY <3>1, NodesAreCounted
        <3>3. s \in Seq(Node) /\ Len(s) = m
            BY <3>1, <3>2
        <3> QED BY <3>1, <3>2, <3>3 DEF IsInjective
    <2>2. ASSUME s \in Seq(Node), Len(s) >= 1, \A k, l \in 1..Len(s) : s[k] = s[l] => k = l
          PROVE  s \in DistinctLists
        <3> DEFINE m == Len(s)
        <3>1. m \in Nat /\ s \in [1..m -> Node]
            BY <2>2
        <3>2. IsInjective(s) /\ s \in Injection(1..m, Node)
            BY <2>2, <3>1 DEF IsInjective, Injection
        <3>3. Cardinality(1..m) <= NodeCount
            BY <3>2, NodesApart, FS_Injection DEF NodeCount
        <3>4. Cardinality(1..m) = m
            BY <3>1, FS_Interval
        <3> HIDE DEF m
        <3>5. m \in 1..NodeCount
            <4>1. m >= 1
                BY <2>2 DEF m
            <4> QED BY <3>1, <3>3, <3>4, <4>1, NodesAreCounted
        <3>6. s \in {x \in [1..m -> Node] : IsInjective(x)}
            BY <3>1, <3>2
        <3> QED BY <3>5, <3>6 DEF DistinctLists, NodeCount
    <2> QED BY <2>1, <2>2
<1> QED BY <1>1 DEF SimplePaths

\* The paths that a search between two nodes should find.
PathsBetween(start, end) ==
    {s \in SimplePaths : Len(s) <= MaxDepth /\ s[1] = start /\ Last(s) = end}

LEMMA SearchesStart ==
    ASSUME DepsTypeOK, NEW start \in Node, NEW end \in Node, start # end
    PROVE  FindPaths(start, end) = Ways(<<>>, DepsOf(start), {start}, end)
<1> DEFINE s == [todo |-> DepsList(start), end |-> end, path |-> <<>>, visited |-> {} \union {start}]
<1>1. DepsList(start) \in SeqOf(Node, MaxReads) /\ ToSet(DepsList(start)) = DepsOf(start)
    BY DepsAreListed
<1>2. <<>> \in SeqOf(Node, MaxDepth - 1)
    <2>1. <<>> \in Seq(Node) /\ Len(<<>>) <= MaxDepth - 1 /\ MaxDepth - 1 \in Nat
        BY DepthIsPositive
    <2> QED BY <2>1, BoundedSeqs
<1>3. s \in Search /\ s.end \notin s.visited
    BY <1>1, <1>2 DEF Search
<1>4. FindPaths(start, end) = PathsOver[s].found
    <2>1. ~(Len(<<>>) >= MaxDepth)
        BY DepthIsPositive
    <2> QED BY <2>1 DEF FindPaths, PathsAt, DepsList
<1>5. PathsOver[s] = Found(s)
    BY <1>3, SearchIsRight
<1> QED BY <1>1, <1>4, <1>5 DEF Found

LEMMA SearchesFind ==
    ASSUME DepsTypeOK, NEW start \in Node, NEW end \in Node
    PROVE  FindPaths(start, end) = {Tail(s) : s \in PathsBetween(start, end)}
<1>1. CASE start = end
    <2>1. FindPaths(start, end) = {<<>>}
        <3>1. ~(Len(<<>>) >= MaxDepth)
            BY DepthIsPositive
        <3> QED BY <1>1, <3>1 DEF FindPaths, PathsAt
    <2>2. ASSUME NEW s \in PathsBetween(start, end) PROVE Tail(s) = <<>>
        <3>1. /\ s \in Seq(Node) /\ Len(s) \in Nat /\ Len(s) >= 1
              /\ \A k, l \in 1..Len(s) : s[k] = s[l] => k = l
              /\ s[1] = s[Len(s)]
            BY <1>1, PathsAreSimple DEF PathsBetween, Last
        <3>2. Len(s) = 1
            <4>1. 1 \in 1..Len(s) /\ Len(s) \in 1..Len(s)
                BY <3>1
            <4> QED BY <3>1, <4>1
        <3>3. Tail(s) \in Seq(Node) /\ Len(Tail(s)) = 0
            <4>1. s # <<>>
                BY <3>2
            <4>2. Tail(s) \in Seq(Node) /\ Len(Tail(s)) = Len(s) - 1
                BY <3>1, <4>1
            <4> QED BY <3>2, <4>2
        <3> QED BY <3>3, EmptySeq
    <2>3. <<start>> \in PathsBetween(start, end)
        <3> DEFINE s == <<start>>
        <3>1. s \in Seq(Node) /\ Len(s) = 1 /\ s[1] = start /\ 1 <= MaxDepth
            BY DepthIsPositive
        <3> HIDE DEF s
        <3>2. /\ \A k, l \in 1..Len(s) : k = l
              /\ \A k \in 1..(Len(s) - 1) : FALSE
            BY <3>1
        <3>3. s \in SimplePaths
            <4>1. Len(s) >= 1
                BY <3>1
            <4> QED BY <3>1, <3>2, <4>1, PathsAreSimple
        <3>4. s \in PathsBetween(start, end)
            BY <1>1, <3>1, <3>3 DEF PathsBetween, Last
        <3> QED BY <3>4 DEF s
    <2> QED BY <2>1, <2>2, <2>3
<1>2. CASE start # end
    <2>1. FindPaths(start, end) = Ways(<<>>, DepsOf(start), {start}, end)
        BY <1>2, SearchesStart
    <2>2. ASSUME NEW p \in Ways(<<>>, DepsOf(start), {start}, end)
          PROVE  \E s \in PathsBetween(start, end) : p = Tail(s)
        <3> DEFINE c == Len(p)
                   s == [k \in 1..(c + 1) |-> IF k = 1 THEN start ELSE p[k - 1]]
        <3>1. /\ p \in Seq(Node) /\ c \in Nat
              /\ LeadsOn(p, 0, DepsOf(start), {start}, end)
            BY DEF Ways
        <3>2. /\ 0 < c /\ c < MaxDepth /\ p[1] \in DepsOf(start) /\ p[c] = end
              /\ \A k \in 1..(c - 1) : p[k] \in known /\ p[k + 1] \in forward[p[k]]
              /\ \A k, l \in 1..c : p[k] = p[l] => k = l
              /\ \A k \in 1..c : p[k] # start
            BY <3>1 DEF LeadsOn
        <3>3. \A k \in 1..c : p[k] \in Node
            BY <3>1
        <3> HIDE DEF c
        <3>4. s \in [1..(c + 1) -> Node]
            <4>1. \A k \in 1..(c + 1) : k = 1 \/ k - 1 \in 1..c
                BY <3>1
            <4> QED BY <3>3, <4>1
        <3>5. s \in Seq(Node) /\ Len(s) = c + 1
            BY <3>1, <3>4
        <3>6. s[1] = start /\ \A k \in 1..c : s[k + 1] = p[k]
            BY <3>1, <3>2
        <3> HIDE DEF s
        <3>7. \A k \in 1..(c + 1) : k = 1 \/ \E j \in 1..c : k = j + 1
            <4>1. \A k \in 1..(c + 1) : k = 1 \/ (k - 1 \in 1..c /\ k = (k - 1) + 1)
                BY <3>1
            <4> QED BY <4>1
        <3>8. \A k, l \in 1..(c + 1) : s[k] = s[l] => k = l
            <4> SUFFICES ASSUME NEW k \in 1..(c + 1), NEW l \in 1..(c + 1), s[k] = s[l] PROVE k = l
                OBVIOUS
            <4>1. CASE k = 1 /\ l = 1
                BY <4>1
            <4>2. ASSUME NEW j \in 1..c, k = 1, l = j + 1 PROVE FALSE
                BY <3>2, <3>6, <4>2
            <4>3. ASSUME NEW j \in 1..c, k = j + 1, l = 1 PROVE FALSE
                BY <3>2, <3>6, <4>3
            <4>4. ASSUME NEW j \in 1..c, NEW h \in 1..c, k = j + 1, l = h + 1 PROVE k = l
                BY <3>2, <3>6, <4>4
            <4> QED BY <3>7, <4>1, <4>2, <4>3, <4>4
        <3>9. \A k \in 1..c : s[k] \in known /\ s[k + 1] \in forward[s[k]]
            <4> SUFFICES ASSUME NEW k \in 1..c
                         PROVE  s[k] \in known /\ s[k + 1] \in forward[s[k]]
                OBVIOUS
            <4>1. CASE k = 1
                <5>1. start \in known /\ p[1] \in forward[start]
                    BY <3>2 DEF DepsOf
                <5>2. s[1] = start /\ s[1 + 1] = p[1]
                    BY <3>6, <4>1
                <5> QED BY <4>1, <5>1, <5>2
            <4>2. CASE k # 1
                <5>1. k - 1 \in 1..(c - 1) /\ k - 1 \in 1..c /\ (k - 1) + 1 = k
                    BY <3>1, <4>2
                <5>2. s[k] = p[k - 1] /\ s[k + 1] = p[k]
                    BY <3>6, <5>1
                <5>3. p[k - 1] \in known /\ p[k] \in forward[p[k - 1]]
                    BY <3>2, <5>1
                <5> QED BY <5>2, <5>3
            <4> QED BY <4>1, <4>2
        <3>10. s \in SimplePaths
            <4>1. (c + 1) - 1 = c /\ c + 1 >= 1
                BY <3>1
            <4> QED BY <3>5, <3>8, <3>9, <4>1, PathsAreSimple
        <3>11. s \in PathsBetween(start, end)
            <4>1. c \in 1..c /\ c + 1 <= MaxDepth
                BY <3>1, <3>2, DepthIsPositive
            <4>2. s[c + 1] = end
                BY <3>2, <3>6, <4>1
            <4> QED BY <3>5, <3>6, <3>10, <4>1, <4>2 DEF PathsBetween, Last
        <3>12. p = Tail(s)
            <4>1. Tail(s) \in Seq(Node) /\ Len(Tail(s)) = c
                BY <3>1, <3>5
            <4>2. \A k \in 1..c : Tail(s)[k] = s[k + 1]
                BY <3>1, <3>5
            <4>3. Len(p) = Len(Tail(s)) /\ \A k \in 1..Len(p) : p[k] = Tail(s)[k]
                BY <3>6, <4>1, <4>2 DEF c
            <4> QED BY <3>1, <4>1, <4>3, SeqEqual
        <3> QED BY <3>11, <3>12
    <2>3. ASSUME NEW s \in PathsBetween(start, end)
          PROVE  Tail(s) \in Ways(<<>>, DepsOf(start), {start}, end)
        <3> DEFINE c == Len(s)
                   p == Tail(s)
        <3>1. /\ s \in Seq(Node) /\ c \in Nat /\ c >= 1
              /\ \A k, l \in 1..c : s[k] = s[l] => k = l
              /\ \A k \in 1..(c - 1) : s[k] \in known /\ s[k + 1] \in forward[s[k]]
              /\ c <= MaxDepth /\ s[1] = start /\ s[c] = end
            BY PathsAreSimple DEF PathsBetween, Last
        <3>2. p \in Seq(Node) /\ Len(p) = c - 1 /\ \A k \in 1..(c - 1) : p[k] = s[k + 1]
            BY <3>1
        <3> HIDE DEF c, p
        <3>3. c > 1
            <4>1. c # 1
                BY <1>2, <3>1
            <4> QED BY <3>1, <4>1
        <3>4. /\ 0 < Len(p) /\ Len(p) < MaxDepth
            BY <3>1, <3>2, <3>3, DepthIsPositive
        <3>5. p[0 + 1] \in DepsOf(start)
            <4>1. 1 \in 1..(c - 1)
                BY <3>1, <3>3
            <4>2. p[1] = s[1 + 1] /\ start \in known /\ s[1 + 1] \in forward[start]
                BY <3>1, <3>2, <4>1
            <4> QED BY <4>2 DEF DepsOf
        <3>6. p[Len(p)] = end
            <4>1. c - 1 \in 1..(c - 1) /\ (c - 1) + 1 = c
                BY <3>1, <3>3
            <4> QED BY <3>1, <3>2, <4>1
        <3>7. \A k \in (0 + 1)..(Len(p) - 1) : p[k] \in known /\ p[k + 1] \in forward[p[k]]
            <4> SUFFICES ASSUME NEW k \in 1..((c - 1) - 1)
                         PROVE  p[k] \in known /\ p[k + 1] \in forward[p[k]]
                BY <3>2
            <4>1. k \in 1..(c - 1) /\ k + 1 \in 1..(c - 1)
                BY <3>1
            <4> QED BY <3>1, <3>2, <4>1
        <3>8. \A k, l \in (0 + 1)..Len(p) : p[k] = p[l] => k = l
            <4> SUFFICES ASSUME NEW k \in 1..(c - 1), NEW l \in 1..(c - 1), p[k] = p[l]
                         PROVE  k = l
                BY <3>2
            <4>1. k + 1 \in 1..c /\ l + 1 \in 1..c /\ s[k + 1] = s[l + 1]
                BY <3>1, <3>2
            <4>2. k + 1 = l + 1
                BY <3>1, <4>1
            <4> QED BY <4>2
        <3>9. \A k \in (0 + 1)..Len(p) : p[k] \notin {start}
            <4> SUFFICES ASSUME NEW k \in 1..(c - 1) PROVE p[k] # start
                BY <3>2
            <4>1. k + 1 \in 1..c /\ 1 \in 1..c /\ k + 1 # 1
                BY <3>1
            <4> QED BY <3>1, <3>2, <4>1
        <3>10. LeadsOn(p, 0, DepsOf(start), {start}, end)
            BY <3>4, <3>5, <3>6, <3>7, <3>8, <3>9 DEF LeadsOn
        <3>11. Behind(p, <<>>) /\ Len(<<>>) = 0
            BY DEF Behind
        <3> QED BY <3>2, <3>10, <3>11 DEF Ways, p
    <2> QED BY <2>1, <2>2, <2>3
<1> QED BY <1>1, <1>2

(* PathsAreTheSimpleOnes for any graph: find_paths finds every path without  *)
(* a cycle that is short enough, and no other (debug.rs:160-212).            *)
THEOREM FindPathsIsComplete == DepsSpec => []PathsAreTheSimpleOnes
<1>1. DepsTypeOK => PathsAreTheSimpleOnes
    <2> SUFFICES ASSUME DepsTypeOK, NEW start \in Node, NEW end \in Node
                 PROVE  FindPaths(start, end) =
                    {Tail(s) : s \in {p \in {s \in SimplePaths : Len(s) <= MaxDepth} :
                                        p[1] = start /\ Last(p) = end}}
        BY DEF PathsAreTheSimpleOnes
    <2>1. {p \in {s \in SimplePaths : Len(s) <= MaxDepth} : p[1] = start /\ Last(p) = end}
            = PathsBetween(start, end)
        BY DEF PathsBetween
    <2> QED BY <2>1, SearchesFind
<1> QED BY <1>1, GraphTypeCorrect, PTL
=============================================================================
