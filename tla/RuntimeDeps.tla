---------------------------- MODULE RuntimeDeps ----------------------------
(***************************************************************************)
(* The dependency graph of a Runtime and the invalidation it drives        *)
(* (crates/picante/src/runtime.rs).  Edges are kept both ways, in two      *)
(* concurrent maps: a query that was computed replaces its dependencies    *)
(* (update_query_deps), and the write of an input walks the reverse edges  *)
(* and announces QueryInvalidated for what it reaches.                     *)
(*                                                                         *)
(* An action is what one thread does under one shard lock.  On a           *)
(* multi-threaded executor these interleave; on a current-thread one, a    *)
(* call runs to its end, since there is no await in any of them.           *)
(***************************************************************************)
EXTENDS Naturals, Sequences, SequencesExt, FiniteSets

CONSTANTS
    Source,       \* keys of inputs
    Computed,     \* keys of derived queries
    DepChoices,   \* the sets of dependencies a computation can come to have
    Caller,       \* threads
    MaxRevision,  \* bound on the revision counter ...
    MaxParallel,  \* ... and with several threads
    NoJob, NoNode

Node == Source \union Computed

ASSUME NodesApart ==
    /\ Source \intersect Computed = {}
    /\ NoNode \notin Node
    /\ IsFiniteSet(Node)
ASSUME ChoicesAreDeps == DepChoices \in [Computed -> SUBSET SUBSET Node]
ASSUME BoundsAreNat == MaxRevision \in Nat /\ MaxParallel \in 0..MaxRevision

\* A call under way: update_query_deps, the write of an input, a load.
Job ==
    [call : {"update"}, query : Computed, drop : SUBSET Node, add : SUBSET Node,
     node : Node \union {NoNode}, at : {"next", "test", "discard"}]
    \union [call : {"write"}, input : Source, rev : 0..MaxRevision,
            queue : Seq(Node), seen : SUBSET Node]
    \union [call : {"restore"}, saved : [Computed -> SUBSET Node],
            todo : SUBSET Computed, cleared : BOOLEAN]

ASSUME NoJobIsNone == NoJob \notin Job

VARIABLES
    parallel,   \* whether the executor has several threads; never changes
    revision,   \* current_revision
    changedAt,  \* of each input
    forward,    \* deps_by_query: the last dependencies of each query
    reverse,    \* reverse_deps: the queries that depend on each node
    known,      \* the queries that deps_by_query has an entry for
    job,        \* the call each thread is in
    verifiedAt, \* history: the revision each query was last verified at
    announced   \* history: the last revision each query was invalidated at

graph == <<forward, reverse, known>>
depsVars == <<parallel, revision, changedAt, graph, job, verifiedAt, announced>>

Idle(t) == job[t] = NoJob
In(t, call) == ~Idle(t) /\ job[t].call = call
AllIdle == \A t \in Caller : Idle(t)

\* Code without an await is not interrupted on a single thread.
OnlyThread == CHOOSE t \in Caller : TRUE
MayBegin(t) == Idle(t) /\ (parallel \/ t = OnlyThread)

DepsInit ==
    /\ parallel \in BOOLEAN
    /\ revision = 0
    /\ changedAt = [i \in Source |-> 0]
    /\ forward = [q \in Computed |-> {}]
    /\ reverse = [n \in Node |-> {}]
    /\ known = {}
    /\ job = [t \in Caller |-> NoJob]
    /\ verifiedAt = [q \in Computed |-> 0]
    /\ announced = [q \in Computed |-> 0]

\* What q depends on, itself and through other queries: the least set that has
\* its dependencies, and those of each query in it.
DependsOn(q) ==
    LET covering == {S \in SUBSET Node :
            forward[q] \subseteq S /\ \A p \in S \intersect Computed : forward[p] \subseteq S}
    IN  {n \in Node : \A S \in covering : n \in S}

\* An input that q depends on has changed since q was verified.
Stale(q) == \E i \in DependsOn(q) \intersect Source : changedAt[i] > verifiedAt[q]

\* A cell that answers without being revalidated.
UpToDate(q) == q \in known /\ verifiedAt[q] = revision

-----------------------------------------------------------------------------
(* update_query_deps: the query's entry is swapped first, then the edges it *)
(* no longer has are removed one by one, then those it has are inserted.    *)

\* Mutant: edges that the query no longer has are left behind.
SwappingNew(q, ds) ==
    [call |-> "update", query |-> q, drop |-> {}, add |-> ds, node |-> NoNode, at |-> "next"]

\* The edges of q from its old dependencies to ds are about to be updated.
Swapping(q, ds) ==
    [call |-> "update", query |-> q, drop |-> forward[q] \ ds, add |-> ds,
     node |-> NoNode, at |-> "next"]

\* The thread goes on with its call, which returns when nothing is left of it.
Continue(t, left) == job' = [job EXCEPT ![t] = left]
ContinueUpdate(t, left) ==
    Continue(t, IF left.drop = {} /\ left.add = {} /\ left.at = "next" THEN NoJob ELSE left)

\* q has been computed: its Running cell keeps other computations of it away.
\* A query reads other dependencies than before only if something changed, and
\* what it reads is verified first, unless another thread outdates it.
Update(t, q, ds) ==
    /\ MayBegin(t)
    /\ \A u \in Caller : ~(In(u, "update") /\ job[u].query = q) /\ ~In(u, "restore")
    /\ ~parallel =>
        /\ ~UpToDate(q)
        /\ q \notin known \/ Stale(q) \/ ds = forward[q]
        /\ \A p \in ds \intersect Computed : UpToDate(p)
    /\ ContinueUpdate(t, Swapping(q, ds))
    /\ forward' = [forward EXCEPT ![q] = ds]
    /\ known' = known \union {q}
    /\ verifiedAt' = [verifiedAt EXCEPT ![q] = revision]
    /\ UNCHANGED <<parallel, revision, changedAt, reverse, announced>>

\* The cell of q passes revalidation, whose dependencies have passed it or were
\* computed again: the graph is not touched.
Revalidate(t, q) ==
    /\ MayBegin(t)
    /\ \A u \in Caller : ~(In(u, "update") /\ job[u].query = q) /\ ~In(u, "restore")
    /\ q \in known
    /\ \A i \in forward[q] \intersect Source : changedAt[i] <= verifiedAt[q]
    /\ \A p \in forward[q] \intersect Computed : UpToDate(p)
    /\ verifiedAt' = [verifiedAt EXCEPT ![q] = revision]
    /\ UNCHANGED <<parallel, revision, changedAt, graph, job, announced>>

\* A guard of reverse_deps.get(n) is held: a removal has been made in the set
\* of n, and it has not been asked yet whether that set is empty.
Held(n) == \E u \in Caller : In(u, "update") /\ job[u].at = "test" /\ job[u].node = n

\* set.remove(&query), if there is an entry for the dependency.
RemoveEdge(t, n) ==
    /\ In(t, "update") /\ job[t].at = "next"
    /\ n \in job[t].drop
    /\ reverse' = [reverse EXCEPT ![n] = @ \ {job[t].query}]
    /\ LET left == [job[t] EXCEPT !.drop = @ \ {n}]
       IN  ContinueUpdate(t, IF reverse[n] = {} THEN left
                             ELSE [left EXCEPT !.node = n, !.at = "test"])
    /\ UNCHANGED <<parallel, revision, changedAt, forward, known, verifiedAt, announced>>

Resumed(t) == [job[t] EXCEPT !.node = NoNode, !.at = "next"]

\* Mutant: the entry is removed with the dependents it still has.
Dropped(n) == TRUE

\* set.is_empty()
Emptied(n) == reverse[n] = {}

\* The set is tested, and the guard dropped.
TestEmpty(t) ==
    /\ In(t, "update") /\ job[t].at = "test"
    /\ ContinueUpdate(t, IF Emptied(job[t].node) THEN [job[t] EXCEPT !.at = "discard"]
                         ELSE Resumed(t))
    /\ UNCHANGED <<parallel, revision, changedAt, graph, verifiedAt, announced>>

\* reverse_deps.remove(&dep_key), whatever is there by now.
DiscardEntry(t) ==
    /\ In(t, "update") /\ job[t].at = "discard"
    /\ ~Held(job[t].node)
    /\ reverse' = [reverse EXCEPT ![job[t].node] = {}]
    /\ ContinueUpdate(t, Resumed(t))
    /\ UNCHANGED <<parallel, revision, changedAt, forward, known, verifiedAt, announced>>

\* reverse_deps.entry(dep_key).or_default().insert(query), under a write lock.
InsertEdge(t, n) ==
    /\ In(t, "update") /\ job[t].at = "next"
    /\ job[t].drop = {} /\ n \in job[t].add
    /\ ~Held(n)
    /\ reverse' = [reverse EXCEPT ![n] = @ \union {job[t].query}]
    /\ ContinueUpdate(t, [job[t] EXCEPT !.add = @ \ {n}])
    /\ UNCHANGED <<parallel, revision, changedAt, forward, known, verifiedAt, announced>>

-----------------------------------------------------------------------------
(* The write of an input: bump_revision, the entry, notify_input_set or    *)
(* notify_input_removed, and propagate_invalidation.                       *)

BumpRevision(t, i) ==
    /\ MayBegin(t)
    /\ revision < IF parallel THEN MaxParallel ELSE MaxRevision
    /\ \A u \in Caller : ~In(u, "restore")
    /\ revision' = revision + 1
    /\ job' = [job EXCEPT ![t] = [call |-> "write", input |-> i, rev |-> revision + 1,
                                  queue |-> <<>>, seen |-> {}]]
    /\ UNCHANGED <<parallel, changedAt, graph, verifiedAt, announced>>

WriteEntry(t) ==
    /\ In(t, "write") /\ job[t].seen = {}
    /\ changedAt' = [changedAt EXCEPT ![job[t].input] = job[t].rev]
    /\ Continue(t, [job[t] EXCEPT !.queue = <<job[t].input>>, !.seen = {job[t].input}])
    /\ UNCHANGED <<parallel, revision, graph, verifiedAt, announced>>

\* Mutant: only what depends on the input itself is announced.
OfInput(t, n) == IF n \in Source THEN reverse[n] ELSE {}

\* Mutant: what is in the queue is not queued again, but what was is.
Unqueued(t, n) == reverse[n] \ ToSet(job[t].queue)

\* The dependents of n that the walk has not come by before.
Fresh(t, n) == reverse[n] \ job[t].seen

\* One node of the walk: an event for each dependent that is new, and each is
\* put in the queue.
Visit(t) ==
    /\ In(t, "write") /\ job[t].queue # <<>>
    /\ LET fresh == Fresh(t, Head(job[t].queue))
       IN  /\ \E s \in SetToSeqs(fresh) :
                LET queue == Tail(job[t].queue) \o s
                IN  Continue(t, IF queue = <<>> THEN NoJob
                                ELSE [job[t] EXCEPT !.queue = queue, !.seen = @ \union fresh])
           /\ announced' = [q \in Computed |->
                IF q \in fresh /\ job[t].rev > announced[q] THEN job[t].rev ELSE announced[q]]
    /\ UNCHANGED <<parallel, revision, changedAt, graph, verifiedAt>>

-----------------------------------------------------------------------------
(* A cache is loaded into a database that is otherwise not in use: the     *)
(* graph is cleared, then restore_runtime_state has the edges of each cell *)
(* that was in the file.  The file has with a query those that it reads:   *)
(* it was saved without limits and none of them had failed.                *)

BeginRestore(t) ==
    /\ MayBegin(t) /\ AllIdle
    /\ \E kept \in SUBSET known :
        /\ \A q \in kept : forward[q] \intersect Computed \subseteq kept
        /\ job' = [job EXCEPT ![t] = [call |-> "restore", saved |-> forward, todo |-> kept,
                                      cleared |-> FALSE]]
    /\ UNCHANGED <<parallel, revision, changedAt, graph, verifiedAt, announced>>

ContinueRestore(t, left) == Continue(t, IF left.cleared /\ left.todo = {} THEN NoJob ELSE left)

ClearGraph(t) ==
    /\ In(t, "restore") /\ ~job[t].cleared
    /\ forward' = [q \in Computed |-> {}] /\ known' = {}
    /\ reverse' = [n \in Node |-> {}]
    /\ ContinueRestore(t, [job[t] EXCEPT !.cleared = TRUE])
    /\ UNCHANGED <<parallel, revision, changedAt, verifiedAt, announced>>

\* update_query_deps of a query that has no entry.
RestoreQuery(t, q) ==
    /\ In(t, "restore") /\ job[t].cleared
    /\ q \in job[t].todo
    /\ LET ds == job[t].saved[q]
       IN  /\ forward' = [forward EXCEPT ![q] = ds]
           /\ reverse' = [n \in Node |-> IF n \in ds THEN reverse[n] \union {q} ELSE reverse[n]]
    /\ known' = known \union {q}
    /\ ContinueRestore(t, [job[t] EXCEPT !.todo = @ \ {q}])
    /\ UNCHANGED <<parallel, revision, changedAt, verifiedAt, announced>>

-----------------------------------------------------------------------------
BeginCall(t) ==
    \/ \E q \in Computed : Revalidate(t, q) \/ \E ds \in DepChoices[q] : Update(t, q, ds)
    \/ \E i \in Source : BumpRevision(t, i)
    \/ BeginRestore(t)

CallStep(t) ==
    \/ \E n \in Node : RemoveEdge(t, n) \/ InsertEdge(t, n)
    \/ TestEmpty(t) \/ DiscardEntry(t)
    \/ WriteEntry(t) \/ Visit(t)
    \/ ClearGraph(t)
    \/ \E q \in Computed : RestoreQuery(t, q)

DepsNext == \E t \in Caller : BeginCall(t) \/ CallStep(t)

\* A thread that is in a call goes on with it.
DepsFairness == \A t \in Caller : WF_depsVars(CallStep(t))

DepsSpec == DepsInit /\ [][DepsNext]_depsVars /\ DepsFairness

-----------------------------------------------------------------------------
(* Type correctness of the graph and of the calls under way. *)
DepsTypeOK ==
    /\ parallel \in BOOLEAN
    /\ revision \in 0..MaxRevision
    /\ changedAt \in [Source -> 0..MaxRevision]
    /\ forward \in [Computed -> SUBSET Node]
    /\ reverse \in [Node -> SUBSET Computed]
    /\ known \in SUBSET Computed
    /\ job \in [Caller -> Job \union {NoJob}]
    /\ verifiedAt \in [Computed -> 0..MaxRevision]
    /\ announced \in [Computed -> 0..MaxRevision]

(* A reverse edge that no dependency stands behind is on its way out, also  *)
(* when threads interleave: nothing is announced as invalidated by what it  *)
(* does not read (runtime.rs:204-218).                                      *)
NoPhantomEdge ==
    \A n \in Node : \A q \in reverse[n] :
        \/ n \in forward[q]
        \/ \E t \in Caller : In(t, "update") /\ job[t].query = q /\ n \in job[t].drop

(* On one thread the reverse edges are the dependencies, but for those that *)
(* are being inserted: remove-if-empty (runtime.rs:211-214) takes away an   *)
(* entry of the map and no edge.                                            *)
EdgesMirrored ==
    ~parallel =>
        \A q \in Computed : \A n \in forward[q] :
            \/ q \in reverse[n]
            \/ \E t \in Caller : In(t, "update") /\ job[t].query = q /\ n \in job[t].add

(* When no call is under way, a query that is out of date with an input it  *)
(* reads, itself or through others, has been announced as invalidated since *)
(* it was last verified: the walk misses nobody, also when the queries in   *)
(* between were computed again with other dependencies, and after a load    *)
(* (docs/content/internals/architecture.md:28).                             *)
StaleIsAnnounced ==
    ~parallel /\ AllIdle =>
        \A q \in known : \A i \in DependsOn(q) \intersect Source :
            changedAt[i] > verifiedAt[q] => announced[q] > verifiedAt[q]

(* The walk ends, on any graph: cycles are left in it by queries that       *)
(* handle the error of a cycle, and other threads change it on the way.     *)
WritesEnd == \A t \in Caller : In(t, "write") ~> ~In(t, "write")
=============================================================================
