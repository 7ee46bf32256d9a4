# picante: TLA+ models and proofs

picante is an async incremental-query runtime: inputs are set by the embedding
program, derived queries are memoized functions of inputs and of other queries,
and after a write only what depends on the change is computed again. This
directory models its query engine and the stores around it in TLA+, checks the
models with TLC, and proves theorems about them with TLAPS. References are to
`src/crates/picante/src` unless they start with `docs/`; `docs/spec/picante.md`
is the repository's specification.

## 1. The system

| Part | State | Operations | Meets the others through |
|---|---|---|---|
| In-flight registry (`inflight.rs:135-300`) | process-wide map from (scope, revision, query, key) to an entry: Running, Done, Failed or Cancelled, and a `Notify` | `try_lead`; `complete`, `fail` and `Drop` of the leader's guard; followers subscribe, look, sleep | called by derived queries; couples all databases of the process |
| Shared result cache (`inflight.rs:30-134`) | process-wide map from (scope, query, key) to a record with stamps; an eviction order and a limit | `shared_cache_get`, `shared_cache_put` | read before, written after a computation |
| Derived queries (`ingredient/derived.rs`) | per key a cell: Vacant, Running, Ready with value, `verified_at`, `changed_at`, dependencies, or Poisoned; a `Notify` | `get`, `touch`, `access_scoped_erased`, `try_revalidate`, snapshot of cells, promotion, save and load | call inputs and each other; frames; registry; cache; revisions |
| Inputs (`ingredient/input.rs`) | per key a value or a tombstone, and `changed_at` | `set`, `remove`, `get`, `touch`, snapshot, save and load | bump the revision, mark the runtime divergent, emit events |
| Interned values (`ingredient/interned.rs`) | value to id, id to value, the next id | `intern`, `get`, `touch`, save and load | ids are stored in other values |
| Runtime (`runtime.rs`) | revision, cache scope, dependency edges both ways, event channels | `bump_revision`, `set_current_revision`, `mark_divergent`, `update_query_deps`, `clear_dependency_graph`, `notify_*` | used by every ingredient; the edges drive events and nothing else |
| Debug tools (`debug.rs`) | the recorded trace of a collector | roots, leaves, paths and counts of the dependency graph; `start`, `stop`, `snapshot` of a collector | snapshots of the edges, a subscription to the events |
| Value equality (`facet_eq.rs`) | none | `facet_eq`, `facet_eq_direct` | decides whether a set is a change, and early cutoff |
| Frames (`frame.rs`) | per task a stack of queries being computed and their dependencies | push, pop on drop, `record_dep`, `find_cycle` | cycle detection, dependency recording |
| Snapshots (generated by `picante-macros/src/db.rs:547-580`) | a database of its own | `from_database` | copy of runtime, inputs and cells, one after the other |
| Persistence (`persist.rs`, `wal.rs`) | a base file and a log | save, load, append, replay, compact | every ingredient's records |
| The rest | - | keys, errors, registry of ingredients, macros | - |

What is hard in it:

- Many tasks use one database. The cell of a query is a lock (Running) made of a
  value and a `Notify`; revalidation drops the lock to touch the dependencies.
- Futures are dropped. Every await is a place where an access may end.
- A write is two steps: the revision first, the entry later.
- Results cross databases through the shared cache and the registry, whose
  revisions are counted separately once a snapshot exists.
- Early cutoff keeps old stamps, so what is current rests on an argument about
  the past of every dependency.
- Files are written, renamed and deleted in steps with crashes in between.
- The stores are concurrent maps with a lock per shard, or two maps that have to
  agree: what is looked at under one lock is acted on under the next.
- Limits (of the shared cache, the event channel, a saved file, 32-bit ids) are
  met by dropping something, and what is dropped must not be missed.

What makes each part correct: one leader per key, no follower left behind, one
outcome per flight (registry); one computation of a query at a time in a view, no
waiter left behind, every answer the meaning of the query on the inputs of its view,
failures no longer than their cause, cycles reported (derived queries); a query that
has read a changed input is not current (inputs); nothing of one view shows in
another (snapshots, cache); one id per value, for ever (interned); what was flushed
survives every crash, and what is loaded answers right (persistence); edges that are
the dependencies both ways, and an event for whatever a write puts out of date
(runtime); a limit that holds and keeps the newest (cache), or leaves nothing that
refers to what is gone (saves); a change exactly when the meaning changes
(equality). `PROJECT.json` lists 40 hazards with the lines where they bite.

## 2. Modules

| Module | What it is |
|---|---|
| `InFlight` | The registry: holders lead, settle, publish and remove, or join, subscribe, look, sleep and take. |
| `InFlight_proofs` | Its inductive invariant, and the theorems. |
| `Database` | Views (the database and its snapshots): revisions, cache scopes, inputs, the two steps of a write, the steps of making a snapshot. |
| `Derived` | The query engine: the accesses of any number of tasks over the views, the cells, the shared cache; `Reg == INSTANCE InFlight` with a task's access as a holder. |
| `Derived_proofs` | The proofs about `Derived` itself: its types, its use of the registry, one computation of a query at a time, who owns a Running cell and who comes to one that others sleep on. |
| `Reference` | What a query means: its program run from scratch on the inputs. Recursive, used by TLC only. |
| `QueryService` | The abstract specification: views with contents, writes, forks, questions, and answers that are the meaning of the query on the contents its view has at that instant. No cache, no revision, no flight. |
| `DerivedCorrect` | The properties that compare `Derived` with the meaning of its programs, `Truth`, and the refinement of `QueryService` (`ImplementsService`). |
| `DerivedMeaning_proofs` | The invariant by which what the engine keeps is right (`MeaningInv`), and what keeps it. |
| `DerivedCorrect_proofs` | Every step keeps it; the theorems on `DerivedCorrect`'s properties and the refinement. |
| `Persist` | The base file, the log, and a process that saves, logs, compacts, crashes at any moment and starts again. |
| `Persist_proofs` | Its inductive invariant, and the theorems. |
| `RuntimeDeps` | The dependency edges both ways, as threads update them shard lock by shard lock; bumps, writes and the walk of invalidation; loads. |
| `DebugGraph` | The reports of `debug.rs` on a graph that `RuntimeDeps` can have. |
| `RuntimeDeps_proofs` | The inductive invariants of the graph, what a search through it finds, and the theorems on both modules. |
| `SharedCache` | The eviction order and the limit of the shared cache, with puts from several threads. |
| `SharedCache_proofs` | Its two inductive invariants, and the theorems. |
| `Interned` | An interned table: threads that intern, saves while they do, restarts. |
| `TraceCollector` | The event channel and the task that records from it. |
| `CacheLimits` | What the size options of a save leave out of the file. |
| `ValueEq` | The structural equality, at its work in `set`. |
| `Stores_proofs` | The inductive invariants of `Interned`, `TraceCollector`, `CacheLimits` and `ValueEq`, and the theorems. |
| `MCInFlight`, `MCDerived`, `MCPersist`, `MCStores` | Instances for TLC: names, the programs of the queries, and the small values the stores keep. |

### From code to model

**`InFlight`.** One entry per `InFlightEntry`; `role` says where a holder is in
`try_lead` and in what follows. A settled entry is written (`Settle`), its
followers woken (`NotifyWaiters`) and the key removed (`Remove`) in three steps,
as the code does it under three different locks; a key can be led again before
the wake-up. `Remove` is unconditional, as `registry.remove(&key)` is. A
follower subscribes before it looks (`Subscribe`, `Wait`).

**`Database`.** `input[v][i]` is the value and `changed_at` of an entry. `Bump`
is `set` or `remove` up to `bump_revision`, `MarkDivergent` and `Write` the rest.
A set to the present value changes nothing and is no step. `hist` is a history
variable: the contents of each view at each revision; no action reads it.

**`Derived`.** A task has a stack of accesses, `stack[t]`, one `frame[t][q]`
each, and only the top one runs. The `pc` of an access is a point between two
lock sections or awaits of `access_scoped_erased`; an action is the code from
one to the next:

| Actions | Code |
|---|---|
| `Get`, `ReadRevision`, `Observe`, `Check`, `Await` | the loop: read the revision, make the `Notified`, look at the cell; return if the revision is still the same (286-360) |
| `Touch`, `Verify`, `Raise` | `try_revalidate` of the cell (361-397, 769-804) |
| `Start` | take the cell: Running (398-427) |
| `SharedGet`, `Touch`, `Adopt`, `SharedPut`, `Evict` | look in the shared cache, revalidate or adopt the record, put it back (429-482, 678-690) |
| `TryLead`, `Vacate`, `Follow`, `TakeOutcome` | lead the flight, or give the cell back and follow (484-611) |
| `ReadInput`, `ReadQuery`, `Finish`, `Poison`, `SettleFlight`, `PublishFlight` | compute, store the result with early cutoff or the failure, settle the flight (613-762) |
| `Cancel`, `Drop` | the future is dropped at an await; frames and guards are dropped from the inside out |
| `SnapshotCells` | `snapshot_cells_deep` for one ingredient |

The body of a query is user code: `Program(q, seen)` gives what it does next
after it has read the list `seen`: get an ingredient, return a value, or fail.
Programs are deterministic functions of what they read, which the repository's
specification asks of queries too.

`DerivedCorrect` has the meaning of a query on the inputs as a constant, `Truth`.
What makes it that is an equation, `TruthIsMeant`: if a program, told the meaning of
what it asks for, ends, then where it ends is `Truth`. For TLC, `MCDerived` gives
`Truth` the recursive `Reference!Meaning`, which says what a cycle means too, and
assumes of its programs (`MeantAndMeaning`) what the theorems assume of all.

Left out of `Derived`, because no access reads it: tracing, the runtime's
dependency graph and its events (`RuntimeDeps` has the last two). Values are
compared with `=`, which is what `facet_eq` decides of values that can be
compared (`ValueEq`). One key per ingredient: keys of one ingredient do not
interact but through the graph of dependencies, where two keys are two queries.

**`Persist`.** The database is what persistence sees of it: inputs with their
`changed_at`, and one derived query, which reads them all, with its cell; reading
and revalidating it is one step here (`Query`), its steps are in `Derived`. A
call of `save_cache_with_options`, `compact_wal` or `append_to_wal` is a list of
steps (`Plan`), one for each await, lock section or file operation that another
actor or a crash can come between; what it has collected is in `op`. A save or an
append goes through the ingredients in the order of the caller's list
(persist.rs:614), which for `persistable_ingredients` (db.rs:57-63) is that of a hash
map: `cellsFirst`, chosen by the caller, and `Place` have both orders. A program
saves and then creates the log at the current revision, as `wal.rs:27-32` shows; a
compaction creates one and drops its writer (persist.rs:812), so that the program
opens another. A writer may be open meanwhile, as in `wal.rs:27-43`: its `file` is the
log, or was `deleted` under it, or `truncated` by the one that is made next, and what
it then writes, flushes or drops goes there (`Spilled`). An operation on files may
fail (`IoError`), and an append half way (`AppendFails`): some of its entries are
then in the `BufWriter`, perhaps with a part of the next one (`cut`), after which
nothing of what is appended can be read. A flush that fails leaves no more in the file
than a crash does.
`Crash` is the death of the process, not of the machine: what a flush wrote is in
the file, of the `BufWriter` any prefix may be, cut anywhere (`torn`; a cut
within the four bytes of a length reads as the end). Bytes after a cut entry are
taken for unreadable. `OpenLog` refuses a log whose
base revision is not the one loaded, `ReplayEntry` applies one entry, and `EndReplay`
sets the revision after the last one or fails at a torn one, with the entries
before it applied; the process can die between any two. `DiscardLog` is what the
embedding program must do after a failure.
`kept` is a history variable: the inputs as the last save or flush that returned
left them in the files.

**`RuntimeDeps`.** `forward` and `known` are `deps_by_query`, `reverse` is
`reverse_deps`, where an entry that is missing and one that is empty are the same.
A thread is in at most one call, `job[t]`, and an action is what the call does
under one shard lock:

| Actions | Code |
|---|---|
| `Update` | a computation ends: `deps_by_query.insert` (derived.rs:655-666, runtime.rs:196) |
| `Revalidate` | a cell passes `try_revalidate`: no edge changes, `verified_at` does (derived.rs:361-396) |
| `RemoveEdge`, `TestEmpty`, `DiscardEntry` | for each dependency no longer there: remove the query from its set, ask whether the set is empty, drop the guard and remove the entry (205-218) |
| `InsertEdge` | for each dependency: insert the query (220-228) |
| `BumpRevision`, `WriteEntry`, `Visit` | `set` or `remove`, and one node of the walk (142-152, 162-191, 276-307) |
| `BeginRestore`, `ClearGraph`, `RestoreQuery` | a load clears the graph and enters the edges of each loaded cell |

Between `RemoveEdge` and `TestEmpty` the guard is held and keeps others of that
entry out (`Held`); between `TestEmpty` and `DiscardEntry` it is not, which is the
window of remove-if-empty. The `DashSet` inside an entry has locks of its own, but
nobody else can reach it while the guard is held exclusively, and two removals
under shared guards of one entry commute. None of these calls awaits, so on a
current-thread executor a call runs to its end: `parallel`, chosen at the start,
says whether threads interleave. A query that is computed anew reads what is
verified at this revision, and reads what it read before unless an input it
depends on has changed since it was verified; revalidating it is what
`verifiedAt` follows, as `verified_at` does. With several threads this is not
asked for, since another may write on the way. What is said of one thread is
therefore said of programs that write between computations and not within one,
and of queries that do not read one that failed, so not of cycles either; the
graphs of several threads have them.
`DependsOn` is the least set with the dependencies of a query and of each query in
it, written as what all sets with them have in common: that can be proved about.

**`DebugGraph`** reads those variables and adds none. `PathsAt` is a call of
`find_paths_recursive` and `PathsOver` its loop over the dependencies of a node. A
search is a record of what is still to be gone over, the end, the path and the
visited nodes; one set of these is threaded through the recursion, as the code's
`&mut` does. The paths found are a set; the order of a report is left out.
`PathsOver` is a recursive function rather than a recursive operator, because the
provers can reason about the first only. Dependencies are lists here, in the order of
reading and with a key that was read twice in them twice, because `record_dep` does
not look whether it is there (frame.rs:110-117): `DepList` gives the list for a set
of `RuntimeDeps`, for which only the set matters. `CacheStats::collect` adds up the
lengths of the lists (debug.rs:237), which is the number of places in them (`Reads`).

**`SharedCache`.** Of a record only its insert id is kept. A put takes an id, locks
the order and enters itself, evicts while the map is over its limit (look at the
oldest entry, then remove its key, two steps), unlocks, and inserts last.

**`Interned`.** The vacant entry of a value is held from the lookup to the insert
(`EntryHeld`), while the id is taken and entered in the other map. A save iterates
over `by_id` as it changes: it sees what is there all the time and any part of the
rest. A restart loses what was not saved, ids and calls under way with it. `IdLimit`
stands for 2^32.

**`TraceCollector`.** The channel is that of tokio: a receiver that is more than
`Capacity` behind gets `Lagged` once. The collector's `while let Ok` ends there.

**`CacheLimits`.** The three options, in the order the code applies them: records
that are too long, records after the first so many of a section, and the loop that
drops the largest of a class until the file fits. A file takes `FileBytes` without
its records, and `LengthBytes[n]` for a length of `n`: the number of records of a
section, the bytes of a record. In the code these are varints; here a longer length
takes no fewer bytes, and that is all that is asked. Bytes are counted as a set of
places, so that no sum has to be folded. What `retain` leaves of a sequence is what
is at some of its places, in their order.

**`ValueEq`.** A value is a leaf, a product (options, results, lists, variants and
structs, with the metadata fields of a struct apart), a map or a set, the last two
with the order in which they happen to iterate. `PeekEq` goes through them as
`peek_eq` does (`EqOf` is one step, given what is said of the parts); `Unequal` are
the leaves it never finds equal. Keys of maps and elements of sets stand for
themselves: they are found in the other container by the `Eq` and `Hash` of their type.
Values have types (`ValueSet`), and what the two are that are compared is of one:
`facet_eq` is called with two values of one Rust type, and the parts at one place of
a product have one type again. `Meaning` is what `PeekEq` is compared with, a value
without its order and its metadata.

### Environments

What is true of the engine depends on what the embedding program does, and the
code asks little of it. The specifications of `Derived` differ only in that
(`Calls` is what the program starts, `Runs` what then happens by itself):

- `Spec`: any call at any moment.
- `FairSingleSpec`: any call at any moment, of a database without snapshots.
- `QuietSpec`: a view is written only while no access runs in it, and the database not
  while a snapshot is being made. This is how the repository's own tests and examples
  use it.
- `FrozenSpec`: besides, the database is left alone once a snapshot exists; the snapshot
  may be written, and diverges.
- `ReadOnlySpec`: besides, snapshots are not written either.
- `FairSpec`, `FairSingleSpec`, `FairQuietSpec`, `FairFrozenSpec`: `WF` of a task's
  `Step` once its access runs (the executor polls a woken task again) and of the second
  half of a write (a call of `set` runs to its end; it has no await). There is no
  fairness for asking, writing, snapshots, eviction or cancellation.

`Persist` has three. In `Spec` the program does what it likes. In `BusySpec` it keeps
to what the code takes for granted and does not check (`Orderly`):

- it appends only with the writer of the present log (`Usable`), and with none after
  an append that failed half way;
- when it logs, the inputs come before the queries in its list; when it saves, in any
  order;
- when it saves and makes a new log, nothing of the old writer can get into that
  (`Spent`): what was appended was flushed, or the file was deleted. It may keep the
  writer, and compact with it open.

In `QuietSpec`, besides, the database is left alone while a save, compaction or append
is under way. Flushes, dropped writers, I/O errors and crashes are at any moment in
all three. These are not assumptions for convenience: without any one of them a
property of the run is false, and TLC has the counterexample (3, below).

The stores need none. Their fairness is that a thread in a call of the runtime
goes on with it (`DepsFairness`: there is no await in them) and that the task of a
collector is polled when it was woken (`TraceFairness`). Nothing obliges anybody
to write, to send or to put.

## 3. What TLC checks

| Run | Bounds | Shows |
|---|---|---|
| `flight` | 3 holders, 2 keys, 3 entries | types; one leader per key (`SingleFlight`); the unconditional remove never takes another flight's entry (`OwnEntryRegistered`); what a follower can find or wait for is led (`EveryFlightIsLed`); no lost wake-up (`NoLostWakeup`); one outcome per flight (`OutcomeIsFinal`); followers are released (`FollowersReleased`) |
| `read_only` | 1 task, the database and a snapshot that is read only, 2 inputs, 2 queries, 3 revisions | types; a cell whose dependencies pass revalidation holds the meaning of its query (`RevalidationIsSound`); every answer is right (`ImplementsService`) |
| `quiet_two` | 2 tasks, 1 input, 2 queries that fail on one value of it and form a cycle on another, 3 revisions | one computation of a query at a time (`OneOwner`); what a cell holds is the meaning of its query at the revision it is verified at, failures and cycles too (`CellMeaning`, `ImplementsService`) |
| `family` | the database and a snapshot, 2 tasks, one droppable, 2 revisions each, eviction at any moment | `verified_at` and `changed_at` stay in order (`StampsInOrder`); a shared record that can be adopted is right (`AdoptionIsSound`); sharing is not observable through a query without queries below it (`ImplementsService`); when the dropped task is not in the snapshot, no access there is held up (`CancelStaysLocal`) |
| `races` | 2 tasks, writes at any moment, 2 revisions | a Running cell is somebody's (`RunningIsOwned`); nobody sleeps on a settled cell (`NoSleepOnSettledCell`); the accesses use the registry as `InFlight` specifies it (`ImplementsRegistry`); every access returns (`AccessesReturn`) |
| `persist` | 2 inputs with one value, 3 revisions, logs of 4 entries; a program that keeps to the rules of `QuietSpec` | types; what was saved or flushed is there after any crash (`FlushedIsDurable`); a cell that answers without being computed is right (`CacheIsSound`); no stamp is ahead of the revision (`RevisionCovers`) |
| `stores`: graph | 2 inputs, 3 queries with two choices of dependencies each, 2 threads; 2 revisions on one thread, 1 on two | a reverse edge without a dependency is on its way out, whatever threads do (`NoPhantomEdge`); on one thread no reverse edge is missing (`EdgesMirrored`); what is out of date has been announced since it was verified (`StaleIsAnnounced`); a walk ends, also on a cycle (`WritesEnd`) |
| its reports | the same, a query that reads one key twice, `MaxDepth` 3 | `find_paths` finds the paths without a cycle that are not too long, all and only those (`PathsAreTheSimpleOnes`); the edges counted in the lists are those of the reverse map and, where a key was read twice, more (`ReportsAgree`) |
| shared cache | 3 keys, 2 threads, a limit of 0 or 1, 5 puts, 4 if they overlap | what can be evicted is bounded (`EvictableAreBounded`); puts one after the other keep the newest (`NewestAreKept`) |
| interned | 3 values, 3 ids, 2 threads, any number of saves and restarts | an id names its value until ids run out (`IdsAreStable`); what was saved meanwhile can be loaded (`SavedTableLoads`) |
| trace | a channel of 2, 3 events | the trace is a prefix of what was sent (`TraceHasNoGap`); without a lag everything is recorded (`EventsAreRecorded`) |
| save | 4 sections, two of them derived, 24 contents, 7 values of each option | with `max_bytes` alone nothing refers to what was dropped (`NothingDangles`); dropping leads to a file that fits (`DroppingSuffices`) |
| values | 13 types, leaves, containers and containers of containers, all pairs of the values of a type | a set that changes the meaning takes a revision; one that does not takes none, if the value can be compared with itself (`RevisionIffChanged`) |

Why the bounds are enough. Three holders are a leader, a follower and one that
comes after the flight. Three revisions let an input be set, changed or removed,
and changed back, so that a value with an old `changed_at` meets an input with
a new one and an equal value; `outer` of the chain program reads `b` or not, so
the dependencies vary. Two tasks meet on the cell, on the flight and in the
cache. One snapshot is enough for two timelines; two would only meet through
the same scope. Each bound is a constant (`MaxRev`, the sets of tasks, views,
inputs, values and entries); `AccessesHaveEntries` says that entries never run
out, and `MaxRev` stops writes, not accesses. In `persist`, three revisions let an
input be saved, changed and logged, removed and logged again, or lost, with its
revision given out anew after the crash; a log of four holds two appends. `MaxRev`
and `MaxLog` stop writes and appends, and a crash is always possible. `quiet_two`
may stop: two tasks that enter a cycle from its two ends wait for each other, which
the repository's specification allows (`docs/spec/picante.md:686`). No other passing
run can.

`stores` is one run of six stores, of which a behaviour has one (`store`, chosen
at the start): they do not call one another, and their product would say no more.
The graph of that run has a cycle, two ways from one query to another and a query
that reads nothing; two revisions put a query out of date, let it be computed with
other dependencies, and put it out of date again through them. Its paths
without a cycle have up to four nodes, one more than `MaxDepth` lets through. Five
puts let a key be put again, evicted by a third and put once more. Three ids and
three values, with a value lost in a restart, make the counter wrap. A channel of
two and three events lag by one. The contents of a file have equal lengths, a long
record at each place and a class with two sections, and a length in them takes
one byte or two. The values go two containers deep: products and maps of
lists, lists and products with a struct or a map in them. `Stopped` lets the stores that
count up to a bound stay there; the graph, the table and the values may not stop.

`RunningIsOwned` and `AccessesReturn` are checked for programs that do not fail
and without cancellation, because with either they are false (below). `OneOwner`
is checked under `QuietSpec`: with writes at any moment a second access may take
over a cell that a late follower made Ready.

### Where the code and its specification part

Five runs check what the specification or a comment says and find it violated;
the counterexamples are short and each step of them is in the code.

- `v_cancel` / `CancelProgress` (spec 670-672): a leader is dropped while its cell
  is Running. The flight is cancelled by its guard, the cell has none: it stays
  Running and every later access of that query in that view waits for ever.
- `v_stuck` / `AccessesReturn` (spec 548): a shared record is revalidated with the
  cell already Running, a dependency fails, and `?` (derived.rs:439) leaves it so.
- `v_isolation` / `SnapshotIsolation` (spec 762-763): a snapshot adopts a record
  the database computed from a later write; the stamps of its own, older inputs
  pass the comparison with the record's `changed_at`.
- `v_stale` / `CurrentCellIsTrue` (spec 676-677): a query that runs between the
  bump and the write of `set` keeps the old value as current at the new revision.
- `v_gap` / `FlushedIsDurable` (`wal.rs:9`): `save_cache` reads the revision after
  it collected the inputs. A write in between is not in the base, and no append
  to the log of that base takes it for new, so it is lost on restart although
  the log was appended to and flushed later.

What `QuietSpec` of `Persist` asks of the program is what the code leaves open. TLC
finds each of these when the rule is taken out of `Orderly`:

- With the queries first in the list of `append_to_wal`, a crash may cut the log
  between a cell and the inputs it was computed from. The entry of a cell is applied
  with its `verified_at` and dated by its `changed_at`, so the cell is then ahead of
  the revision and answers for inputs it was not computed from: `RevisionCovers` and
  `CacheIsSound` are false. `persist.rs:614` takes the caller's order,
  `tests/persist.rs:499` and `:533` that of a hash map (db.rs:57-63); the lists that
  the macros generate have the inputs first.
- `wal.rs:27-43` compacts with the writer `wal` in scope. What that appends and
  flushes afterwards goes to a deleted file without an error. A save in the place of
  the compaction truncates the log under a writer that is still open, and what this
  had not flushed lands in the new log. Both break `FlushedIsDurable`, the second
  `CacheIsSound` too.
- An append that fails half way may leave a part of an entry in the `BufWriter`
  (wal.rs:219-239), and nothing keeps the program from appending more and flushing it.
  A replay cannot get past the cut: `FlushedIsDurable` is false.

Not checked, but met while modelling: the error of a dependency touched while
revalidating is passed on through `?` (derived.rs:364) without running the query
that may handle it, which spec 655 promises; the programs of the runs therefore
pass failures on. A snapshot that adopts a current record takes its dependencies on
trust (derived.rs:434), without touching them; if it is then written, one of those
may be computed anew and compared with the older cell the snapshot was made with
(645), whose value may be the new one by chance: early cutoff then keeps its
old stamp, and what was adopted passes revalidation (797) though an input it
depends on has changed, against spec 676-677. TLC finds this under `FrozenSpec` with
two queries in a chain (`RelayProgram`). So `RevalidationIsSound` is stated of
snapshots that are only read, and `family` has one query. The entries of an append
are in the order of a hash map, so a torn log may restore a later write without an
earlier one. `OnCorruptCache::Ignore` (persist.rs:25) leaves in place what was
loaded before the section that could not be decoded.

Of the stores, what their properties leave room for and why:

- With several threads `EdgesMirrored` does not hold: a reverse edge inserted between
  the test and the removal of an entry (runtime.rs:213-215) is lost, and with it
  invalidation events, until the query is computed with that dependency new again. No
  answer depends on it.
- `leaf_queries` (debug.rs:141-153), documented as the queries that nothing depends on,
  removes the dependents instead, so it gives the same as `root_queries`. No property
  says so: it is not what the comment (141) promises.
- `total_dependency_edges` (debug.rs:237) counts an edge as often as the key was read,
  while the reverse map has it once.
- A collector that lags once stops recording without a sign, though it is documented to
  record all events (debug.rs:340).
- Of the size options only `max_bytes` keeps what other records refer to:
  `max_record_bytes` and `max_records_per_section` can drop an input or an interned
  value and keep what was computed from it.
- The shared cache can exceed its maximum by one record for each put that overlaps, and
  a put overtaken between its unlock and its insert leaves a record that no order entry
  can evict. Keys that are put again and again while the map is within its limit
  lengthen the order without bound.
- Ids are reused when the 32-bit counter wraps; and an id that was not saved is given to
  another value after a restart, since the log has no interned values: a program that
  logs inputs which hold ids must save for itself.
- NaN and types without `PartialEq` are never equal, so setting them is always a change,
  though the specification wants the comparison reflexive (`docs/spec/picante.md:374`)
  and a set to an equal value without effect (`:384`). `RevisionIffChanged` leaves such
  values out of its second half; a set that changes only metadata fields is dropped with
  its value.

## 4. What is proved

`InFlight_proofs` proves, for any sets of holders, keys, results and entries, all
six safety properties of `InFlight`: `TypeCorrect`, `SingleFlightHolds`,
`RemovesItsOwn`, `FlightsAreLed`, `WakeupsAreKept` and `OutcomesAreFinal`. The only
assumptions are that `NoEntry`, `NoKey` and `NoResult` are no entry, key or result.

The invariant is `IInv`. `SingleFlight` alone is not inductive: a step that
registers an entry must know that nobody still leads it and that the entry of
another flight is not registered under this key. So `IInv` adds that an entry
has at most one leader (`EntryLedOnce`), that a leader's place and its entry's
state agree (`LeaderMatchesEntry`), that a leader's own entry is the registered
one until it is removed (`OwnEntryRegistered`), that a registered entry and a
Running one are led (`RegisteredIsLed`, `RunningIsLed`), and that a follower
about to sleep is among the waiters or its entry is not Running any more
(`NoLostWakeup`). Each action has a lemma with one step per conjunct.
`OutcomeIsFinal` is an action property and follows from `IInv` step by step.

`RuntimeDeps_proofs` proves, for any graph, any threads and any bounds, that the
types are kept (`GraphTypeCorrect`), `NoPhantoms` (`NoPhantomEdge`),
`MirroredOnOneThread` (`EdgesMirrored`) and `StaleQueriesAreAnnounced`
(`StaleIsAnnounced`). It assumes what `RuntimeDeps` assumes of
its constants: inputs and queries are apart and finitely many, `DepChoices` are
sets of them, `NoNode` and `NoJob` are none.

The invariant is `GraphInv`. That reverse edges are dependencies is not inductive
by itself, because the two maps are updated one edge at a time: a call under way
owes edges. `OwedEdges` says that what it is yet to insert are dependencies and
what it is yet to remove are not, so the sets it keeps can stand in for the edges;
`TodoIsBare` says the same of a load, and `RestoreIsAlone` that a load runs by
itself. For the other direction there is `OneThread`, and `DiscardsNothing`: the
entry a thread is about to remove is still as empty as when it looked, which is
what several threads break. Each action has a lemma.

`StaleIsAnnounced` rests on `ToldInv`, which is about one thread. `ToldOrCurrent`
is the property with the exception of the input that is being announced
(`Walking`), `WalksAreClosed` is why the walk ends with everybody told: what depends
on a node it has seen has been seen, unless the node is still in the queue. The
step that could go wrong is a computation that gives a query other dependencies,
one of them changed a while ago, and queries above it that are told nothing. They
need not be: by `VerifiedBelow` the query was verified when they were, or later,
so it is stale only if they have been told since. This is where revalidation
matters; a graph in which stale were what changed since the last *computation*
would not have the property, along a chain of four queries. A load keeps the
invariant of the graph in the file, of which it has a part at any moment
(`LoadsKeepMeaning`). The bounds of the run are too small for all of that; TLC
checked the invariant on that chain as well, and on three queries with loads,
before it was proved.

The reports of `DebugGraph` are proved about in the same module, while no call is under
way on one thread: `ReportsAgreeOnOneThread` (`ReportsAgree`), from `GraphInv`, that
what has dependencies has an entry (`KnownHaveDeps`), and that the reads of the lists go
onto the edges of the sets, one to one exactly when nothing is read twice
(`ReadsAreCounted`); and `FindPathsIsComplete` (`PathsAreTheSimpleOnes`). They assume
besides that the maximal depth is positive and that `DepList` has lists of the
dependencies, of any bounded length and with any repetitions (`ListsAreOfDeps`). TLA+
defines a recursive function by choosing one that satisfies its equation, so it has to
be shown first that there is one (`SearchIsDefined`): each call that a search makes has
a lower `Rank`, which counts the depth that is left and, below it, the nodes still to be
gone over (`SearchEnds`). With that, a search returns the visited set as it was given it
and finds the `Ways` on from its path: those over one node and then those over the
others, where the ways over a node that is not the end are the ways over its
dependencies that avoid it (`WaysOverNode`, `SearchIsRight`). This is the reason that
sharing the visited set is harmless and forgetting to take a node out of it is not. The
induction over the rank is `SetInduction`, which is stated of a set of numbers and not
of a predicate, and so can be used by the provers installed.

### The query engine

Three modules, each on top of the one before, for any tasks, views, inputs, queries,
values and bounds. They assume what `Database`, `Derived` and `DerivedCorrect` assume
of their constants: the names for "none" are none of the things they stand beside,
inputs and queries are apart and all of them are listed in `Ingredients`, tasks and
queries are finitely many with an entry of the registry for each pair, errors are not
values, the bounds are numbers, and a program that has read `MaxReads` things ends.

`Derived_proofs`. Under `Spec`, whatever the embedding program does and however
tasks are dropped: types (`EngineTypeCorrect`), and that the engine implements the
registry (`EngineImplementsRegistry`, the property `ImplementsRegistry`), by which
all that `InFlight_proofs` proves holds of the engine's flights. The invariant is
`EngineInv`: an access has a record or an answer wherever its code takes one for
granted (`HasWhatItNeeds`), has read no more than its program may (`StacksFit`), and
its place agrees with its role in the registry (`EntriesFit`). Each step of an
access is one action of `InFlight` or a stutter. Under `QuietSpec`:
`QueriesAreComputedOnce` (`OneOwner`). `QuietInv` adds to it that an access in
progress uses the revision its view has (`AtRevision`) and that the cell an access
owns is Running or current (`OwnedIsTaken`), so that nobody else takes it. A late
follower may make a cell Ready that another one owns; what it writes is current, and
that is what keeps a third access from taking it unless a write comes between.

Also under `Spec`, in any views and with writes at any moment:
`RunningCellsAreOwned` (`RunningIsOwned`) and `NobodySleepsOnASettledCell`
(`NoSleepOnSettledCell`). Both are false in general, and the theorems say exactly
what breaks them: a step `Leaves` a place if an access there is dropped, or fails
with a dependency of the shared record that it revalidates (derived.rs:439). The
first holds as long as no step leaves the places that own a cell, the second as long
as none leaves those or the places of an access that is coming to one; `v_cancel`
and `v_stuck` are runs with such steps. Every other failure is allowed: a program
that fails, a dependency that fails in a computation or in a revalidation of the
view's own cell, and tasks dropped anywhere else. The invariant is `MeetingInv`: a
sleeper's cell is Running, or it is Vacant and somebody `Arrives`
(`SleepersAreMet`). The second case is the follower's doing, which gives its cell
back without a word and comes to write it when the flight is over. TLC checked it
with two and with three tasks before it was proved.

`DerivedMeaning_proofs` and `DerivedCorrect_proofs` prove under `ReadOnlySpec`, with
`MeantPrograms` as the hypothesis: `CellsMean` (`CellMeaning`), `StampsAreInOrder`
(`StampsInOrder`), `RevalidatingIsSound` (`RevalidationIsSound`), `AdoptingIsSound`
(`AdoptionIsSound`) and `EngineImplementsService` (`ImplementsService`: every answer
of every access is the meaning of its query on the contents its view has then).
Nothing is asked of scheduling: tasks run in any order and may be dropped at any
await, records may be evicted at any moment. `MeantPrograms` is

- `TruthIsMeant`, which only says what `Truth` is;
- `Acyclic`: there is a rank that falls from a query to those it asks for. The rank
  stands in for induction over the call graph, which the provers cannot do. Cycles
  are checked by `quiet_two`;
- `ErrorsPropagate`: a program that is told of an error fails with it, as `?` does,
  because the engine passes the errors of dependencies on in that way while it
  revalidates (derived.rs:364).

`MCDerived` has TLC evaluate them for the programs of the runs.

The invariant is `MeaningInv`, which TLC checked on small instances before it was
proved. That a cell is right at its `verified_at` is far from inductive.
Revalidation compares `changed_at` stamps of values that were computed at different
times, in different views, and moved about by the cache and the registry; it is
right only because a stamp that did not move means a value that did not change. So
`Stamp(x, val, ch)` collects every value of a query that is kept anywhere with its
stamp: cells, the shared record, what an access has in hand, what a flight was
settled with. A memo is `Usable` if it is what its program computes on the inputs at
the revision it is verified at (`Sound`) and, when that is past, whatever is kept of
its dependencies with a stamp no later than its own is what they were then (`Kept`).
All cells, records, outcomes of flights and accesses in progress are like that
(`CellsAreSound`, `RecordsAreSound`, `FlightsAreSound`, `FramesAreSound`); an access
in the middle of a revalidation has found the dependencies before its place to be
what they were (`Revalidates`). That a new value or a kept stamp leaves `Kept` true
is the heart of the proof: a new stamp is later than every memo that is not current,
and early cutoff keeps a stamp only with the value it had.

The rest is what this needs. `OneTimeline`: every view is at the database's
revision and has its past, since nobody writes once there are several. `InputsAreDated`:
an input has had its value since its `changed_at`. `StacksAreAsked`: on a stack each
access has asked for the next and ranks fall, so that no access finds itself and no
cycle is reported. `CellsAreRevalidated` and `RolesFit`: what an access remembers of
its cell and of its flight is still so. `NothingLags`: before the first snapshot is
made, everything a current memo depends on is itself current or of the same value.
It is needed for the write that comes next: a current memo goes by what its
dependencies mean now, and once the revision moves, by what is kept of them. With
snapshots about it is false (a snapshot adopts a record without its dependencies), and
that is why the database and its snapshots are no longer written then; `v_isolation`
and the counterexample to snapshots that are written (above) show that both are needed.

### Persistence

`Persist_proofs` proves, for any inputs and values, any meaning of the query and any
length of the log, `PersistTypeCorrect` under `Spec` and, under `QuietSpec`,
`FlushesAreDurable` (`FlushedIsDurable`), `LoadedCellsAreSound` (`CacheIsSound`) and
`RevisionsCover` (`RevisionCovers`). It assumes that the inputs are finitely many, that
the names differ and that the bounds are numbers. The theorems are about programs that
keep to the rules of `QuietSpec` (2, Environments), whatever I/O operations fail and
whenever the process dies; without the rules they are false, and so is the first
when a write comes into a save, as `v_gap` shows.

The invariant is `PersistInv`, checked by TLC before it was proved. A crash may cut the
log anywhere after what was flushed, so it does not help to know what a replay of the
whole log gives. The invariant speaks of the story that the files tell: the memory that
the base gives and the one after each entry, those in the buffer of a `Usable` writer
included (`StoryIsTold`). At each moment of it no stamp is later than the revision a
replay would have reached, and the cell, if none of the inputs is newer than its
`verified_at`, has the value its query means (`GoodMoment`); this holds also between the
entries of one append, where inputs of two times meet, because every entry is later than
the base (`EntriesAreLater`) and cells come after inputs, by the rules. From the end of
what was flushed on, each moment has what was promised, or later (`Keeps`). A replay in
progress is at a moment of the story (`ReplaysStory`), and the story ends with what the
writer has seen (`EndsAsSeen`); what differs from that is newer than all that is told. A
writer that is not usable any more has seen nothing that the files do not hold
(`WriterFits`), so flushing it promises nothing new. A save or compaction has collected
what the memory still is (`CallsAreOnTheirWay`). When it replaces the base under an
older log, that log is refused by a replay unless it starts at the revision of the new
base, and then it is empty: all its entries are later than its start, and none is later
than the revision.

### The shared cache

`SharedCache_proofs` proves, for any keys, threads and limit, `CacheTypeCorrect`,
`CacheIsBounded` (`EvictableAreBounded`) and `NewestStay` (`NewestAreKept`). For the
first bound the count that is invariant is of the records that can be evicted and
the puts about to insert, together (`BoundInv`): the thread that holds the order
makes room for its own before it unlocks. For the second, `AgeInv` holds as long as
no two puts have overlapped: the order is by age, what is being put is the last in
it, each cached record has its entry there, and what is gone is older than what is
left. TLC checked it before it was proved.

### The other stores

`Stores_proofs` is about four modules that have no state in common.

*`Interned`.* For any values, any number of ids and any threads, `StableIds`
(`IdsAreStable`), `TablesLoad` (`SavedTableLoads`) and that the types are kept
(`InternTypeCorrect`). It assumes that there is an id and that `NoIntern` is no
call. The invariant is `InternInv`, about the pairs a process knows: those in
`by_value` and those that a thread is about to put there. A value has one id among
them (`WordsHaveOneId`), because who gives it one holds its entry (`OneHolder`). All
that `by_id`, or a save that began earlier, can hold is known (`StoredIsKnown`), so
that whatever part of the changes a save sees, it sees one id of a value. Until the
last id is given out the known ids are below the counter and distinct, and nothing
known leaves `by_id` (`IdsAreFresh`). After a restart the counter is past the ids
that were loaded: `NextAfterIsPast`, from the existence of a largest one, which is
the least of their upper bounds (`LargestExists`).

*`TraceCollector`.* For any capacity of the channel and any number of events,
`TracesHaveNoGap` (`TraceHasNoGap`), under `TraceSpec`; fairness is not used. The
property alone is not inductive: a collector that skipped an event without having
recorded it would look right until the next one. `TraceInv` says how far the
collector is: all that is to be recorded of what it has read is recorded, but for
the event in its hand (`RecordedTo`), and a collector that fell behind records
nothing more.

*`CacheLimits`.* For any records, lengths and limits, `NothingKeptDangles`
(`NothingDangles`), under `LimitsSpec`. The invariant `KeepInv` is that when
something is left of a class, all that was collected of the classes dropped later is
there. It survives a drop because the class that loses a record comes after classes
that are empty, and survives the sort because sorting is a permutation
(`SortingKeepsRecords`). The theorem assumes `RefersToLaterClasses`: a derived value
refers to inputs and interned values, an input to interned values. References within
a class are not covered, and they may dangle: one derived value refers to another,
which is computed again when it is missing, and an interned value that holds the id
of another is not protected by the order of the classes at all.

`OneRoundSuffices` (`DroppingSuffices`) says that the rounds of the code that
measure again find nothing to do: the budget is what the limit leaves beside the
overhead of the file before anything was dropped, and the overhead never grows. The
invariant is `FitInv`, that the budget and what the lengths of the file take stay
within the limit. Sorting only moves the lengths of a section about, and a drop
takes one away and shortens the number of records; both are maps of the set of their
bytes into that of before, so no sum is needed. It assumes what a save can be given:
finitely many sections of finite sequences (`SavedAreRecords`, `SectionsAreFinite`),
and lengths that take no fewer bytes when longer (`LengthsAreEncoded`).

*`ValueEq`.* For any types and values of them, `RevisionsFollowMeaning`
(`RevisionIffChanged`), under `ValueSpec`. It assumes `ValuesAreTyped`, and
`ValuesAreTrees`: values are finite trees of at most some height, and no map has a
key twice or set an element. The invariant, `ValueInv`, is only that the two values
compared were of one type; the work is `EqIsRight`, that `PeekEq` is the equality of
meanings among comparable values of a type. It goes by the height of the values,
with a case for each kind of value, and needs first that `PeekEq`, `Meaning` and
`Comparable` are defined (`EqIsDefined`, `MeaningIsDefined`, `ComparableIsDefined`).
For maps and sets the code compares the sizes and then looks in one direction only;
that this is enough is `IterationsOfASet`: two lists of one length without
repetitions, one of whose elements are all in the other, have the same elements.

### Model-checked only

Every safety property of a passing run, the type invariants, the action properties
and the two refinements included, is the statement of a theorem. For these TLC is all
there is:

- Liveness (`FollowersReleased`, `AccessesReturn`, `CancelStaysLocal`, `WritesEnd`,
  `EventsAreRecorded`): out of the prover's reach.
- The properties of the query engine beyond the hypotheses of their theorems: programs
  that call in a cycle, in `quiet_two`, and snapshots that are
  written, in `family`.
- `Reference` is recursive, so that `Truth` is the meaning of the programs is checked
  for those of the runs (`MeantAndMeaning`) and is a hypothesis of the theorems.

## 5. Not modelled, and the plan

To come, in this order:

1. Corrupt records in `Persist`, with the three policies of a load, and an abstract
   durable map that it implements.
2. Several writers of a view, with `mark_divergent` against accesses that are
   under way in a snapshot.

Not planned:

- The promotion of records between views (derived.rs:1402-1480): nothing in the
  repository calls it, so there is no order of calls to check it in.
- `apply_wal_entry` of interned values: nothing writes the entries it reads.
- Loading a cache into a database that has snapshots: they share its interned
  tables, which the load clears.
- What debug tools print, the histogram and the sums of `TraceAnalysis`: plain
  folds and text.
- Keys and their encoding (model values here), errors (data), the static registry
  of ingredients, tracing.
- Code generation by the macros; what the generated `from_database` does is in
  `Database` and `Derived`.
