------------------------------ MODULE Derived ------------------------------
(***************************************************************************)
(* Derived queries: DerivedCore::access_scoped_erased and try_revalidate   *)
(* of crates/picante/src/ingredient/derived.rs, run by any number of tasks *)
(* over the views of a database family, with the in-flight registry and    *)
(* the shared result cache of inflight.rs between the views.               *)
(*                                                                         *)
(* A task's access of a query can need other queries, so a task has a      *)
(* stack of accesses; stack[t] lists their queries and frame[t][q] is the  *)
(* local state of the access of q (find_cycle keeps a query from being on  *)
(* the stack twice).  Only the top access runs.  The body of a query is    *)
(* user code: Program says what it does next given what it has read.       *)
(*                                                                         *)
(* A step is what runs between two points where another thread can see or  *)
(* change shared state.  Trace output, the runtime's dependency graph and  *)
(* its events are not read by an access and are left out here.             *)
(***************************************************************************)
EXTENDS Database, FiniteSets

CONSTANTS
    Task,
    QueryValue,         \* values a query computes
    Error,              \* what a failed query reports, Cycle among them
    Cycle,
    Program(_, _),      \* user code: the next step of q after reading a list
    MaxReads,           \* how much it reads before it ends
    Cancellable,        \* tasks the embedder may drop (select!, timeouts)
    Entry, NoEntry, NoKey, NoResult,
    NoValue, NoRecord, NoView, NoAnswer

ASSUME AccessesHaveEntries ==
    /\ IsFiniteSet(Task) /\ IsFiniteSet(Query) /\ IsFiniteSet(Entry)
    /\ Cardinality(Entry) >= Cardinality(Task) * Cardinality(Query)
ASSUME ErrorsAreNoValues == Cycle \in Error /\ Error \intersect QueryValue = {}

ASSUME NonesAreNone ==
    /\ NoView \notin View
    /\ NoWrite \notin [key : Input, val : Stored, ch : Revision]
    /\ NoEntry \notin Entry /\ NoKey \notin View \X Revision \X Query

\* What a program can read, and the dependencies a computation can record.
Answered == Stored \union QueryValue \union Error
DepLists == UNION {[1..n -> Input \union Query] : n \in 0..MaxReads}

\* A program goes on by what it has read, and it ends.
ASSUME ProgramsEnd ==
    /\ MaxReads \in Nat
    /\ \A x \in Query, n \in 0..MaxReads : \A seen \in [1..n -> Answered] :
        LET p == Program(x, seen)
        IN  \/ p.do = "get" /\ p.dep \in Input \union Query /\ n < MaxReads
            \/ p.do = "ok" /\ p.val \in QueryValue
            \/ p.do = "err" /\ p.val \in Error

VARIABLES
    cell,      \* ErasedCell.state of each query of each view
    waiting,   \* tasks whose Notified future on a cell has not fired
    shared,    \* SHARED_CACHE by scope and query
    home,      \* the view each task's access is in
    stack,     \* the queries each task is accessing, outermost first
    frame,     \* the local state of each of them
    out,       \* the answer each task got from its last access
    registry, entryState, entryResult, entryWaiters, role, entryOf, keyOf

cellVars == <<cell, waiting>>
taskVars == <<home, stack, frame, out>>
regVars == <<registry, entryState, entryResult, entryWaiters, role, entryOf, keyOf>>
vars == <<dbVars, cellVars, taskVars, shared, regVars>>

\* An access that holds a place in the in-flight registry, and what it asks for.
Holder == Task \X Query
InFlightKey == View \X Revision \X Query

\* A shared-cache record without its insert_id, the payload of a flight too.
Record == [val : QueryValue, deps : DepLists, ch : Revision]
SharedRecord == [val : QueryValue, deps : DepLists, ch : Revision, ver : Revision]

ASSUME NoPayloadIsNone ==
    /\ NoRecord \notin Record /\ NoRecord \notin SharedRecord
    /\ NoResult \notin Record /\ NoResult \notin Error

Reg == INSTANCE InFlight WITH
    Holder <- Holder, Key <- InFlightKey, Result <- Record \union Error

-----------------------------------------------------------------------------
(* Cells and answers *)

Vacant == [st |-> "Vacant"]
Running == [st |-> "Running"]
ReadyCell(x, ver, ch, deps) ==
    [st |-> "Ready", val |-> x, ver |-> ver, ch |-> ch, deps |-> deps]
Poisoned(e, ver) == [st |-> "Poisoned", err |-> e, ver |-> ver]

Cell ==
    {Vacant, Running}
    \union [st : {"Ready"}, val : QueryValue, ver : Revision, ch : Revision, deps : DepLists]
    \union [st : {"Poisoned"}, err : Error, ver : Revision]

\* The cell answers for revision r without any work.
Current(c, r) == c.st \in {"Ready", "Poisoned"} /\ c.ver = r

Ok(x, ch) == [ok |-> TRUE, val |-> x, ch |-> ch]
Err(e) == [ok |-> FALSE, val |-> e, ch |-> 0]
AnswerOf(c) == IF c.st = "Ready" THEN Ok(c.val, c.ch) ELSE Err(c.err)

\* The fields of an access: rev read at the top of the loop; prev value and
\* changed_at replaced by Running; rec whose deps are revalidated or that is
\* adopted; i the dep to touch next; seen and deps of the computation; ans
\* to return.
Idle ==
    [pc |-> "idle", rev |-> 0, prev |-> NoValue, rec |-> NoRecord, i |-> 0,
     seen |-> <<>>, deps |-> <<>>, ans |-> NoAnswer]
AtTop == [Idle EXCEPT !.pc = "top"]

-----------------------------------------------------------------------------
(* Tasks *)

Active(t) == stack[t] # <<>>
Cur(t) == stack[t][Len(stack[t])]
F(t) == frame[t][Cur(t)]
At(t, pc) == Active(t) /\ F(t).pc = pc
TheCell(t) == cell[home[t]][Cur(t)]
H(t) == <<t, Cur(t)>>

\* The current access of t goes on with local state f.
Go(t, f) ==
    /\ frame' = [frame EXCEPT ![t][Cur(t)] = f]
    /\ UNCHANGED <<home, stack, out>>

\* A new access of q on top of t's stack, its caller going on with f.
Call(t, q, f) ==
    /\ stack' = [stack EXCEPT ![t] = Append(@, q)]
    /\ frame' = [frame EXCEPT ![t] = [@ EXCEPT ![Cur(t)] = f, ![q] = AtTop]]
    /\ UNCHANGED <<home, out>>

\* Mutant: a revalidation takes an error of a dependency for no change.
ResumeOverError(f, a) ==
    CASE f.pc = "compute" -> [f EXCEPT !.seen = Append(@, a.val)]
      [] f.pc # "compute" /\ (~a.ok \/ a.ch <= f.rec.ch) -> [f EXCEPT !.i = @ + 1]
      [] f.pc = "touchLocal" /\ a.ok /\ a.ch > f.rec.ch ->
            [Idle EXCEPT !.pc = "start", !.rev = f.rev]
      [] f.pc = "touchShared" /\ a.ok /\ a.ch > f.rec.ch ->
            [f EXCEPT !.pc = "lead", !.rec = NoRecord, !.i = 0]

\* How the access f that asked for a query goes on with the answer a: the
\* program reads it, or the revalidation compares its changed_at.  An error
\* leaves try_revalidate and the access through `?`.
Resume(f, a) ==
    CASE f.pc = "compute" -> [f EXCEPT !.seen = Append(@, a.val)]
      [] f.pc # "compute" /\ ~a.ok -> [Idle EXCEPT !.pc = "raise", !.ans = a]
      [] f.pc # "compute" /\ a.ok /\ a.ch <= f.rec.ch -> [f EXCEPT !.i = @ + 1]
      [] f.pc = "touchLocal" /\ a.ok /\ a.ch > f.rec.ch ->
            [Idle EXCEPT !.pc = "start", !.rev = f.rev]
      [] f.pc = "touchShared" /\ a.ok /\ a.ch > f.rec.ch ->
            [f EXCEPT !.pc = "lead", !.rec = NoRecord, !.i = 0]

\* Mutant: the frame of a finished access stays on the stack.
ReturnUnpopped(t, a) ==
    /\ frame' = [frame EXCEPT ![t][Cur(t)] = Idle]
    /\ out' = [out EXCEPT ![t] =
            [view |-> home[t], query |-> Cur(t), ok |-> a.ok, val |-> a.val]]
    /\ UNCHANGED <<stack, home>>

\* The current access returns a to its caller, or to the user.
Return(t, a) ==
    LET q == Cur(t)
        rest == SubSeq(stack[t], 1, Len(stack[t]) - 1)
        caller == rest[Len(rest)]
    IN  /\ stack' = [stack EXCEPT ![t] = rest]
        /\ IF rest = <<>>
           THEN /\ frame' = [frame EXCEPT ![t][q] = Idle]
                /\ out' = [out EXCEPT ![t] =
                            [view |-> home[t], query |-> q, ok |-> a.ok, val |-> a.val]]
                /\ home' = [home EXCEPT ![t] = NoView]
           ELSE /\ frame' = [frame EXCEPT ![t] =
                        [@ EXCEPT ![q] = Idle, ![caller] = Resume(frame[t][caller], a)]]
                /\ UNCHANGED <<out, home>>

\* Mutant: nobody is notified.
SetCellSilently(t, c) ==
    /\ cell' = [cell EXCEPT ![home[t]][Cur(t)] = c]
    /\ UNCHANGED waiting

\* Write t's cell; notify_waiters fires every Notified future on it.
SetCell(t, c) ==
    /\ cell' = [cell EXCEPT ![home[t]][Cur(t)] = c]
    /\ waiting' = [waiting EXCEPT ![home[t]][Cur(t)] = {}]

-----------------------------------------------------------------------------
(* The loop of access_scoped_erased, up to starting a computation *)

\* A user asks view v for q.
Get(t, v, q) ==
    /\ ~Active(t) /\ Ready(v)
    /\ stack' = [stack EXCEPT ![t] = <<q>>]
    /\ frame' = [frame EXCEPT ![t][q] = AtTop]
    /\ home' = [home EXCEPT ![t] = v]
    /\ out' = [out EXCEPT ![t] = NoAnswer]
    /\ UNCHANGED <<dbVars, cellVars, shared, regVars>>

\* Read the revision and create the Notified future, before the cell is seen.
ReadRevision(t) ==
    /\ At(t, "top")
    /\ waiting' = [waiting EXCEPT ![home[t]][Cur(t)] = @ \union {t}]
    /\ Go(t, [AtTop EXCEPT !.pc = "observe", !.rev = rev[home[t]]])
    /\ UNCHANGED <<dbVars, cell, shared, regVars>>

\* What Observe makes of the cell.  The Notified future is only kept by an
\* access that waits.
Observed(f, c) ==
    CASE Current(c, f.rev) -> [f EXCEPT !.pc = "check", !.ans = AnswerOf(c)]
      [] c.st = "Running" -> [Idle EXCEPT !.pc = "await"]
      [] c.st = "Ready" /\ c.ver # f.rev ->
            [f EXCEPT !.pc = "touchLocal", !.i = 1,
                      !.rec = [val |-> c.val, deps |-> c.deps, ch |-> c.ch]]
      [] c.st = "Vacant" \/ (c.st = "Poisoned" /\ c.ver # f.rev) ->
            [f EXCEPT !.pc = "start"]

Observe(t) ==
    /\ At(t, "observe")
    /\ Go(t, Observed(F(t), TheCell(t)))
    /\ IF TheCell(t).st = "Running"
       THEN UNCHANGED waiting
       ELSE waiting' = [waiting EXCEPT ![home[t]][Cur(t)] = @ \ {t}]
    /\ UNCHANGED <<dbVars, cell, shared, regVars>>

\* Return what was observed or produced at revision rev only if it is still
\* the current one, else loop.
Check(t) ==
    /\ At(t, "check")
    /\ IF rev[home[t]] = F(t).rev THEN Return(t, F(t).ans) ELSE Go(t, AtTop)
    /\ UNCHANGED <<dbVars, cellVars, shared, regVars>>

\* notified.await on a Running cell.
Await(t) ==
    /\ At(t, "await")
    /\ t \notin waiting[home[t]][Cur(t)]
    /\ Go(t, AtTop)
    /\ UNCHANGED <<dbVars, cellVars, shared, regVars>>

\* Mutant: a dependency that is on the stack counts as unchanged.
TouchPastCycle(t) ==
    /\ At(t, "touchLocal") \/ At(t, "touchShared")
    /\ F(t).i <= Len(F(t).rec.deps)
    /\ LET f == F(t)
           d == f.rec.deps[f.i]
       IN  \/ /\ d \in Input
              /\ Go(t, Resume(f, Ok(None, input[home[t]][d].ch)))
           \/ /\ d \in Query
              /\ \A n \in 1..Len(stack[t]) : stack[t][n] # d
              /\ Call(t, d, f)
           \/ /\ d \in Query
              /\ \E n \in 1..Len(stack[t]) : stack[t][n] = d
              /\ Go(t, [f EXCEPT !.i = @ + 1])
    /\ UNCHANGED <<dbVars, cellVars, shared, regVars>>

\* try_revalidate: touch the next dependency.  An input answers at once, a
\* query is accessed (and errs at once if it is on the stack).
Touch(t) ==
    /\ At(t, "touchLocal") \/ At(t, "touchShared")
    /\ F(t).i <= Len(F(t).rec.deps)
    /\ LET f == F(t)
           d == f.rec.deps[f.i]
       IN  \/ /\ d \in Input
              /\ Go(t, Resume(f, Ok(None, input[home[t]][d].ch)))
           \/ /\ d \in Query
              /\ \A n \in 1..Len(stack[t]) : stack[t][n] # d
              /\ Call(t, d, f)
           \/ /\ d \in Query
              /\ \E n \in 1..Len(stack[t]) : stack[t][n] = d
              /\ Go(t, Resume(f, Err(Cycle)))
    /\ UNCHANGED <<dbVars, cellVars, shared, regVars>>

\* Mutant: the first dependency decides.
VerifyAfterFirst(t) ==
    /\ At(t, "touchLocal")
    /\ F(t).i > 1
    /\ LET c == TheCell(t)
           r == F(t).rev
       IN  IF c.st = "Ready"
           THEN /\ cell' = [cell EXCEPT ![home[t]][Cur(t)].ver = r]
                /\ Go(t, [Idle EXCEPT !.pc = "check", !.rev = r, !.ans = AnswerOf(c)])
           ELSE /\ Go(t, AtTop)
                /\ UNCHANGED cell
    /\ UNCHANGED <<dbVars, waiting, shared, regVars>>

\* Every dependency of the cell is unchanged: mark it verified at rev if it
\* is Ready (again, perhaps, and with another value), else loop.
Verify(t) ==
    /\ At(t, "touchLocal")
    /\ F(t).i > Len(F(t).rec.deps)
    /\ LET c == TheCell(t)
           r == F(t).rev
       IN  IF c.st = "Ready"
           THEN /\ cell' = [cell EXCEPT ![home[t]][Cur(t)].ver = r]
                /\ Go(t, [Idle EXCEPT !.pc = "check", !.rev = r, !.ans = AnswerOf(c)])
           ELSE /\ Go(t, AtTop)
                /\ UNCHANGED cell
    /\ UNCHANGED <<dbVars, waiting, shared, regVars>>

\* An error of a dependency while revalidating is this access's error; the
\* cell is left as it is.
Raise(t) ==
    /\ At(t, "raise")
    /\ Return(t, F(t).ans)
    /\ UNCHANGED <<dbVars, cellVars, shared, regVars>>

\* Mutant: a computation starts whether or not one is under way.
StartUnchecked(t) ==
    /\ At(t, "start")
    /\ LET c == TheCell(t)
           old == IF c.st = "Ready" THEN [val |-> c.val, ch |-> c.ch] ELSE NoValue
       IN  IF Current(c, F(t).rev)
           THEN /\ Go(t, AtTop)
                /\ UNCHANGED cell
           ELSE /\ cell' = [cell EXCEPT ![home[t]][Cur(t)] = Running]
                /\ Go(t, [F(t) EXCEPT !.pc = "shared", !.prev = old])
    /\ UNCHANGED <<dbVars, waiting, shared, regVars>>

\* Take the cell for a computation unless somebody was faster.
Start(t) ==
    /\ At(t, "start")
    /\ LET c == TheCell(t)
           old == IF c.st = "Ready" THEN [val |-> c.val, ch |-> c.ch] ELSE NoValue
       IN  IF Current(c, F(t).rev) \/ c.st = "Running"
           THEN /\ Go(t, AtTop)
                /\ UNCHANGED cell
           ELSE /\ cell' = [cell EXCEPT ![home[t]][Cur(t)] = Running]
                /\ Go(t, [F(t) EXCEPT !.pc = "shared", !.prev = old])
    /\ UNCHANGED <<dbVars, waiting, shared, regVars>>

-----------------------------------------------------------------------------
(* Adopting a result of the shared cache *)

\* Mutant: a record of any revision is adopted as it is.
SharedGetAny(t) ==
    /\ At(t, "shared")
    /\ LET r == shared[Scope(home[t])][Cur(t)]
       IN  Go(t, IF r = NoRecord THEN [F(t) EXCEPT !.pc = "lead"]
                 ELSE [F(t) EXCEPT !.pc = "adopt",
                            !.rec = [val |-> r.val, deps |-> r.deps, ch |-> r.ch]])
    /\ UNCHANGED <<dbVars, cellVars, shared, regVars>>

SharedGet(t) ==
    /\ At(t, "shared")
    /\ LET r == shared[Scope(home[t])][Cur(t)]
       IN  Go(t, CASE r = NoRecord -> [F(t) EXCEPT !.pc = "lead"]
                   [] r # NoRecord /\ r.ver = F(t).rev ->
                        [F(t) EXCEPT !.pc = "adopt",
                            !.rec = [val |-> r.val, deps |-> r.deps, ch |-> r.ch]]
                   [] r # NoRecord /\ r.ver # F(t).rev ->
                        [F(t) EXCEPT !.pc = "touchShared", !.i = 1,
                            !.rec = [val |-> r.val, deps |-> r.deps, ch |-> r.ch]])
    /\ UNCHANGED <<dbVars, cellVars, shared, regVars>>

\* Mutant: verified_at and changed_at of an adopted cell are swapped.
AdoptSwapped(t, r) ==
    /\ SetCell(t, ReadyCell(r.val, r.ch, F(t).rev, r.deps))
    /\ Go(t, [Idle EXCEPT !.pc = "put", !.rev = F(t).rev, !.rec = r,
                          !.ans = Ok(r.val, r.ch)])

\* The record is verified at rev, or its dependencies have just been; the
\* cell takes it over.  Also how a follower takes its leader's result.
AdoptRecord(t, r) ==
    /\ SetCell(t, ReadyCell(r.val, F(t).rev, r.ch, r.deps))
    /\ Go(t, [Idle EXCEPT !.pc = "put", !.rev = F(t).rev, !.rec = r,
                          !.ans = Ok(r.val, r.ch)])

Adopt(t) ==
    /\ \/ At(t, "adopt") \/ At(t, "take")
       \/ At(t, "touchShared") /\ F(t).i > Len(F(t).rec.deps)
    /\ AdoptRecord(t, F(t).rec)
    /\ UNCHANGED <<dbVars, shared, regVars>>

\* shared_cache_put of a result verified at rev.  A leader then settles its
\* flight, anybody else is done.
SharedPut(t) ==
    /\ At(t, "put")
    /\ LET r == F(t).rec
       IN  shared' = [shared EXCEPT ![Scope(home[t])][Cur(t)] =
                [val |-> r.val, deps |-> r.deps, ch |-> r.ch, ver |-> F(t).rev]]
    /\ Go(t, IF role[H(t)] = "leader"
             THEN [F(t) EXCEPT !.pc = "complete"]
             ELSE [F(t) EXCEPT !.pc = "check", !.rec = NoRecord])
    /\ UNCHANGED <<dbVars, cellVars, regVars>>

\* The cache is process-wide and bounded: puts of other queries evict.
Evict(c, q) ==
    /\ shared[c][q] # NoRecord
    /\ shared' = [shared EXCEPT ![c][q] = NoRecord]
    /\ UNCHANGED <<dbVars, cellVars, taskVars, regVars>>

-----------------------------------------------------------------------------
(* Leading or following a flight *)

TryLead(t) ==
    /\ At(t, "lead")
    /\ LET k == <<Scope(home[t]), F(t).rev, Cur(t)>>
       IN  \/ Reg!Lead(H(t), k) /\ Go(t, [F(t) EXCEPT !.pc = "compute"])
           \/ Reg!Join(H(t), k) /\ Go(t, [F(t) EXCEPT !.pc = "vacate", !.prev = NoValue])
    /\ UNCHANGED <<dbVars, cellVars, shared>>

\* Mutant: a follower leaves its cell Running.
VacateNothing(t) ==
    /\ At(t, "vacate")
    /\ Go(t, [F(t) EXCEPT !.pc = "follow"])
    /\ UNCHANGED <<dbVars, cell, waiting, shared, regVars>>

\* A follower gives its cell up; those waiting on the cell are not told.
Vacate(t) ==
    /\ At(t, "vacate")
    /\ cell' = [cell EXCEPT ![home[t]][Cur(t)] = Vacant]
    /\ Go(t, [F(t) EXCEPT !.pc = "follow"])
    /\ UNCHANGED <<dbVars, waiting, shared, regVars>>

\* The follower's loop on the entry, until it is settled.
Follow(t) ==
    /\ At(t, "follow")
    /\ Reg!Subscribe(H(t)) \/ Reg!Wait(H(t)) \/ Reg!Wake(H(t))
    /\ UNCHANGED <<dbVars, cellVars, taskVars, shared>>

\* The flight is settled: keep its outcome, or retry if it was cancelled.
TakeOutcome(t) ==
    /\ At(t, "follow")
    /\ Reg!Take(H(t))
    /\ LET e == entryOf[H(t)]
           s == entryState[e]
           r == entryResult[e]
       IN  Go(t, CASE s = "Done" -> [F(t) EXCEPT !.pc = "take", !.rec = r]
                   [] s = "Failed" -> [F(t) EXCEPT !.pc = "poison", !.ans = Err(r)]
                   [] s = "Cancelled" -> AtTop)
    /\ UNCHANGED <<dbVars, cellVars, shared>>

-----------------------------------------------------------------------------
(* Computing as the leader *)

Todo(t) == Program(Cur(t), F(t).seen)
Computing(t, what) == At(t, "compute") /\ Todo(t).do = what

\* Mutant: the dependency on an input is not recorded.
ReadInputUnrecorded(t) ==
    /\ Computing(t, "get")
    /\ LET d == Todo(t).dep
       IN  /\ d \in Input
           /\ Go(t, [F(t) EXCEPT !.seen = Append(@, input[home[t]][d].val)])
    /\ UNCHANGED <<dbVars, cellVars, shared, regVars>>

\* The program reads an input: the dependency is recorded, then the entry read.
ReadInput(t) ==
    /\ Computing(t, "get")
    /\ LET d == Todo(t).dep
       IN  /\ d \in Input
           /\ Go(t, [F(t) EXCEPT !.deps = Append(@, d),
                                 !.seen = Append(@, input[home[t]][d].val)])
    /\ UNCHANGED <<dbVars, cellVars, shared, regVars>>

\* The program reads a query: an error if it is on the stack, else the
\* dependency is recorded and the query accessed.
ReadQuery(t) ==
    /\ Computing(t, "get")
    /\ LET d == Todo(t).dep
       IN  \/ /\ d \in Query
              /\ \A n \in 1..Len(stack[t]) : stack[t][n] # d
              /\ Call(t, d, [F(t) EXCEPT !.deps = Append(@, d)])
           \/ /\ d \in Query
              /\ \E n \in 1..Len(stack[t]) : stack[t][n] = d
              /\ Go(t, Resume(F(t), Err(Cycle)))
    /\ UNCHANGED <<dbVars, cellVars, shared, regVars>>

\* The program returns a value: early cutoff keeps the changed_at of an equal
\* previous value; the cell becomes Ready.
Finish(t) ==
    /\ Computing(t, "ok")
    /\ LET f == F(t)
           x == Todo(t).val
           ch == IF f.prev # NoValue /\ f.prev.val = x THEN f.prev.ch ELSE f.rev
       IN  /\ SetCell(t, ReadyCell(x, f.rev, ch, f.deps))
           /\ Go(t, [Idle EXCEPT !.pc = "put", !.rev = f.rev, !.ans = Ok(x, ch),
                                 !.rec = [val |-> x, deps |-> f.deps, ch |-> ch]])
    /\ UNCHANGED <<dbVars, shared, regVars>>

\* The program fails (or panics), or a follower learns that its leader did:
\* the cell is Poisoned at rev.
Poison(t) ==
    /\ Computing(t, "err") \/ At(t, "poison")
    /\ LET e == IF At(t, "poison") THEN F(t).ans.val ELSE Todo(t).val
       IN  /\ SetCell(t, Poisoned(e, F(t).rev))
           /\ Go(t, [Idle EXCEPT !.pc = IF At(t, "poison") THEN "check" ELSE "fail",
                                 !.rev = F(t).rev, !.ans = Err(e)])
    /\ UNCHANGED <<dbVars, shared, regVars>>

\* Mutant: the flight gets the answer, without its dependencies.
SettleWithAnswer(t) ==
    /\ \/ At(t, "complete") /\ Reg!Complete(H(t), F(t).ans)
       \/ At(t, "fail") /\ Reg!Fail(H(t), F(t).ans.val)
    /\ Go(t, [F(t) EXCEPT !.pc = "publish", !.rec = NoRecord])
    /\ UNCHANGED <<dbVars, cellVars, shared>>

\* guard.complete or guard.fail settles the entry ...
SettleFlight(t) ==
    /\ \/ At(t, "complete") /\ Reg!Complete(H(t), F(t).rec)
       \/ At(t, "fail") /\ Reg!Fail(H(t), F(t).ans.val)
    /\ Go(t, [F(t) EXCEPT !.pc = "publish", !.rec = NoRecord])
    /\ UNCHANGED <<dbVars, cellVars, shared>>

\* ... wakes the followers and drops the entry from the registry.
PublishFlight(t) ==
    /\ At(t, "publish")
    /\ \/ Reg!NotifyWaiters(H(t)) /\ UNCHANGED taskVars
       \/ Reg!Remove(H(t)) /\ Go(t, [F(t) EXCEPT !.pc = "check"])
    /\ UNCHANGED <<dbVars, cellVars, shared>>

-----------------------------------------------------------------------------
(* Cancellation: the future of t is dropped at an await point *)

\* Where the code of an access awaits: the cell's lock, a Notified future, or
\* whatever the program awaits.  Touching an input does not.
Suspended(t) ==
    \/ \E pc \in {"observe", "await", "start", "adopt", "vacate", "take", "compute", "poison"} : At(t, pc)
    \/ At(t, "touchLocal") /\ F(t).i > Len(F(t).rec.deps)
    \/ At(t, "touchShared") /\ F(t).i > Len(F(t).rec.deps)
    \/ At(t, "follow") /\ role[H(t)] = "waiting"

Cancel(t) ==
    /\ t \in Cancellable
    /\ Suspended(t)
    /\ Go(t, [Idle EXCEPT !.pc = "drop"])
    /\ UNCHANGED <<dbVars, cellVars, shared, regVars>>

\* The accesses are dropped innermost first.  Drop of an InFlightGuard
\* cancels the flight; there is no such guard for a cell left Running.
DropAccess(t) ==
    LET q == Cur(t)
        rest == SubSeq(stack[t], 1, Len(stack[t]) - 1)
    IN  /\ stack' = [stack EXCEPT ![t] = rest]
        /\ waiting' = [waiting EXCEPT ![home[t]][q] = @ \ {t}]
        /\ IF rest = <<>>
           THEN /\ frame' = [frame EXCEPT ![t][q] = Idle]
                /\ home' = [home EXCEPT ![t] = NoView]
           ELSE /\ frame' = [frame EXCEPT ![t] = [@ EXCEPT ![q] = Idle,
                                ![rest[Len(rest)]] = [Idle EXCEPT !.pc = "drop"]]]
                /\ UNCHANGED home
        /\ UNCHANGED <<cell, out>>

Drop(t) ==
    /\ At(t, "drop")
    /\ \/ role[H(t)] = "idle" /\ DropAccess(t) /\ UNCHANGED regVars
       \/ Reg!Abandon(H(t)) /\ DropAccess(t)
       \/ Reg!Remove(H(t)) /\ DropAccess(t)
       \/ (Reg!CancelLead(H(t)) \/ Reg!NotifyWaiters(H(t))) /\ UNCHANGED <<cellVars, taskVars>>
    /\ UNCHANGED <<dbVars, shared>>

-----------------------------------------------------------------------------
(* Snapshots *)

\* A new snapshot takes over the Ready cells of each derived ingredient.
SnapshotCells(s, q) ==
    /\ Copying(s, q)
    /\ cell' = [cell EXCEPT ![s][q] = IF cell[Live][q].st = "Ready" THEN cell[Live][q]
                                                                  ELSE Vacant]
    /\ copied' = [copied EXCEPT ![s] = @ + 1]
    /\ UNCHANGED <<rev, diverged, input, writing, hist, waiting, taskVars, shared, regVars>>

-----------------------------------------------------------------------------
Init ==
    /\ DbInit
    /\ cell = [v \in View |-> [q \in Query |-> Vacant]]
    /\ waiting = [v \in View |-> [q \in Query |-> {}]]
    /\ shared = [v \in View |-> [q \in Query |-> NoRecord]]
    /\ home = [t \in Task |-> NoView]
    /\ stack = [t \in Task |-> <<>>]
    /\ frame = [t \in Task |-> [q \in Query |-> Idle]]
    /\ out = [t \in Task |-> NoAnswer]
    /\ Reg!Init

\* What the executor does for a task once it has started an access.
Step(t) ==
    \/ ReadRevision(t) \/ Observe(t) \/ Check(t) \/ Await(t)
    \/ Touch(t) \/ Verify(t) \/ Raise(t) \/ Start(t)
    \/ SharedGet(t) \/ Adopt(t) \/ SharedPut(t)
    \/ TryLead(t) \/ Vacate(t) \/ Follow(t) \/ TakeOutcome(t)
    \/ ReadInput(t) \/ ReadQuery(t) \/ Finish(t) \/ Poison(t)
    \/ SettleFlight(t) \/ PublishFlight(t)
    \/ Drop(t)

Ask(t) == \E v \in View, q \in Query : Get(t, v, q)

BeginWrite(v) ==
    /\ \E i \in Input, x \in Stored : Bump(v, i, x)
    /\ UNCHANGED <<cellVars, taskVars, shared, regVars>>

EndWrite(v) ==
    /\ MarkDivergent(v) \/ Write(v)
    /\ UNCHANGED <<cellVars, taskVars, shared, regVars>>

Snapshot(s) ==
    \/ /\ SnapshotRuntime(s) \/ \E i \in Input : SnapshotInput(s, i)
       /\ UNCHANGED <<cellVars, taskVars, shared, regVars>>
    \/ \E q \in Query : SnapshotCells(s, q)

\* What the embedding program starts, and what then happens by itself.
Calls ==
    \/ \E t \in Task : Ask(t)
    \/ \E v \in View : BeginWrite(v) \/ Snapshot(v)

Runs ==
    \/ \E t \in Task : Step(t) \/ Cancel(t)
    \/ \E v \in View : EndWrite(v)
    \/ \E v \in View, q \in Query : Evict(v, q)

Next == Calls \/ Runs

Spec == Init /\ [][Next]_vars

\* A runnable task is polled again and a set/remove call runs to its end.
Fairness ==
    /\ \A t \in Task : WF_vars(Step(t))
    /\ \A v \in View : WF_vars(EndWrite(v))

FairSpec == Spec /\ Fairness

-----------------------------------------------------------------------------
(* Environments: what the embedding program may be asked to guarantee *)

\* A view is written only while no access runs in it, and the database only
\* while no snapshot of it is being made.
QuietWrites ==
    \A v \in View : writing[v] # NoWrite =>
        /\ \A t \in Task : home[t] # v
        /\ v = Live => \A s \in Snapshots : copied[s] = 0 \/ Ready(s)

\* The database is not written once a snapshot of it exists; the snapshot may be.
FamilyFrozen ==
    writing[Live] # NoWrite => \A s \in Snapshots : copied[s] = 0

\* Snapshots are for reading only.
SnapshotsReadOnly ==
    \A s \in Snapshots : writing[s] = NoWrite

\* No snapshot is ever made; all else may happen at any moment.
SingleNext == (\E t \in Task : Ask(t)) \/ BeginWrite(Live) \/ Runs
QuietNext == (Calls /\ QuietWrites') \/ Runs
FrozenNext == (Calls /\ QuietWrites' /\ FamilyFrozen') \/ Runs
ReadOnlyNext == (Calls /\ QuietWrites' /\ FamilyFrozen' /\ SnapshotsReadOnly') \/ Runs

FairSingleSpec == Init /\ [][SingleNext]_vars /\ Fairness
QuietSpec == Init /\ [][QuietNext]_vars
FairQuietSpec == QuietSpec /\ Fairness
FrozenSpec == Init /\ [][FrozenNext]_vars
ReadOnlySpec == Init /\ [][ReadOnlyNext]_vars
FairFrozenSpec == FrozenSpec /\ Fairness

-----------------------------------------------------------------------------
(* Type correctness of the cells, the shared cache and the accesses. *)
PC == {"idle", "top", "observe", "check", "await", "touchLocal", "raise", "start",
       "shared", "touchShared", "adopt", "put", "lead", "vacate", "follow", "take",
       "compute", "poison", "complete", "fail", "publish", "drop"}

Answer ==
    [ok : {TRUE}, val : QueryValue, ch : Revision] \union [ok : {FALSE}, val : Error, ch : {0}]

Frame ==
    [pc : PC, rev : Revision, prev : [val : QueryValue, ch : Revision] \union {NoValue},
     rec : Record \union {NoRecord}, i : Nat, seen : Seq(Answered),
     deps : Seq(Input \union Query), ans : Answer \union {NoAnswer}]

OnStack(t, x) == \E n \in 1..Len(stack[t]) : stack[t][n] = x

CellsTyped ==
    /\ cell \in [View -> [Query -> Cell]]
    /\ waiting \in [View -> [Query -> SUBSET Task]]
    /\ shared \in [View -> [Query -> SharedRecord \union {NoRecord}]]

TasksTyped ==
    /\ home \in [Task -> View \union {NoView}]
    /\ stack \in [Task -> Seq(Query)]
    /\ frame \in [Task -> [Query -> Frame]]
    /\ out \in [Task ->
        [view : View, query : Query, ok : BOOLEAN, val : QueryValue \union Error] \union {NoAnswer}]
    /\ \A t \in Task : home[t] = NoView <=> stack[t] = <<>>
    /\ \A t \in Task, x \in Query : frame[t][x].pc # "idle" <=> OnStack(t, x)

TypeOK == DbTypeOK /\ CellsTyped /\ TasksTyped /\ Reg!TypeOK

\* t has set the cell of x in v to Running and not yet to anything else.
Owns(t, v, x) ==
    /\ home[t] = v
    /\ frame[t][x].pc \in {"shared", "touchShared", "adopt", "lead", "vacate", "compute"}

(* A Running cell is somebody's: one access will set it to something else.  *)
(* Whoever finds it Running waits for that and for nothing else             *)
(* (derived.rs:351-360).                                                    *)
RunningIsOwned ==
    \A v \in View, x \in Query :
        cell[v][x] = Running => \E t \in Task : Owns(t, v, x)

(* Within a view a query is computed by one access at a time: the Running   *)
(* state of its cell is a lock (derived.rs:399-422).                        *)
OneOwner ==
    \A t, u \in Task, v \in View, x \in Query :
        Owns(t, v, x) /\ Owns(u, v, x) => t = u

(* Nobody sleeps on a cell that no one will write: the Notified future is   *)
(* created before the cell is looked at (derived.rs:288-290).               *)
NoSleepOnSettledCell ==
    \A t \in Task, v \in View, x \in Query :
        home[t] = v /\ frame[t][x].pc = "await" /\ t \in waiting[v][x] =>
            \E u \in Task \ {t} :
                home[u] = v /\ frame[u][x].pc \notin {"idle", "await", "check", "raise"}

(* Whatever tasks do, are dropped and are answered, the engine uses the      *)
(* registry as it is meant to be used: each access is one of its holders,   *)
(* leads or follows one flight at a time, and settles what it leads with a   *)
(* record or an error (derived.rs:489-636), so all that InFlight promises    *)
(* holds of the flights of the engine.                                      *)
ImplementsRegistry == Reg!Spec

(* verified_at is the most recent revision at which a value was confirmed,  *)
(* and changed_at is not after the revision it is seen at                   *)
(* (docs/spec/picante.md:524 and 630).                                      *)
StampsInOrder ==
    \A v \in View, x \in Query :
        cell[v][x].st = "Ready" => cell[v][x].ch <= cell[v][x].ver /\ cell[v][x].ver <= rev[v]

(* Every access returns. *)
AccessesReturn == \A t \in Task : Active(t) ~> ~Active(t)

(* derived.cancel-progress (docs/spec/picante.md:670-672): a dropped task   *)
(* holds nobody else up.                                                    *)
CancelProgress == \A t \in Task \ Cancellable : Active(t) ~> ~Active(t)

(* A dropped task holds nobody up in another view: its flight is cancelled  *)
(* (inflight.rs:266-276) and its followers lead in its place.               *)
CancelStaysLocal ==
    \A s \in Snapshots :
        [](\A t \in Cancellable : home[t] # s) =>
            \A t \in Task \ Cancellable : Active(t) /\ home[t] = s ~> ~Active(t)
=============================================================================
