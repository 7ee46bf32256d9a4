--------------------------- MODULE DerivedCorrect ---------------------------
(***************************************************************************)
(* What the derived-query engine is correct with respect to: the meaning   *)
(* of its programs and the service it provides (QueryService).             *)
(***************************************************************************)
EXTENDS Derived

CONSTANTS
    Truth(_, _),    \* the meaning of a query on a contents: [ok, val]
    NoContents, NoAsk

ASSUME NonesOfService ==
    /\ NoContents \notin Valuation
    /\ NoAsk \notin [view : View, query : Query]
    /\ NoAnswer \notin Answer

-----------------------------------------------------------------------------
(* What makes Truth the meaning of the programs                            *)

\* What a program reads when it asks for d.
Mean(d, ins) == IF d \in Input THEN ins[d] ELSE Truth(d, ins).val

\* What had been read after n reads.
Upto(seen, n) == [i \in 1..n |-> seen[i]]

\* Having read seen, x has asked for deps.
Asks(x, deps, seen) ==
    \A n \in 1..Len(deps) :
        LET p == Program(x, Upto(seen, n - 1)) IN p.do = "get" /\ p.dep = deps[n]

\* On ins, x asks for deps and reads seen.
RunsOn(x, deps, seen, ins) ==
    /\ Len(seen) = Len(deps)
    /\ Asks(x, deps, seen)
    /\ \A n \in 1..Len(deps) : seen[n] = Mean(deps[n], ins)

\* The meaning of a query is where its program ends when it reads the
\* meaning of what it asks for.
TruthIsMeant ==
    \A x \in Query, ins \in Valuation, deps \in DepLists :
        \A seen \in [1..Len(deps) -> Answered] :
            LET p == Program(x, seen)
            IN  RunsOn(x, deps, seen, ins) /\ p.do # "get" =>
                    Truth(x, ins) = [ok |-> p.do = "ok", val |-> p.val]

\* No query is asked for, through others, by itself: there is a rank that
\* falls from a query to those it reads.
Acyclic ==
    \E rank \in [Query -> 0..Cardinality(Query)] :
        \A x \in Query, n \in 0..MaxReads : \A seen \in [1..n -> Answered] :
            LET p == Program(x, seen)
            IN  p.do = "get" /\ p.dep \in Query => rank[p.dep] < rank[x]

\* A program that is told of an error fails with it at once, as `?` does.
ErrorsPropagate ==
    \A x \in Query, n \in 1..MaxReads : \A seen \in [1..n -> Answered] :
        seen[n] \in Error => Program(x, seen) = [do |-> "err", val |-> seen[n]]

-----------------------------------------------------------------------------
(* Correctness                                                             *)

Service == INSTANCE QueryService WITH
    Valuation <- Valuation,
    Empty <- [i \in Input |-> None],
    contents <- [v \in View |-> IF copied[v] = 0 THEN NoContents ELSE Contents(v)],
    asked <- [t \in Task |->
                IF Active(t) THEN [view |-> home[t], query |-> stack[t][1]] ELSE NoAsk],
    answer <- out

(* The engine implements the service: every answer is the meaning of the    *)
(* query on the contents of its view at the revision it is returned at.     *)
ImplementsService == Service!Spec

Outcome(c) == IF c.st = "Ready" THEN [ok |-> TRUE, val |-> c.val]
                                ELSE [ok |-> FALSE, val |-> c.err]

(* What a cell holds is the meaning of its query at the revision it is      *)
(* verified at, a failure as much as a value (derived.rs:640-762).          *)
CellMeaning ==
    \A v \in View, x \in Query :
        LET c == cell[v][x]
        IN  c.st \in {"Ready", "Poisoned"} => Truth(x, hist[v][c.ver + 1]) = Outcome(c)

\* Revalidation of a result with these dependencies and this changed_at would
\* succeed in v now, without computing anything.
WouldRevalidate(v, deps, ch) ==
    \A n \in DOMAIN deps :
        LET d == deps[n]
        IN  IF d \in Input THEN input[v][d].ch <= ch
            ELSE cell[v][d].st = "Ready" /\ cell[v][d].ver = rev[v] /\ cell[v][d].ch <= ch

(* try_revalidate is sound: a cell whose dependencies pass it holds the     *)
(* meaning of its query now, though none of its inputs was read again       *)
(* (derived.rs:771-804); early cutoff below it must not hide a change.      *)
RevalidationIsSound ==
    \A v \in View, x \in Query :
        LET c == cell[v][x]
        IN  Ready(v) /\ writing[v] = NoWrite
                /\ c.st = "Ready" /\ WouldRevalidate(v, c.deps, c.ch) =>
                    Truth(x, Contents(v)) = Outcome(c)

(* Adopting a shared record is sound in every view that could: it holds the *)
(* meaning of its query on that view's inputs (derived.rs:429-482).         *)
AdoptionIsSound ==
    \A v \in View, x \in Query :
        LET r == shared[Scope(v)][x]
        IN  Ready(v) /\ writing[v] = NoWrite /\ r # NoRecord
                /\ (r.ver = rev[v] \/ WouldRevalidate(v, r.deps, r.ch)) =>
                    Truth(x, Contents(v)) = [ok |-> TRUE, val |-> r.val]

-----------------------------------------------------------------------------
(* What docs/spec/picante.md says and the code does not do; each of these   *)
(* is refuted by a run of its own.                                          *)

(* dep.invalidation (676-677): a query that read an input is stale once     *)
(* that input has changed; so a cell that counts as current, no write being *)
(* under way, holds the meaning of the inputs as they are.                  *)
CurrentCellIsTrue ==
    \A v \in View, x \in Query :
        LET c == cell[v][x]
        IN  writing[v] = NoWrite /\ Current(c, rev[v]) =>
                Truth(x, [i \in Input |-> input[v][i].val]) = Outcome(c)

(* snapshot.isolation (762-763): input changes in the database after a      *)
(* snapshot was made are not visible in it.                                 *)
SnapshotIsolation ==
    \A t \in Task :
        out[t] # NoAnswer /\ out[t].view \in Snapshots /\ ~diverged[out[t].view] =>
            Truth(out[t].query, Contents(out[t].view)) = [ok |-> out[t].ok, val |-> out[t].val]
=============================================================================
