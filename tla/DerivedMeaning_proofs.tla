----------------------- MODULE DerivedMeaning_proofs -----------------------
(***************************************************************************)
(* The query engine answers right, for any programs without a cycle that   *)
(* pass on the errors they read, any tasks and any views: what it keeps is  *)
(* the meaning of its queries, and every answer is, as long as a view is   *)
(* not written under its accesses and the database is not written once it  *)
(* has snapshots.                                                          *)
(*                                                                         *)
(* Incrementality rests on comparing changed_at stamps of values that were  *)
(* computed at different times and places.  So the invariant speaks of all *)
(* the stamps of a query that are kept anywhere.                           *)
(***************************************************************************)
EXTENDS DerivedCorrect, Derived_proofs

-----------------------------------------------------------------------------
(* The timeline: what the database was at each of its revisions *)

Now == rev[Live]
Then(n) == hist[Live][n + 1]
Present == Then(Now)

\* On ins the program of x asks for deps and ends with val.
Computes(x, deps, val, ins) ==
    \E seen \in [1..Len(deps) -> Answered] :
        /\ RunsOn(x, deps, seen, ins)
        /\ Program(x, seen).do = "ok" /\ Program(x, seen).val = val

\* A memo (cell, record) is what x computed at revision n.
Sound(x, m, n) ==
    /\ m.ch \in 0..n /\ n \in 0..Now /\ m.deps \in DepLists
    /\ Computes(x, m.deps, m.val, Then(n))

\* Every view in use is at the database's revision and has its past.
OneTimeline ==
    /\ \A v \in View : ~diverged[v] /\ (copied[v] # 0 => rev[v] = Now /\ hist[v] = hist[Live])
    /\ \A s \in Snapshots :
        /\ writing[s] = NoWrite
        /\ copied[s] = 0 => \A x \in Query : cell[s][x] = Vacant
        /\ writing[Live] # NoWrite => copied[s] = 0
    /\ copied[Live] # 0

Since(e, i) ==
    e.val = Present[i] /\ e.ch <= Now /\ \A n \in e.ch..Now : Then(n)[i] = e.val

InputsAreDated ==
    /\ \A i \in Input :
        (writing[Live] # NoWrite => writing[Live].key # i) => Since(input[Live][i], i)
    /\ writing[Live] # NoWrite =>
        writing[Live].ch = Now /\ writing[Live].val = Present[writing[Live].key]
    /\ \A s \in Snapshots : \A n \in 1..(copied[s] - 1) :
        Ingredients[n] \in Input => input[s][Ingredients[n]] = input[Live][Ingredients[n]]

-----------------------------------------------------------------------------
(* Stamps: the values that are kept, with their changed_at *)

FrameStamp(f, val, ch) ==
    /\ f.pc # "idle"
    /\ \/ f.rec # NoRecord /\ f.rec.val = val /\ f.rec.ch = ch
       \/ f.prev # NoValue /\ f.prev.val = val /\ f.prev.ch = ch
       \/ f.ans # NoAnswer /\ f.ans.ok /\ f.ans.val = val /\ f.ans.ch = ch

FlightOf(h, x) == role[h] # "idle" /\ keyOf[h][3] = x
OutcomeIs(h, st) == entryState[entryOf[h]] = st
Payload(h) == entryResult[entryOf[h]]

Stamp(x, val, ch) ==
    \/ \E v \in View : cell[v][x].st = "Ready" /\ cell[v][x].val = val /\ cell[v][x].ch = ch
    \/ shared[Live][x] # NoRecord /\ shared[Live][x].val = val /\ shared[Live][x].ch = ch
    \/ \E t \in Task : FrameStamp(frame[t][x], val, ch)
    \/ \E h \in Holder :
        FlightOf(h, x) /\ OutcomeIs(h, "Done") /\ Payload(h).val = val /\ Payload(h).ch = ch

\* Whatever is kept of the dependencies of m, from no later than m, is what
\* they were at revision n.
Kept(m, n) ==
    \A i \in 1..Len(m.deps) : m.deps[i] \in Query =>
        \A val \in QueryValue, ch \in Revision :
            Stamp(m.deps[i], val, ch) /\ ch <= m.ch => val = Truth(m.deps[i], Then(n)).val

Usable(x, m, n) == Sound(x, m, n) /\ (n < Now => Kept(m, n))

CellsAreSound ==
    \A v \in View, x \in Query :
        LET c == cell[v][x]
        IN  /\ c.st = "Ready" => Usable(x, c, c.ver)
            /\ c.st = "Poisoned" =>
                c.ver <= Now /\ Truth(x, Then(c.ver)) = [ok |-> FALSE, val |-> c.err]

RecordsAreSound ==
    \A x \in Query :
        shared[Live][x] # NoRecord => Usable(x, shared[Live][x], shared[Live][x].ver)

-----------------------------------------------------------------------------
(* Accesses *)

Means(x, ans) == Truth(x, Present) = [ok |-> ans.ok, val |-> ans.val]

\* x has asked for deps and has been told seen, now.
HasRead(x, deps, seen) ==
    /\ Asks(x, deps, seen)
    /\ Len(seen) <= Len(deps)
    /\ \A n \in 1..Len(seen) : seen[n] = Mean(deps[n], Present)

\* rec is usable, and its dependencies below i are what they were.
Revalidates(x, rec, i) ==
    \E n \in 0..Now :
        /\ Usable(x, rec, n)
        /\ \A j \in 1..Len(rec.deps) : j < i => Mean(rec.deps[j], Then(n)) = Mean(rec.deps[j], Present)

Telling == {"check", "put", "complete", "raise", "poison", "fail", "publish"}

FrameSound(x, f) ==
    /\ f.pc = "compute" => HasRead(x, f.deps, f.seen)
    /\ f.pc \in {"touchLocal", "touchShared"} => Revalidates(x, f.rec, f.i)
    /\ f.pc \in {"adopt", "take", "put", "complete"} => Sound(x, f.rec, Now)
    /\ f.pc \in Telling => Means(x, f.ans)
    /\ f.pc # "idle" /\ f.prev # NoValue => f.prev.ch <= Now

FramesAreSound == \A t \in Task, x \in Query : FrameSound(x, frame[t][x])

\* The top access has read all it asked for, another waits for the next one.
Waits(f, x) ==
    /\ f.pc = "compute" => Len(f.deps) = Len(f.seen) + 1 /\ f.deps[Len(f.deps)] = x
    /\ f.pc \in {"touchLocal", "touchShared"} => f.i <= Len(f.rec.deps) /\ f.rec.deps[f.i] = x

IsRank(rank) ==
    \A x \in Query, n \in 0..MaxReads : \A seen \in [1..n -> Answered] :
        LET p == Program(x, seen)
        IN  p.do = "get" /\ p.dep \in Query => rank[p.dep] < rank[x]

\* On a stack s of accesses fr each has asked for the next, and ranks fall.
StackIsAsked(s, fr) ==
    /\ \A n \in 1..Len(s) : n = Len(s) /\ fr[s[n]].pc = "compute" =>
        Len(fr[s[n]].deps) = Len(fr[s[n]].seen)
    /\ \A n \in 1..(Len(s) - 1) : Waits(fr[s[n]], s[n + 1])
    /\ \A rank \in [Query -> 0..Cardinality(Query)] : IsRank(rank) =>
        \A m, n \in 1..Len(s) : m < n => rank[s[n]] < rank[s[m]]

StacksAreAsked == \A t \in Task : StackIsAsked(stack[t], frame[t])

\* An access that revalidates its cell finds it as it was or verified.
Matches(c, r) ==
    c.st = "Ready" /\ c.ver # Now => c.val = r.val /\ c.deps = r.deps /\ c.ch = r.ch

CellsAreRevalidated ==
    \A t \in Task, x \in Query :
        home[t] # NoView /\ frame[t][x].pc = "touchLocal" =>
            Matches(cell[home[t]][x], frame[t][x].rec)

-----------------------------------------------------------------------------
(* Flights *)

RoleFits(f, r) ==
    \/ r = "idle"
    \/ r = "leader" /\ f.pc \in {"compute", "put", "complete", "fail", "drop"}
    \/ r \in {"settled", "notified"} /\ f.pc \in {"publish", "drop"}
    \/ r \in {"follower", "subscribed", "waiting"} /\ f.pc \in {"vacate", "follow", "drop"}

RolesFit == \A t \in Task, x \in Query : RoleFits(frame[t][x], role[<<t, x>>])

FlightsAreSound ==
    /\ \A t \in Task, x \in Query : role[<<t, x>>] # "idle" => keyOf[<<t, x>>] = <<Live, Now, x>>
    /\ \A g, h \in Holder :
        role[g] # "idle" /\ role[h] # "idle" /\ entryOf[g] = entryOf[h] => keyOf[g] = keyOf[h]
    /\ \A h \in Holder, x \in Query : FlightOf(h, x) =>
        /\ OutcomeIs(h, "Done") => Sound(x, Payload(h), Now)
        /\ OutcomeIs(h, "Failed") => Truth(x, Present) = [ok |-> FALSE, val |-> Payload(h)]

-----------------------------------------------------------------------------
(* Before the first snapshot *)

Alone == \A s \in Snapshots : copied[s] = 0

PutPending(x) == \E t \in Task : frame[t][x].pc = "put"

\* Nothing that is kept of x is older than now.
CellTouched(x) == cell[Live][x].st = "Ready" => cell[Live][x].ver = Now

RecordTouched(x) ==
    \/ shared[Live][x] = NoRecord
    \/ shared[Live][x].val = Truth(x, Present).val
    \/ PutPending(x)

Touched(x) == CellTouched(x) /\ RecordTouched(x)

AllTouched(deps) == \A n \in 1..Len(deps) : deps[n] \in Query => Touched(deps[n])

DepsTouched(f) ==
    /\ f.pc = "compute" =>
        \A n \in 1..Len(f.seen) : f.deps[n] \in Query /\ f.seen[n] \notin Error => Touched(f.deps[n])
    /\ f.pc \in {"touchLocal", "touchShared"} =>
        \A n \in 1..Len(f.rec.deps) : n < f.i /\ f.rec.deps[n] \in Query => Touched(f.rec.deps[n])
    /\ f.pc \in {"adopt", "take", "put", "complete"} => AllTouched(f.rec.deps)

Tells(f) == f.pc \in {"check", "put", "complete", "publish"} /\ f.ans.ok

NothingLags ==
    /\ \A x \in Query :
        LET c == cell[Live][x]
            r == shared[Live][x]
        IN  /\ c.st = "Ready" /\ c.ver = Now => AllTouched(c.deps)
            /\ r # NoRecord /\ r.ver = Now => AllTouched(r.deps)
            /\ c.st = "Ready" => r = NoRecord \/ r.val = c.val \/ PutPending(x)
            /\ PutPending(x) => CellTouched(x)
    /\ \A t \in Task, x \in Query :
        DepsTouched(frame[t][x]) /\ (Tells(frame[t][x]) => Touched(x))
    /\ \A h \in Holder, x \in Query :
        FlightOf(h, x) /\ OutcomeIs(h, "Done") => AllTouched(Payload(h).deps)

MeaningInv ==
    /\ OneTimeline
    /\ InputsAreDated
    /\ CellsAreSound
    /\ RecordsAreSound
    /\ FramesAreSound
    /\ StacksAreAsked
    /\ CellsAreRevalidated
    /\ RolesFit
    /\ FlightsAreSound
    /\ Alone => NothingLags
-----------------------------------------------------------------------------
(* Programs and their meaning *)

LEMMA DepListIs ==
    ASSUME NEW deps \in DepLists
    PROVE  /\ Len(deps) \in Nat /\ Len(deps) <= MaxReads /\ MaxReads \in Nat
           /\ deps \in [1..Len(deps) -> Input \union Query]
<1>1. PICK n \in 0..MaxReads : deps \in [1..n -> Input \union Query]
    BY DEF DepLists
<1>2. MaxReads \in Nat
    BY ProgramsEnd
<1>3. deps \in Seq(Input \union Query) /\ Len(deps) = n
    BY <1>1, <1>2, DepListsAre
<1> QED  BY <1>1, <1>2, <1>3

LEMMA UptoIs ==
    ASSUME NEW n \in Nat, NEW seen, \A i \in 1..n : seen[i] \in Answered
    PROVE  /\ Upto(seen, n) \in [1..n -> Answered]
           /\ \A i \in 1..n : Upto(seen, n)[i] = seen[i]
           /\ Upto(seen, n) \in Seq(Answered) /\ Len(Upto(seen, n)) = n
<1>1. Upto(seen, n) \in [1..n -> Answered] /\ \A i \in 1..n : Upto(seen, n)[i] = seen[i]
    BY DEF Upto
<1> QED  BY <1>1

LEMMA UptoAll ==
    ASSUME NEW n \in Nat, NEW seen \in [1..n -> Answered]
    PROVE  Upto(seen, n) = seen
    BY DEF Upto

(* What a query computed on some contents is its meaning there. *)
LEMMA ComputedIsMeant ==
    ASSUME TruthIsMeant, NEW x \in Query, NEW deps \in DepLists, NEW val,
           NEW ins \in Valuation, Computes(x, deps, val, ins)
    PROVE  Truth(x, ins) = [ok |-> TRUE, val |-> val]
<1>1. PICK seen \in [1..Len(deps) -> Answered] :
        /\ RunsOn(x, deps, seen, ins)
        /\ Program(x, seen).do = "ok" /\ Program(x, seen).val = val
    BY DEF Computes
<1>2. Truth(x, ins) = [ok |-> Program(x, seen).do = "ok", val |-> Program(x, seen).val]
    BY <1>1 DEF TruthIsMeant
<1>3. (Program(x, seen).do = "ok") = TRUE
    BY <1>1
<1> QED  BY <1>1, <1>2, <1>3

(* It is computed wherever its reads mean the same. *)
LEMMA ComputedElsewhere ==
    ASSUME NEW x, NEW deps, NEW val, NEW ins, NEW jns, Computes(x, deps, val, ins),
           \A n \in 1..Len(deps) : Mean(deps[n], ins) = Mean(deps[n], jns)
    PROVE  Computes(x, deps, val, jns)
<1>1. PICK seen \in [1..Len(deps) -> Answered] :
        /\ RunsOn(x, deps, seen, ins)
        /\ Program(x, seen).do = "ok" /\ Program(x, seen).val = val
    BY DEF Computes
<1>2. RunsOn(x, deps, seen, jns)
    BY <1>1 DEF RunsOn
<1> QED  BY <1>1, <1>2 DEF Computes

(* It read nothing but values: an error would have ended it. *)
LEMMA ReadsAreValues ==
    ASSUME ErrorsPropagate, NEW x \in Query, NEW deps \in DepLists, NEW seen \in [1..Len(deps) -> Answered],
           Asks(x, deps, seen), Program(x, seen).do = "ok"
    PROVE  \A n \in 1..Len(deps) : seen[n] \notin Error
<1> SUFFICES ASSUME NEW n \in 1..Len(deps), seen[n] \in Error PROVE FALSE
    OBVIOUS
<1>1. Len(deps) \in Nat /\ Len(deps) <= MaxReads /\ MaxReads \in Nat
    BY DepListIs
<1>2. n \in Nat /\ n \in 1..MaxReads
    BY <1>1
<1>3. Upto(seen, n) \in [1..n -> Answered] /\ Upto(seen, n)[n] = seen[n]
  <2>1. \A i \in 1..n : seen[i] \in Answered
    BY <1>1
  <2> QED  BY <1>2, <2>1, UptoIs
<1>4. Program(x, Upto(seen, n)) = [do |-> "err", val |-> seen[n]]
    BY <1>2, <1>3 DEF ErrorsPropagate
<1>5. Program(x, Upto(seen, n)).do = "err"
    BY <1>4
<1>6. CASE n = Len(deps)
    BY <1>1, <1>5, <1>6, UptoAll
<1>7. CASE n # Len(deps)
  <2>1. n + 1 \in 1..Len(deps) /\ (n + 1) - 1 = n
    BY <1>1, <1>7
  <2>2. Program(x, Upto(seen, n)).do = "get"
    BY <2>1 DEF Asks
  <2> QED  BY <1>5, <2>2
<1> QED  BY <1>6, <1>7

(* Once a query has been told of an error, it is what the query means. *)
LEMMA ErrorIsMeant ==
    ASSUME TruthIsMeant, ErrorsPropagate, NEW x \in Query, NEW ins \in Valuation,
           NEW deps \in DepLists, NEW i \in 1..Len(deps), NEW seen,
           \A n \in 1..Len(deps) : n < i => seen[n] \in Answered /\ seen[n] = Mean(deps[n], ins),
           \A n \in 1..Len(deps) : n <= i =>
               Program(x, Upto(seen, n - 1)).do = "get" /\ Program(x, Upto(seen, n - 1)).dep = deps[n],
           Mean(deps[i], ins) \in Error
    PROVE  Truth(x, ins) = [ok |-> FALSE, val |-> Mean(deps[i], ins)]
<1> DEFINE all == [n \in 1..i |-> Mean(deps[n], ins)]
           pre == [n \in 1..i |-> deps[n]]
<1>1. /\ Len(deps) \in Nat /\ Len(deps) <= MaxReads /\ MaxReads \in Nat
      /\ deps \in [1..Len(deps) -> Input \union Query]
    BY DepListIs
<1>2. i \in Nat /\ i \in 1..MaxReads /\ i \in 0..MaxReads /\ i \in 1..i
    BY <1>1
<1>3. \A n \in 1..i : n \in 1..Len(deps) /\ n \in Nat
    BY <1>1
<1>4. pre \in [1..i -> Input \union Query]
    BY <1>1, <1>3
<1>5. pre \in DepLists
    BY <1>2, <1>4 DEF DepLists
<1>6. Len(pre) = i
  <2>1. pre \in Seq(Input \union Query)
    BY <1>5, DepListsAre
  <2> QED  BY <1>2, <1>4, <2>1
<1>7. \A n \in 1..i : all[n] \in Answered
  <2> SUFFICES ASSUME NEW n \in 1..i PROVE Mean(deps[n], ins) \in Answered
    OBVIOUS
  <2>1. CASE n = i
    BY <2>1 DEF Answered
  <2>2. CASE n # i
    <3>1. n < i
      BY <1>2, <1>3, <2>2
    <3> QED  BY <1>3, <3>1
  <2> QED  BY <2>1, <2>2
<1>8. all \in [1..i -> Answered] /\ Len(all) = i
  <2>1. all \in [1..i -> Answered]
    BY <1>7
  <2>2. all \in Seq(Answered)
    BY <1>2, <2>1
  <2> QED  BY <1>2, <2>1, <2>2
<1>9. ASSUME NEW n \in 1..i PROVE Upto(all, n - 1) = Upto(seen, n - 1)
  <2>1. \A m \in 1..(n - 1) : m \in 1..i /\ m < i /\ m \in 1..Len(deps)
    BY <1>2, <1>3
  <2>2. \A m \in 1..(n - 1) : all[m] = seen[m]
    BY <2>1
  <2> HIDE DEF all
  <2> QED  BY <2>2 DEF Upto
<1> HIDE DEF all, pre
<1>10. Asks(x, pre, all)
  <2> SUFFICES ASSUME NEW n \in 1..i
               PROVE  Program(x, Upto(all, n - 1)).do = "get" /\ Program(x, Upto(all, n - 1)).dep = pre[n]
    BY <1>6 DEF Asks
  <2>1. n \in 1..Len(deps) /\ n <= i /\ pre[n] = deps[n]
    BY <1>3 DEF pre
  <2> QED  BY <1>9, <2>1
<1>11. RunsOn(x, pre, all, ins)
    BY <1>6, <1>8, <1>10 DEF RunsOn, all, pre
<1>12. all[i] = Mean(deps[i], ins)
    BY <1>2 DEF all
<1>13. Program(x, all) = [do |-> "err", val |-> all[i]]
    BY <1>2, <1>8, <1>12 DEF ErrorsPropagate
<1>14. Truth(x, ins) = [ok |-> Program(x, all).do = "ok", val |-> Program(x, all).val]
  <2>1. Program(x, all).do # "get"
    BY <1>13
  <2> QED  BY <1>5, <1>6, <1>8, <1>11, <2>1 DEF TruthIsMeant
<1>15. (Program(x, all).do = "ok") = FALSE
    BY <1>13
<1>16. Program(x, all).val = Mean(deps[i], ins)
    BY <1>12, <1>13
<1> QED  BY <1>14, <1>15, <1>16, Zenon
-----------------------------------------------------------------------------
(* The present *)

LEMMA HistoryIs ==
    ASSUME DbTypeOK
    PROVE  /\ Now \in Nat /\ Now \in Revision
           /\ hist[Live] \in Seq(Valuation) /\ Len(hist[Live]) = Now + 1
           /\ \A n \in 0..Now : Then(n) \in Valuation /\ n \in Revision /\ n \in Nat
           /\ Present = Then(Now) /\ Present \in Valuation /\ Present = Contents(Live)
<1>1. Now \in Nat /\ Now \in Revision /\ Now <= MaxRev /\ MaxRev \in Nat
    BY LiveIsAView, MaxRevIsNat DEF DbTypeOK, Now, Revision
<1>2. hist[Live] \in Seq(Valuation) /\ Len(hist[Live]) = Now + 1
    BY LiveIsAView DEF DbTypeOK, Now
<1>3. \A n \in 0..Now : n + 1 \in 1..Len(hist[Live]) /\ n \in Nat /\ n \in Revision
    BY <1>1, <1>2 DEF Revision
<1>4. \A n \in 0..Now : Then(n) \in Valuation
    BY <1>2, <1>3, ElementOfSeq DEF Then
<1>5. Now \in 0..Now
    BY <1>1
<1> QED  BY <1>1, <1>2, <1>3, <1>4, <1>5 DEF Present, Contents, Then, Now

(* An access works on the database as it is now. *)
LEMMA SeesThePresent ==
    ASSUME EngineTypes, QuietInv, OneTimeline, InputsAreDated, NEW t \in Task, Active(t)
    PROVE  /\ copied[home[t]] # 0 /\ rev[home[t]] = Now /\ hist[home[t]] = hist[Live]
           /\ Contents(home[t]) = Present /\ Scope(home[t]) = Live
           /\ \A i \in Input : Since(input[home[t]][i], i) /\ input[home[t]][i].val = Present[i]
           /\ F(t).pc \notin Unrevised => F(t).rev = Now
           /\ Alone => home[t] = Live
<1> DEFINE v == home[t]
<1>1. v \in View /\ v # NoView /\ Len(Ingredients) \in Nat
    BY AccessSees, NonesAreNone, IngredientsListed, LenProperties
<1>2. Ready(v)
    BY <1>1 DEF QuietInv, ReadyHomes
<1>3. copied[v] = Len(Ingredients) + 1 /\ copied[v] # 0
    BY <1>1, <1>2 DEF Ready
<1>4. rev[v] = Now /\ hist[v] = hist[Live] /\ ~diverged[v]
    BY <1>1, <1>3 DEF OneTimeline
<1>5. writing[Live] = NoWrite
  <2>1. CASE v = Live
    BY <1>1, <2>1 DEF QuietInv, QuietWrites
  <2>2. CASE v # Live
    <3>1. v \in Snapshots
      BY <1>1, <2>2 DEF Snapshots
    <3> QED  BY <1>3, <3>1 DEF OneTimeline
  <2> QED  BY <2>1, <2>2
<1>6. ASSUME NEW i \in Input PROVE Since(input[v][i], i)
  <2>1. Since(input[Live][i], i)
    BY <1>5 DEF InputsAreDated
  <2>2. CASE v = Live
    BY <2>1, <2>2
  <2>3. CASE v # Live
    <3>1. v \in Snapshots
      BY <1>1, <2>3 DEF Snapshots
    <3>2. PICK n \in 1..Len(Ingredients) : Ingredients[n] = i
      BY IngredientsListed
    <3>3. n \in 1..(copied[v] - 1)
      BY <1>1, <1>3
    <3>4. input[v][i] = input[Live][i]
      BY <3>1, <3>2, <3>3 DEF InputsAreDated
    <3> QED  BY <2>1, <3>4
  <2> QED  BY <2>2, <2>3
<1>7. F(t).pc \notin Unrevised => F(t).rev = Now
    BY <1>4, AccessRevision
<1>8. Alone => v = Live
    BY <1>1, <1>3 DEF Alone, Snapshots
<1>9. Contents(v) = Present /\ Scope(v) = Live
    BY <1>4 DEF Contents, Present, Then, Now, Scope
<1> QED  BY <1>3, <1>4, <1>6, <1>7, <1>8, <1>9 DEF Since

-----------------------------------------------------------------------------
(* Steps that do not write the database *)

\* A value with a stamp that is kept of x already, or that has changed now.
Dated(x, val, ch) == Stamp(x, val, ch) \/ ch = Now

NewMemo(x, m) == Sound(x, m, Now) /\ Dated(x, m.val, m.ch)

NewCell(x, c) ==
    \/ c \in {Vacant, Running}
    \/ c.st = "Ready" /\ c.ver = Now /\ NewMemo(x, c)
    \/ c.st = "Poisoned" /\ c.ver = Now /\ Truth(x, Present) = [ok |-> FALSE, val |-> c.err]

NewFrame(x, f) ==
    /\ FrameSound(x, f)
    /\ \A val \in QueryValue, ch \in Revision : FrameStamp(f, val, ch) => Dated(x, val, ch)

\* Cells, records, accesses and flights change as they may.
CellsGo ==
    \A v \in View, x \in Query :
        cell'[v][x] = cell[v][x] \/ (copied[v] # 0 /\ NewCell(x, cell'[v][x]))

RecordsGo ==
    \A x \in Query :
        \/ shared'[Live][x] \in {shared[Live][x], NoRecord}
        \/ shared'[Live][x].ver = Now /\ NewMemo(x, shared'[Live][x])

FramesGo ==
    \A u \in Task, x \in Query : frame'[u][x] = frame[u][x] \/ NewFrame(x, frame'[u][x])

FlightsGo ==
    \A h \in Holder, x \in Query : FlightOf(h, x)' /\ OutcomeIs(h, "Done")' =>
        \/ \E g \in Holder : FlightOf(g, x) /\ OutcomeIs(g, "Done") /\ Payload(g) = Payload(h)'
        \/ NewMemo(x, Payload(h)')

Steady == UNCHANGED dbVars /\ CellsGo /\ RecordsGo /\ FramesGo /\ FlightsGo

\* The database keeps its past.
SamePast == rev'[Live] = rev[Live] /\ hist'[Live] = hist[Live]

LEMMA PastStays ==
    ASSUME SamePast
    PROVE  /\ Now' = Now /\ Present' = Present /\ \A n : Then(n)' = Then(n)
           /\ \A x, m, n : Sound(x, m, n)' <=> Sound(x, m, n)
           /\ \A e, i : Since(e, i)' <=> Since(e, i)
<1>1. Now' = Now /\ \A n : Then(n)' = Then(n)
    BY DEF SamePast, Now, Then
<1>2. Present' = Present
    BY DEF SamePast, Present, Now, Then
<1>3. \A x, m, n : Sound(x, m, n)' <=> Sound(x, m, n)
    BY <1>1 DEF Sound, Computes
<1>4. \A e, i : Since(e, i)' <=> Since(e, i)
    BY <1>1, <1>2 DEF Since
<1> QED  BY <1>1, <1>2, <1>3, <1>4

LEMMA StampsStay ==
    ASSUME Steady
    PROVE  \A x \in Query, val \in QueryValue, ch \in Revision : Stamp(x, val, ch)' => Dated(x, val, ch)
<1> SUFFICES ASSUME NEW x \in Query, NEW val \in QueryValue, NEW ch \in Revision, Stamp(x, val, ch)'
             PROVE  Dated(x, val, ch)
    OBVIOUS
<1>1. CASE \E v \in View : cell'[v][x].st = "Ready" /\ cell'[v][x].val = val /\ cell'[v][x].ch = ch
  <2>1. PICK v \in View : cell'[v][x].st = "Ready" /\ cell'[v][x].val = val /\ cell'[v][x].ch = ch
    BY <1>1
  <2>2. cell'[v][x] = cell[v][x] \/ NewCell(x, cell'[v][x])
    BY DEF Steady, CellsGo
  <2> QED  BY <2>1, <2>2 DEF Dated, Stamp, NewCell, NewMemo, Vacant, Running
<1>2. CASE shared'[Live][x] # NoRecord /\ shared'[Live][x].val = val /\ shared'[Live][x].ch = ch
  <2>1. shared'[Live][x] = shared[Live][x] \/ NewMemo(x, shared'[Live][x])
    BY <1>2 DEF Steady, RecordsGo
  <2> QED  BY <1>2, <2>1 DEF Dated, Stamp, NewMemo
<1>3. CASE \E t \in Task : FrameStamp(frame'[t][x], val, ch)
  <2>1. PICK t \in Task : FrameStamp(frame'[t][x], val, ch)
    BY <1>3
  <2>2. frame'[t][x] = frame[t][x] \/ NewFrame(x, frame'[t][x])
    BY DEF Steady, FramesGo
  <2> QED  BY <2>1, <2>2 DEF Dated, Stamp, NewFrame
<1>4. CASE \E h \in Holder :
        FlightOf(h, x)' /\ OutcomeIs(h, "Done")' /\ Payload(h)'.val = val /\ Payload(h)'.ch = ch
  <2>1. PICK h \in Holder :
            FlightOf(h, x)' /\ OutcomeIs(h, "Done")' /\ Payload(h)'.val = val /\ Payload(h)'.ch = ch
    BY <1>4
  <2>2. \/ \E g \in Holder : FlightOf(g, x) /\ OutcomeIs(g, "Done") /\ Payload(g) = Payload(h)'
        \/ NewMemo(x, Payload(h)')
    BY <2>1 DEF Steady, FlightsGo
  <2> QED  BY <2>1, <2>2 DEF Dated, Stamp, NewMemo
<1> QED  BY <1>1, <1>2, <1>3, <1>4 DEF Stamp

LEMMA UsableStays ==
    ASSUME DbTypeOK, SamePast, NEW x, NEW m, NEW n, Usable(x, m, n),
           \A y \in Query, val \in QueryValue, ch \in Revision : Stamp(y, val, ch)' => Dated(y, val, ch)
    PROVE  Usable(x, m, n)'
<1>1. Sound(x, m, n) /\ (n < Now => Kept(m, n))
    BY DEF Usable
<1>2. Sound(x, m, n)' /\ Now' = Now /\ Then(n)' = Then(n)
    BY <1>1, PastStays
<1>3. m.ch \in 0..n /\ n \in 0..Now /\ Now \in Nat
    BY <1>1, HistoryIs DEF Sound
<1>4. ASSUME n < Now PROVE Kept(m, n)'
  <2> SUFFICES ASSUME NEW i \in 1..Len(m.deps), m.deps[i] \in Query,
                      NEW val \in QueryValue, NEW ch \in Revision,
                      Stamp(m.deps[i], val, ch)', ch <= m.ch
               PROVE  val = Truth(m.deps[i], Then(n)).val
    BY <1>2 DEF Kept
  <2>1. Dated(m.deps[i], val, ch)
    OBVIOUS
  <2>2. ch # Now
    BY <1>3, <1>4
  <2> QED  BY <1>1, <1>4, <2>1, <2>2 DEF Dated, Kept
<1> QED  BY <1>2, <1>4 DEF Usable

MemosInv ==
    /\ OneTimeline
    /\ InputsAreDated
    /\ CellsAreSound
    /\ RecordsAreSound
    /\ FramesAreSound

(* What a steady step keeps or adds is sound. *)
LEMMA SteadyKeepsMemos ==
    ASSUME EngineTypes, MemosInv, Steady
    PROVE  MemosInv'
<1>1. DbTypeOK /\ UNCHANGED dbVars /\ SamePast
    BY DEF EngineTypes, Steady, dbVars, SamePast
<1>2. /\ Now' = Now /\ Present' = Present /\ \A n : Then(n)' = Then(n)
      /\ \A x, m, n : Sound(x, m, n)' <=> Sound(x, m, n)
      /\ \A e, i : Since(e, i)' <=> Since(e, i)
    BY <1>1, PastStays
<1>3. \A y \in Query, val \in QueryValue, ch \in Revision : Stamp(y, val, ch)' => Dated(y, val, ch)
    BY StampsStay
<1>4. \A x, m, n : Usable(x, m, n) => Usable(x, m, n)'
    BY <1>1, <1>3, UsableStays
<1>5. \A x, m : Sound(x, m, Now) => Usable(x, m, Now)'
  <2>1. \A k : ~(k < k) \/ k \notin Nat
    OBVIOUS
  <2> QED  BY <1>1, <1>2, <2>1, HistoryIs DEF Usable
<1>6. OneTimeline'
  <2>1. /\ rev' = rev /\ diverged' = diverged /\ input' = input /\ writing' = writing
        /\ copied' = copied /\ hist' = hist
    BY <1>1 DEF dbVars
  <2>2. ASSUME NEW s \in Snapshots, copied[s] = 0, NEW x \in Query PROVE cell'[s][x] = Vacant
    <3>1. s \in View /\ cell[s][x] = Vacant
      BY <2>2 DEF MemosInv, OneTimeline, Snapshots
    <3> QED  BY <2>2, <3>1 DEF Steady, CellsGo
  <2> QED  BY <1>2, <2>1, <2>2 DEF MemosInv, OneTimeline
<1>7. InputsAreDated'
    BY <1>1, <1>2 DEF MemosInv, InputsAreDated, dbVars
<1>8. CellsAreSound'
  <2> SUFFICES ASSUME NEW v \in View, NEW x \in Query, NEW c, c = cell'[v][x]
               PROVE  /\ c.st = "Ready" => Usable(x, c, c.ver)'
                      /\ c.st = "Poisoned" =>
                            c.ver <= Now /\ Truth(x, Then(c.ver)) = [ok |-> FALSE, val |-> c.err]
    BY <1>2 DEF CellsAreSound
  <2>1. CASE c = cell[v][x]
    BY <1>4, <2>1 DEF MemosInv, CellsAreSound
  <2>2. CASE NewCell(x, c)
    <3>1. Now <= Now /\ Present = Then(Now)
      BY <1>1, HistoryIs
    <3>2. ASSUME c.st = "Ready" PROVE Usable(x, c, c.ver)'
      <4>1. c.ver = Now /\ Sound(x, c, Now)
        BY <2>2, <3>2 DEF NewCell, NewMemo, Vacant, Running
      <4> QED  BY <1>2, <1>5, <4>1
    <3>3. ASSUME c.st = "Poisoned"
          PROVE  c.ver <= Now /\ Truth(x, Then(c.ver)) = [ok |-> FALSE, val |-> c.err]
      <4>1. c \notin {Vacant, Running}
        BY <3>3 DEF Vacant, Running
      <4>2. c.ver = Now /\ Truth(x, Present) = [ok |-> FALSE, val |-> c.err]
        BY <2>2, <3>3, <4>1 DEF NewCell
      <4> QED  BY <3>1, <4>2
    <3> QED  BY <3>2, <3>3
  <2> QED  BY <2>1, <2>2 DEF Steady, CellsGo
<1>9. RecordsAreSound'
  <2> SUFFICES ASSUME NEW x \in Query, NEW r, r = shared'[Live][x], r # NoRecord
               PROVE  Usable(x, r, r.ver)'
    BY DEF RecordsAreSound
  <2>1. CASE r = shared[Live][x]
    BY <1>4, <2>1 DEF MemosInv, RecordsAreSound
  <2>2. CASE r.ver = Now /\ NewMemo(x, r)
    <3>1. Sound(x, r, Now)
      BY <2>2 DEF NewMemo
    <3> QED  BY <1>2, <1>5, <2>2, <3>1
  <2> QED  BY <2>1, <2>2 DEF Steady, RecordsGo
<1>10. FramesAreSound'
  <2> SUFFICES ASSUME NEW u \in Task, NEW x \in Query, NEW f, f = frame'[u][x]
               PROVE  FrameSound(x, f)'
    BY DEF FramesAreSound
  <2>1. FrameSound(x, f)
    BY DEF Steady, FramesGo, NewFrame, MemosInv, FramesAreSound
  <2>2. Revalidates(x, f.rec, f.i) => Revalidates(x, f.rec, f.i)'
    BY <1>2, <1>4 DEF Revalidates
  <2>3. HasRead(x, f.deps, f.seen) => HasRead(x, f.deps, f.seen)'
    BY <1>2 DEF HasRead
  <2>4. Means(x, f.ans) => Means(x, f.ans)'
    BY <1>2 DEF Means
  <2> QED  BY <1>2, <2>1, <2>2, <2>3, <2>4 DEF FrameSound
<1> QED  BY <1>6, <1>7, <1>8, <1>9, <1>10 DEF MemosInv
-----------------------------------------------------------------------------
(* Stacks *)

\* The program of f has been told of all it has asked for.
Even(f) == f.pc = "compute" => Len(f.deps) = Len(f.seen)

SameAccesses(s, n, fr, gr) == \A m \in 1..n : gr[s[m]] = fr[s[m]]

RankFalls(s, q) ==
    \A rank \in [Query -> 0..Cardinality(Query)] : IsRank(rank) => rank[q] < rank[s[Len(s)]]

(* The access on top of a stack goes on. *)
LEMMA TopGoesOn ==
    ASSUME NEW s \in Seq(Query), Len(s) \in Nat \ {0}, NEW fr, NEW gr, StackIsAsked(s, fr),
           SameAccesses(s, Len(s) - 1, fr, gr), Even(gr[s[Len(s)]])
    PROVE  StackIsAsked(s, gr)
<1>1. \A n \in 1..(Len(s) - 1) : Waits(gr[s[n]], s[n + 1])
    BY DEF StackIsAsked, SameAccesses
<1>2. \A n \in 1..Len(s) : n = Len(s) /\ gr[s[n]].pc = "compute" =>
        Len(gr[s[n]].deps) = Len(gr[s[n]].seen)
    BY DEF Even
<1>3. \A rank \in [Query -> 0..Cardinality(Query)] : IsRank(rank) =>
        \A m, n \in 1..Len(s) : m < n => rank[s[n]] < rank[s[m]]
    BY DEF StackIsAsked
<1> QED  BY <1>1, <1>2, <1>3 DEF StackIsAsked

(* It asks for q. *)
LEMMA TopAsks ==
    ASSUME NEW s \in Seq(Query), Len(s) \in Nat \ {0}, NEW fr, NEW gr, StackIsAsked(s, fr),
           NEW q \in Query, SameAccesses(s, Len(s) - 1, fr, gr),
           Waits(gr[s[Len(s)]], q), gr[q].pc # "compute", RankFalls(s, q)
    PROVE  StackIsAsked(Append(s, q), gr)
<1> DEFINE r == Append(s, q)
           k == Len(s)
<1>1. k \in Nat /\ k # 0
    OBVIOUS
<1>2. Len(r) = k + 1 /\ r[k + 1] = q /\ \A n \in 1..k : r[n] = s[n]
    BY AppendProperties
<1> HIDE DEF r, k
<1>3. ASSUME NEW n \in 1..Len(r), n = Len(r), gr[r[n]].pc = "compute"
      PROVE  Len(gr[r[n]].deps) = Len(gr[r[n]].seen)
    BY <1>2, <1>3
<1>4. ASSUME NEW n \in 1..(Len(r) - 1) PROVE Waits(gr[r[n]], r[n + 1])
  <2>1. CASE n = k
    BY <1>1, <1>2, <2>1 DEF k
  <2>2. CASE n # k
    <3>1. n \in 1..(k - 1) /\ n \in 1..k /\ n + 1 \in 1..k
      BY <1>1, <1>2, <2>2
    <3>2. Waits(fr[s[n]], s[n + 1]) /\ gr[s[n]] = fr[s[n]]
      BY <3>1 DEF k, StackIsAsked, SameAccesses
    <3> QED  BY <1>2, <3>1, <3>2
  <2> QED  BY <2>1, <2>2
<1>5. ASSUME NEW rank \in [Query -> 0..Cardinality(Query)], IsRank(rank),
             NEW m \in 1..Len(r), NEW n \in 1..Len(r), m < n
      PROVE  rank[r[n]] < rank[r[m]]
  <2>1. \A a, b \in 1..k : a < b => rank[s[b]] < rank[s[a]]
    BY <1>5 DEF k, StackIsAsked
  <2>2. rank[q] < rank[s[k]]
    BY <1>5 DEF k, RankFalls
  <2>3. m \in 1..k /\ k \in 1..k
    BY <1>1, <1>2, <1>5
  <2>4. CASE n \in 1..k
    BY <1>2, <1>5, <2>1, <2>3, <2>4
  <2>5. CASE n = k + 1
    <3>1. \A a \in 1..k : s[a] \in Query
      BY ElementOfSeq DEF k
    <3>2. rank[s[m]] \in Nat /\ rank[s[k]] \in Nat /\ rank[q] \in Nat
      <4>1. \A y \in Query : rank[y] \in 0..Cardinality(Query)
        BY <1>5
      <4> QED  BY <2>3, <3>1, <4>1
    <3>3. m = k \/ rank[s[k]] < rank[s[m]]
      BY <1>1, <2>1, <2>3
    <3> QED  BY <1>2, <2>2, <2>3, <2>5, <3>2, <3>3
  <2> QED  BY <1>1, <1>2, <2>4, <2>5
<1>6. StackIsAsked(r, gr)
    BY <1>3, <1>4, <1>5 DEF StackIsAsked
<1> QED  BY <1>6 DEF r

(* It ends, and the one below goes on. *)
LEMMA TopEnds ==
    ASSUME NEW s \in Seq(Query), Len(s) \in Nat \ {0}, NEW fr, NEW gr, StackIsAsked(s, fr),
           SameAccesses(s, Len(s) - 2, fr, gr),
           NEW r, Len(r) = Len(s) - 1, \A n \in 1..Len(r) : r[n] = s[n],
           Len(s) > 1 => Even(gr[s[Len(s) - 1]])
    PROVE  StackIsAsked(r, gr)
<1> DEFINE k == Len(s)
<1>1. k \in Nat /\ k # 0 /\ Len(r) = k - 1
    OBVIOUS
<1>2. /\ \A n \in 1..(k - 1) : Waits(fr[s[n]], s[n + 1])
      /\ \A n \in 1..(k - 2) : gr[s[n]] = fr[s[n]]
      /\ k > 1 => Even(gr[s[k - 1]])
      /\ \A rank \in [Query -> 0..Cardinality(Query)] : IsRank(rank) =>
            \A m, n \in 1..k : m < n => rank[s[n]] < rank[s[m]]
    BY DEF StackIsAsked, SameAccesses
<1> HIDE DEF k
<1>3. ASSUME NEW n \in 1..Len(r), n = Len(r), gr[r[n]].pc = "compute"
      PROVE  Len(gr[r[n]].deps) = Len(gr[r[n]].seen)
  <2>1. n = k - 1 /\ k > 1 /\ r[n] = s[k - 1]
    BY <1>1, <1>3
  <2> QED  BY <1>2, <1>3, <2>1 DEF Even
<1>4. ASSUME NEW n \in 1..(Len(r) - 1) PROVE Waits(gr[r[n]], r[n + 1])
  <2>1. n \in 1..(k - 2) /\ n \in 1..(k - 1) /\ n \in 1..Len(r) /\ n + 1 \in 1..Len(r)
    BY <1>1
  <2> QED  BY <1>2, <2>1
<1>5. \A rank \in [Query -> 0..Cardinality(Query)] : IsRank(rank) =>
        \A m, n \in 1..Len(r) : m < n => rank[r[n]] < rank[r[m]]
  <2>1. \A n \in 1..Len(r) : n \in 1..k
    BY <1>1
  <2> QED  BY <1>2, <2>1
<1> QED  BY <1>3, <1>4, <1>5 DEF StackIsAsked

\* Two entries of a stack are accesses of different queries.
LEMMA StackTop ==
    ASSUME EngineTypes, NEW t \in Task, Active(t)
    PROVE  /\ stack[t] \in Seq(Query) /\ Len(stack[t]) \in Nat \ {0}
           /\ Cur(t) = stack[t][Len(stack[t])] /\ Cur(t) \in Query
           /\ \A n \in 1..Len(stack[t]) : stack[t][n] \in Query
           /\ \A m, n \in 1..Len(stack[t]) : stack[t][m] = stack[t][n] => m = n
           /\ \A n \in 1..(Len(stack[t]) - 1) : stack[t][n] # Cur(t)
<1>1. /\ stack[t] \in Seq(Query) /\ Len(stack[t]) \in Nat \ {0}
      /\ Cur(t) = stack[t][Len(stack[t])] /\ Cur(t) \in Query
      /\ Len(stack[t]) \in 1..Len(stack[t])
    BY CurrentIsOnStack DEF EngineTypes, TasksTyped
<1>2. \A n \in 1..Len(stack[t]) : stack[t][n] \in Query
    BY <1>1, ElementOfSeq
<1>3. \A m, n \in 1..Len(stack[t]) : stack[t][m] = stack[t][n] => m = n
    BY DEF EngineTypes, StacksFit
<1>4. \A n \in 1..(Len(stack[t]) - 1) : n \in 1..Len(stack[t]) /\ n # Len(stack[t])
    BY <1>1
<1> QED  BY <1>1, <1>2, <1>3, <1>4

LEMMA GoKeepsStacks ==
    ASSUME EngineTypes, StacksAreAsked, NEW t \in Task, Active(t), NEW g, Go(t, g),
           Even(g)
    PROVE  StacksAreAsked'
<1> DEFINE q == Cur(t)
           s == stack[t]
<1>1. /\ s \in Seq(Query) /\ Len(s) \in Nat \ {0} /\ q = s[Len(s)] /\ q \in Query
      /\ \A n \in 1..(Len(s) - 1) : s[n] \in Query /\ s[n] # q
    BY StackTop
<1>2. stack' = stack /\ frame' = [frame EXCEPT ![t][q] = g] /\ frame \in [Task -> [Query -> Frame]]
    BY DEF Go, EngineTypes, TasksTyped
<1>3. StackIsAsked(s, frame[t])
    BY DEF StacksAreAsked
<1> HIDE DEF q, s
<1>4. /\ frame'[t][q] = g /\ \A x \in Query : x # q => frame'[t][x] = frame[t][x]
      /\ \A u \in Task : u # t => frame'[u] = frame[u]
    BY <1>1, <1>2
<1>5. SameAccesses(s, Len(s) - 1, frame[t], frame'[t])
    BY <1>1, <1>4 DEF SameAccesses
<1>6. StackIsAsked(s, frame'[t])
  <2>1. Even(frame'[t][s[Len(s)]])
    BY <1>1, <1>4
  <2> QED  BY <1>1, <1>3, <1>5, <2>1, TopGoesOn
<1>7. \A u \in Task : StackIsAsked(stack'[u], frame'[u])
    BY <1>2, <1>4, <1>6 DEF StacksAreAsked, s
<1> QED  BY <1>7 DEF StacksAreAsked, StackIsAsked, IsRank, Waits

LEMMA CallKeepsStacks ==
    ASSUME EngineTypes, StacksAreAsked, NEW t \in Task, Active(t), NEW q \in Query, ~OnStack(t, q),
           NEW f, Call(t, q, f), Waits(f, q),
           RankFalls(stack[t], q)
    PROVE  StacksAreAsked'
<1> DEFINE c == Cur(t)
           s == stack[t]
<1>1. /\ s \in Seq(Query) /\ Len(s) \in Nat \ {0} /\ c = s[Len(s)] /\ c \in Query
      /\ \A n \in 1..(Len(s) - 1) : s[n] \in Query /\ s[n] # c
    BY StackTop
<1>2. /\ stack' = [stack EXCEPT ![t] = Append(s, q)]
      /\ frame' = [frame EXCEPT ![t] = [frame[t] EXCEPT ![c] = f, ![q] = AtTop]]
      /\ frame \in [Task -> [Query -> Frame]] /\ stack \in [Task -> Seq(Query)]
    BY DEF Call, EngineTypes, TasksTyped
<1>3. StackIsAsked(s, frame[t]) /\ RankFalls(s, q)
    BY DEF StacksAreAsked
<1>4. \A n \in 1..Len(s) : s[n] # q
    BY DEF OnStack
<1> HIDE DEF c, s
<1>5. c # q
  <2>1. Len(s) \in 1..Len(s)
    BY <1>1
  <2> QED  BY <1>1, <1>4, <2>1
<1>6. /\ frame'[t][c] = f /\ frame'[t][q] = AtTop
      /\ \A x \in Query : x # c /\ x # q => frame'[t][x] = frame[t][x]
      /\ \A u \in Task : u # t => frame'[u] = frame[u] /\ stack'[u] = stack[u]
      /\ stack'[t] = Append(s, q)
    BY <1>1, <1>2, <1>5
<1>7. SameAccesses(s, Len(s) - 1, frame[t], frame'[t])
  <2>1. \A n \in 1..(Len(s) - 1) : n \in 1..Len(s)
    BY <1>1
  <2> QED  BY <1>1, <1>4, <1>6, <2>1 DEF SameAccesses
<1>8. StackIsAsked(Append(s, q), frame'[t])
  <2>1. Waits(frame'[t][s[Len(s)]], q) /\ frame'[t][q].pc # "compute"
    BY <1>1, <1>6, IdleIsFrame
  <2> QED  BY <1>1, <1>3, <1>7, <2>1, TopAsks
<1>9. \A u \in Task : StackIsAsked(stack'[u], frame'[u])
    BY <1>6, <1>8 DEF StacksAreAsked
<1> QED  BY <1>9 DEF StacksAreAsked, StackIsAsked, IsRank, Waits

LEMMA PopKeepsStacks ==
    ASSUME EngineTypes, StacksAreAsked, NEW t \in Task, Active(t),
           stack' = [stack EXCEPT ![t] = Below(t)],
           Below(t) = <<>> => frame' = [frame EXCEPT ![t][Cur(t)] = Idle],
           NEW f, Below(t) # <<>> =>
                /\ frame' = [frame EXCEPT ![t] = [frame[t] EXCEPT ![Cur(t)] = Idle, ![Caller(t)] = f]]
                /\ Even(f)
    PROVE  StacksAreAsked'
<1> DEFINE q == Cur(t)
           c == Caller(t)
           s == stack[t]
           r == Below(t)
<1>1. /\ s \in Seq(Query) /\ Len(s) \in Nat \ {0} /\ q = s[Len(s)] /\ q \in Query
      /\ \A n \in 1..(Len(s) - 1) : s[n] \in Query /\ s[n] # q
      /\ \A m, n \in 1..Len(s) : s[m] = s[n] => m = n
    BY StackTop
<1>2. /\ r \in Seq(Query) /\ Len(r) = Len(s) - 1 /\ \A n \in 1..(Len(s) - 1) : r[n] = s[n]
      /\ r # <<>> => c \in Query /\ c # q /\ c = s[Len(s) - 1]
    BY BelowIsWaiting DEF EngineTypes
<1>3. /\ stack' = [stack EXCEPT ![t] = r] /\ StackIsAsked(s, frame[t])
      /\ r = <<>> => frame' = [frame EXCEPT ![t][q] = Idle]
      /\ r # <<>> => frame' = [frame EXCEPT ![t] = [frame[t] EXCEPT ![q] = Idle, ![c] = f]] /\ Even(f)
      /\ frame \in [Task -> [Query -> Frame]] /\ stack \in [Task -> Seq(Query)]
    BY DEF EngineTypes, TasksTyped, StacksAreAsked
<1> HIDE DEF q, c, s, r
<1>4. /\ \A u \in Task : u # t => frame'[u] = frame[u] /\ stack'[u] = stack[u]
      /\ stack'[t] = r
  <2>1. CASE r = <<>>
    BY <1>1, <1>3, <2>1
  <2>2. CASE r # <<>>
    BY <1>1, <1>3, <2>2
  <2> QED  BY <2>1, <2>2
<1>5. r # <<>> =>
        frame'[t][c] = f /\ \A x \in Query : x # q /\ x # c => frame'[t][x] = frame[t][x]
    BY <1>1, <1>2, <1>3
<1>6. SameAccesses(s, Len(s) - 2, frame[t], frame'[t])
  <2> SUFFICES ASSUME NEW n \in 1..(Len(s) - 2) PROVE frame'[t][s[n]] = frame[t][s[n]]
    BY DEF SameAccesses
  <2>1. /\ n \in 1..(Len(s) - 1) /\ n \in 1..Len(s) /\ Len(s) - 1 \in 1..Len(s) /\ n # Len(s) - 1
        /\ Len(r) # 0
    BY <1>1, <1>2
  <2>2. r # <<>>
    BY <2>1
  <2>3. s[n] # c /\ s[n] # q /\ s[n] \in Query
    BY <1>1, <1>2, <2>1, <2>2
  <2> QED  BY <1>5, <2>2, <2>3
<1>7. Len(s) > 1 => Even(frame'[t][s[Len(s) - 1]])
  <2>1. Len(s) > 1 => r # <<>>
    BY <1>1, <1>2
  <2> QED  BY <1>2, <1>3, <1>5, <2>1
<1>8. StackIsAsked(r, frame'[t])
  <2>1. \A n \in 1..Len(r) : r[n] = s[n]
    BY <1>2
  <2> QED  BY <1>1, <1>2, <1>3, <1>6, <1>7, <2>1, TopEnds
<1>9. \A u \in Task : StackIsAsked(stack'[u], frame'[u])
    BY <1>4, <1>8 DEF StacksAreAsked
<1> QED  BY <1>9 DEF StacksAreAsked, StackIsAsked, IsRank, Waits
-----------------------------------------------------------------------------
(* A step that does not write the database *)

\* The access of x by u may go on with g.
MayBecome(u, x, g) ==
    /\ NewFrame(x, g)
    /\ g.pc = "touchLocal" => Matches(cell'[home'[u]][x], g.rec)
    /\ Alone =>
        /\ DepsTouched(g)
        /\ Tells(g) => RecordTouched(x) \/ g.pc = "put"
        /\ (Tells(g) \/ g.pc = "put") /\ cell'[Live][x].st = "Ready" => cell'[Live][x].ver = Now
        /\ frame[u][x].pc = "put" /\ g.pc # "put" =>
            shared'[Live][x] # NoRecord /\ shared'[Live][x].val = Truth(x, Present).val

FramesProceed ==
    \A u \in Task, x \in Query :
        \/ frame'[u][x] = frame[u][x] /\ (frame[u][x].pc = "touchLocal" => home'[u] = home[u])
        \/ MayBecome(u, x, frame'[u][x])

\* Before the first snapshot what becomes a cell or a record is touched.
CellsProceed ==
    /\ CellsGo
    /\ Alone => \A x \in Query :
        LET c == cell[Live][x]
            d == cell'[Live][x]
        IN  d # c /\ d.st = "Ready" =>
                AllTouched(d.deps) /\ ((c.st = "Ready" /\ c.val = d.val) \/ PutPending(x)')

RecordsProceed ==
    /\ RecordsGo
    /\ Alone => \A x \in Query :
        shared'[Live][x] \notin {shared[Live][x], NoRecord} =>
            PutPending(x) /\ AllTouched(shared'[Live][x].deps)

FlightsProceed ==
    /\ FlightsGo
    /\ FlightsAreSound'
    /\ Alone => \A h \in Holder, x \in Query :
        FlightOf(h, x)' /\ OutcomeIs(h, "Done")' => AllTouched(Payload(h)'.deps)

LEMMA SoundIsTruth ==
    ASSUME TruthIsMeant, DbTypeOK, NEW x \in Query, NEW m, NEW n, Sound(x, m, n)
    PROVE  Truth(x, Then(n)) = [ok |-> TRUE, val |-> m.val]
<1>1. Then(n) \in Valuation /\ m.deps \in DepLists /\ Computes(x, m.deps, m.val, Then(n))
    BY HistoryIs DEF Sound
<1> QED  BY <1>1, ComputedIsMeant

LEMMA LagsStay ==
    ASSUME DbTypeOK, TruthIsMeant, UNCHANGED dbVars, CellsAreSound, Alone, NothingLags,
           CellsProceed, RecordsProceed, FlightsProceed, FramesProceed
    PROVE  NothingLags'
<1>1. SamePast /\ copied' = copied
    BY DEF dbVars, SamePast
<1>2. Now' = Now /\ Present' = Present /\ Present = Then(Now)
    BY <1>1, PastStays, HistoryIs
\* A query that a put is still pending for stays touched.
<1>3. ASSUME NEW u \in Task, NEW x \in Query, frame[u][x].pc = "put"
      PROVE  \/ frame'[u][x].pc = "put"
             \/ shared'[Live][x] # NoRecord /\ shared'[Live][x].val = Truth(x, Present).val
    BY <1>3 DEF FramesProceed, MayBecome
<1>4. \A x \in Query : PutPending(x) =>
        \/ PutPending(x)'
        \/ shared'[Live][x] # NoRecord /\ shared'[Live][x].val = Truth(x, Present).val
    BY <1>3 DEF PutPending
\* What is kept as a record is what it was, gone, or the query's meaning now.
<1>5. ASSUME NEW x \in Query
      PROVE  \/ shared'[Live][x] \in {shared[Live][x], NoRecord}
             \/ shared'[Live][x].val = Truth(x, Present).val
  <2>1. CASE NewMemo(x, shared'[Live][x])
    <3>1. Truth(x, Then(Now)) = [ok |-> TRUE, val |-> shared'[Live][x].val]
      BY <2>1, SoundIsTruth DEF NewMemo
    <3> QED  BY <1>2, <3>1
  <2> QED  BY <2>1 DEF RecordsProceed, RecordsGo
<1>6. ASSUME NEW x \in Query, RecordTouched(x) PROVE RecordTouched(x)'
    BY <1>2, <1>4, <1>5, <1>6 DEF RecordTouched
<1>7. ASSUME NEW x \in Query, CellTouched(x) PROVE CellTouched(x)'
  <2>1. cell'[Live][x] = cell[Live][x] \/ NewCell(x, cell'[Live][x])
    BY LiveIsAView DEF CellsProceed, CellsGo
  <2> QED  BY <1>2, <1>7, <2>1 DEF CellTouched, NewCell, Vacant, Running
<1>8. \A x \in Query : Touched(x) => Touched(x)'
    BY <1>6, <1>7 DEF Touched
<1>9. \A deps : AllTouched(deps) => AllTouched(deps)'
    BY <1>8 DEF AllTouched
<1>10. \A f : DepsTouched(f) => DepsTouched(f)'
    BY <1>8, <1>9 DEF DepsTouched
<1>11. ASSUME NEW x \in Query, NEW c, c = cell'[Live][x], NEW r, r = shared'[Live][x]
       PROVE  /\ c.st = "Ready" /\ c.ver = Now => AllTouched(c.deps)'
              /\ r # NoRecord /\ r.ver = Now => AllTouched(r.deps)'
              /\ c.st = "Ready" => r = NoRecord \/ r.val = c.val \/ PutPending(x)'
              /\ PutPending(x)' => CellTouched(x)'
  <2>1. /\ cell[Live][x].st = "Ready" /\ cell[Live][x].ver = Now => AllTouched(cell[Live][x].deps)
        /\ shared[Live][x] # NoRecord /\ shared[Live][x].ver = Now => AllTouched(shared[Live][x].deps)
        /\ cell[Live][x].st = "Ready" =>
            shared[Live][x] = NoRecord \/ shared[Live][x].val = cell[Live][x].val \/ PutPending(x)
        /\ PutPending(x) => CellTouched(x)
    BY DEF NothingLags
  <2>2. c # cell[Live][x] /\ c.st = "Ready" =>
            /\ AllTouched(c.deps)
            /\ (cell[Live][x].st = "Ready" /\ cell[Live][x].val = c.val) \/ PutPending(x)'
    BY <1>11 DEF CellsProceed
  <2>3. r \notin {shared[Live][x], NoRecord} => PutPending(x) /\ AllTouched(r.deps)
    BY <1>11 DEF RecordsProceed
  <2>4. c.st = "Ready" /\ c.ver = Now => AllTouched(c.deps)'
    BY <1>9, <2>1, <2>2
  <2>5. r # NoRecord /\ r.ver = Now => AllTouched(r.deps)'
    BY <1>9, <2>1, <2>3
  <2>6. PutPending(x)' => CellTouched(x)'
    <3> SUFFICES ASSUME NEW u \in Task, frame'[u][x].pc = "put", c.st = "Ready"
                 PROVE  c.ver = Now
      BY <1>2, <1>11 DEF PutPending, CellTouched
    <3>1. CASE frame'[u][x] = frame[u][x]
      <4>1. CellTouched(x)
        BY <2>1, <3>1 DEF PutPending
      <4>2. CellTouched(x)'
        BY <1>7, <4>1
      <4> QED  BY <1>2, <1>11, <4>2 DEF CellTouched
    <3>2. CASE MayBecome(u, x, frame'[u][x])
      BY <1>11, <3>2 DEF MayBecome
    <3> QED  BY <3>1, <3>2 DEF FramesProceed
  <2>7. ASSUME c.st = "Ready", r # NoRecord, r.val # c.val PROVE PutPending(x)'
    \* The meaning of a cell that is not older than now is that of x now.
    <3>1. CellTouched(x)' => c.val = Truth(x, Present).val
      <4> SUFFICES ASSUME c.ver = Now PROVE c.val = Truth(x, Present).val
        BY <1>2, <1>11, <2>7 DEF CellTouched
      <4>1. Sound(x, c, Now)
        <5>1. CASE c = cell[Live][x]
          BY <2>7, <5>1, LiveIsAView DEF CellsAreSound, Usable
        <5>2. CASE NewCell(x, c)
          BY <2>7, <5>2 DEF NewCell, NewMemo, Vacant, Running
        <5> QED  BY <1>11, <5>1, <5>2, LiveIsAView DEF CellsProceed, CellsGo
      <4>2. Truth(x, Then(Now)) = [ok |-> TRUE, val |-> c.val]
        BY <4>1, SoundIsTruth
      <4> QED  BY <1>2, <4>2
    <3>2. PutPending(x) => PutPending(x)'
      <4>1. PutPending(x) => CellTouched(x)'
        BY <1>7, <2>1
      <4> QED  BY <1>4, <1>11, <2>7, <3>1, <4>1
    <3>3. CASE r = shared[Live][x]
      BY <2>1, <2>2, <2>7, <3>2, <3>3
    <3>4. CASE r # shared[Live][x]
      BY <2>3, <2>7, <3>2, <3>4
    <3> QED  BY <3>3, <3>4
  <2> QED  BY <2>4, <2>5, <2>6, <2>7
<1>12. ASSUME NEW u \in Task, NEW x \in Query, NEW f, f = frame'[u][x]
       PROVE  DepsTouched(f)' /\ (Tells(f) => Touched(x)')
  <2>1. CASE f = frame[u][x]
    BY <1>8, <1>10, <2>1 DEF NothingLags
  <2>2. CASE MayBecome(u, x, f)
    <3>1. DepsTouched(f)'
      BY <1>10, <2>2 DEF MayBecome
    <3>2. ASSUME Tells(f) PROVE CellTouched(x)'
      BY <1>2, <2>2, <3>2 DEF MayBecome, CellTouched
    <3>3. ASSUME Tells(f) PROVE RecordTouched(x)'
      <4>1. CASE f.pc = "put"
        BY <1>12, <4>1 DEF RecordTouched, PutPending
      <4>2. CASE f.pc # "put"
        BY <1>6, <2>2, <3>3, <4>2 DEF MayBecome
      <4> QED  BY <4>1, <4>2
    <3> QED  BY <3>1, <3>2, <3>3 DEF Touched
  <2> QED  BY <1>12, <2>1, <2>2 DEF FramesProceed
<1>13. ASSUME NEW h \in Holder, NEW x \in Query, FlightOf(h, x)', OutcomeIs(h, "Done")',
              NEW p, p = Payload(h)'
       PROVE  AllTouched(p.deps)'
  <2>1. AllTouched(p.deps)
    BY <1>13 DEF FlightsProceed
  <2> QED  BY <1>9, <2>1
<1>14. \A x \in Query :
        (LET c == cell[Live][x]
             r == shared[Live][x]
         IN  /\ c.st = "Ready" /\ c.ver = Now => AllTouched(c.deps)
             /\ r # NoRecord /\ r.ver = Now => AllTouched(r.deps)
             /\ c.st = "Ready" => r = NoRecord \/ r.val = c.val \/ PutPending(x)
             /\ PutPending(x) => CellTouched(x))'
    BY <1>2, <1>11 DEF AllTouched
<1>15. \A u \in Task, x \in Query :
        (DepsTouched(frame[u][x]) /\ (Tells(frame[u][x]) => Touched(x)))'
    BY <1>12 DEF DepsTouched, AllTouched, Tells
<1>16. \A h \in Holder, x \in Query :
        (FlightOf(h, x) /\ OutcomeIs(h, "Done") => AllTouched(Payload(h).deps))'
    BY <1>13 DEF AllTouched
<1> QED  BY <1>14, <1>15, <1>16 DEF NothingLags

(* What holds of all that is kept holds after any such step. *)
LEMMA StepKeepsMeaning ==
    ASSUME EngineTypes, TruthIsMeant, MeaningInv, UNCHANGED dbVars,
           CellsProceed, RecordsProceed, FlightsProceed, FramesProceed, StacksAreAsked', RolesFit'
    PROVE  MeaningInv'
<1>1. Steady
  <2>1. FramesGo
    BY DEF FramesProceed, FramesGo, MayBecome
  <2> QED  BY <2>1 DEF Steady, CellsProceed, RecordsProceed, FlightsProceed
<1>2. MemosInv'
    BY <1>1, SteadyKeepsMemos DEF MeaningInv, MemosInv
<1>3. SamePast /\ copied' = copied /\ DbTypeOK
    BY DEF dbVars, SamePast, EngineTypes
<1>4. Now' = Now
    BY <1>3, PastStays
<1>5. CellsAreRevalidated'
  <2> SUFFICES ASSUME NEW u \in Task, NEW x \in Query, home'[u] # NoView,
                      frame'[u][x].pc = "touchLocal",
                      NEW c, c = cell'[home'[u]][x]
               PROVE  Matches(c, frame'[u][x].rec)
    BY <1>4 DEF CellsAreRevalidated, Matches
  <2>1. CASE MayBecome(u, x, frame'[u][x])
    BY <2>1 DEF MayBecome
  <2>2. CASE frame'[u][x] = frame[u][x] /\ home'[u] = home[u]
    <3>1. Matches(cell[home[u]][x], frame[u][x].rec) /\ home[u] \in View
      BY <2>2 DEF MeaningInv, CellsAreRevalidated, EngineTypes, TasksTyped
    <3>2. c = cell[home[u]][x] \/ NewCell(x, c)
      BY <2>2, <3>1 DEF CellsProceed, CellsGo
    <3> QED  BY <2>2, <3>1, <3>2 DEF Matches, NewCell, Vacant, Running
  <2> QED  BY <2>1, <2>2 DEF FramesProceed
<1>6. (Alone => NothingLags)'
  <2>1. Alone' => Alone
    BY <1>3 DEF Alone
  <2> QED  BY <1>3, <2>1, LagsStay DEF MeaningInv
<1>7. FlightsAreSound'
    BY DEF FlightsProceed
<1> QED  BY <1>2, <1>5, <1>6, <1>7 DEF MeaningInv, MemosInv
-----------------------------------------------------------------------------
(* Flights *)

\* The access h uses the registry with the key of its query, and settles its
\* flight with what its query means.
UsesRight(h) ==
    \/ Reg!TryLead(h, <<Live, Now, h[2]>>)
    \/ \E r \in Record : Reg!Complete(h, r) /\ NewMemo(h[2], r) /\ (Alone => AllTouched(r.deps))
    \/ \E e \in Error : Reg!Fail(h, e) /\ Truth(h[2], Present) = [ok |-> FALSE, val |-> e]
    \/ Reg!CancelLead(h) \/ Reg!Publish(h) \/ Reg!Follow(h) \/ Reg!Abandon(h)

\* What the access g follows or leads after a step is what it was, or right.
FlightGoes(g) ==
    role'[g] # "idle" =>
        /\ keyOf'[g] = <<Live, Now, g[2]>>
        /\ entryState'[entryOf'[g]] = "Done" =>
            \/ \E k \in Holder :
                FlightOf(k, g[2]) /\ OutcomeIs(k, "Done") /\ Payload(k) = entryResult'[entryOf'[g]]
            \/ /\ NewMemo(g[2], entryResult'[entryOf'[g]])
               /\ Alone => AllTouched(entryResult'[entryOf'[g]].deps)
        /\ entryState'[entryOf'[g]] = "Failed" =>
            Truth(g[2], Present) = [ok |-> FALSE, val |-> entryResult'[entryOf'[g]]]

FlightKept(g) ==
    /\ role[g] # "idle" /\ keyOf'[g] = keyOf[g] /\ entryOf'[g] = entryOf[g]
    /\ entryState'[entryOf[g]] = entryState[entryOf[g]]
    /\ entryResult'[entryOf[g]] = entryResult[entryOf[g]]

LEMMA KeyOfFlight ==
    ASSUME FlightsAreSound, NEW g \in Holder, role[g] # "idle"
    PROVE  keyOf[g] = <<Live, Now, g[2]>> /\ FlightOf(g, g[2]) /\ g[2] \in Query
<1>1. g = <<g[1], g[2]>> /\ g[1] \in Task /\ g[2] \in Query
    BY DEF Holder
<1>2. keyOf[g] = <<Live, Now, g[2]>>
    BY <1>1 DEF FlightsAreSound
<1> QED  BY <1>1, <1>2 DEF FlightOf

LEMMA KeptGoes ==
    ASSUME FlightsAreSound, NEW g \in Holder, FlightKept(g)
    PROVE  FlightGoes(g)
<1>1. keyOf[g] = <<Live, Now, g[2]>> /\ FlightOf(g, g[2]) /\ g[2] \in Query
    BY KeyOfFlight DEF FlightKept
<1>2. entryState[entryOf[g]] = "Failed" => Truth(g[2], Present) = [ok |-> FALSE, val |-> entryResult[entryOf[g]]]
    BY <1>1 DEF FlightsAreSound, OutcomeIs, Payload
<1> QED  BY <1>1, <1>2 DEF FlightKept, FlightGoes, OutcomeIs, Payload

LEMMA FlightsGoOn ==
    ASSUME DbTypeOK, FlightsAreSound, Alone => NothingLags, UNCHANGED dbVars,
           \A g \in Holder : FlightGoes(g),
           \A g, h \in Holder :
                role'[g] # "idle" /\ role'[h] # "idle" /\ entryOf'[g] = entryOf'[h] => keyOf'[g] = keyOf'[h]
    PROVE  FlightsProceed
<1>1. SamePast
    BY DEF dbVars, SamePast
<1>2. Now' = Now /\ Present' = Present /\ \A x, m, n : Sound(x, m, n)' <=> Sound(x, m, n)
    BY <1>1, PastStays
<1>3. ASSUME NEW h \in Holder, NEW x \in Query, role'[h] # "idle" /\ keyOf'[h][3] = x,
             NEW p, p = entryResult'[entryOf'[h]]
      PROVE  /\ entryState'[entryOf'[h]] = "Done" =>
                /\ Sound(x, p, Now) /\ (Alone => AllTouched(p.deps))
                /\ \/ \E g \in Holder : FlightOf(g, x) /\ OutcomeIs(g, "Done") /\ Payload(g) = p
                   \/ NewMemo(x, p)
             /\ entryState'[entryOf'[h]] = "Failed" => Truth(x, Present) = [ok |-> FALSE, val |-> p]
  <2>1. FlightGoes(h) /\ keyOf'[h] = <<Live, Now, h[2]>> /\ x = h[2]
    BY <1>3 DEF FlightGoes
  <2>2. ASSUME entryState'[entryOf'[h]] = "Done"
        PROVE  /\ Sound(x, p, Now) /\ (Alone => AllTouched(p.deps))
               /\ \/ \E g \in Holder : FlightOf(g, x) /\ OutcomeIs(g, "Done") /\ Payload(g) = p
                  \/ NewMemo(x, p)
    <3>1. CASE \E k \in Holder : FlightOf(k, x) /\ OutcomeIs(k, "Done") /\ Payload(k) = p
      <4>1. Sound(x, p, Now)
        BY <3>1 DEF FlightsAreSound
      <4>2. Alone => AllTouched(p.deps)
        BY <3>1 DEF NothingLags
      <4> QED  BY <3>1, <4>1, <4>2
    <3>2. CASE NewMemo(x, p) /\ (Alone => AllTouched(p.deps))
      BY <3>2 DEF NewMemo
    <3> QED  BY <1>3, <2>1, <2>2, <3>1, <3>2 DEF FlightGoes
  <2> QED  BY <1>3, <2>1, <2>2 DEF FlightGoes
<1>4. FlightsGo
    BY <1>3 DEF FlightsGo, FlightOf, OutcomeIs, Payload
<1>5. Alone => \A h \in Holder, x \in Query :
        FlightOf(h, x)' /\ OutcomeIs(h, "Done")' => AllTouched(Payload(h)'.deps)
    BY <1>3 DEF FlightOf, OutcomeIs, Payload
<1>6. FlightsAreSound'
  <2>1. ASSUME NEW t \in Task, NEW x \in Query, role'[<<t, x>>] # "idle"
        PROVE  keyOf'[<<t, x>>] = <<Live, Now, x>>
    <3>1. <<t, x>> \in Holder /\ <<t, x>>[2] = x
      BY DEF Holder
    <3> QED  BY <2>1, <3>1 DEF FlightGoes
  <2>2. \A h \in Holder, x \in Query : FlightOf(h, x)' =>
            /\ OutcomeIs(h, "Done")' => Sound(x, Payload(h), Now)'
            /\ OutcomeIs(h, "Failed")' => Truth(x, Present) = [ok |-> FALSE, val |-> Payload(h)']
    <3> SUFFICES ASSUME NEW h \in Holder, NEW x \in Query, role'[h] # "idle" /\ keyOf'[h][3] = x,
                        NEW p, p = entryResult'[entryOf'[h]]
                 PROVE  /\ entryState'[entryOf'[h]] = "Done" => Sound(x, p, Now)'
                        /\ entryState'[entryOf'[h]] = "Failed" => Truth(x, Present) = [ok |-> FALSE, val |-> p]
      BY DEF FlightOf, OutcomeIs, Payload, Sound
    <3> QED  BY <1>2, <1>3
  <2> QED  BY <1>2, <2>1, <2>2 DEF FlightsAreSound
<1> QED  BY <1>4, <1>5, <1>6 DEF FlightsProceed

LEMMA UsesProceed ==
    ASSUME DbTypeOK, Flights!IInv, FlightsAreSound, Alone => NothingLags, UNCHANGED dbVars,
           UNCHANGED regVars \/ \E h \in Holder : UsesRight(h)
    PROVE  FlightsProceed
<1>1. /\ registry \in [InFlightKey -> Entry \union {NoEntry}]
      /\ entryState \in [Entry -> Reg!States]
      /\ entryResult \in [Entry -> Record \union Error \union {NoResult}]
      /\ role \in [Holder -> Reg!Roles]
      /\ entryOf \in [Holder -> Entry \union {NoEntry}]
      /\ keyOf \in [Holder -> InFlightKey \union {NoKey}]
      /\ \A g \in Holder : role[g] = "idle" <=> entryOf[g] = NoEntry
      /\ NoEntry \notin Entry
    BY RegistryIs, HoldersAreFinite DEF Reg!TypeOK
<1>2. \A g, h \in Holder :
        role[g] # "idle" /\ role[h] # "idle" /\ entryOf[g] = entryOf[h] => keyOf[g] = keyOf[h]
    BY DEF FlightsAreSound
<1>3. CASE UNCHANGED regVars
  <2>1. \A g \in Holder : role'[g] # "idle" => FlightKept(g)
    BY <1>3 DEF regVars, FlightKept
  <2>2. \A g \in Holder : FlightGoes(g)
    BY <2>1, KeptGoes DEF FlightGoes
  <2>3. UNCHANGED <<role, entryOf, keyOf>>
    BY <1>3 DEF regVars
  <2> QED  BY <1>2, <2>2, <2>3, FlightsGoOn
<1>4. ASSUME NEW h \in Holder, UsesRight(h) PROVE FlightsProceed
  <2>0. h[2] \in Query /\ <<Live, Now, h[2]>> \in InFlightKey
    BY LiveIsAView, HistoryIs DEF Holder, InFlightKey
  <2> DEFINE k == <<Live, Now, h[2]>>
  \* A new flight, on an entry nobody refers to.
  <2>1. CASE Reg!Lead(h, k)
    <3>1. PICK e \in Entry :
            /\ \A g \in Holder : entryOf[g] # e
            /\ entryState' = [entryState EXCEPT ![e] = "Running"]
            /\ role' = [role EXCEPT ![h] = "leader"]
            /\ entryOf' = [entryOf EXCEPT ![h] = e]
            /\ keyOf' = [keyOf EXCEPT ![h] = k]
            /\ entryResult' = entryResult
      BY <2>1 DEF Reg!Lead, Reg!FreeEntry
    <3> HIDE DEF k
    <3>2. \A g \in Holder : g # h /\ role'[g] # "idle" => FlightKept(g)
      BY <1>1, <3>1 DEF FlightKept
    <3>3. keyOf'[h] = k /\ entryState'[entryOf'[h]] = "Running"
      BY <1>1, <3>1
    <3>4. \A g \in Holder : FlightGoes(g)
      BY <3>2, <3>3, KeptGoes DEF FlightGoes, k
    <3>5. \A g, i \in Holder :
            role'[g] # "idle" /\ role'[i] # "idle" /\ entryOf'[g] = entryOf'[i] => keyOf'[g] = keyOf'[i]
      BY <1>1, <1>2, <3>1
    <3> QED  BY <3>4, <3>5, FlightsGoOn
  \* The flight under the key is one of the same query.
  <2>2. CASE Reg!Join(h, k)
    <3>1. /\ registry[k] \in Entry /\ entryOf' = [entryOf EXCEPT ![h] = registry[k]]
          /\ role' = [role EXCEPT ![h] = "follower"] /\ keyOf' = [keyOf EXCEPT ![h] = k]
          /\ entryState' = entryState /\ entryResult' = entryResult /\ role[h] = "idle"
      BY <1>1, <2>0, <2>2 DEF Reg!Join
    <3>2. PICK i \in Holder : /\ role[i] # "idle" /\ entryOf[i] = registry[k] /\ keyOf[i] = k
      <4>1. registry[k] # NoEntry
        BY <1>1, <3>1
      <4> QED  BY <2>0, <4>1 DEF Flights!IInv, Flights!RegisteredIsLed, Flights!Leading
    <3>3. i[2] = h[2] /\ keyOf[i] = <<Live, Now, i[2]>>
      BY <3>2, KeyOfFlight
    <3> HIDE DEF k
    <3>4. \A g \in Holder : g # h /\ role'[g] # "idle" => FlightKept(g)
      BY <1>1, <3>1 DEF FlightKept
    <3>5. FlightGoes(i)
      <4>1. FlightKept(i)
        BY <3>1, <3>2, <3>4
      <4> QED  BY <4>1, KeptGoes
    <3>6. keyOf'[h] = k /\ entryOf'[h] = entryOf'[i] /\ role'[i] # "idle"
      BY <1>1, <3>1, <3>2
    <3>7. FlightGoes(h)
      BY <3>3, <3>5, <3>6 DEF FlightGoes, k
    <3>8. \A g \in Holder : FlightGoes(g)
      BY <3>4, <3>7, KeptGoes DEF FlightGoes
    <3>9. \A g, j \in Holder :
            role'[g] # "idle" /\ role'[j] # "idle" /\ entryOf'[g] = entryOf'[j] => keyOf'[g] = keyOf'[j]
      BY <1>1, <1>2, <3>1, <3>2
    <3> QED  BY <3>8, <3>9, FlightsGoOn
  \* Settled: nobody shares the entry but its followers.
  <2>3. ASSUME NEW st, NEW r, Reg!Settle(h, st, r),
               st = "Done" => NewMemo(h[2], r) /\ (Alone => AllTouched(r.deps)),
               st = "Failed" => Truth(h[2], Present) = [ok |-> FALSE, val |-> r]
        PROVE  FlightsProceed
    <3>1. /\ role[h] = "leader" /\ entryOf[h] \in Entry
          /\ entryState' = [entryState EXCEPT ![entryOf[h]] = st]
          /\ entryResult' = [entryResult EXCEPT ![entryOf[h]] = r]
          /\ role' = [role EXCEPT ![h] = "settled"] /\ entryOf' = entryOf /\ keyOf' = keyOf
      BY <1>1, <2>3 DEF Reg!Settle
    <3>2. \A g \in Holder : role'[g] # "idle" /\ entryOf[g] # entryOf[h] => FlightKept(g)
      BY <1>1, <3>1 DEF FlightKept
    <3>3. ASSUME NEW g \in Holder, role'[g] # "idle", entryOf[g] = entryOf[h] PROVE FlightGoes(g)
      <4>1. role[g] # "idle" /\ role[h] # "idle"
        BY <1>1, <3>1, <3>3
      <4>2. keyOf[g] = <<Live, Now, g[2]>> /\ g[2] = h[2]
        BY <1>2, <3>3, <4>1, KeyOfFlight
      <4>3. entryState'[entryOf'[g]] = st /\ entryResult'[entryOf'[g]] = r
        BY <1>1, <3>1, <3>3
      <4> QED  BY <2>3, <3>1, <4>2, <4>3 DEF FlightGoes
    <3>4. \A g \in Holder : FlightGoes(g)
      BY <3>2, <3>3, KeptGoes DEF FlightGoes
    <3>5. \A g, j \in Holder :
            role'[g] # "idle" /\ role'[j] # "idle" /\ entryOf'[g] = entryOf'[j] => keyOf'[g] = keyOf'[j]
      BY <1>1, <1>2, <3>1
    <3> QED  BY <3>4, <3>5, FlightsGoOn
  <2>4. CASE Reg!NotifyWaiters(h) \/ Reg!Subscribe(h) \/ Reg!Wait(h) \/ Reg!Wake(h)
    <3>1. /\ role[h] # "idle" /\ \A g \in Holder : g # h => role'[g] = role[g]
          /\ entryOf' = entryOf /\ keyOf' = keyOf /\ entryState' = entryState /\ entryResult' = entryResult
      BY <1>1, <2>4 DEF Reg!NotifyWaiters, Reg!Subscribe, Reg!Wait, Reg!Wake
    <3>2. \A g \in Holder : role'[g] # "idle" => FlightKept(g)
      BY <3>1 DEF FlightKept
    <3>3. \A g \in Holder : FlightGoes(g)
      BY <3>2, KeptGoes DEF FlightGoes
    <3>4. \A g, j \in Holder :
            role'[g] # "idle" /\ role'[j] # "idle" /\ entryOf'[g] = entryOf'[j] => keyOf'[g] = keyOf'[j]
      BY <1>2, <3>1
    <3> QED  BY <3>3, <3>4, FlightsGoOn
  <2>5. CASE Reg!Remove(h) \/ Reg!Take(h) \/ Reg!Abandon(h)
    <3>1. Reg!Release(h) /\ role[h] # "idle"
      BY <2>5 DEF Reg!Remove, Reg!Take, Reg!Abandon, Reg!Following
    <3>2. /\ role' = [role EXCEPT ![h] = "idle"] /\ entryOf' = [entryOf EXCEPT ![h] = NoEntry]
          /\ keyOf' = [keyOf EXCEPT ![h] = NoKey]
          /\ \A g \in Holder \ {h}, e \in Entry : entryOf[g] = e =>
                entryState'[e] = entryState[e] /\ entryResult'[e] = entryResult[e]
      BY <1>1, <3>1 DEF Reg!Release
    <3>3. \A g \in Holder : role'[g] # "idle" => g # h /\ FlightKept(g)
      BY <1>1, <3>2 DEF FlightKept
    <3>4. \A g \in Holder : FlightGoes(g)
      BY <3>3, KeptGoes DEF FlightGoes
    <3>5. \A g, j \in Holder :
            role'[g] # "idle" /\ role'[j] # "idle" /\ entryOf'[g] = entryOf'[j] => keyOf'[g] = keyOf'[j]
      BY <1>2, <3>3 DEF FlightKept
    <3> QED  BY <3>4, <3>5, FlightsGoOn
  <2>6. CASE \E r \in Record : Reg!Complete(h, r) /\ NewMemo(h[2], r) /\ (Alone => AllTouched(r.deps))
    BY <2>3, <2>6 DEF Reg!Complete
  <2>7. CASE \E e \in Error : Reg!Fail(h, e) /\ Truth(h[2], Present) = [ok |-> FALSE, val |-> e]
    BY <2>3, <2>7 DEF Reg!Fail
  <2>8. CASE Reg!CancelLead(h)
    BY <2>3, <2>8 DEF Reg!CancelLead
  <2> QED  BY <1>4, <2>1, <2>2, <2>4, <2>5, <2>6, <2>7, <2>8
           DEF UsesRight, Reg!TryLead, Reg!Publish, Reg!Follow
<1> QED  BY <1>3, <1>4
=============================================================================
