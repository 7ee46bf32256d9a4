----------------------- MODULE DerivedCorrect_proofs -----------------------
(***************************************************************************)
(* The query engine answers right: every step of an access keeps the       *)
(* invariant of DerivedMeaning_proofs, as long as a view is not written     *)
(* under its accesses, the database is not written once it has snapshots,  *)
(* and those are only read.                                                *)
(***************************************************************************)
EXTENDS DerivedMeaning_proofs

MeantPrograms == TruthIsMeant /\ ErrorsPropagate /\ Acyclic

\* All that is known when an access is about to go on.
Known == EngineInv /\ QuietInv /\ MeaningInv /\ MeantPrograms

LEMMA KnownTypes == Known => EngineTypes
    BY DEF Known, EngineInv, EngineTypes

(* An access, what it has, and what it sees. *)
LEMMA AccessIs ==
    ASSUME Known, NEW t \in Task, Active(t)
    PROVE  /\ Cur(t) \in Query /\ home[t] \in View /\ F(t) = frame[t][Cur(t)] /\ F(t) \in Frame
           /\ HasWhatItNeeds(F(t)) /\ WithinReads(F(t)) /\ F(t).pc # "idle"
           /\ FrameSound(Cur(t), F(t))
           /\ Alone => DepsTouched(F(t)) /\ (Tells(F(t)) => Touched(Cur(t)))
           /\ H(t) \in Holder /\ H(t) = <<t, Cur(t)>> /\ H(t)[2] = Cur(t) /\ RoleFits(F(t), role[H(t)])
           /\ TheCell(t) \in Cell /\ TheCell(t) = cell[home[t]][Cur(t)]
           /\ \A val, ch : FrameStamp(F(t), val, ch) => Stamp(Cur(t), val, ch)
           /\ TheCell(t).st = "Ready" => Stamp(Cur(t), TheCell(t).val, TheCell(t).ch)
<1>1. /\ Cur(t) \in Query /\ home[t] \in View /\ F(t) = frame[t][Cur(t)] /\ F(t) \in Frame /\ MayGoOn(F(t))
      /\ TheCell(t) \in Cell /\ TheCell(t) = cell[home[t]][Cur(t)]
    BY KnownTypes, AccessSees DEF F
<1>2. FrameSound(Cur(t), F(t)) /\ (Alone => DepsTouched(F(t)) /\ (Tells(F(t)) => Touched(Cur(t))))
    BY <1>1 DEF Known, MeaningInv, FramesAreSound, NothingLags
<1>3. H(t) \in Holder /\ H(t) = <<t, Cur(t)>> /\ H(t)[2] = Cur(t)
    BY <1>1 DEF H, Holder
<1>4. RoleFits(F(t), role[H(t)])
    BY <1>1, <1>3 DEF Known, MeaningInv, RolesFit
<1>5. \A val, ch : FrameStamp(F(t), val, ch) => Stamp(Cur(t), val, ch)
    BY <1>1 DEF Stamp
<1>6. TheCell(t).st = "Ready" => Stamp(Cur(t), TheCell(t).val, TheCell(t).ch)
    BY <1>1 DEF Stamp
<1> QED  BY <1>1, <1>2, <1>3, <1>4, <1>5, <1>6 DEF MayGoOn

LEMMA AccessAt ==
    ASSUME Known, NEW t \in Task, Active(t)
    PROVE  /\ copied[home[t]] # 0 /\ rev[home[t]] = Now /\ Scope(home[t]) = Live
           /\ \A i \in Input : Since(input[home[t]][i], i) /\ input[home[t]][i].val = Present[i]
           /\ F(t).pc \notin Unrevised => F(t).rev = Now
           /\ Alone => home[t] = Live
           /\ Now \in Nat /\ Now \in Revision /\ Present = Then(Now) /\ Present \in Valuation
<1>1. EngineTypes /\ QuietInv /\ OneTimeline /\ InputsAreDated /\ DbTypeOK
    BY KnownTypes DEF Known, MeaningInv, EngineTypes
<1> QED  BY <1>1, SeesThePresent, HistoryIs

-----------------------------------------------------------------------------
(* An access goes on *)

LEMMA CellStays ==
    ASSUME cell' = cell PROVE CellsProceed
    BY DEF CellsProceed, CellsGo

LEMMA RecordStays ==
    ASSUME shared' = shared PROVE RecordsProceed
    BY DEF RecordsProceed, RecordsGo

LEMMA OwnCellProceeds ==
    ASSUME Known, NEW t \in Task, Active(t), NEW c, cell' = [cell EXCEPT ![home[t]][Cur(t)] = c],
           NewCell(Cur(t), c),
           Alone /\ c.st = "Ready" =>
                /\ AllTouched(c.deps)
                /\ (TheCell(t).st = "Ready" /\ TheCell(t).val = c.val) \/ frame'[t][Cur(t)].pc = "put"
    PROVE  CellsProceed
<1> DEFINE q == Cur(t)
           v == home[t]
<1>1. /\ q \in Query /\ v \in View /\ TheCell(t) = cell[v][q] /\ copied[v] # 0 /\ Live \in View
      /\ Alone => v = Live
    BY AccessIs, AccessAt, LiveIsAView
<1>2. cell \in [View -> [Query -> Cell]]
    BY DEF Known, EngineInv, CellsTyped
<1>3. cell' = [cell EXCEPT ![v][q] = c]
    OBVIOUS
<1> HIDE DEF q, v
<1>4. cell'[v][q] = c /\ \A w \in View, x \in Query : w # v \/ x # q => cell'[w][x] = cell[w][x]
    BY <1>1, <1>2, <1>3
<1>5. CellsGo
  <2> SUFFICES ASSUME NEW w \in View, NEW x \in Query
               PROVE  cell'[w][x] = cell[w][x] \/ (copied[w] # 0 /\ NewCell(x, cell'[w][x]))
    BY DEF CellsGo
  <2>1. CASE w = v /\ x = q
    BY <1>1, <1>4, <2>1 DEF q
  <2>2. CASE w # v \/ x # q
    BY <1>4, <2>2
  <2> QED  BY <2>1, <2>2
<1>6. ASSUME Alone, NEW x \in Query, cell'[Live][x] # cell[Live][x], cell'[Live][x].st = "Ready"
      PROVE  /\ AllTouched(cell'[Live][x].deps)
             /\ \/ cell[Live][x].st = "Ready" /\ cell[Live][x].val = cell'[Live][x].val
                \/ frame'[t][x].pc = "put"
  <2>1. x = q /\ Live = v /\ cell'[Live][x] = c
    BY <1>1, <1>4, <1>6
  <2>2. x = Cur(t) /\ c.st = "Ready" /\ TheCell(t) = cell[Live][x]
    BY <1>1, <1>6, <2>1 DEF q
  <2>3. AllTouched(c.deps) /\ ((TheCell(t).st = "Ready" /\ TheCell(t).val = c.val) \/ frame'[t][x].pc = "put")
    BY <1>6, <2>2
  <2> QED  BY <2>1, <2>2, <2>3
<1>7. \A x \in Query : frame'[t][x].pc = "put" => PutPending(x)'
    BY DEF PutPending
<1> QED  BY <1>5, <1>6, <1>7 DEF CellsProceed

LEMMA OthersKeepRoles ==
    ASSUME Flights!IInv, NEW h \in Holder, UNCHANGED regVars \/ UsesRight(h)
    PROVE  \A g \in Holder : g # h => role'[g] = role[g]
<1> USE RegistryIs DEF Reg!TypeOK
<1>1. CASE UNCHANGED regVars
    BY <1>1 DEF regVars
<1>2. CASE UsesRight(h)
  <2>1. \A k : Reg!TryLead(h, k) => \A g \in Holder : g # h => role'[g] = role[g]
    BY DEF Reg!TryLead, Reg!Lead, Reg!Join
  <2>2. \A st, r : Reg!Settle(h, st, r) => \A g \in Holder : g # h => role'[g] = role[g]
    BY DEF Reg!Settle
  <2>3. Reg!Publish(h) \/ Reg!Follow(h) \/ Reg!Abandon(h) => \A g \in Holder : g # h => role'[g] = role[g]
    BY DEF Reg!Publish, Reg!Follow, Reg!Abandon, Reg!NotifyWaiters, Reg!Remove, Reg!Subscribe,
           Reg!Wait, Reg!Wake, Reg!Take, Reg!Release
  <2> QED  BY <1>2, <2>1, <2>2, <2>3 DEF UsesRight, Reg!Complete, Reg!Fail, Reg!CancelLead
<1> QED  BY <1>1, <1>2

LEMMA GoMeans ==
    ASSUME Known, NEW t \in Task, Active(t), NEW g, Go(t, g), Even(g), UNCHANGED dbVars,
           CellsProceed, RecordsProceed, UNCHANGED regVars \/ UsesRight(H(t)),
           RoleFits(g, role'[H(t)]), \A x \in Query : x = Cur(t) => MayBecome(t, x, g)
    PROVE  MeaningInv'
<1> DEFINE q == Cur(t)
<1>1. /\ q \in Query /\ H(t) \in Holder /\ H(t) = <<t, q>>
      /\ EngineTypes /\ TruthIsMeant /\ MeaningInv /\ DbTypeOK /\ Flights!IInv
    BY AccessIs, KnownTypes DEF Known, MeantPrograms, EngineTypes, EngineInv
<1>2. /\ home' = home /\ stack' = stack /\ frame' = [frame EXCEPT ![t][q] = g]
      /\ frame \in [Task -> [Query -> Frame]]
    BY <1>1 DEF Go, EngineTypes, TasksTyped
<1>3. StacksAreAsked'
    BY <1>1, GoKeepsStacks DEF MeaningInv
<1>4. FlightsProceed
    BY <1>1, UsesProceed DEF MeaningInv
<1>5. \A h \in Holder : h # H(t) => role'[h] = role[h]
    BY <1>1, OthersKeepRoles
<1> HIDE DEF q
<1>6. /\ frame'[t][q] = g
      /\ \A u \in Task, x \in Query : u # t \/ x # q => frame'[u][x] = frame[u][x]
    BY <1>1, <1>2
<1>7. FramesProceed
  <2> SUFFICES ASSUME NEW u \in Task, NEW x \in Query
               PROVE  \/ frame'[u][x] = frame[u][x] /\ home'[u] = home[u]
                      \/ MayBecome(u, x, frame'[u][x])
    BY DEF FramesProceed
  <2>1. CASE u = t /\ x = q
    <3>1. MayBecome(t, x, g)
      BY <2>1 DEF q
    <3> QED  BY <1>6, <2>1, <3>1
  <2>2. CASE u # t \/ x # q
    BY <1>2, <1>6, <2>2
  <2> QED  BY <2>1, <2>2
<1>8. RolesFit'
  <2> SUFFICES ASSUME NEW u \in Task, NEW x \in Query
               PROVE  RoleFits(frame'[u][x], role'[<<u, x>>])
    BY DEF RolesFit
  <2>1. CASE u = t /\ x = q
    BY <1>1, <1>6, <2>1
  <2>2. CASE u # t \/ x # q
    <3>1. <<u, x>> \in Holder /\ <<u, x>> # H(t)
      BY <1>1, <2>2 DEF Holder
    <3>2. RoleFits(frame[u][x], role[<<u, x>>])
      BY <1>1 DEF MeaningInv, RolesFit
    <3> QED  BY <1>5, <1>6, <2>2, <3>1, <3>2
  <2> QED  BY <2>1, <2>2
<1> QED  BY <1>1, <1>3, <1>4, <1>7, <1>8, StepKeepsMeaning

\* An access that has nothing to tell or to compare.
Blank(g) ==
    /\ g.pc \in {"idle", "top", "observe", "await", "start", "drop"}
    /\ g.prev = NoValue /\ g.rec = NoRecord /\ g.ans = NoAnswer

LEMMA BlanksAre ==
    /\ Blank(Idle) /\ Blank(AtTop) /\ Blank([Idle EXCEPT !.pc = "await"])
    /\ Blank([Idle EXCEPT !.pc = "drop"])
    /\ \A r : Blank([AtTop EXCEPT !.pc = "observe", !.rev = r]) /\ Blank([Idle EXCEPT !.pc = "start", !.rev = r])
    /\ Idle.pc = "idle" /\ AtTop.pc = "top" /\ [Idle EXCEPT !.pc = "drop"].pc = "drop"
    BY DEF Blank, Idle, AtTop

LEMMA BlankMayBecome ==
    ASSUME NEW g, Blank(g)
    PROVE  Even(g) /\ \A u, x : frame[u][x].pc # "put" => MayBecome(u, x, g)
<1>1. Even(g) /\ g.pc \notin {"compute", "put", "touchLocal", "touchShared"}
    BY DEF Blank, Even
<1>2. ASSUME NEW x PROVE NewFrame(x, g)
  <2>1. FrameSound(x, g)
    BY DEF Blank, FrameSound, Telling
  <2>2. \A val, ch : ~FrameStamp(g, val, ch)
    BY DEF Blank, FrameStamp
  <2> QED  BY <2>1, <2>2 DEF NewFrame
<1>3. DepsTouched(g) /\ ~Tells(g)
    BY DEF Blank, DepsTouched, Tells
<1> QED  BY <1>1, <1>2, <1>3 DEF MayBecome

LEMMA RestartMeans ==
    ASSUME Known, NEW t \in Task, Active(t), NEW g, Go(t, g), Blank(g), F(t).pc # "put",
           UNCHANGED <<dbVars, cell, shared, regVars>>, RoleFits(g, role[H(t)])
    PROVE  MeaningInv'
<1>1. Even(g) /\ CellsProceed /\ RecordsProceed /\ UNCHANGED dbVars /\ UNCHANGED regVars
    BY BlankMayBecome, CellStays, RecordStays
<1>2. RoleFits(g, role'[H(t)])
    BY <1>1 DEF regVars
<1>3. \A x \in Query : x = Cur(t) => MayBecome(t, x, g)
    BY BlankMayBecome DEF F
<1> QED  BY <1>1, <1>2, <1>3, GoMeans

LEMMA ReadRevisionMeans ==
    ASSUME Known, NEW t \in Task, ReadRevision(t) \/ Await(t) \/ Cancel(t)
    PROVE  MeaningInv'
<1>1. Active(t) /\ UNCHANGED <<dbVars, cell, shared, regVars>>
    BY DEF ReadRevision, Await, Cancel, Suspended, At, cellVars
<1>2. RoleFits(F(t), role[H(t)])
    BY <1>1, AccessIs
<1>3. CASE ReadRevision(t)
  <2> DEFINE g == [AtTop EXCEPT !.pc = "observe", !.rev = rev[home[t]]]
  <2>1. Go(t, g) /\ F(t).pc = "top" /\ Blank(g)
    BY <1>3, BlanksAre DEF ReadRevision, At
  <2>2. RoleFits(g, role[H(t)])
    BY <1>2, <2>1 DEF RoleFits
  <2> HIDE DEF g
  <2> QED  BY <1>1, <2>1, <2>2, RestartMeans
<1>4. CASE Await(t)
  <2>1. Go(t, AtTop) /\ F(t).pc = "await" /\ Blank(AtTop)
    BY <1>4, BlanksAre DEF Await, At
  <2>2. RoleFits(AtTop, role[H(t)])
    BY <1>2, <2>1 DEF RoleFits
  <2> QED  BY <1>1, <2>1, <2>2, RestartMeans
<1>5. CASE Cancel(t)
  <2> DEFINE g == [Idle EXCEPT !.pc = "drop"]
  <2>1. Go(t, g) /\ F(t).pc # "put" /\ Blank(g) /\ g.pc = "drop"
    BY <1>5, BlanksAre DEF Cancel, Suspended, At
  <2>2. RoleFits(g, role[H(t)])
    BY <1>2, <2>1 DEF RoleFits
  <2> HIDE DEF g
  <2> QED  BY <1>1, <2>1, <2>2, RestartMeans
<1> QED  BY <1>3, <1>4, <1>5

-----------------------------------------------------------------------------
(* Looking at the cell *)

LEMMA UsableSame ==
    ASSUME NEW x, NEW m, NEW k, NEW n, m.val = k.val, m.deps = k.deps, m.ch = k.ch
    PROVE  (Sound(x, m, n) <=> Sound(x, k, n)) /\ (Usable(x, m, n) <=> Usable(x, k, n))
    BY DEF Usable, Sound, Kept

\* What is known of a memo that is verified now.
LEMMA SoundNow ==
    ASSUME Known, NEW x \in Query, NEW m, Sound(x, m, Now)
    PROVE  Truth(x, Present) = [ok |-> TRUE, val |-> m.val]
<1>1. DbTypeOK /\ TruthIsMeant
    BY DEF Known, EngineInv, MeantPrograms
<1> QED  BY <1>1, HistoryIs, SoundIsTruth

LEMMA CellKnown ==
    ASSUME Known, NEW t \in Task, Active(t)
    PROVE  LET c == TheCell(t)
           IN  /\ c.st = "Ready" =>
                    /\ Usable(Cur(t), c, c.ver) /\ Sound(Cur(t), c, c.ver)
                    /\ c.ver \in 0..Now /\ c.ch \in 0..c.ver
               /\ c.st = "Ready" /\ c.ver = Now => Truth(Cur(t), Present) = [ok |-> TRUE, val |-> c.val]
               /\ c.st = "Poisoned" /\ c.ver = Now => Truth(Cur(t), Present) = [ok |-> FALSE, val |-> c.err]
<1> DEFINE c == TheCell(t)
           q == Cur(t)
<1>1. q \in Query /\ home[t] \in View /\ c = cell[home[t]][q] /\ Present = Then(Now)
    BY AccessIs, AccessAt
<1>2. /\ c.st = "Ready" => Usable(q, c, c.ver)
      /\ c.st = "Poisoned" /\ c.ver = Now => Truth(q, Present) = [ok |-> FALSE, val |-> c.err]
    BY <1>1 DEF Known, MeaningInv, CellsAreSound
<1>3. c.st = "Ready" => Sound(q, c, c.ver) /\ c.ver \in 0..Now /\ c.ch \in 0..c.ver
    BY <1>2 DEF Usable, Sound
<1> HIDE DEF c, q
<1>4. c.st = "Ready" /\ c.ver = Now => Truth(q, Present) = [ok |-> TRUE, val |-> c.val]
    BY <1>1, <1>3, SoundNow
<1> QED  BY <1>2, <1>3, <1>4 DEF c, q

(* An access that only goes on itself. *)
LEMMA PlainMeans ==
    ASSUME Known, NEW t \in Task, Active(t), NEW g, Go(t, g), Even(g),
           UNCHANGED <<dbVars, cell, shared, regVars>>, RoleFits(g, role[H(t)]),
           \A x \in Query : x = Cur(t) => MayBecome(t, x, g)
    PROVE  MeaningInv'
<1>1. CellsProceed /\ RecordsProceed /\ UNCHANGED dbVars /\ UNCHANGED regVars
    BY CellStays, RecordStays
<1>2. RoleFits(g, role'[H(t)])
    BY <1>1 DEF regVars
<1> QED  BY <1>1, <1>2, GoMeans

(* A cell that answers now is not older than now, and neither is its record. *)
LEMMA CurrentIsTouched ==
    ASSUME Known, NEW t \in Task, Active(t), Alone, TheCell(t).st = "Ready", TheCell(t).ver = Now
    PROVE  Touched(Cur(t)) /\ AllTouched(TheCell(t).deps)
<1> DEFINE q == Cur(t)
           c == TheCell(t)
<1>1. q \in Query /\ c = cell[Live][q]
    BY AccessIs, AccessAt
<1>2. Truth(q, Present) = [ok |-> TRUE, val |-> c.val]
    BY CellKnown
<1> HIDE DEF q, c
<1>3. c.st = "Ready" /\ c.ver = Now
    BY DEF c
<1>4. NothingLags
    BY DEF Known, MeaningInv
<1>5. shared[Live][q] = NoRecord \/ shared[Live][q].val = c.val \/ PutPending(q)
    BY <1>1, <1>3, <1>4 DEF NothingLags
<1>6. CellTouched(q) /\ RecordTouched(q)
    BY <1>1, <1>2, <1>3, <1>5 DEF CellTouched, RecordTouched
<1>7. AllTouched(c.deps)
    BY <1>1, <1>3, <1>4 DEF NothingLags
<1> QED  BY <1>6, <1>7 DEF Touched, q, c

LEMMA ObserveMeans ==
    ASSUME Known, NEW t \in Task, Observe(t)
    PROVE  MeaningInv'
<1> DEFINE f == F(t)
           c == TheCell(t)
           g == Observed(f, c)
<1>1. Active(t) /\ Go(t, g) /\ f.pc = "observe" /\ UNCHANGED <<dbVars, cell, shared, regVars>>
    BY DEF Observe, At
<1>2. /\ c \in Cell /\ f \in Frame /\ f.rev = Now /\ FrameSound(Cur(t), f)
      /\ RoleFits(f, role[H(t)]) /\ f = frame[t][Cur(t)] /\ Cur(t) \in Query
    BY <1>1, AccessIs, AccessAt DEF Unrevised
<1>3. c.st \in {"Vacant", "Running", "Ready", "Poisoned"}
    BY <1>2, CellsAre
<1>4. role[H(t)] = "idle" /\ \A h : RoleFits(h, role[H(t)])
    BY <1>1, <1>2 DEF RoleFits
<1>5. CASE Current(c, f.rev)
  <2>1. g = [f EXCEPT !.pc = "check", !.ans = AnswerOf(c)]
    BY <1>5 DEF Observed, Current
  <2>2. g.pc = "check" /\ g.ans = AnswerOf(c) /\ g.prev = f.prev /\ g.rec = f.rec
    BY <1>2, <2>1 DEF Frame
  <2>3. Even(g)
    BY <2>2 DEF Even
  <2>4. ASSUME NEW x \in Query, x = Cur(t) PROVE MayBecome(t, x, g)
    <3>1. FrameSound(x, f) /\ c.ver = Now /\ frame[t][x] = f
      BY <1>2, <1>5, <2>4 DEF Current
    <3>2. Means(x, g.ans)
      <4>1. CASE c.st = "Ready"
        <5>1. Truth(x, Present) = [ok |-> TRUE, val |-> c.val]
          BY <1>1, <2>4, <3>1, <4>1, CellKnown
        <5> QED  BY <2>2, <4>1, <5>1 DEF Means, AnswerOf, Ok
      <4>2. CASE c.st # "Ready"
        <5>1. c.st = "Poisoned"
          BY <1>3, <1>5, <4>2 DEF Current
        <5>2. Truth(x, Present) = [ok |-> FALSE, val |-> c.err]
          BY <1>1, <2>4, <3>1, <5>1, CellKnown
        <5> QED  BY <2>2, <4>2, <5>2 DEF Means, AnswerOf, Err
      <4> QED  BY <4>1, <4>2
    <3>3. FrameSound(x, g)
      BY <1>1, <2>2, <3>1, <3>2 DEF FrameSound
    <3>4. ASSUME NEW val, NEW ch, FrameStamp(g, val, ch) PROVE Stamp(x, val, ch)
      <4>1. CASE FrameStamp(f, val, ch)
        BY <1>1, <2>4, <4>1, AccessIs
      <4>2. CASE ~FrameStamp(f, val, ch)
        <5>1. g.ans.ok /\ g.ans.val = val /\ g.ans.ch = ch
          BY <1>1, <2>2, <3>4, <4>2 DEF FrameStamp
        <5>2. c.st = "Ready" /\ c.val = val /\ c.ch = ch
          BY <2>2, <5>1 DEF AnswerOf, Ok, Err
        <5> QED  BY <1>1, <2>4, <5>2, AccessIs
      <4> QED  BY <4>1, <4>2
    <3>5. NewFrame(x, g)
      BY <3>3, <3>4 DEF NewFrame, Dated
    <3>6. ASSUME Alone, g.ans.ok PROVE Touched(x)
      <4>1. c.st = "Ready"
        BY <2>2, <3>6 DEF AnswerOf, Err
      <4> QED  BY <1>1, <2>4, <3>1, <3>6, <4>1, CurrentIsTouched
    <3>7. cell'[Live][x] = cell[Live][x]
      BY <1>1
    <3> QED  BY <1>1, <2>2, <3>1, <3>5, <3>6, <3>7 DEF MayBecome, DepsTouched, Tells, Touched, CellTouched
  <2> HIDE DEF g
  <2> QED  BY <1>1, <1>4, <2>3, <2>4, PlainMeans
<1>6. CASE c.st = "Running"
  <2>1. g = [Idle EXCEPT !.pc = "await"]
    BY <1>6 DEF Observed, Current
  <2>2. Blank(g)
    BY <2>1, BlanksAre
  <2> HIDE DEF g
  <2> QED  BY <1>1, <1>4, <2>2, RestartMeans
<1>7. CASE c.st = "Ready" /\ ~Current(c, f.rev)
  <2>1. g = [f EXCEPT !.pc = "touchLocal", !.i = 1,
                      !.rec = [val |-> c.val, deps |-> c.deps, ch |-> c.ch]]
    BY <1>7 DEF Observed, Current
  <2>2. /\ g.pc = "touchLocal" /\ g.i = 1 /\ g.prev = f.prev /\ g.ans = f.ans
        /\ g.rec.val = c.val /\ g.rec.deps = c.deps /\ g.rec.ch = c.ch
    BY <1>2, <2>1 DEF Frame
  <2>3. Even(g)
    BY <2>2 DEF Even
  <2>4. ASSUME NEW x \in Query, x = Cur(t) PROVE MayBecome(t, x, g)
    <3>1. FrameSound(x, f) /\ frame[t][x] = f /\ home' = home
      BY <1>1, <1>2, <2>4 DEF Go
    <3>2. Usable(x, c, c.ver) /\ c.ver \in 0..Now
      BY <1>1, <1>7, <2>4, CellKnown
    <3>3. Usable(x, g.rec, c.ver)
      BY <2>2, <3>2, UsableSame
    <3>4. Revalidates(x, g.rec, g.i)
      BY <2>2, <3>2, <3>3 DEF Revalidates
    <3>5. FrameSound(x, g)
      BY <1>1, <2>2, <3>1, <3>4 DEF FrameSound, Telling
    <3>6. ASSUME NEW val, NEW ch, FrameStamp(g, val, ch) PROVE Stamp(x, val, ch)
      <4>1. CASE FrameStamp(f, val, ch)
        BY <1>1, <2>4, <4>1, AccessIs
      <4>2. CASE ~FrameStamp(f, val, ch)
        <5>1. c.val = val /\ c.ch = ch
          BY <1>1, <2>2, <3>6, <4>2 DEF FrameStamp
        <5> QED  BY <1>1, <1>7, <2>4, <5>1, AccessIs
      <4> QED  BY <4>1, <4>2
    <3>7. NewFrame(x, g)
      BY <3>5, <3>6 DEF NewFrame, Dated
    <3>8. c = cell'[home'[t]][x]
      BY <1>1, <2>4, <3>1, AccessIs
    <3>9. Matches(cell'[home'[t]][x], g.rec)
      BY <2>2, <3>8 DEF Matches
    <3>10. DepsTouched(g)
      BY <2>2 DEF DepsTouched
    <3> QED  BY <1>1, <2>2, <3>1, <3>7, <3>9, <3>10 DEF MayBecome, Tells
  <2> HIDE DEF g
  <2> QED  BY <1>1, <1>4, <2>3, <2>4, PlainMeans
<1>8. CASE c.st \in {"Vacant", "Poisoned"} /\ ~Current(c, f.rev)
  <2>1. g = [f EXCEPT !.pc = "start"]
    BY <1>8 DEF Observed, Current
  <2>2. g.pc = "start" /\ g.prev = f.prev /\ g.rec = f.rec /\ g.ans = f.ans
    BY <1>2, <2>1 DEF Frame
  <2>3. Even(g)
    BY <2>2 DEF Even
  <2>4. ASSUME NEW x \in Query, x = Cur(t) PROVE MayBecome(t, x, g)
    <3>1. FrameSound(x, f) /\ frame[t][x] = f
      BY <1>2, <2>4
    <3>2. FrameSound(x, g)
      BY <1>1, <2>2, <3>1 DEF FrameSound, Telling
    <3>3. ASSUME NEW val, NEW ch, FrameStamp(g, val, ch) PROVE Stamp(x, val, ch)
      <4>1. FrameStamp(f, val, ch)
        BY <1>1, <2>2, <3>3 DEF FrameStamp
      <4> QED  BY <1>1, <2>4, <4>1, AccessIs
    <3>4. NewFrame(x, g)
      BY <3>2, <3>3 DEF NewFrame, Dated
    <3> QED  BY <1>1, <2>2, <3>1, <3>4 DEF MayBecome, DepsTouched, Tells
  <2> HIDE DEF g
  <2> QED  BY <1>1, <1>4, <2>3, <2>4, PlainMeans
<1> QED  BY <1>3, <1>5, <1>6, <1>7, <1>8

-----------------------------------------------------------------------------
(* Verifying the cell and taking it *)

\* Every dependency is what it was, so it is computed from what is now.
LEMMA RevalidatedIsSound ==
    ASSUME Known, NEW x \in Query, NEW m, NEW i \in Nat, Revalidates(x, m, i), i > Len(m.deps)
    PROVE  Sound(x, m, Now)
<1>1. PICK n \in 0..Now :
        /\ Usable(x, m, n)
        /\ \A j \in 1..Len(m.deps) : j < i => Mean(m.deps[j], Then(n)) = Mean(m.deps[j], Present)
    BY DEF Revalidates
<1>2. Now \in Nat /\ Present = Then(Now)
    BY HistoryIs DEF Known, EngineInv
<1>3. m.ch \in 0..n /\ m.deps \in DepLists /\ Computes(x, m.deps, m.val, Then(n))
    BY <1>1 DEF Usable, Sound
<1>4. Len(m.deps) \in Nat
    BY <1>3, DepListIs
<1>5. \A j \in 1..Len(m.deps) : Mean(m.deps[j], Then(n)) = Mean(m.deps[j], Then(Now))
    BY <1>1, <1>2, <1>4
<1>6. Computes(x, m.deps, m.val, Then(Now))
    BY <1>3, <1>5, ComputedElsewhere
<1>7. m.ch \in 0..Now /\ Now \in 0..Now
    BY <1>2, <1>3
<1> QED  BY <1>3, <1>6, <1>7 DEF Sound

LEMMA OwnCellIs ==
    ASSUME Known, NEW t \in Task, Active(t), NEW c, cell' = [cell EXCEPT ![home[t]][Cur(t)] = c]
    PROVE  cell'[home[t]][Cur(t)] = c
<1>1. Cur(t) \in Query /\ home[t] \in View
    BY AccessIs
<1>2. cell \in [View -> [Query -> Cell]]
    BY DEF Known, EngineInv, CellsTyped
<1> QED  BY <1>1, <1>2

LEMMA VerifyMeans ==
    ASSUME Known, NEW t \in Task, Verify(t)
    PROVE  MeaningInv'
<1> DEFINE f == F(t)
           c == TheCell(t)
           d == [c EXCEPT !.ver = f.rev]
           g == [Idle EXCEPT !.pc = "check", !.rev = f.rev, !.ans = AnswerOf(c)]
<1>1. Active(t) /\ f.pc = "touchLocal" /\ f.i > Len(f.rec.deps) /\ UNCHANGED <<dbVars, shared, regVars>>
    BY DEF Verify, At
<1>2. /\ c \in Cell /\ f \in Frame /\ f.rev = Now /\ FrameSound(Cur(t), f)
      /\ RoleFits(f, role[H(t)]) /\ f = frame[t][Cur(t)] /\ Cur(t) \in Query /\ home[t] \in View
      /\ c = cell[home[t]][Cur(t)]
    BY <1>1, AccessIs, AccessAt DEF Unrevised
<1>3. role[H(t)] = "idle" /\ \A h : RoleFits(h, role[H(t)])
    BY <1>1, <1>2 DEF RoleFits
<1>4. CASE c.st # "Ready"
  <2>1. Go(t, AtTop) /\ cell' = cell
    BY <1>4 DEF Verify
  <2> QED  BY <1>1, <1>3, <2>1, BlanksAre, RestartMeans
<1>5. CASE c.st = "Ready"
  <2>1. /\ cell' = [cell EXCEPT ![home[t]][Cur(t)].ver = f.rev] /\ Go(t, g)
    BY <1>5 DEF Verify
  <2>2. /\ d.st = "Ready" /\ d.val = c.val /\ d.deps = c.deps /\ d.ch = c.ch /\ d.ver = Now
    <3>1. c = ReadyCell(c.val, c.ver, c.ch, c.deps)
      BY <1>2, <1>5, CellsAre
    <3> QED  BY <1>2, <3>1 DEF ReadyCell
  <2>3. cell' = [cell EXCEPT ![home[t]][Cur(t)] = d]
    BY <2>1, <1>2
  <2>4. g.pc = "check" /\ g.prev = NoValue /\ g.rec = NoRecord /\ g.ans = Ok(c.val, c.ch)
    BY <1>5 DEF Idle, AnswerOf
  <2>5. Sound(Cur(t), d, Now) /\ (Alone => AllTouched(c.deps))
    <3>1. CASE c.ver = Now
      <4>1. Sound(Cur(t), c, Now)
        BY <1>1, <1>5, <3>1, CellKnown
      <4>2. Alone => AllTouched(c.deps)
        BY <1>1, <1>5, <3>1, CurrentIsTouched
      <4> HIDE DEF d, c
      <4> QED  BY <2>2, <4>1, <4>2, UsableSame
    <3>2. CASE c.ver # Now
      <4>1. Matches(c, f.rec)
        <5>1. home[t] # NoView
          BY <1>2, NonesAreNone
        <5> QED  BY <1>1, <1>2, <5>1 DEF Known, MeaningInv, CellsAreRevalidated
      <4>2. f.rec.val = c.val /\ f.rec.deps = c.deps /\ f.rec.ch = c.ch
        BY <1>5, <3>2, <4>1 DEF Matches
      <4>3. Revalidates(Cur(t), f.rec, f.i) /\ f.i \in Nat
        BY <1>1, <1>2, FrameFields DEF FrameSound
      <4>4. Sound(Cur(t), f.rec, Now)
        BY <1>1, <1>2, <4>3, RevalidatedIsSound
      <4>5. Sound(Cur(t), d, Now)
        <5> HIDE DEF d, c, f
        <5> QED  BY <2>2, <4>2, <4>4, UsableSame
      <4>6. Alone => AllTouched(f.rec.deps)
        <5>1. c.deps \in DepLists
          BY <1>2, <1>5, CellsAre
        <5>2. Len(f.rec.deps) \in Nat
          BY <4>2, <5>1, DepListIs
        <5>3. Alone => DepsTouched(f)
          BY <1>1, AccessIs
        <5> HIDE DEF f
        <5>4. \A n \in 1..Len(f.rec.deps) : n < f.i
          BY <1>1, <4>3, <5>2
        <5> QED  BY <1>1, <5>3, <5>4 DEF DepsTouched, AllTouched
      <4> QED  BY <4>2, <4>5, <4>6
    <3> QED  BY <3>1, <3>2
  <2>6. Stamp(Cur(t), c.val, c.ch)
    BY <1>1, <1>5, AccessIs
  <2>7. NewCell(Cur(t), d)
    BY <2>2, <2>5, <2>6 DEF NewCell, NewMemo, Dated
  <2>8. CellsProceed
    <3>1. Alone => AllTouched(d.deps) /\ TheCell(t).st = "Ready" /\ TheCell(t).val = d.val
      BY <1>5, <2>2, <2>5
    <3> HIDE DEF d, c
    <3> QED  BY <1>1, <2>3, <2>7, <3>1, OwnCellProceeds
  <2>9. Truth(Cur(t), Present) = [ok |-> TRUE, val |-> c.val]
    BY <1>2, <2>2, <2>5, SoundNow
  <2>10. cell'[home[t]][Cur(t)] = d
    <3> HIDE DEF d
    <3> QED  BY <1>1, <2>3, OwnCellIs
  <2>11. ASSUME NEW x \in Query, x = Cur(t) PROVE MayBecome(t, x, g)
    <3>1. Means(x, g.ans) /\ g.ans.ok
      <4>1. g.ans.ok = TRUE /\ g.ans.val = c.val
        BY <2>4 DEF Ok
      <4> HIDE DEF g, c
      <4> QED  BY <2>9, <2>11, <4>1 DEF Means
    <3>2. FrameSound(x, g)
      BY <2>4, <3>1 DEF FrameSound
    <3>3. ASSUME NEW val, NEW ch, FrameStamp(g, val, ch) PROVE Stamp(x, val, ch)
      <4>1. g.ans.val = c.val /\ g.ans.ch = c.ch
        BY <2>4 DEF Ok
      <4> HIDE DEF g, c
      <4>2. val = c.val /\ ch = c.ch
        BY <2>4, <3>3, <4>1 DEF FrameStamp
      <4> QED  BY <2>6, <2>11, <4>2
    <3>4. NewFrame(x, g)
      BY <3>2, <3>3 DEF NewFrame, Dated
    <3>5. Alone => RecordTouched(x)
      <4>1. Alone => NothingLags /\ c = cell[Live][x]
        BY <1>1, <1>2, <2>11, AccessAt DEF Known, MeaningInv
      <4>2. Alone => shared[Live][x] = NoRecord \/ shared[Live][x].val = c.val \/ PutPending(x)
        BY <1>5, <4>1 DEF NothingLags
      <4> QED  BY <2>9, <2>11, <4>2 DEF RecordTouched
    <3>6. Alone => cell'[Live][x].ver = Now
      <4>1. Alone => home[t] = Live
        BY <1>1, AccessAt
      <4>2. cell'[home[t]][x].ver = Now
        BY <2>2, <2>10, <2>11
      <4> QED  BY <4>1, <4>2
    <3>7. frame[t][x].pc # "put"
      BY <1>1, <1>2, <2>11
    <3> QED  BY <2>4, <3>4, <3>5, <3>6, <3>7 DEF MayBecome, DepsTouched
  <2>12. RecordsProceed /\ UNCHANGED regVars /\ UNCHANGED dbVars
    BY <1>1, RecordStays
  <2>13. Even(g) /\ RoleFits(g, role'[H(t)])
    BY <1>1, <1>3, <2>4 DEF Even, RoleFits, regVars
  <2> HIDE DEF g
  <2> QED  BY <1>1, <2>1, <2>8, <2>11, <2>12, <2>13, GoMeans
<1> QED  BY <1>4, <1>5

LEMMA StartMeans ==
    ASSUME Known, NEW t \in Task, Start(t)
    PROVE  MeaningInv'
<1> DEFINE f == F(t)
           c == TheCell(t)
           old == IF c.st = "Ready" THEN [val |-> c.val, ch |-> c.ch] ELSE NoValue
           g == [f EXCEPT !.pc = "shared", !.prev = old]
<1>1. Active(t) /\ f.pc = "start" /\ UNCHANGED <<dbVars, shared, regVars>>
    BY DEF Start, At
<1>2. /\ c \in Cell /\ f \in Frame /\ f.rev = Now /\ FrameSound(Cur(t), f)
      /\ RoleFits(f, role[H(t)]) /\ f = frame[t][Cur(t)] /\ Cur(t) \in Query
    BY <1>1, AccessIs, AccessAt DEF Unrevised
<1>3. role[H(t)] = "idle" /\ \A h : RoleFits(h, role[H(t)])
    BY <1>1, <1>2 DEF RoleFits
<1>4. CASE Current(c, f.rev) \/ c.st = "Running"
  <2>1. Go(t, AtTop) /\ cell' = cell
    BY <1>4 DEF Start
  <2> QED  BY <1>1, <1>3, <2>1, BlanksAre, RestartMeans
<1>5. CASE ~(Current(c, f.rev) \/ c.st = "Running")
  <2>1. cell' = [cell EXCEPT ![home[t]][Cur(t)] = Running] /\ Go(t, g)
    BY <1>5 DEF Start
  <2>2. g.pc = "shared" /\ g.prev = old /\ g.rec = f.rec /\ g.ans = f.ans
    BY <1>2 DEF Frame
  <2>3. NewCell(Cur(t), Running) /\ Running.st # "Ready"
    BY DEF NewCell, Running
  <2>4. CellsProceed
    BY <1>1, <2>1, <2>3, OwnCellProceeds
  <2>5. c.st = "Ready" =>
            Stamp(Cur(t), c.val, c.ch) /\ c.ver \in 0..Now /\ c.ch \in 0..c.ver /\ Now \in Nat
    BY <1>1, AccessIs, AccessAt, CellKnown
  <2>6. ASSUME NEW x \in Query, x = Cur(t) PROVE MayBecome(t, x, g)
    <3>1. FrameSound(x, f) /\ frame[t][x] = f
      BY <1>2, <2>6
    <3>2. g.prev # NoValue => c.st = "Ready" /\ g.prev.val = c.val /\ g.prev.ch = c.ch
      BY <2>2
    <3> HIDE DEF g, c
    <3>3. g.prev # NoValue => g.prev.ch <= Now
      BY <2>5, <3>2
    <3>4. FrameSound(x, g)
      BY <2>2, <3>3 DEF FrameSound, Telling
    <3>5. ASSUME NEW val, NEW ch, FrameStamp(g, val, ch) PROVE Stamp(x, val, ch)
      <4>1. CASE FrameStamp(f, val, ch)
        BY <1>1, <2>6, <4>1, AccessIs
      <4>2. CASE ~FrameStamp(f, val, ch)
        <5>1. c.st = "Ready" /\ c.val = val /\ c.ch = ch
          BY <1>1, <2>2, <3>2, <3>5, <4>2 DEF FrameStamp
        <5> QED  BY <2>5, <2>6, <5>1
      <4> QED  BY <4>1, <4>2
    <3>6. NewFrame(x, g)
      BY <3>4, <3>5 DEF NewFrame, Dated
    <3> QED  BY <1>1, <2>2, <3>1, <3>6 DEF MayBecome, DepsTouched, Tells
  <2>7. RecordsProceed /\ UNCHANGED regVars /\ UNCHANGED dbVars
    BY <1>1, RecordStays
  <2>8. Even(g) /\ RoleFits(g, role'[H(t)])
    BY <1>1, <1>3, <2>2 DEF Even, RoleFits, regVars
  <2> HIDE DEF g
  <2> QED  BY <1>1, <2>1, <2>4, <2>6, <2>7, <2>8, GoMeans
<1> QED  BY <1>4, <1>5

-----------------------------------------------------------------------------
(* Adopting a record *)

LEMMA SharedGetMeans ==
    ASSUME Known, NEW t \in Task, SharedGet(t)
    PROVE  MeaningInv'
<1> DEFINE f == F(t)
           r == shared[Scope(home[t])][Cur(t)]
           g == CASE r = NoRecord -> [f EXCEPT !.pc = "lead"]
                  [] r # NoRecord /\ r.ver = f.rev ->
                        [f EXCEPT !.pc = "adopt",
                            !.rec = [val |-> r.val, deps |-> r.deps, ch |-> r.ch]]
                  [] r # NoRecord /\ r.ver # f.rev ->
                        [f EXCEPT !.pc = "touchShared", !.i = 1,
                            !.rec = [val |-> r.val, deps |-> r.deps, ch |-> r.ch]]
<1>1. Active(t) /\ f.pc = "shared" /\ Go(t, g) /\ UNCHANGED <<dbVars, cell, shared, regVars>>
    BY DEF SharedGet, At, cellVars
<1>2. /\ f \in Frame /\ f.rev = Now /\ FrameSound(Cur(t), f)
      /\ RoleFits(f, role[H(t)]) /\ f = frame[t][Cur(t)] /\ Cur(t) \in Query /\ Scope(home[t]) = Live
    BY <1>1, AccessIs, AccessAt DEF Unrevised
<1>3. role[H(t)] = "idle" /\ \A h : RoleFits(h, role[H(t)])
    BY <1>1, <1>2 DEF RoleFits
<1>4. ASSUME NEW x \in Query, x = Cur(t)
      PROVE  /\ FrameSound(x, f) /\ frame[t][x] = f /\ r = shared[Live][x]
             /\ \A val, ch : FrameStamp(f, val, ch) => Stamp(x, val, ch)
    BY <1>1, <1>2, <1>4, AccessIs
<1>5. CASE r = NoRecord
  <2>1. g = [f EXCEPT !.pc = "lead"]
    BY <1>5
  <2>2. g.pc = "lead" /\ g.prev = f.prev /\ g.rec = f.rec /\ g.ans = f.ans
    BY <1>2, <2>1 DEF Frame
  <2>3. Even(g)
    BY <2>2 DEF Even
  <2> HIDE DEF g, f, r
  <2>4. ASSUME NEW x \in Query, x = Cur(t) PROVE MayBecome(t, x, g)
    <3>1. FrameSound(x, g)
      BY <1>1, <1>4, <2>2, <2>4 DEF FrameSound, Telling
    <3>2. ASSUME NEW val, NEW ch, FrameStamp(g, val, ch) PROVE Stamp(x, val, ch)
      <4>1. FrameStamp(f, val, ch)
        BY <1>1, <2>2, <3>2 DEF FrameStamp
      <4> QED  BY <1>4, <2>4, <4>1
    <3>3. NewFrame(x, g)
      BY <3>1, <3>2 DEF NewFrame, Dated
    <3> QED  BY <1>1, <1>4, <2>2, <2>4, <3>3 DEF MayBecome, DepsTouched, Tells
  <2> QED  BY <1>1, <1>3, <2>3, <2>4, PlainMeans
<1>6. CASE r # NoRecord
  <2> DEFINE m == [val |-> r.val, deps |-> r.deps, ch |-> r.ch]
  <2>1. g = IF r.ver = f.rev THEN [f EXCEPT !.pc = "adopt", !.rec = m]
                             ELSE [f EXCEPT !.pc = "touchShared", !.i = 1, !.rec = m]
    BY <1>6
  <2>2. /\ g.pc = IF r.ver = f.rev THEN "adopt" ELSE "touchShared"
        /\ r.ver # f.rev => g.i = 1
        /\ g.prev = f.prev /\ g.ans = f.ans /\ g.rec = m
    <3>1. CASE r.ver = f.rev
      BY <1>2, <2>1, <3>1 DEF Frame
    <3>2. CASE r.ver # f.rev
      BY <1>2, <2>1, <3>2 DEF Frame
    <3> QED  BY <3>1, <3>2
  <2>3. g.rec.val = r.val /\ g.rec.deps = r.deps /\ g.rec.ch = r.ch
    BY <2>2
  <2>4. Even(g)
    BY <2>2 DEF Even
  <2>5. r.ver = f.rev \/ r.ver # f.rev
    OBVIOUS
  <2> HIDE DEF g, f, r, m
  <2>6. ASSUME NEW x \in Query, x = Cur(t) PROVE MayBecome(t, x, g)
    <3>1. Usable(x, r, r.ver) /\ Sound(x, r, r.ver) /\ r.ver \in 0..Now
      BY <1>4, <1>6, <2>6 DEF Known, MeaningInv, RecordsAreSound, Usable, Sound
    <3>2. Usable(x, g.rec, r.ver) /\ Sound(x, g.rec, r.ver)
      BY <2>3, <3>1, UsableSame
    <3>3. FrameSound(x, g)
      <4>1. CASE r.ver = f.rev
        BY <1>1, <1>2, <1>4, <2>2, <2>6, <3>2, <4>1 DEF FrameSound, Telling
      <4>2. CASE r.ver # f.rev
        <5>1. Revalidates(x, g.rec, g.i)
          BY <2>2, <3>1, <3>2, <4>2 DEF Revalidates
        <5> QED  BY <1>1, <1>4, <2>2, <2>6, <4>2, <5>1 DEF FrameSound, Telling
      <4> QED  BY <4>1, <4>2
    <3>4. ASSUME NEW val, NEW ch, FrameStamp(g, val, ch) PROVE Stamp(x, val, ch)
      <4>1. CASE FrameStamp(f, val, ch)
        BY <1>4, <2>6, <4>1
      <4>2. CASE ~FrameStamp(f, val, ch)
        <5>1. r.val = val /\ r.ch = ch
          BY <1>1, <2>2, <2>3, <3>4, <4>2 DEF FrameStamp
        <5> QED  BY <1>4, <1>6, <2>6, <5>1 DEF Stamp
      <4> QED  BY <4>1, <4>2
    <3>5. NewFrame(x, g)
      BY <3>3, <3>4 DEF NewFrame, Dated
    <3>6. Alone => DepsTouched(g)
      <4>1. CASE r.ver = f.rev
        <5>1. Alone => AllTouched(r.deps)
          BY <1>2, <1>4, <1>6, <2>6, <4>1 DEF Known, MeaningInv, NothingLags
        <5> QED  BY <2>2, <2>3, <4>1, <5>1 DEF DepsTouched
      <4>2. CASE r.ver # f.rev
        BY <2>2, <4>2 DEF DepsTouched
      <4> QED  BY <4>1, <4>2
    <3> QED  BY <1>1, <1>4, <2>2, <2>6, <3>5, <3>6 DEF MayBecome, Tells
  <2> QED  BY <1>1, <1>3, <2>4, <2>6, PlainMeans
<1> QED  BY <1>5, <1>6

\* The access of t makes m, which holds now, its cell, to be filed next.
Takes(t, m, g) ==
    /\ g.pc = "put" /\ g.prev = NoValue /\ g.rec = m /\ g.ans = Ok(m.val, m.ch)
    /\ Go(t, g)
    /\ cell' = [cell EXCEPT ![home[t]][Cur(t)] = ReadyCell(m.val, Now, m.ch, m.deps)]
    /\ UNCHANGED <<dbVars, shared, regVars>>

LEMMA PutMeans ==
    ASSUME Known, NEW t \in Task, Active(t), NEW m \in Record, Sound(Cur(t), m, Now),
           Dated(Cur(t), m.val, m.ch), Alone => AllTouched(m.deps), F(t).pc # "put",
           NEW g, Takes(t, m, g), RoleFits(g, role[H(t)])
    PROVE  MeaningInv'
<1> DEFINE d == ReadyCell(m.val, Now, m.ch, m.deps)
<1>1. /\ Cur(t) \in Query /\ home[t] \in View /\ (Alone => home[t] = Live)
      /\ F(t) = frame[t][Cur(t)] /\ t \in Task
    BY AccessIs, AccessAt
<1>2. /\ g.pc = "put" /\ g.rec = m /\ g.ans = Ok(m.val, m.ch) /\ g.prev = NoValue
      /\ Go(t, g) /\ UNCHANGED <<dbVars, shared, regVars>>
      /\ cell' = [cell EXCEPT ![home[t]][Cur(t)] = d]
    BY DEF Takes
<1>3. d.st = "Ready" /\ d.val = m.val /\ d.deps = m.deps /\ d.ch = m.ch /\ d.ver = Now
    BY DEF ReadyCell
<1>4. g.ans.ok = TRUE /\ g.ans.val = m.val /\ g.ans.ch = m.ch
    BY <1>2 DEF Ok
<1> HIDE DEF d
<1>6. NewCell(Cur(t), d)
    BY <1>3, UsableSame DEF NewCell, NewMemo
<1>7. frame'[t][Cur(t)] = g
  <2>1. frame' = [frame EXCEPT ![t][Cur(t)] = g] /\ frame \in [Task -> [Query -> Frame]]
    BY <1>2 DEF Go, Known, EngineInv, TasksTyped
  <2> QED  BY <1>1, <2>1
<1>8. CellsProceed
  <2>1. frame'[t][Cur(t)].pc = "put"
    BY <1>2, <1>7
  <2> QED  BY <1>2, <1>3, <1>6, <2>1, OwnCellProceeds
<1>9. Truth(Cur(t), Present) = [ok |-> TRUE, val |-> m.val]
    BY <1>1, SoundNow
<1>10. cell'[home[t]][Cur(t)] = d
    BY <1>2, OwnCellIs
<1>11. ASSUME NEW x \in Query, x = Cur(t) PROVE MayBecome(t, x, g)
  <2>1. Means(x, g.ans)
    BY <1>4, <1>9, <1>11 DEF Means
  <2>2. FrameSound(x, g)
    BY <1>2, <1>11, <2>1 DEF FrameSound
  <2>3. ASSUME NEW val, NEW ch, FrameStamp(g, val, ch) PROVE Dated(x, val, ch)
    <3>1. val = m.val /\ ch = m.ch
      BY <1>2, <1>4, <2>3 DEF FrameStamp
    <3> QED  BY <1>11, <3>1
  <2>4. NewFrame(x, g)
    BY <2>2, <2>3 DEF NewFrame
  <2>5. Alone => cell'[Live][x].ver = Now
    <3>1. cell'[home[t]][x].ver = Now
      BY <1>3, <1>10, <1>11
    <3> QED  BY <1>1, <3>1
  <2>6. Alone => DepsTouched(g)
    BY <1>2 DEF DepsTouched
  <2> QED  BY <1>1, <1>2, <1>11, <2>4, <2>5, <2>6 DEF MayBecome
<1>12. RecordsProceed /\ UNCHANGED regVars /\ UNCHANGED dbVars
    BY <1>2, RecordStays
<1>13. Even(g) /\ RoleFits(g, role'[H(t)])
    BY <1>2, <1>12 DEF Even, regVars
<1> QED  BY <1>2, <1>8, <1>11, <1>12, <1>13, GoMeans

LEMMA AdoptMeans ==
    ASSUME Known, NEW t \in Task, Adopt(t)
    PROVE  MeaningInv'
<1> DEFINE f == F(t)
           m == f.rec
           g == [Idle EXCEPT !.pc = "put", !.rev = f.rev, !.rec = m, !.ans = Ok(m.val, m.ch)]
<1>1. /\ Active(t) /\ UNCHANGED <<dbVars, shared, regVars>> /\ Go(t, g)
      /\ f.pc \in {"adopt", "take"} \/ (f.pc = "touchShared" /\ f.i > Len(f.rec.deps))
      /\ cell' = [cell EXCEPT ![home[t]][Cur(t)] = ReadyCell(m.val, f.rev, m.ch, m.deps)]
    BY DEF Adopt, At, AdoptRecord, SetCell
<1>2. f.pc \in {"adopt", "take", "touchShared"}
    BY <1>1
<1>3. /\ f \in Frame /\ FrameSound(Cur(t), f) /\ f.rev = Now /\ HasWhatItNeeds(f)
      /\ RoleFits(f, role[H(t)]) /\ Cur(t) \in Query /\ (Alone => DepsTouched(f))
    BY <1>1, <1>2, AccessIs, AccessAt DEF Unrevised
<1>4. m \in Record
    BY <1>2, <1>3 DEF HasWhatItNeeds
<1>5. m.deps \in DepLists /\ Len(m.deps) \in Nat /\ f.i \in Nat /\ m # NoRecord
    BY <1>3, <1>4, RecordsAre, DepListIs, FrameFields, NoPayloadIsNone
<1>6. Sound(Cur(t), m, Now)
  <2>1. CASE f.pc \in {"adopt", "take"}
    BY <1>3, <2>1 DEF FrameSound
  <2>2. CASE f.pc = "touchShared" /\ f.i > Len(f.rec.deps)
    <3>1. Revalidates(Cur(t), m, f.i)
      BY <1>3, <2>2 DEF FrameSound
    <3> HIDE DEF f
    <3> QED  BY <1>3, <1>5, <2>2, <3>1, RevalidatedIsSound
  <2> QED  BY <1>1, <2>1, <2>2
<1>7. Dated(Cur(t), m.val, m.ch)
  <2>1. FrameStamp(f, m.val, m.ch)
    BY <1>2, <1>5 DEF FrameStamp
  <2> QED  BY <1>1, <2>1, AccessIs DEF Dated
<1>8. Alone => AllTouched(m.deps)
  <2>1. CASE f.pc \in {"adopt", "take"}
    <3> HIDE DEF f
    <3> QED  BY <1>3, <2>1 DEF DepsTouched
  <2>2. CASE f.pc = "touchShared" /\ f.i > Len(f.rec.deps)
    <3> HIDE DEF f
    <3>1. \A n \in 1..Len(m.deps) : n < f.i
      BY <1>5, <2>2
    <3> QED  BY <1>3, <2>2, <3>1 DEF DepsTouched, AllTouched
  <2> QED  BY <1>1, <2>1, <2>2
<1>9. /\ g.pc = "put" /\ g.prev = NoValue /\ g.rec = m /\ g.ans = Ok(m.val, m.ch)
  <2>1. "put" \in PC
    BY DEF PC
  <2> QED  BY <2>1 DEF Idle
<1>10. role[H(t)] = "idle"
    BY <1>2, <1>3 DEF RoleFits
<1> HIDE DEF m, g
<1>11. Takes(t, m, g)
    BY <1>1, <1>3, <1>9 DEF Takes
<1>12. RoleFits(g, role[H(t)]) /\ f.pc # "put"
    BY <1>2, <1>10 DEF RoleFits
<1> QED  BY <1>1, <1>4, <1>6, <1>7, <1>8, <1>11, <1>12, PutMeans

LEMMA SharedPutMeans ==
    ASSUME Known, NEW t \in Task, SharedPut(t)
    PROVE  MeaningInv'
<1> DEFINE f == F(t)
           m == f.rec
           r == [val |-> m.val, deps |-> m.deps, ch |-> m.ch, ver |-> f.rev]
           g == IF role[H(t)] = "leader" THEN [f EXCEPT !.pc = "complete"]
                ELSE [f EXCEPT !.pc = "check", !.rec = NoRecord]
<1>1. /\ Active(t) /\ f.pc = "put" /\ Go(t, g) /\ UNCHANGED <<dbVars, cell, regVars>>
      /\ shared' = [shared EXCEPT ![Scope(home[t])][Cur(t)] = r]
    BY DEF SharedPut, At, cellVars
<1>2. /\ f \in Frame /\ FrameSound(Cur(t), f) /\ f.rev = Now /\ HasWhatItNeeds(f)
      /\ RoleFits(f, role[H(t)]) /\ Cur(t) \in Query /\ f = frame[t][Cur(t)] /\ Scope(home[t]) = Live
      /\ Alone => DepsTouched(f)
    BY <1>1, AccessIs, AccessAt DEF Unrevised
<1>3. m \in Record /\ Sound(Cur(t), m, Now) /\ Means(Cur(t), f.ans) /\ (Alone => AllTouched(m.deps))
    BY <1>1, <1>2 DEF HasWhatItNeeds, FrameSound, Telling, DepsTouched
<1>4. /\ m # NoRecord /\ r # NoRecord
      /\ r.val = m.val /\ r.deps = m.deps /\ r.ch = m.ch /\ r.ver = Now
    BY <1>2, <1>3, RecordsAre, NoPayloadIsNone, FrameFields
<1>5. Dated(Cur(t), r.val, r.ch)
  <2>1. FrameStamp(f, m.val, m.ch)
    BY <1>1, <1>4 DEF FrameStamp
  <2> QED  BY <1>1, <1>4, <2>1, AccessIs DEF Dated
<1>6. Live \in View /\ shared \in [View -> [Query -> SharedRecord \union {NoRecord}]]
    BY LiveIsAView DEF Known, EngineInv, CellsTyped
<1>7. g.pc = "complete" \/ (g.pc = "check" /\ g.rec = NoRecord)
    BY <1>2 DEF Frame
<1>8. /\ g.prev = f.prev /\ g.ans = f.ans /\ (g.pc = "complete" => g.rec = m /\ role[H(t)] = "leader")
      /\ g.rec \in {m, NoRecord} /\ (g.pc = "check" => role[H(t)] # "leader")
    BY <1>2 DEF Frame
<1>9. Truth(Cur(t), Present) = [ok |-> TRUE, val |-> m.val]
    BY <1>2, <1>3, SoundNow
<1> HIDE DEF r, g, m
<1>10. /\ shared'[Live][Cur(t)] = r
       /\ \A x \in Query : x # Cur(t) => shared'[Live][x] = shared[Live][x]
    BY <1>1, <1>2, <1>6
<1>11. ASSUME NEW x \in Query, x = Cur(t) PROVE PutPending(x)
    BY <1>1, <1>2, <1>11 DEF PutPending
<1>12. RecordsProceed
  <2>1. NewMemo(Cur(t), r)
    BY <1>3, <1>4, <1>5, UsableSame DEF NewMemo
  <2>2. RecordsGo
    BY <1>4, <1>10, <2>1 DEF RecordsGo
  <2> QED  BY <1>3, <1>4, <1>10, <1>11, <2>2 DEF RecordsProceed
<1>13. ASSUME NEW x \in Query, x = Cur(t) PROVE MayBecome(t, x, g)
  <2>1. FrameSound(x, f) /\ frame[t][x] = f /\ PutPending(x) /\ Means(x, g.ans)
    BY <1>2, <1>3, <1>8, <1>11, <1>13
  <2>2. FrameSound(x, g)
    BY <1>1, <1>3, <1>7, <1>8, <1>13, <2>1 DEF FrameSound, Telling
  <2>3. ASSUME NEW val, NEW ch, FrameStamp(g, val, ch) PROVE Stamp(x, val, ch)
    <3>1. FrameStamp(f, val, ch)
      BY <1>1, <1>8, <2>3 DEF FrameStamp, m
    <3> QED  BY <1>1, <1>13, <3>1, AccessIs
  <2>4. NewFrame(x, g)
    BY <2>2, <2>3 DEF NewFrame, Dated
  <2>5. Alone => DepsTouched(g)
    BY <1>3, <1>7, <1>8 DEF DepsTouched
  <2>6. RecordTouched(x)
    BY <2>1 DEF RecordTouched
  <2>7. Alone => CellTouched(x)
    BY <2>1 DEF Known, MeaningInv, NothingLags
  <2>8. Alone /\ cell'[Live][x].st = "Ready" => cell'[Live][x].ver = Now
    BY <1>1, <2>7 DEF CellTouched
  <2>9. shared'[Live][x] # NoRecord /\ shared'[Live][x].val = Truth(x, Present).val
    BY <1>4, <1>9, <1>10, <1>13
  <2> QED  BY <1>7, <2>4, <2>5, <2>6, <2>8, <2>9 DEF MayBecome
<1>14. CellsProceed /\ UNCHANGED regVars /\ UNCHANGED dbVars
    BY <1>1, CellStays
<1>15. Even(g)
    BY <1>7 DEF Even
<1>16. RoleFits(g, role'[H(t)])
    BY <1>1, <1>2, <1>7, <1>8, <1>14 DEF RoleFits, regVars
<1> QED  BY <1>1, <1>12, <1>13, <1>14, <1>15, <1>16, GoMeans

-----------------------------------------------------------------------------
(* Flights *)

LEMMA RolesMove ==
    ASSUME Flights!IInv, NEW h \in Holder
    PROVE  /\ \A k : Reg!Lead(h, k) => role'[h] = "leader"
           /\ \A k : Reg!Join(h, k) => role'[h] = "follower"
           /\ Reg!Subscribe(h) \/ Reg!Wait(h) \/ Reg!Wake(h) =>
                role'[h] \in {"follower", "subscribed", "waiting"}
           /\ Reg!Take(h) \/ Reg!Remove(h) \/ Reg!Abandon(h) => role'[h] = "idle"
           /\ \A st, r : Reg!Settle(h, st, r) => role'[h] = "settled"
           /\ Reg!NotifyWaiters(h) => role'[h] = "notified"
<1>1. role \in [Holder -> Reg!Roles]
    BY RegistryIs DEF Reg!TypeOK
<1>2. \A k : Reg!Lead(h, k) => role'[h] = "leader"
    BY <1>1 DEF Reg!Lead
<1>3. \A k : Reg!Join(h, k) => role'[h] = "follower"
    BY <1>1 DEF Reg!Join
<1>4. Reg!Subscribe(h) \/ Reg!Wait(h) \/ Reg!Wake(h) =>
            role'[h] \in {"follower", "subscribed", "waiting"}
    BY <1>1 DEF Reg!Subscribe, Reg!Wait, Reg!Wake
<1>5. Reg!Take(h) \/ Reg!Remove(h) \/ Reg!Abandon(h) => role'[h] = "idle"
  <2>1. Reg!Release(h) => role' = [role EXCEPT ![h] = "idle"]
    BY DEF Reg!Release
  <2> QED  BY <1>1, <2>1 DEF Reg!Take, Reg!Remove, Reg!Abandon
<1>6. \A st, r : Reg!Settle(h, st, r) => role'[h] = "settled"
    BY <1>1 DEF Reg!Settle
<1>7. Reg!NotifyWaiters(h) => role'[h] = "notified"
    BY <1>1 DEF Reg!NotifyWaiters
<1> QED  BY <1>2, <1>3, <1>4, <1>5, <1>6, <1>7

(* The accesses stay where they are. *)
LEMMA StillMeans ==
    ASSUME Known, UNCHANGED <<dbVars, cell, taskVars>>, RecordsProceed,
           UNCHANGED regVars \/ \E h \in Holder : UsesRight(h), RolesFit'
    PROVE  MeaningInv'
<1>1. EngineTypes /\ TruthIsMeant /\ MeaningInv /\ DbTypeOK /\ Flights!IInv
    BY KnownTypes DEF Known, MeantPrograms, EngineInv
<1>2. home' = home /\ stack' = stack /\ frame' = frame
    BY DEF taskVars
<1>3. FramesProceed
    BY <1>2 DEF FramesProceed
<1>4. StacksAreAsked'
    BY <1>1, <1>2 DEF MeaningInv, StacksAreAsked
<1>5. FlightsProceed
    BY <1>1, UsesProceed DEF MeaningInv
<1>6. CellsProceed
    BY CellStays
<1> QED  BY <1>1, <1>3, <1>4, <1>5, <1>6, StepKeepsMeaning

LEMMA EvictMeans ==
    ASSUME Known, NEW v \in View, NEW q \in Query, Evict(v, q)
    PROVE  MeaningInv'
<1>1. shared \in [View -> [Query -> SharedRecord \union {NoRecord}]] /\ Live \in View
    BY LiveIsAView DEF Known, EngineInv, CellsTyped
<1>2. shared' = [shared EXCEPT ![v][q] = NoRecord] /\ UNCHANGED <<dbVars, cell, taskVars, regVars>>
    BY DEF Evict, cellVars
<1>3. \A x \in Query : shared'[Live][x] \in {shared[Live][x], NoRecord}
    BY <1>1, <1>2
<1>4. RecordsProceed
    BY <1>3 DEF RecordsProceed, RecordsGo
<1>5. RolesFit'
    BY <1>2 DEF Known, MeaningInv, RolesFit, taskVars, regVars
<1> QED  BY <1>2, <1>4, <1>5, StillMeans

(* The access of t uses the registry, and stays where it is. *)
LEMMA UsingMeans ==
    ASSUME Known, NEW t \in Task, Active(t), UsesRight(H(t)), UNCHANGED <<dbVars, cell, shared, taskVars>>,
           RoleFits(F(t), role'[H(t)])
    PROVE  MeaningInv'
<1>1. H(t) \in Holder /\ H(t) = <<t, Cur(t)>> /\ F(t) = frame[t][Cur(t)] /\ Flights!IInv
    BY AccessIs DEF Known, EngineInv
<1>2. \A g \in Holder : g # H(t) => role'[g] = role[g]
    BY <1>1, OthersKeepRoles
<1>3. RolesFit'
  <2> SUFFICES ASSUME NEW u \in Task, NEW x \in Query
               PROVE  RoleFits(frame'[u][x], role'[<<u, x>>])
    BY DEF RolesFit
  <2>1. frame' = frame
    BY DEF taskVars
  <2>2. CASE <<u, x>> = H(t)
    BY <1>1, <2>1, <2>2
  <2>3. CASE <<u, x>> # H(t)
    <3>1. <<u, x>> \in Holder
      BY DEF Holder
    <3>2. RoleFits(frame[u][x], role[<<u, x>>])
      BY DEF Known, MeaningInv, RolesFit
    <3> QED  BY <1>2, <2>1, <2>3, <3>1, <3>2
  <2> QED  BY <2>2, <2>3
<1>4. RecordsProceed
    BY RecordStays
<1> QED  BY <1>1, <1>3, <1>4, StillMeans

\* The access of t uses the registry and goes on with g.
LEMMA MovingMeans ==
    ASSUME Known, NEW t \in Task, Active(t), NEW g, Go(t, g), Even(g), UNCHANGED <<dbVars, cell, shared>>,
           UsesRight(H(t)), RoleFits(g, role'[H(t)]), \A x \in Query : x = Cur(t) => MayBecome(t, x, g)
    PROVE  MeaningInv'
<1>1. CellsProceed /\ RecordsProceed /\ UNCHANGED dbVars
    BY CellStays, RecordStays
<1> QED  BY <1>1, GoMeans

\* An access goes on with no more than it had, and compares nothing.
Lighter(f, g) ==
    /\ g.prev \in {f.prev, NoValue} /\ g.rec \in {f.rec, NoRecord} /\ g.ans \in {f.ans, NoAnswer}
    /\ g.pc \notin {"compute", "touchLocal", "touchShared", "adopt", "take", "put", "complete"}
    /\ g.pc \in Telling => f.pc \in Telling /\ g.ans = f.ans
    /\ Tells(g) => Tells(f)
    /\ f.pc # "put" /\ f.pc # "idle"

LEMMA LighterMayBecome ==
    ASSUME Known, NEW t \in Task, Active(t), NEW g, Lighter(F(t), g), cell' = cell \/ ~Tells(g)
    PROVE  \A x \in Query : x = Cur(t) => MayBecome(t, x, g)
<1> SUFFICES ASSUME NEW x \in Query, x = Cur(t) PROVE MayBecome(t, x, g)
    OBVIOUS
<1> DEFINE f == F(t)
<1>1. /\ FrameSound(x, f) /\ frame[t][x] = f /\ (Alone /\ Tells(f) => Touched(x))
      /\ \A val, ch : FrameStamp(f, val, ch) => Stamp(x, val, ch)
    BY AccessIs
<1> HIDE DEF f
<1>2. Lighter(f, g)
    BY DEF f
<1>3. FrameSound(x, g)
    BY <1>1, <1>2 DEF Lighter, FrameSound
<1>4. ASSUME NEW val, NEW ch, FrameStamp(g, val, ch) PROVE Stamp(x, val, ch)
  <2>1. FrameStamp(f, val, ch)
    BY <1>2, <1>4 DEF Lighter, FrameStamp
  <2> QED  BY <1>1, <2>1
<1>5. NewFrame(x, g)
    BY <1>3, <1>4 DEF NewFrame, Dated
<1>6. DepsTouched(g)
    BY <1>2 DEF Lighter, DepsTouched
<1>7. Tells(g) => cell'[Live][x] = cell[Live][x]
    OBVIOUS
<1> QED  BY <1>1, <1>2, <1>5, <1>6, <1>7 DEF Lighter, MayBecome, Touched, CellTouched

LEMMA FollowMeans ==
    ASSUME Known, NEW t \in Task, Follow(t)
    PROVE  MeaningInv'
<1>1. /\ Active(t) /\ F(t).pc = "follow" /\ UNCHANGED <<dbVars, cell, shared, taskVars>>
      /\ Reg!Subscribe(H(t)) \/ Reg!Wait(H(t)) \/ Reg!Wake(H(t))
    BY DEF Follow, At, cellVars
<1>2. role'[H(t)] \in {"follower", "subscribed", "waiting"}
    BY <1>1, AccessIs, RolesMove DEF Known, EngineInv
<1>3. RoleFits(F(t), role'[H(t)])
    BY <1>1, <1>2 DEF RoleFits
<1>4. UsesRight(H(t))
    BY <1>1 DEF UsesRight, Reg!Follow
<1> QED  BY <1>1, <1>3, <1>4, UsingMeans

LEMMA PublishMeans ==
    ASSUME Known, NEW t \in Task, PublishFlight(t)
    PROVE  MeaningInv'
<1> DEFINE f == F(t)
           g == [f EXCEPT !.pc = "check"]
<1>1. /\ Active(t) /\ f.pc = "publish" /\ UNCHANGED <<dbVars, cell, shared>>
      /\ \/ Reg!NotifyWaiters(H(t)) /\ UNCHANGED taskVars
         \/ Reg!Remove(H(t)) /\ Go(t, g)
    BY DEF PublishFlight, At, cellVars
<1>2. UsesRight(H(t)) /\ H(t) \in Holder /\ Flights!IInv /\ f \in Frame
    BY <1>1, AccessIs DEF UsesRight, Reg!Publish, Known, EngineInv
<1>3. CASE Reg!NotifyWaiters(H(t)) /\ UNCHANGED taskVars
  <2>1. role'[H(t)] = "notified"
    BY <1>2, <1>3, RolesMove
  <2>2. RoleFits(F(t), role'[H(t)])
    BY <1>1, <2>1 DEF RoleFits
  <2> QED  BY <1>1, <1>2, <1>3, <2>2, UsingMeans
<1>4. CASE Reg!Remove(H(t)) /\ Go(t, g)
  <2>1. RoleFits(g, role'[H(t)])
    BY <1>2, <1>4, RolesMove DEF RoleFits
  <2>2. g.pc = "check" /\ g.prev = f.prev /\ g.rec = f.rec /\ g.ans = f.ans
    BY <1>2 DEF Frame
  <2> HIDE DEF g
  <2>3. Lighter(F(t), g) /\ Even(g)
    BY <1>1, <2>2 DEF Lighter, Telling, Tells, Even
  <2>4. \A x \in Query : x = Cur(t) => MayBecome(t, x, g)
    BY <1>1, <2>3, LighterMayBecome
  <2> QED  BY <1>1, <1>2, <1>4, <2>1, <2>3, <2>4, MovingMeans
<1> QED  BY <1>1, <1>3, <1>4

LEMMA TryLeadMeans ==
    ASSUME Known, NEW t \in Task, TryLead(t)
    PROVE  MeaningInv'
<1> DEFINE f == F(t)
           k == <<Live, Now, Cur(t)>>
<1>0. Active(t) /\ f.pc = "lead"
    BY DEF TryLead, At
<1>1. /\ f \in Frame /\ f.rev = Now /\ Scope(home[t]) = Live /\ FrameSound(Cur(t), f)
      /\ H(t) \in Holder /\ H(t)[2] = Cur(t) /\ f.seen = <<>> /\ f.deps = <<>>
      /\ \A val, ch : FrameStamp(f, val, ch) => Stamp(Cur(t), val, ch)
      /\ f = frame[t][Cur(t)]
    BY <1>0, AccessIs, AccessAt DEF Unrevised, HasWhatItNeeds
<1>2. UNCHANGED <<dbVars, cell, shared>>
    BY DEF TryLead, cellVars
<1>3. \/ Reg!Lead(H(t), k) /\ Go(t, [f EXCEPT !.pc = "compute"])
      \/ Reg!Join(H(t), k) /\ Go(t, [f EXCEPT !.pc = "vacate", !.prev = NoValue])
    BY <1>1 DEF TryLead
<1>4. UsesRight(H(t)) /\ Flights!IInv
    BY <1>1, <1>3 DEF UsesRight, Reg!TryLead, Known, EngineInv
<1>5. CASE Reg!Lead(H(t), k) /\ Go(t, [f EXCEPT !.pc = "compute"])
  <2> DEFINE g == [f EXCEPT !.pc = "compute"]
  <2>1. role'[H(t)] = "leader"
    BY <1>1, <1>4, <1>5, RolesMove
  <2>2. /\ g.pc = "compute" /\ g.prev = f.prev /\ g.rec = f.rec /\ g.ans = f.ans
        /\ g.seen = <<>> /\ g.deps = <<>>
    BY <1>1 DEF Frame
  <2> HIDE DEF g, f
  <2>3. RoleFits(g, role'[H(t)])
    BY <2>1, <2>2 DEF RoleFits
  <2>4. Len(g.seen) = 0 /\ Len(g.deps) = 0
    BY <2>2
  <2>5. Even(g)
    BY <2>4 DEF Even
  <2>6. ASSUME NEW x \in Query, x = Cur(t) PROVE MayBecome(t, x, g)
    <3>1. HasRead(x, g.deps, g.seen)
      BY <2>4 DEF HasRead, Asks
    <3>2. FrameSound(x, g)
      BY <1>0, <1>1, <2>2, <2>6, <3>1 DEF FrameSound, Telling
    <3>3. ASSUME NEW val, NEW ch, FrameStamp(g, val, ch) PROVE Stamp(x, val, ch)
      <4>1. FrameStamp(f, val, ch)
        BY <1>0, <2>2, <3>3 DEF FrameStamp
      <4> QED  BY <1>1, <2>6, <4>1
    <3>4. NewFrame(x, g)
      BY <3>2, <3>3 DEF NewFrame, Dated
    <3>5. DepsTouched(g) /\ ~Tells(g)
      BY <2>2, <2>4 DEF DepsTouched, Tells
    <3> QED  BY <1>0, <1>1, <2>2, <2>6, <3>4, <3>5 DEF MayBecome
  <2> QED  BY <1>0, <1>2, <1>4, <1>5, <2>3, <2>5, <2>6, MovingMeans DEF g
<1>6. CASE Reg!Join(H(t), k) /\ Go(t, [f EXCEPT !.pc = "vacate", !.prev = NoValue])
  <2> DEFINE g == [f EXCEPT !.pc = "vacate", !.prev = NoValue]
  <2>1. role'[H(t)] = "follower"
    BY <1>1, <1>4, <1>6, RolesMove
  <2>2. g.pc = "vacate" /\ g.prev = NoValue /\ g.rec = f.rec /\ g.ans = f.ans
    BY <1>1 DEF Frame
  <2> HIDE DEF g
  <2>3. RoleFits(g, role'[H(t)])
    BY <2>1, <2>2 DEF RoleFits
  <2>4. Lighter(F(t), g) /\ Even(g)
    BY <1>0, <2>2 DEF Lighter, Telling, Tells, Even
  <2>5. \A x \in Query : x = Cur(t) => MayBecome(t, x, g)
    BY <1>0, <1>2, <2>4, LighterMayBecome
  <2> QED  BY <1>0, <1>2, <1>4, <1>6, <2>3, <2>4, <2>5, MovingMeans DEF g
<1> QED  BY <1>3, <1>5, <1>6

LEMMA VacateMeans ==
    ASSUME Known, NEW t \in Task, Vacate(t)
    PROVE  MeaningInv'
<1> DEFINE f == F(t)
           g == [f EXCEPT !.pc = "follow"]
<1>1. /\ Active(t) /\ f.pc = "vacate" /\ UNCHANGED <<dbVars, shared, regVars>> /\ Go(t, g)
      /\ cell' = [cell EXCEPT ![home[t]][Cur(t)] = Vacant]
    BY DEF Vacate, At
<1>2. f \in Frame /\ RoleFits(f, role[H(t)])
    BY <1>1, AccessIs
<1>3. g.pc = "follow" /\ g.prev = f.prev /\ g.rec = f.rec /\ g.ans = f.ans
    BY <1>2 DEF Frame
<1> HIDE DEF g
<1>4. Lighter(F(t), g) /\ Even(g) /\ ~Tells(g)
    BY <1>1, <1>3 DEF Lighter, Telling, Tells, Even
<1>5. \A x \in Query : x = Cur(t) => MayBecome(t, x, g)
    BY <1>1, <1>4, LighterMayBecome
<1>6. NewCell(Cur(t), Vacant) /\ Vacant.st # "Ready"
    BY DEF NewCell, Vacant
<1>7. CellsProceed
    BY <1>1, <1>6, OwnCellProceeds
<1>8. RecordsProceed /\ UNCHANGED regVars /\ UNCHANGED dbVars
    BY <1>1, RecordStays
<1>9. RoleFits(g, role'[H(t)])
    BY <1>1, <1>2, <1>3 DEF RoleFits, regVars
<1> QED  BY <1>1, <1>4, <1>5, <1>7, <1>8, <1>9, GoMeans

LEMMA TakeOutcomeMeans ==
    ASSUME Known, NEW t \in Task, TakeOutcome(t)
    PROVE  MeaningInv'
<1> DEFINE f == F(t)
           h == H(t)
           e == entryOf[h]
           s == entryState[e]
           r == entryResult[e]
           g == CASE s = "Done" -> [f EXCEPT !.pc = "take", !.rec = r]
                  [] s = "Failed" -> [f EXCEPT !.pc = "poison", !.ans = Err(r)]
                  [] s = "Cancelled" -> AtTop
<1>1. Active(t) /\ f.pc = "follow" /\ Reg!Take(h) /\ Go(t, g) /\ UNCHANGED <<dbVars, cell, shared>>
    BY DEF TakeOutcome, At, cellVars
<1>2. /\ f \in Frame /\ FrameSound(Cur(t), f) /\ h \in Holder /\ h[2] = Cur(t) /\ Cur(t) \in Query
      /\ \A val, ch : FrameStamp(f, val, ch) => Stamp(Cur(t), val, ch)
      /\ f = frame[t][Cur(t)]
    BY <1>1, AccessIs
<1>3. role'[h] = "idle" /\ UsesRight(h) /\ role[h] = "subscribed" /\ s # "Running"
    BY <1>1, <1>2, RolesMove DEF Known, EngineInv, UsesRight, Reg!Follow, Reg!Take
<1>4. s \in {"Done", "Failed", "Cancelled"}
  <2>1. Reg!TypeOK /\ EntriesFit
    BY RegistryIs DEF Known, EngineInv
  <2>2. e \in Entry
    BY <1>2, <1>3, <2>1 DEF Reg!TypeOK
  <2> QED  BY <1>2, <1>3, <2>1, <2>2 DEF Reg!TypeOK, Reg!States, EntriesFit
<1>5. FlightOf(h, Cur(t)) /\ FlightsAreSound
    BY <1>2, <1>3, KeyOfFlight DEF Known, MeaningInv
<1>6. /\ s = "Done" => Sound(Cur(t), r, Now) /\ Stamp(Cur(t), r.val, r.ch) /\ (Alone => AllTouched(r.deps))
      /\ s = "Failed" => Truth(Cur(t), Present) = [ok |-> FALSE, val |-> r]
    BY <1>2, <1>5 DEF FlightsAreSound, OutcomeIs, Payload, Stamp, Known, MeaningInv, NothingLags
<1>7. RoleFits(g, role'[h])
    BY <1>3 DEF RoleFits
<1>8. CASE s = "Cancelled"
  <2>1. g = AtTop
    BY <1>8
  <2>2. Blank(g)
    BY <2>1, BlanksAre
  <2> HIDE DEF g, f
  <2>3. Even(g) /\ \A x \in Query : x = Cur(t) => MayBecome(t, x, g)
    BY <1>1, <1>2, <2>2, BlankMayBecome
  <2> QED  BY <1>1, <1>3, <1>7, <2>3, MovingMeans
<1>9. CASE s = "Done"
  <2>1. g = [f EXCEPT !.pc = "take", !.rec = r]
    BY <1>9
  <2> HIDE DEF g, f, r, s
  <2>2. g.pc = "take" /\ g.rec = r /\ g.prev = f.prev /\ g.ans = f.ans
    BY <1>2, <2>1 DEF Frame
  <2>3. Even(g)
    BY <2>2 DEF Even
  <2>4. ASSUME NEW x \in Query, x = Cur(t) PROVE MayBecome(t, x, g)
    <3>1. FrameSound(x, g)
      BY <1>1, <1>2, <1>6, <1>9, <2>2, <2>4 DEF FrameSound, Telling
    <3>2. ASSUME NEW val, NEW ch, FrameStamp(g, val, ch) PROVE Stamp(x, val, ch)
      <4>1. CASE FrameStamp(f, val, ch)
        BY <1>2, <2>4, <4>1
      <4>2. CASE ~FrameStamp(f, val, ch)
        <5>1. r.val = val /\ r.ch = ch
          BY <1>1, <2>2, <3>2, <4>2 DEF FrameStamp
        <5> QED  BY <1>6, <1>9, <2>4, <5>1
      <4> QED  BY <4>1, <4>2
    <3>3. NewFrame(x, g)
      BY <3>1, <3>2 DEF NewFrame, Dated
    <3>4. (Alone => DepsTouched(g)) /\ ~Tells(g)
      BY <1>6, <1>9, <2>2 DEF DepsTouched, Tells
    <3> QED  BY <1>1, <1>2, <2>2, <2>4, <3>3, <3>4 DEF MayBecome
  <2> QED  BY <1>1, <1>3, <1>7, <2>3, <2>4, MovingMeans
<1>10. CASE s = "Failed"
  <2>1. g = [f EXCEPT !.pc = "poison", !.ans = Err(r)]
    BY <1>10
  <2> HIDE DEF g, f, r, s
  <2>2. g.pc = "poison" /\ g.rec = f.rec /\ g.prev = f.prev /\ g.ans = Err(r)
    <3> DEFINE a == Err(r)
    <3>1. g = [f EXCEPT !.pc = "poison", !.ans = a]
      BY <2>1
    <3> HIDE DEF a
    <3>2. g.pc = "poison" /\ g.rec = f.rec /\ g.prev = f.prev /\ g.ans = a
      BY <1>2, <3>1 DEF Frame
    <3> QED  BY <3>2 DEF a
  <2>3. g.ans.ok = FALSE /\ g.ans.val = r
    BY <2>2 DEF Err
  <2>4. Even(g)
    BY <2>2 DEF Even
  <2>5. ASSUME NEW x \in Query, x = Cur(t) PROVE MayBecome(t, x, g)
    <3>1. Means(x, g.ans)
      BY <1>6, <1>10, <2>3, <2>5 DEF Means
    <3>2. FrameSound(x, g)
      BY <1>1, <1>2, <2>2, <2>5, <3>1 DEF FrameSound
    <3>3. ASSUME NEW val, NEW ch, FrameStamp(g, val, ch) PROVE Stamp(x, val, ch)
      <4>1. FrameStamp(f, val, ch)
        BY <1>1, <2>2, <2>3, <3>3 DEF FrameStamp
      <4> QED  BY <1>2, <2>5, <4>1
    <3>4. NewFrame(x, g)
      BY <3>2, <3>3 DEF NewFrame, Dated
    <3>5. DepsTouched(g) /\ ~Tells(g)
      BY <2>2 DEF DepsTouched, Tells
    <3> QED  BY <1>1, <1>2, <2>2, <2>5, <3>4, <3>5 DEF MayBecome
  <2> QED  BY <1>1, <1>3, <1>7, <2>4, <2>5, MovingMeans
<1> QED  BY <1>4, <1>8, <1>9, <1>10

LEMMA SettleMeans ==
    ASSUME Known, NEW t \in Task, SettleFlight(t)
    PROVE  MeaningInv'
<1> DEFINE f == F(t)
           h == H(t)
           g == [f EXCEPT !.pc = "publish", !.rec = NoRecord]
<1>1. /\ Active(t) /\ Go(t, g) /\ UNCHANGED <<dbVars, cell, shared>>
      /\ \/ f.pc = "complete" /\ Reg!Complete(h, f.rec)
         \/ f.pc = "fail" /\ Reg!Fail(h, f.ans.val)
    BY DEF SettleFlight, At, cellVars
<1>2. /\ f \in Frame /\ FrameSound(Cur(t), f) /\ h \in Holder /\ h[2] = Cur(t) /\ Cur(t) \in Query
      /\ \A val, ch : FrameStamp(f, val, ch) => Stamp(Cur(t), val, ch)
      /\ HasWhatItNeeds(f) /\ (Alone => DepsTouched(f))
    BY <1>1, AccessIs
<1>3. g.pc = "publish" /\ g.rec = NoRecord /\ g.prev = f.prev /\ g.ans = f.ans
    BY <1>2 DEF Frame
<1>4. f.ans \in Answer /\ (f.pc = "fail" => ~f.ans.ok /\ f.ans.val \in Error)
    BY <1>1, <1>2, AnswersAre DEF HasWhatItNeeds
<1>5. role'[h] = "settled"
    BY <1>1, <1>2, RolesMove DEF Known, EngineInv, Reg!Complete, Reg!Fail
<1> HIDE DEF g, h, f
<1>6. UsesRight(h)
  <2>1. CASE f.pc = "complete" /\ Reg!Complete(h, f.rec)
    <3>1. f.rec \in Record /\ f.rec # NoRecord /\ Sound(h[2], f.rec, Now) /\ (Alone => AllTouched(f.rec.deps))
      BY <1>2, <2>1, NoPayloadIsNone DEF HasWhatItNeeds, FrameSound, DepsTouched
    <3>2. Stamp(h[2], f.rec.val, f.rec.ch)
      BY <1>2, <2>1, <3>1 DEF FrameStamp
    <3> QED  BY <2>1, <3>1, <3>2 DEF UsesRight, NewMemo, Dated
  <2>2. CASE f.pc = "fail" /\ Reg!Fail(h, f.ans.val)
    <3>1. Truth(h[2], Present) = [ok |-> f.ans.ok, val |-> f.ans.val]
      BY <1>2, <2>2 DEF FrameSound, Telling, Means
    <3>2. f.ans.ok = FALSE
      BY <1>4, <2>2 DEF Answer
    <3> QED  BY <1>4, <2>2, <3>1, <3>2 DEF UsesRight
  <2> QED  BY <1>1, <2>1, <2>2
<1>7. Lighter(f, g) /\ Even(g)
    BY <1>1, <1>3, <1>4 DEF Lighter, Telling, Tells, Even
<1>8. \A x \in Query : x = Cur(t) => MayBecome(t, x, g)
    BY <1>1, <1>7, LighterMayBecome DEF f
<1>9. RoleFits(g, role'[h])
    BY <1>3, <1>5 DEF RoleFits
<1> QED  BY <1>1, <1>6, <1>7, <1>8, <1>9, MovingMeans DEF h

-----------------------------------------------------------------------------
(* The program ends *)

\* The access on top has been told all it has asked for, and truly.
LEMMA TopHasRead ==
    ASSUME Known, NEW t \in Task, Active(t), F(t).pc = "compute"
    PROVE  /\ F(t).deps \in DepLists /\ F(t).seen \in [1..Len(F(t).deps) -> Answered]
           /\ F(t).seen \in Seq(Answered) /\ Len(F(t).seen) = Len(F(t).deps)
           /\ Len(F(t).deps) \in Nat /\ Len(F(t).seen) <= MaxReads
           /\ RunsOn(Cur(t), F(t).deps, F(t).seen, Present)
<1> DEFINE f == F(t)
<1>1. /\ f \in Frame /\ WithinReads(f) /\ FrameSound(Cur(t), f) /\ f = frame[t][Cur(t)]
    BY AccessIs
<1>2. /\ Len(stack[t]) \in 1..Len(stack[t]) /\ Cur(t) = stack[t][Len(stack[t])]
  <2>1. EngineTypes
    BY KnownTypes
  <2>2. Len(stack[t]) \in Nat \ {0} /\ Cur(t) = stack[t][Len(stack[t])]
    BY <2>1, StackTop
  <2> QED  BY <2>2
<1>3. StackIsAsked(stack[t], frame[t])
    BY DEF Known, MeaningInv, StacksAreAsked
<1>4. Len(f.deps) = Len(f.seen)
    BY <1>1, <1>2, <1>3 DEF StackIsAsked
<1>5. /\ f.seen \in Seq(Answered) /\ f.deps \in Seq(Input \union Query)
      /\ Len(f.seen) \in Nat /\ Len(f.deps) \in Nat
    BY <1>1, FrameFields
<1> HIDE DEF f
<1>6. f.pc = "compute"
    BY DEF f
<1>7. Len(f.seen) <= MaxReads
    BY <1>1, <1>6 DEF WithinReads
<1>8. f.deps \in DepLists
    BY <1>4, <1>5, <1>7, DepListsAre
<1>9. f.seen \in [1..Len(f.deps) -> Answered]
    BY <1>4, <1>5, LenProperties
<1>10. HasRead(Cur(t), f.deps, f.seen)
    BY <1>1, <1>6 DEF FrameSound
<1>11. RunsOn(Cur(t), f.deps, f.seen, Present)
    BY <1>4, <1>10 DEF HasRead, RunsOn
<1> QED  BY <1>4, <1>5, <1>7, <1>8, <1>9, <1>11 DEF f

LEMMA FinishMeans ==
    ASSUME Known, NEW t \in Task, Finish(t)
    PROVE  MeaningInv'
<1> DEFINE f == F(t)
           x == Todo(t).val
           ch == IF f.prev # NoValue /\ f.prev.val = x THEN f.prev.ch ELSE f.rev
           m == [val |-> x, deps |-> f.deps, ch |-> ch]
           g == [Idle EXCEPT !.pc = "put", !.rev = f.rev, !.ans = Ok(x, ch), !.rec = m]
<1>1. /\ Active(t) /\ f.pc = "compute" /\ Todo(t).do = "ok"
      /\ UNCHANGED <<dbVars, shared, regVars>> /\ Go(t, g)
      /\ cell' = [cell EXCEPT ![home[t]][Cur(t)] = ReadyCell(x, f.rev, ch, f.deps)]
    BY DEF Finish, Computing, At, SetCell
<1>2. /\ f \in Frame /\ FrameSound(Cur(t), f) /\ f.rev = Now /\ RoleFits(f, role[H(t)])
      /\ Cur(t) \in Query /\ (Alone => DepsTouched(f)) /\ Now \in Nat /\ Now \in Revision
      /\ \A val, h : FrameStamp(f, val, h) => Stamp(Cur(t), val, h)
    BY <1>1, AccessIs, AccessAt DEF Unrevised
<1>3. /\ f.deps \in DepLists /\ f.seen \in [1..Len(f.deps) -> Answered]
      /\ f.seen \in Seq(Answered) /\ Len(f.seen) = Len(f.deps) /\ Len(f.seen) <= MaxReads
      /\ RunsOn(Cur(t), f.deps, f.seen, Present)
    BY <1>1, TopHasRead
<1>4. Program(Cur(t), f.seen).do = "ok" /\ Program(Cur(t), f.seen).val = x
    BY <1>1 DEF Todo
<1>5. x \in QueryValue
    BY <1>2, <1>3, <1>4, ProgramFits
<1>6. f.prev \in [val : QueryValue, ch : Revision] \union {NoValue}
    BY <1>2, FrameFields
<1>7. f.prev # NoValue => f.prev.ch \in 0..Now /\ f.prev.ch \in Revision
  <2>1. f.prev # NoValue => f.prev.ch <= Now /\ f.prev.ch \in Revision
    BY <1>1, <1>2, <1>6 DEF FrameSound
  <2>2. \A n \in Nat : n <= Now => n \in 0..Now
    BY <1>2
  <2>3. f.prev # NoValue => f.prev.ch \in Nat
    BY <2>1, RevisionsAreNat
  <2> QED  BY <2>1, <2>2, <2>3
<1>8. ch \in 0..Now /\ ch \in Revision /\ (ch = Now \/ (f.prev # NoValue /\ f.prev.val = x /\ f.prev.ch = ch))
    BY <1>2, <1>7
<1> HIDE DEF f, x, ch
<1>9. m \in Record /\ m.val = x /\ m.deps = f.deps /\ m.ch = ch
    BY <1>3, <1>5, <1>8, RecordsAre
<1> HIDE DEF m
<1>10. g.pc = "put" /\ g.prev = NoValue /\ g.rec = m /\ g.ans = Ok(x, ch)
  <2>1. "put" \in PC
    BY DEF PC
  <2> QED  BY <2>1 DEF Idle
<1> HIDE DEF g
<1>11. Sound(Cur(t), m, Now)
  <2>1. Computes(Cur(t), f.deps, x, Present)
    BY <1>3, <1>4 DEF Computes
  <2> QED  BY <1>2, <1>3, <1>8, <1>9, <2>1 DEF Sound, Present
<1>12. Dated(Cur(t), m.val, m.ch)
  <2>1. ch = Now \/ FrameStamp(f, x, ch)
    BY <1>1, <1>8 DEF FrameStamp
  <2> QED  BY <1>2, <1>9, <2>1 DEF Dated
<1>13. Alone => AllTouched(m.deps)
  <2> SUFFICES ASSUME Alone, NEW n \in 1..Len(f.deps), f.deps[n] \in Query PROVE Touched(f.deps[n])
    BY <1>9 DEF AllTouched
  <2>1. f.seen[n] \notin Error
    BY <1>2, <1>3, <1>4, ReadsAreValues DEF RunsOn, Known, MeantPrograms
  <2> QED  BY <1>1, <1>2, <1>3, <2>1 DEF DepsTouched
<1>14. Takes(t, m, g)
    BY <1>1, <1>2, <1>9, <1>10 DEF Takes
<1>15. RoleFits(g, role[H(t)]) /\ f.pc # "put"
    BY <1>1, <1>2, <1>10 DEF RoleFits
<1> QED  BY <1>1, <1>9, <1>11, <1>12, <1>13, <1>14, <1>15, PutMeans DEF f

\* The cell is Poisoned with what the query means.
LEMMA PoisonMeans ==
    ASSUME Known, NEW t \in Task, Poison(t)
    PROVE  MeaningInv'
<1> DEFINE f == F(t)
           e == IF At(t, "poison") THEN f.ans.val ELSE Todo(t).val
           pc == IF At(t, "poison") THEN "check" ELSE "fail"
           c == Poisoned(e, f.rev)
           g == [Idle EXCEPT !.pc = pc, !.rev = f.rev, !.ans = Err(e)]
<1>1. /\ Active(t) /\ UNCHANGED <<dbVars, shared, regVars>> /\ Go(t, g)
      /\ cell' = [cell EXCEPT ![home[t]][Cur(t)] = c]
      /\ \/ f.pc = "poison" /\ e = f.ans.val /\ pc = "check"
         \/ f.pc = "compute" /\ Todo(t).do = "err" /\ e = Todo(t).val /\ pc = "fail"
    BY DEF Poison, Computing, At, SetCell
<1>2. /\ f \in Frame /\ FrameSound(Cur(t), f) /\ f.rev = Now /\ RoleFits(f, role[H(t)])
      /\ Cur(t) \in Query /\ HasWhatItNeeds(f) /\ Present \in Valuation
      /\ f = frame[t][Cur(t)]
    BY <1>1, AccessIs, AccessAt DEF Unrevised
<1>3. Truth(Cur(t), Present) = [ok |-> FALSE, val |-> e]
  <2>1. CASE f.pc = "poison" /\ e = f.ans.val
    <3>1. Truth(Cur(t), Present) = [ok |-> f.ans.ok, val |-> f.ans.val]
      BY <1>2, <2>1 DEF FrameSound, Telling, Means
    <3>2. f.ans.ok = FALSE
      <4>1. f.ans \in Answer /\ ~f.ans.ok
        BY <1>2, <2>1 DEF HasWhatItNeeds
      <4>2. f.ans.ok \in {TRUE, FALSE}
        BY <4>1 DEF Answer
      <4> QED  BY <4>1, <4>2
    <3> QED  BY <2>1, <3>1, <3>2
  <2>2. CASE f.pc = "compute" /\ Todo(t).do = "err" /\ e = Todo(t).val
    <3>1. /\ f.deps \in DepLists /\ f.seen \in [1..Len(f.deps) -> Answered]
          /\ RunsOn(Cur(t), f.deps, f.seen, Present)
      BY <1>1, <2>2, TopHasRead
    <3>2. Program(Cur(t), f.seen).do = "err" /\ Program(Cur(t), f.seen).val = e
      BY <2>2 DEF Todo
    <3>3. Truth(Cur(t), Present) = [ok |-> Program(Cur(t), f.seen).do = "ok", val |-> Program(Cur(t), f.seen).val]
      BY <1>2, <3>1, <3>2 DEF TruthIsMeant, Known, MeantPrograms
    <3>4. (Program(Cur(t), f.seen).do = "ok") = FALSE
      BY <3>2
    <3> QED  BY <3>2, <3>3, <3>4
  <2> QED  BY <1>1, <2>1, <2>2
<1>4. c.st = "Poisoned" /\ c.err = e /\ c.ver = Now
  <2> HIDE DEF e
  <2> QED  BY <1>2 DEF Poisoned
<1> HIDE DEF f, e, c
<1>5. g.pc = pc /\ g.prev = NoValue /\ g.rec = NoRecord /\ g.ans = Err(e)
  <2>1. pc \in PC
    BY DEF PC
  <2> HIDE DEF pc
  <2> QED  BY <2>1 DEF Idle
<1>6. g.ans.ok = FALSE /\ g.ans.val = e
  <2> HIDE DEF g
  <2> QED  BY <1>5 DEF Err
<1>7. g.pc \in {"check", "fail"} /\ (g.pc = "fail" => f.pc = "compute") /\ (g.pc = "check" => f.pc = "poison")
  <2> HIDE DEF g, pc
  <2> QED  BY <1>1, <1>5
<1> HIDE DEF g, pc
<1>8. NewCell(Cur(t), c)
    BY <1>3, <1>4 DEF NewCell
<1>9. CellsProceed
    BY <1>1, <1>4, <1>8, OwnCellProceeds
<1>10. RecordsProceed /\ UNCHANGED dbVars /\ UNCHANGED regVars
    BY <1>1, RecordStays
<1>11. ASSUME NEW x \in Query, x = Cur(t) PROVE MayBecome(t, x, g)
  <2>1. Means(x, g.ans)
    BY <1>3, <1>6, <1>11 DEF Means
  <2>2. FrameSound(x, g)
    BY <1>5, <1>7, <2>1 DEF FrameSound
  <2>3. \A val, ch : ~FrameStamp(g, val, ch)
    BY <1>5, <1>6 DEF FrameStamp
  <2>4. NewFrame(x, g)
    BY <2>2, <2>3 DEF NewFrame
  <2>5. DepsTouched(g) /\ ~Tells(g)
    BY <1>6, <1>7 DEF DepsTouched, Tells
  <2>6. frame[t][x].pc # "put"
    BY <1>1, <1>2, <1>11
  <2> QED  BY <1>7, <2>4, <2>5, <2>6 DEF MayBecome
<1>12. Even(g)
    BY <1>7 DEF Even
<1>13. RoleFits(g, role'[H(t)])
  <2>1. role'[H(t)] = role[H(t)]
    BY <1>10 DEF regVars
  <2> QED  BY <1>2, <1>7, <2>1 DEF RoleFits
<1> QED  BY <1>1, <1>9, <1>10, <1>11, <1>12, <1>13, GoMeans

-----------------------------------------------------------------------------
(* The program reads *)

LEMMA AsksAgain ==
    ASSUME NEW x, NEW deps, NEW seen, NEW told, Len(deps) \in Nat, Asks(x, deps, seen),
           \A i \in 1..(Len(deps) - 1) : told[i] = seen[i]
    PROVE  Asks(x, deps, told)
<1> SUFFICES ASSUME NEW n \in 1..Len(deps)
             PROVE  Program(x, Upto(told, n - 1)).do = "get" /\ Program(x, Upto(told, n - 1)).dep = deps[n]
    BY DEF Asks
<1>1. \A i \in 1..(n - 1) : told[i] = seen[i]
    OBVIOUS
<1>2. Upto(told, n - 1) = Upto(seen, n - 1)
    BY <1>1 DEF Upto
<1> QED  BY <1>2 DEF Asks

LEMMA AskMore ==
    ASSUME NEW x, NEW deps \in Seq(Input \union Query), NEW seen \in Seq(Answered),
           Len(seen) = Len(deps), HasRead(x, deps, seen), NEW d \in Input \union Query,
           Program(x, seen).do = "get", Program(x, seen).dep = d
    PROVE  /\ HasRead(x, Append(deps, d), seen)
           /\ Append(deps, d) \in Seq(Input \union Query)
           /\ Len(Append(deps, d)) = Len(deps) + 1 /\ Append(deps, d)[Len(deps) + 1] = d
           /\ \A n \in 1..Len(deps) : Append(deps, d)[n] = deps[n]
<1> DEFINE k == Len(deps)
           r == Append(deps, d)
<1>1. /\ k \in Nat /\ r \in Seq(Input \union Query) /\ Len(r) = k + 1 /\ r[k + 1] = d
      /\ \A n \in 1..k : r[n] = deps[n]
    BY AppendProperties, LenProperties
<1>2. seen \in [1..k -> Answered]
    BY LenProperties
<1> HIDE DEF k, r
<1>3. Upto(seen, k) = seen
    BY <1>1, <1>2, UptoAll
<1>4. Asks(x, r, seen)
  <2> SUFFICES ASSUME NEW n \in 1..(k + 1)
               PROVE  Program(x, Upto(seen, n - 1)).do = "get" /\ Program(x, Upto(seen, n - 1)).dep = r[n]
    BY <1>1 DEF Asks
  <2>1. CASE n = k + 1
    <3>1. n - 1 = k
      BY <1>1, <2>1
    <3> QED  BY <1>1, <1>3, <2>1, <3>1
  <2>2. CASE n # k + 1
    <3>1. n \in 1..k
      BY <1>1, <2>2
    <3> QED  BY <1>1, <3>1 DEF HasRead, Asks, k
  <2> QED  BY <2>1, <2>2
<1>5. HasRead(x, r, seen)
  <2>1. Len(seen) = k /\ Len(seen) <= Len(r)
    BY <1>1 DEF k
  <2> QED  BY <1>1, <1>4, <2>1 DEF HasRead
<1> QED  BY <1>1, <1>5 DEF k, r

LEMMA AnswerMore ==
    ASSUME NEW x, NEW deps, Len(deps) \in Nat, NEW seen \in Seq(Answered),
           Len(deps) = Len(seen) + 1, HasRead(x, deps, seen), NEW v \in Answered,
           v = Mean(deps[Len(deps)], Present)
    PROVE  /\ HasRead(x, deps, Append(seen, v))
           /\ Append(seen, v) \in Seq(Answered)
           /\ Len(Append(seen, v)) = Len(deps) /\ Append(seen, v)[Len(deps)] = v
           /\ \A n \in 1..Len(seen) : Append(seen, v)[n] = seen[n]
<1> DEFINE k == Len(seen)
           r == Append(seen, v)
<1>1. /\ k \in Nat /\ r \in Seq(Answered) /\ Len(r) = k + 1 /\ r[k + 1] = v /\ Len(deps) = k + 1
      /\ \A n \in 1..k : r[n] = seen[n]
    BY AppendProperties, LenProperties
<1> HIDE DEF k, r
<1>2. Asks(x, deps, r)
  <2>1. \A i \in 1..(Len(deps) - 1) : r[i] = seen[i]
    BY <1>1
  <2> QED  BY <2>1, AsksAgain DEF HasRead
<1>3. ASSUME NEW n \in 1..(k + 1) PROVE r[n] = Mean(deps[n], Present)
  <2>1. CASE n = k + 1
    BY <1>1, <2>1
  <2>2. CASE n # k + 1
    <3>1. n \in 1..k
      BY <1>1, <2>2
    <3> QED  BY <1>1, <3>1 DEF HasRead, k
  <2> QED  BY <2>1, <2>2
<1>4. HasRead(x, deps, r)
  <2>1. Len(r) <= Len(deps)
    BY <1>1
  <2> QED  BY <1>1, <1>2, <1>3, <2>1 DEF HasRead
<1> QED  BY <1>1, <1>4 DEF k, r

\* The access goes on to read d.
LEMMA AskingIs ==
    ASSUME Known, NEW t \in Task, Active(t), F(t).pc = "compute", Todo(t).do = "get",
           NEW d, d = Todo(t).dep, NEW g, g = [F(t) EXCEPT !.deps = Append(@, d)]
    PROVE  /\ d \in Input \union Query /\ g \in Frame
           /\ g.pc = "compute" /\ g.seen = F(t).seen /\ g.deps = Append(F(t).deps, d)
           /\ g.prev = F(t).prev /\ g.rec = F(t).rec /\ g.ans = F(t).ans /\ g.rev = F(t).rev
           /\ g.seen \in Seq(Answered) /\ g.deps \in Seq(Input \union Query)
           /\ Len(g.deps) \in Nat /\ Len(g.deps) = Len(g.seen) + 1 /\ g.deps[Len(g.deps)] = d
           /\ FrameSound(Cur(t), g) /\ (Alone => DepsTouched(g)) /\ ~Tells(g)
           /\ \A val, ch : FrameStamp(g, val, ch) => Stamp(Cur(t), val, ch)
<1> DEFINE f == F(t)
<1>1. /\ f \in Frame /\ FrameSound(Cur(t), f) /\ (Alone => DepsTouched(f)) /\ Cur(t) \in Query
      /\ \A val, ch : FrameStamp(f, val, ch) => Stamp(Cur(t), val, ch)
    BY AccessIs
<1>2. /\ f.seen \in Seq(Answered) /\ Len(f.seen) = Len(f.deps) /\ Len(f.deps) \in Nat
      /\ Len(f.seen) <= MaxReads
    BY TopHasRead
<1>3. f.deps \in Seq(Input \union Query)
    BY <1>1, FrameFields
<1>4. Program(Cur(t), f.seen).do = "get" /\ Program(Cur(t), f.seen).dep = d
    BY DEF Todo
<1> HIDE DEF f
<1>5. f.pc = "compute" /\ g = [f EXCEPT !.deps = Append(f.deps, d)]
    BY DEF f
<1>6. d \in Input \union Query
    BY <1>1, <1>2, <1>4, ProgramFits
<1>7. HasRead(Cur(t), f.deps, f.seen)
    BY <1>1, <1>5 DEF FrameSound
<1>8. /\ HasRead(Cur(t), Append(f.deps, d), f.seen)
      /\ Append(f.deps, d) \in Seq(Input \union Query)
      /\ Len(Append(f.deps, d)) = Len(f.deps) + 1 /\ Append(f.deps, d)[Len(f.deps) + 1] = d
      /\ \A n \in 1..Len(f.deps) : Append(f.deps, d)[n] = f.deps[n]
    BY <1>2, <1>3, <1>4, <1>6, <1>7, AskMore
<1>9. g \in Frame
    BY <1>1, <1>5, <1>8 DEF Frame
<1>10. /\ g.pc = "compute" /\ g.seen = f.seen /\ g.deps = Append(f.deps, d)
       /\ g.prev = f.prev /\ g.rec = f.rec /\ g.ans = f.ans /\ g.rev = f.rev
    BY <1>1, <1>5 DEF Frame
<1>11. Len(g.deps) \in Nat /\ Len(g.deps) = Len(g.seen) + 1 /\ g.deps[Len(g.deps)] = d
    BY <1>2, <1>8, <1>10
<1>12. FrameSound(Cur(t), g)
    BY <1>1, <1>5, <1>8, <1>10 DEF FrameSound, Telling
<1>13. Alone => DepsTouched(g)
    BY <1>1, <1>2, <1>5, <1>8, <1>10 DEF DepsTouched
<1>14. \A val, ch : FrameStamp(g, val, ch) => Stamp(Cur(t), val, ch)
    BY <1>1, <1>5, <1>10 DEF FrameStamp
<1>15. ~Tells(g)
    BY <1>10 DEF Tells
<1> QED  BY <1>2, <1>6, <1>8, <1>9, <1>10, <1>11, <1>12, <1>13, <1>14, <1>15 DEF f

\* What is known of the access f of x that waits for what it has asked for.
Waiting(x, f) ==
    /\ FrameSound(x, f) /\ (Alone => DepsTouched(f))
    /\ \A val, ch : FrameStamp(f, val, ch) => Stamp(x, val, ch)

LEMMA ReadsOn ==
    ASSUME NEW u, NEW x, NEW f, NEW g, NEW v, f.pc = "compute", frame[u][x].pc # "put", Waiting(x, f),
           f.seen \in Seq(Answered), Len(f.deps) \in Nat, Len(f.deps) = Len(f.seen) + 1,
           v = Mean(f.deps[Len(f.deps)], Present), v \in Answered,
           Alone => (f.deps[Len(f.deps)] \in Query /\ v \notin Error => Touched(f.deps[Len(f.deps)])),
           g.pc = "compute", g.prev = f.prev, g.rec = f.rec, g.ans = f.ans,
           g.deps = f.deps, g.seen = Append(f.seen, v)
    PROVE  Even(g) /\ MayBecome(u, x, g)
<1>1. HasRead(x, f.deps, f.seen)
    BY DEF Waiting, FrameSound
<1>2. /\ HasRead(x, f.deps, Append(f.seen, v)) /\ Len(Append(f.seen, v)) = Len(f.deps)
      /\ Append(f.seen, v)[Len(f.deps)] = v
      /\ \A n \in 1..Len(f.seen) : Append(f.seen, v)[n] = f.seen[n]
    BY <1>1, AnswerMore
<1>3. Even(g)
    BY <1>2 DEF Even
<1>4. FrameSound(x, g)
    BY <1>2 DEF Waiting, FrameSound, Telling
<1>5. ASSUME NEW val, NEW ch, FrameStamp(g, val, ch) PROVE Stamp(x, val, ch)
  <2>1. FrameStamp(f, val, ch)
    BY <1>5 DEF FrameStamp
  <2> QED  BY <2>1 DEF Waiting
<1>6. NewFrame(x, g)
    BY <1>4, <1>5 DEF NewFrame, Dated
<1>7. Alone => DepsTouched(g)
  <2> SUFFICES ASSUME Alone, NEW n \in 1..Len(g.seen), f.deps[n] \in Query, g.seen[n] \notin Error
               PROVE  Touched(f.deps[n])
    BY DEF DepsTouched
  <2>0. Len(f.seen) \in Nat
    BY LenProperties
  <2>1. CASE n = Len(f.deps)
    BY <1>2, <2>1
  <2>2. CASE n # Len(f.deps)
    <3>1. n \in 1..Len(f.seen) /\ g.seen[n] = f.seen[n]
      BY <1>2, <2>0, <2>2
    <3> QED  BY <3>1 DEF Waiting, DepsTouched
  <2> QED  BY <2>1, <2>2
<1>8. ~Tells(g)
    BY DEF Tells
<1> QED  BY <1>3, <1>6, <1>7, <1>8 DEF MayBecome

LEMMA ReadInputMeans ==
    ASSUME Known, NEW t \in Task, ReadInput(t)
    PROVE  MeaningInv'
<1> DEFINE d == Todo(t).dep
           v == input[home[t]][d].val
           f == [F(t) EXCEPT !.deps = Append(@, d)]
           g == [F(t) EXCEPT !.deps = Append(@, d), !.seen = Append(@, v)]
<1>1. /\ Active(t) /\ F(t).pc = "compute" /\ Todo(t).do = "get" /\ d \in Input
      /\ Go(t, g) /\ UNCHANGED <<dbVars, cell, shared, regVars>>
    BY DEF ReadInput, Computing, At, cellVars
<1>2. /\ F(t) \in Frame /\ F(t) = frame[t][Cur(t)] /\ RoleFits(F(t), role[H(t)]) /\ home[t] \in View
      /\ v = Present[d] /\ Cur(t) \in Query
    BY <1>1, AccessIs, AccessAt
<1>3. v \in Answered
    BY <1>1, <1>2 DEF Known, EngineInv, DbTypeOK, Answered
<1>4. v = Mean(d, Present) /\ d \notin Query
    BY <1>1, <1>2, IngredientsListed DEF Mean
<1> HIDE DEF d, v
<1>5. /\ f \in Frame /\ f.pc = "compute" /\ f.seen = F(t).seen
      /\ f.prev = F(t).prev /\ f.rec = F(t).rec /\ f.ans = F(t).ans
      /\ f.seen \in Seq(Answered)
      /\ Len(f.deps) \in Nat /\ Len(f.deps) = Len(f.seen) + 1 /\ f.deps[Len(f.deps)] = d
      /\ Waiting(Cur(t), f)
    BY <1>1, AskingIs DEF d, Waiting
<1>6. g = [f EXCEPT !.seen = Append(f.seen, v)]
    BY <1>2 DEF Frame
<1> HIDE DEF f, g
<1>7. g.pc = "compute" /\ g.prev = f.prev /\ g.rec = f.rec /\ g.ans = f.ans /\ g.deps = f.deps
      /\ g.seen = Append(f.seen, v)
    BY <1>5, <1>6 DEF Frame
<1>8. Even(g) /\ MayBecome(t, Cur(t), g)
  <2>1. frame[t][Cur(t)].pc # "put"
    BY <1>1, <1>2
  <2> QED  BY <1>3, <1>4, <1>5, <1>7, <2>1, ReadsOn
<1>9. RoleFits(g, role[H(t)])
    BY <1>1, <1>2, <1>7 DEF RoleFits
<1> QED  BY <1>1, <1>8, <1>9, PlainMeans

-----------------------------------------------------------------------------
(* An access is told what it has asked for *)

\* What d is now: the answer to an access of d, or its entry.
AnswerIs(d, a) ==
    /\ d \in Query =>
        /\ a \in Answer /\ Means(d, a)
        /\ a.ok => Stamp(d, a.val, a.ch)
        /\ Alone /\ a.ok => Touched(d)
    /\ d \in Input =>
        /\ a.ok /\ a.ch \in Nat
        /\ \A n \in a.ch..Now : Then(n)[d] = Present[d]
    /\ d \in Input \union Query

\* The access f of x by u has asked for d.
AsksFor(u, x, f, d) ==
    /\ f \in Frame /\ HasWhatItNeeds(f) /\ Waiting(x, f) /\ Waits(f, d)
    /\ f.pc \in {"compute", "touchLocal", "touchShared"} /\ frame[u][x].pc = f.pc
    /\ f.pc = "compute" => d \in Query
    /\ f.pc = "touchLocal" => Matches(cell'[home'[u]][x], f.rec)

LEMMA AnswerFields ==
    ASSUME NEW a \in Answer
    PROVE  /\ a.ok \in BOOLEAN /\ (a.ok => a.val \in QueryValue /\ a.ch \in Revision)
           /\ ~a.ok => a.val \in Error
           /\ a.val \in Answered /\ a.ch \in Revision /\ (a.val \notin Error => a.ok)
    BY RevisionsAreNat DEF Answer, Answered

LEMMA ComputationIsTold ==
    ASSUME Known, NEW u \in Task, NEW x \in Query, NEW f, NEW d, AsksFor(u, x, f, d), f.pc = "compute",
           NEW a, AnswerIs(d, a), NEW g, g = [f EXCEPT !.seen = Append(@, a.val)]
    PROVE  Even(g) /\ MayBecome(u, x, g)
<1>1. /\ f \in Frame /\ Waiting(x, f) /\ frame[u][x].pc = "compute" /\ d \in Query /\ d \notin Input
      /\ Len(f.deps) = Len(f.seen) + 1 /\ f.deps[Len(f.deps)] = d
    BY IngredientsListed DEF AsksFor, Waits
<1>2. a \in Answer /\ Means(d, a) /\ (Alone /\ a.ok => Touched(d))
    BY <1>1 DEF AnswerIs
<1>3. f.seen \in Seq(Answered) /\ Len(f.deps) \in Nat
    BY <1>1, FrameFields
<1>4. a.val = Mean(d, Present) /\ a.val \in Answered /\ (a.val \notin Error => a.ok)
    BY <1>1, <1>2, AnswerFields DEF Means, Mean
<1> DEFINE v == a.val
<1> HIDE DEF v
<1>5. g = [f EXCEPT !.seen = Append(f.seen, v)]
    BY DEF v
<1>6. g.pc = "compute" /\ g.prev = f.prev /\ g.rec = f.rec /\ g.ans = f.ans /\ g.deps = f.deps
      /\ g.seen = Append(f.seen, v)
    BY <1>1, <1>5 DEF Frame
<1>7. v = Mean(f.deps[Len(f.deps)], Present) /\ v \in Answered
      /\ (Alone => (f.deps[Len(f.deps)] \in Query /\ v \notin Error => Touched(f.deps[Len(f.deps)])))
    BY <1>1, <1>2, <1>4 DEF v
<1> QED  BY <1>1, <1>3, <1>6, <1>7, ReadsOn

\* What a revalidation has found so far.
LEMMA RevalidationIs ==
    ASSUME Known, NEW u \in Task, NEW x \in Query, NEW f, NEW d, AsksFor(u, x, f, d), f.pc # "compute"
    PROVE  /\ f \in Frame /\ f.rec \in Record /\ f.i \in Nat /\ f.i \in 1..Len(f.rec.deps) /\ f.rec.deps[f.i] = d
           /\ Len(f.rec.deps) \in Nat /\ f.rec.deps \in DepLists
           /\ \E n \in 0..Now :
                /\ Usable(x, f.rec, n) /\ f.rec.ch \in 0..n /\ Then(n) \in Valuation
                /\ \A j \in 1..Len(f.rec.deps) : j < f.i =>
                    Mean(f.rec.deps[j], Then(n)) = Mean(f.rec.deps[j], Present)
<1>1. /\ f \in Frame /\ HasWhatItNeeds(f) /\ Waiting(x, f) /\ Waits(f, d)
      /\ f.pc \in {"touchLocal", "touchShared"}
    BY DEF AsksFor
<1>2. f.rec \in Record /\ f.i \in Nat /\ f.i >= 1 /\ f.i <= Len(f.rec.deps) /\ f.rec.deps[f.i] = d
    BY <1>1, FrameFields DEF HasWhatItNeeds, Waits
<1>3. f.rec.deps \in DepLists /\ Len(f.rec.deps) \in Nat
    BY <1>2, RecordsAre, DepListIs
<1>4. f.i \in 1..Len(f.rec.deps)
    BY <1>2, <1>3
<1>5. PICK n \in 0..Now :
        /\ Usable(x, f.rec, n)
        /\ \A j \in 1..Len(f.rec.deps) : j < f.i =>
            Mean(f.rec.deps[j], Then(n)) = Mean(f.rec.deps[j], Present)
    BY <1>1 DEF Waiting, FrameSound, Revalidates
<1>6. f.rec.ch \in 0..n /\ Then(n) \in Valuation
    BY <1>5, HistoryIs DEF Usable, Sound, Known, EngineInv
<1> QED  BY <1>1, <1>2, <1>3, <1>4, <1>5, <1>6

LEMMA RevalidationFails ==
    ASSUME Known, NEW u \in Task, NEW x \in Query, NEW f, NEW d, AsksFor(u, x, f, d), f.pc # "compute",
           NEW a, AnswerIs(d, a), ~a.ok, NEW g, g = [Idle EXCEPT !.pc = "raise", !.ans = a]
    PROVE  Even(g) /\ MayBecome(u, x, g)
<1> DEFINE deps == f.rec.deps
           i == f.i
<1>1. /\ f \in Frame /\ i \in Nat /\ i \in 1..Len(deps) /\ deps[i] = d /\ Len(deps) \in Nat
      /\ deps \in DepLists /\ frame[u][x].pc # "put"
    BY RevalidationIs DEF AsksFor
<1>2. PICK n \in 0..Now :
        /\ Usable(x, f.rec, n) /\ Then(n) \in Valuation
        /\ \A j \in 1..Len(deps) : j < i => Mean(deps[j], Then(n)) = Mean(deps[j], Present)
    BY RevalidationIs
<1>3. PICK seen \in [1..Len(deps) -> Answered] : RunsOn(x, deps, seen, Then(n))
    BY <1>2 DEF Usable, Sound, Computes
<1>4. d \in Query /\ d \notin Input /\ a \in Answer /\ Means(d, a)
    BY IngredientsListed DEF AnswerIs
<1>5. a.ok = FALSE /\ a.val \in Error /\ a.val = Mean(d, Present)
    BY <1>4, AnswerFields DEF Means, Mean
<1>6. Present \in Valuation
    BY HistoryIs DEF Known, EngineInv
<1> HIDE DEF deps, i
<1>7. \A j \in 1..Len(deps) : j < i => seen[j] \in Answered /\ seen[j] = Mean(deps[j], Present)
    BY <1>2, <1>3 DEF RunsOn
<1>8. \A j \in 1..Len(deps) : j <= i =>
        Program(x, Upto(seen, j - 1)).do = "get" /\ Program(x, Upto(seen, j - 1)).dep = deps[j]
    BY <1>3 DEF RunsOn, Asks
<1>9. Truth(x, Present) = [ok |-> FALSE, val |-> Mean(deps[i], Present)]
  <2>1. Mean(deps[i], Present) \in Error /\ TruthIsMeant /\ ErrorsPropagate
    BY <1>1, <1>5 DEF Known, MeantPrograms
  <2> QED  BY <1>1, <1>6, <1>7, <1>8, <2>1, ErrorIsMeant
<1>10. g.pc = "raise" /\ g.prev = NoValue /\ g.rec = NoRecord /\ g.ans = a
  <2>1. "raise" \in PC
    BY DEF PC
  <2> QED  BY <2>1 DEF Idle
<1>11. FrameSound(x, g)
  <2>1. Means(x, g.ans)
    BY <1>1, <1>5, <1>9, <1>10 DEF Means
  <2> QED  BY <1>10, <2>1 DEF FrameSound
<1>12. \A val, ch : ~FrameStamp(g, val, ch)
    BY <1>5, <1>10 DEF FrameStamp
<1>13. NewFrame(x, g)
    BY <1>11, <1>12 DEF NewFrame
<1>14. Even(g) /\ DepsTouched(g) /\ ~Tells(g)
    BY <1>10 DEF Even, DepsTouched, Tells
<1> QED  BY <1>1, <1>10, <1>13, <1>14 DEF MayBecome

\* d is what it was when the record was verified: a value with a stamp that is
\* not after the record's is the one it was computed from.
LEMMA UnchangedMeansSame ==
    ASSUME Known, NEW x \in Query, NEW r \in Record, NEW n \in 0..Now, Usable(x, r, n),
           NEW i \in 1..Len(r.deps), NEW d, d = r.deps[i], NEW a, AnswerIs(d, a), a.ok, a.ch <= r.ch,
           r.ch \in 0..n
    PROVE  Mean(d, Then(n)) = Mean(d, Present)
<1>1. Now \in Nat /\ Present = Then(Now)
    BY HistoryIs DEF Known, EngineInv
<1>2. CASE n = Now
    BY <1>1, <1>2
<1>3. CASE d \in Input
  <2>1. a.ch \in Nat /\ n \in a.ch..Now
    BY <1>1, <1>3 DEF AnswerIs
  <2>2. Then(n)[d] = Present[d]
    BY <1>3, <2>1 DEF AnswerIs
  <2> QED  BY <1>3, <2>2 DEF Mean
<1>4. CASE d \in Query /\ n # Now
  <2>1. /\ d \notin Input /\ a \in Answer /\ Means(d, a) /\ Stamp(d, a.val, a.ch)
    BY <1>4, IngredientsListed DEF AnswerIs
  <2>2. a.val \in QueryValue /\ a.ch \in Revision
    BY <2>1, AnswerFields
  <2>3. Kept(r, n)
    BY <1>1, <1>4 DEF Usable
  <2>4. a.val = Truth(d, Then(n)).val
    BY <1>4, <2>1, <2>2, <2>3 DEF Kept
  <2>5. a.val = Truth(d, Present).val
    BY <2>1 DEF Means
  <2> QED  BY <2>1, <2>4, <2>5 DEF Mean
<1> QED  BY <1>2, <1>3, <1>4 DEF AnswerIs

LEMMA RevalidationGoesOn ==
    ASSUME Known, NEW u \in Task, NEW x \in Query, NEW f, NEW d, AsksFor(u, x, f, d), f.pc # "compute",
           NEW a, AnswerIs(d, a), a.ok, a.ch <= f.rec.ch, NEW g, g = [f EXCEPT !.i = @ + 1]
    PROVE  Even(g) /\ MayBecome(u, x, g)
<1>1. /\ f \in Frame /\ f.rec \in Record /\ f.i \in Nat /\ f.i \in 1..Len(f.rec.deps) /\ f.rec.deps[f.i] = d
      /\ Len(f.rec.deps) \in Nat
    BY RevalidationIs
<1>2. PICK n \in 0..Now :
        /\ Usable(x, f.rec, n) /\ f.rec.ch \in 0..n
        /\ \A j \in 1..Len(f.rec.deps) : j < f.i =>
            Mean(f.rec.deps[j], Then(n)) = Mean(f.rec.deps[j], Present)
    BY RevalidationIs
<1>3. g.pc = f.pc /\ g.prev = f.prev /\ g.rec = f.rec /\ g.ans = f.ans /\ g.i = f.i + 1
    BY <1>1 DEF Frame
<1>4. /\ f.pc \in {"touchLocal", "touchShared"} /\ frame[u][x].pc = f.pc /\ Waiting(x, f)
      /\ f.pc = "touchLocal" => Matches(cell'[home'[u]][x], f.rec)
    BY DEF AsksFor
<1>5. Mean(d, Then(n)) = Mean(d, Present)
    BY <1>1, <1>2, UnchangedMeansSame
<1>6. \A j \in 1..Len(f.rec.deps) : j < f.i + 1 => j < f.i \/ j = f.i
    BY <1>1
<1>7. Revalidates(x, f.rec, f.i + 1)
    BY <1>1, <1>2, <1>5, <1>6 DEF Revalidates
<1>8. FrameSound(x, g)
    BY <1>3, <1>4, <1>7 DEF FrameSound, Telling, Waiting
<1>9. ASSUME NEW val, NEW ch, FrameStamp(g, val, ch) PROVE Stamp(x, val, ch)
  <2>1. FrameStamp(f, val, ch)
    BY <1>3, <1>9 DEF FrameStamp
  <2> QED  BY <1>4, <2>1 DEF Waiting
<1>10. NewFrame(x, g)
    BY <1>8, <1>9 DEF NewFrame, Dated
<1>11. Alone => DepsTouched(g)
  <2> SUFFICES ASSUME Alone, NEW j \in 1..Len(f.rec.deps), j < f.i + 1, f.rec.deps[j] \in Query
               PROVE  Touched(f.rec.deps[j])
    BY <1>3, <1>4 DEF DepsTouched
  <2>1. CASE j < f.i
    BY <1>4, <2>1 DEF Waiting, DepsTouched
  <2>2. CASE j = f.i
    BY <1>1, <2>2 DEF AnswerIs
  <2> QED  BY <1>6, <2>1, <2>2
<1>12. Even(g) /\ ~Tells(g) /\ g.pc # "put"
    BY <1>3, <1>4 DEF Even, Tells
<1> QED  BY <1>3, <1>4, <1>10, <1>11, <1>12 DEF MayBecome

\* A record that is out of date is forgotten, a cell is computed again.
LEMMA RevalidationEnds ==
    ASSUME Known, NEW u \in Task, NEW x \in Query, NEW f, NEW d, AsksFor(u, x, f, d), f.pc # "compute",
           NEW g, \/ g = [Idle EXCEPT !.pc = "start", !.rev = f.rev]
                  \/ f.pc = "touchShared" /\ g = [f EXCEPT !.pc = "lead", !.rec = NoRecord, !.i = 0]
    PROVE  Even(g) /\ MayBecome(u, x, g)
<1>1. /\ f \in Frame /\ frame[u][x].pc # "put" /\ Waiting(x, f)
      /\ f.pc \in {"touchLocal", "touchShared"}
    BY DEF AsksFor
<1>2. CASE g = [Idle EXCEPT !.pc = "start", !.rev = f.rev]
  <2>1. Blank(g)
    BY <1>2, BlanksAre
  <2> QED  BY <1>1, <2>1, BlankMayBecome
<1>3. CASE f.pc = "touchShared" /\ g = [f EXCEPT !.pc = "lead", !.rec = NoRecord, !.i = 0]
  <2>1. g.pc = "lead" /\ g.prev = f.prev /\ g.rec = NoRecord /\ g.ans = f.ans
    <3>1. "lead" \in PC
      BY DEF PC
    <3> QED  BY <1>1, <1>3, <3>1 DEF Frame
  <2>2. FrameSound(x, g)
    BY <1>1, <2>1 DEF FrameSound, Telling, Waiting
  <2>3. ASSUME NEW val, NEW ch, FrameStamp(g, val, ch) PROVE Stamp(x, val, ch)
    <3>1. FrameStamp(f, val, ch)
      BY <1>1, <2>1, <2>3 DEF FrameStamp
    <3> QED  BY <1>1, <3>1 DEF Waiting
  <2>4. NewFrame(x, g)
    BY <2>2, <2>3 DEF NewFrame, Dated
  <2>5. Even(g) /\ DepsTouched(g) /\ ~Tells(g)
    BY <2>1 DEF Even, DepsTouched, Tells
  <2> QED  BY <1>1, <2>1, <2>4, <2>5 DEF MayBecome
<1> QED  BY <1>2, <1>3

LEMMA ResumeMeans ==
    ASSUME Known, NEW u \in Task, NEW x \in Query, NEW f, NEW d, AsksFor(u, x, f, d),
           NEW a, AnswerIs(d, a), NEW g, g = Resume(f, a)
    PROVE  Even(g) /\ MayBecome(u, x, g) /\ \A r : RoleFits(f, r) => RoleFits(g, r)
<1>1. f \in Frame /\ f.pc \in {"compute", "touchLocal", "touchShared"}
    BY DEF AsksFor
<1>2. CASE f.pc = "compute"
  <2>1. g = [f EXCEPT !.seen = Append(@, a.val)]
    BY <1>2 DEF Resume
  <2>2. g.pc = "compute"
    BY <1>1, <1>2, <2>1 DEF Frame
  <2>3. \A r : RoleFits(f, r) => RoleFits(g, r)
    BY <1>2, <2>2 DEF RoleFits
  <2>4. Even(g) /\ MayBecome(u, x, g)
    BY <1>2, <2>1, ComputationIsTold
  <2> QED  BY <2>3, <2>4
<1>3. CASE f.pc # "compute"
  <2>1. \A r : RoleFits(f, r) => RoleFits(g, r)
    BY <1>1, <1>3 DEF RoleFits
  <2>2. f.rec \in Record /\ f.rec.ch \in Nat
    BY <1>3, RevalidationIs, RecordsAre, RevisionsAreNat
  <2>3. CASE ~a.ok
    <3>1. g = [Idle EXCEPT !.pc = "raise", !.ans = a]
      BY <1>3, <2>3 DEF Resume
    <3>2. Even(g) /\ MayBecome(u, x, g)
      BY <1>3, <2>3, <3>1, RevalidationFails
    <3> QED  BY <2>1, <3>2
  <2>0. a.ok => a.ch \in Nat
    <3>1. d \in Query => (a.ok => a.ch \in Revision)
      BY AnswerFields DEF AnswerIs
    <3> QED  BY <3>1, RevisionsAreNat DEF AnswerIs
  <2>4. CASE a.ok /\ a.ch <= f.rec.ch
    <3>1. ~(a.ch > f.rec.ch)
      BY <2>0, <2>2, <2>4
    <3>2. g = [f EXCEPT !.i = @ + 1]
      BY <1>3, <2>4, <3>1 DEF Resume
    <3>3. Even(g) /\ MayBecome(u, x, g)
      BY <1>3, <2>4, <3>2, RevalidationGoesOn
    <3> QED  BY <2>1, <3>3
  <2>5. CASE a.ok /\ ~(a.ch <= f.rec.ch)
    <3>2. a.ch > f.rec.ch
      BY <2>0, <2>2, <2>5
    <3>3. \/ f.pc = "touchLocal" /\ g = [Idle EXCEPT !.pc = "start", !.rev = f.rev]
          \/ f.pc = "touchShared" /\ g = [f EXCEPT !.pc = "lead", !.rec = NoRecord, !.i = 0]
      BY <1>1, <1>3, <2>5, <3>2 DEF Resume
    <3>4. Even(g) /\ MayBecome(u, x, g)
      BY <1>3, <3>3, RevalidationEnds
    <3> QED  BY <2>1, <3>4
  <2> QED  BY <2>3, <2>4, <2>5
<1> QED  BY <1>2, <1>3

-----------------------------------------------------------------------------
(* An access asks for a query *)

\* What a program reads, and what it has been computed from, ranks lower.
LEMMA ReadsRankLower ==
    ASSUME NEW x \in Query, NEW n \in 0..MaxReads, NEW seen \in [1..n -> Answered],
           Program(x, seen).do = "get", NEW d \in Query, Program(x, seen).dep = d,
           NEW rank, IsRank(rank)
    PROVE  rank[d] < rank[x]
    BY DEF IsRank

LEMMA DepsRankLower ==
    ASSUME NEW x \in Query, NEW m, NEW n, Sound(x, m, n), NEW i \in 1..Len(m.deps), m.deps[i] \in Query,
           NEW rank, IsRank(rank)
    PROVE  rank[m.deps[i]] < rank[x]
<1>1. m.deps \in DepLists /\ Computes(x, m.deps, m.val, Then(n))
    BY DEF Sound
<1>2. PICK seen \in [1..Len(m.deps) -> Answered] : Asks(x, m.deps, seen)
    BY <1>1 DEF Computes, RunsOn
<1>3. Len(m.deps) \in Nat /\ Len(m.deps) <= MaxReads /\ MaxReads \in Nat
    BY <1>1, DepListIs
<1>4. i - 1 \in 0..MaxReads /\ i - 1 \in Nat /\ \A j \in 1..(i - 1) : j \in 1..Len(m.deps)
    BY <1>3
<1>5. Upto(seen, i - 1) \in [1..(i - 1) -> Answered]
  <2>1. \A j \in 1..(i - 1) : seen[j] \in Answered
    BY <1>4
  <2> QED  BY <1>4, <2>1, UptoIs
<1>6. Program(x, Upto(seen, i - 1)).do = "get" /\ Program(x, Upto(seen, i - 1)).dep = m.deps[i]
    BY <1>2 DEF Asks
<1> QED  BY <1>4, <1>5, <1>6, ReadsRankLower

LEMMA NoCycle ==
    ASSUME Known, NEW t \in Task, Active(t), NEW q \in Query, RankFalls(stack[t], q)
    PROVE  ~OnStack(t, q)
<1> SUFFICES ASSUME NEW n \in 1..Len(stack[t]), stack[t][n] = q PROVE FALSE
    BY DEF OnStack
<1> DEFINE s == stack[t]
           k == Len(s)
<1>1. k \in Nat \ {0} /\ \A m \in 1..k : s[m] \in Query
  <2>1. EngineTypes
    BY KnownTypes
  <2> QED  BY <2>1, StackTop
<1>2. PICK rank \in [Query -> 0..Cardinality(Query)] : IsRank(rank)
    BY DEF Known, MeantPrograms, Acyclic, IsRank
<1>3. rank[q] < rank[s[k]]
    BY <1>2 DEF RankFalls
<1>4. \A a, b \in 1..k : a < b => rank[s[b]] < rank[s[a]]
    BY <1>2 DEF Known, MeaningInv, StacksAreAsked, StackIsAsked
<1> HIDE DEF s, k
<1>5. n \in 1..k /\ s[n] = q /\ k \in 1..k
    BY <1>1 DEF s, k
<1>6. rank[q] \in Nat /\ rank[s[k]] \in Nat
  <2>1. \A y \in Query : rank[y] \in 0..Cardinality(Query)
    BY <1>2
  <2>2. \A y \in Query : rank[y] \in Nat
    BY <2>1
  <2> QED  BY <1>1, <1>5, <2>2
<1>7. n = k \/ rank[s[k]] < rank[q]
    BY <1>1, <1>4, <1>5
<1> QED  BY <1>3, <1>5, <1>6, <1>7

LEMMA CallMeans ==
    ASSUME Known, NEW t \in Task, Active(t), NEW q \in Query, NEW f, Call(t, q, f), Waits(f, q),
           RankFalls(stack[t], q), UNCHANGED <<dbVars, cell, shared, regVars>>,
           RoleFits(f, role[H(t)]), MayBecome(t, Cur(t), f)
    PROVE  MeaningInv'
<1> DEFINE c == Cur(t)
<1>1. /\ EngineTypes /\ TruthIsMeant /\ MeaningInv /\ DbTypeOK /\ Flights!IInv /\ StacksAreAsked
      /\ c \in Query /\ H(t) = <<t, c>>
    BY AccessIs, KnownTypes DEF Known, MeantPrograms, EngineInv, MeaningInv
<1>2. ~OnStack(t, q)
    BY NoCycle
<1>3. frame[t][q].pc = "idle" /\ c # q
    BY <1>1, <1>2, CurrentIsOnStack DEF EngineTypes, TasksTyped
<1>4. /\ frame' = [frame EXCEPT ![t] = [frame[t] EXCEPT ![c] = f, ![q] = AtTop]] /\ home' = home
      /\ frame \in [Task -> [Query -> Frame]]
    BY <1>1 DEF Call, EngineTypes, TasksTyped
<1>5. StacksAreAsked'
    BY <1>1, <1>2, CallKeepsStacks
<1>6. FlightsProceed /\ CellsProceed /\ RecordsProceed /\ UNCHANGED dbVars
    BY <1>1, UsesProceed, CellStays, RecordStays DEF MeaningInv
<1>7. MayBecome(t, c, f)
    OBVIOUS
<1>8. RoleFits(f, role[<<t, c>>])
    BY <1>1
<1> HIDE DEF c
<1>9. /\ frame'[t][c] = f /\ frame'[t][q] = AtTop
      /\ \A u \in Task, x \in Query : u # t \/ (x # c /\ x # q) => frame'[u][x] = frame[u][x]
    BY <1>1, <1>3, <1>4
<1>10. FramesProceed
  <2> SUFFICES ASSUME NEW u \in Task, NEW x \in Query
               PROVE  frame'[u][x] = frame[u][x] \/ MayBecome(u, x, frame'[u][x])
    BY <1>4 DEF FramesProceed
  <2>1. CASE u = t /\ x = c
    BY <1>7, <1>9, <2>1
  <2>2. CASE u = t /\ x = q
    BY <1>3, <1>9, <2>2, BlanksAre, BlankMayBecome
  <2>3. CASE u # t \/ (x # c /\ x # q)
    BY <1>9, <2>3
  <2> QED  BY <2>1, <2>2, <2>3
<1>11. RolesFit'
  <2>1. role' = role /\ RolesFit
    BY <1>1 DEF regVars, MeaningInv
  <2>2. RoleFits(AtTop, role[<<t, q>>])
    <3>1. RoleFits(frame[t][q], role[<<t, q>>])
      BY <2>1 DEF RolesFit
    <3> QED  BY <1>3, <3>1 DEF RoleFits
  <2> SUFFICES ASSUME NEW u \in Task, NEW x \in Query
               PROVE  RoleFits(frame'[u][x], role[<<u, x>>])
    BY <2>1 DEF RolesFit
  <2>3. CASE u = t /\ x = c
    BY <1>8, <1>9, <2>3
  <2>4. CASE u = t /\ x = q
    BY <1>9, <2>2, <2>4
  <2>5. CASE u # t \/ (x # c /\ x # q)
    BY <1>9, <2>1, <2>5 DEF RolesFit
  <2> QED  BY <2>3, <2>4, <2>5
<1> QED  BY <1>1, <1>5, <1>6, <1>10, <1>11, StepKeepsMeaning

LEMMA AskerMayBecome ==
    ASSUME NEW u, NEW x, NEW f, Waiting(x, f), f.pc \in {"compute", "touchLocal", "touchShared"},
           frame[u][x].pc # "put", f.pc = "touchLocal" => Matches(cell'[home'[u]][x], f.rec)
    PROVE  MayBecome(u, x, f)
<1>1. NewFrame(x, f)
    BY DEF Waiting, NewFrame, Dated
<1>2. ~Tells(f) /\ f.pc # "put"
    BY DEF Tells
<1> QED  BY <1>1, <1>2 DEF MayBecome, Waiting

LEMMA ReadQueryMeans ==
    ASSUME Known, NEW t \in Task, ReadQuery(t)
    PROVE  MeaningInv'
<1> DEFINE d == Todo(t).dep
           g == [F(t) EXCEPT !.deps = Append(@, d)]
<1>1. /\ Active(t) /\ F(t).pc = "compute" /\ Todo(t).do = "get" /\ d \in Query
      /\ UNCHANGED <<dbVars, cell, shared, regVars>>
      /\ OnStack(t, d) \/ Call(t, d, g)
    BY DEF ReadQuery, Computing, At, cellVars, OnStack
<1>2. /\ F(t) = frame[t][Cur(t)] /\ RoleFits(F(t), role[H(t)]) /\ Cur(t) \in Query
      /\ Cur(t) = stack[t][Len(stack[t])]
    BY <1>1, AccessIs DEF Cur
<1>3. /\ g.pc = "compute" /\ Waiting(Cur(t), g) /\ Waits(g, d)
  <2>1. /\ g.pc = "compute" /\ Len(g.deps) = Len(g.seen) + 1 /\ g.deps[Len(g.deps)] = d
        /\ FrameSound(Cur(t), g) /\ (Alone => DepsTouched(g))
        /\ \A val, ch : FrameStamp(g, val, ch) => Stamp(Cur(t), val, ch)
    BY <1>1, AskingIs
  <2> HIDE DEF g, d
  <2> QED  BY <2>1 DEF Waiting, Waits
<1>4. RankFalls(stack[t], d)
  <2> SUFFICES ASSUME NEW rank, IsRank(rank) PROVE rank[d] < rank[Cur(t)]
    BY <1>2 DEF RankFalls
  <2>1. /\ F(t).seen \in Seq(Answered) /\ Len(F(t).seen) <= MaxReads
    BY <1>1, TopHasRead
  <2>2. Len(F(t).seen) \in 0..MaxReads /\ F(t).seen \in [1..Len(F(t).seen) -> Answered]
    BY <2>1, LenProperties, ProgramsEnd
  <2>3. Program(Cur(t), F(t).seen).do = "get" /\ Program(Cur(t), F(t).seen).dep = d
    BY <1>1 DEF Todo
  <2> HIDE DEF d
  <2> QED  BY <1>1, <1>2, <2>2, <2>3, ReadsRankLower
<1> HIDE DEF g, d
<1>5. Call(t, d, g)
    BY <1>1, <1>4, NoCycle
<1>6. MayBecome(t, Cur(t), g)
  <2>1. frame[t][Cur(t)].pc # "put"
    BY <1>1, <1>2
  <2> QED  BY <1>3, <2>1, AskerMayBecome
<1>7. RoleFits(g, role[H(t)])
    BY <1>1, <1>2, <1>3 DEF RoleFits
<1> QED  BY <1>1, <1>3, <1>4, <1>5, <1>6, <1>7, CallMeans

LEMMA TouchMeans ==
    ASSUME Known, NEW t \in Task, Touch(t)
    PROVE  MeaningInv'
<1> DEFINE f == F(t)
           d == f.rec.deps[f.i]
           a == Ok(None, input[home[t]][d].ch)
<1>1. /\ Active(t) /\ f.pc \in {"touchLocal", "touchShared"} /\ f.i <= Len(f.rec.deps)
      /\ UNCHANGED <<dbVars, cell, shared, regVars>>
      /\ \/ d \in Input /\ Go(t, Resume(f, a))
         \/ d \in Query /\ (OnStack(t, d) \/ Call(t, d, f))
    BY DEF Touch, At, cellVars, OnStack
<1>2. /\ f = frame[t][Cur(t)] /\ f \in Frame /\ RoleFits(f, role[H(t)]) /\ Cur(t) \in Query
      /\ Cur(t) = stack[t][Len(stack[t])] /\ home[t] \in View /\ HasWhatItNeeds(f)
      /\ Waiting(Cur(t), f)
    BY <1>1, AccessIs DEF Cur, Waiting
<1> HIDE DEF f
<1>3. f.rec \in Record /\ f.i \in Nat /\ f.i >= 1 /\ Revalidates(Cur(t), f.rec, f.i)
    BY <1>1, <1>2 DEF HasWhatItNeeds, Waiting, FrameSound, Frame
<1>4. f.rec.deps \in DepLists /\ f.i \in 1..Len(f.rec.deps)
  <2>1. f.rec.deps \in DepLists
    BY <1>3 DEF Record
  <2> QED  BY <1>1, <1>3, <2>1, DepListIs
<1>5. Waits(f, d)
    BY <1>1 DEF Waits
<1>6. home' = home => (f.pc = "touchLocal" => Matches(cell'[home'[t]][Cur(t)], f.rec))
  <2>1. cell' = cell /\ home[t] # NoView
    BY <1>1, <1>2, NonesAreNone
  <2> QED  BY <1>2, <2>1 DEF Known, MeaningInv, CellsAreRevalidated
<1>7. CASE d \in Input /\ Go(t, Resume(f, a))
  <2>1. home' = home
    BY <1>7 DEF Go
  <2>2. f.pc # "compute"
    BY <1>1
  <2>3. AsksFor(t, Cur(t), f, d)
    BY <1>1, <1>2, <1>5, <1>6, <2>1, <2>2 DEF AsksFor
  <2>4. AnswerIs(d, a)
    <3>1. a.ok /\ a.ch = input[home[t]][d].ch
      BY DEF Ok
    <3>2. Since(input[home[t]][d], d) /\ input[home[t]][d].val = Present[d]
      BY <1>1, <1>7, AccessAt
    <3>3. a.ch \in Nat
      BY <1>2, <1>7, <3>1, RevisionsAreNat DEF Known, EngineInv, DbTypeOK
    <3>4. \A n \in a.ch..Now : Then(n)[d] = Present[d]
      BY <3>1, <3>2 DEF Since
    <3> HIDE DEF a, d
    <3> QED  BY <1>7, <3>1, <3>3, <3>4, IngredientsListed DEF AnswerIs
  <2> HIDE DEF a, d
  <2>5. PICK g : g = Resume(f, a)
    OBVIOUS
  <2>6. Even(g) /\ MayBecome(t, Cur(t), g) /\ \A r : RoleFits(f, r) => RoleFits(g, r)
    BY <1>2, <2>3, <2>4, <2>5, ResumeMeans
  <2>7. Go(t, g)
    BY <1>7, <2>5
  <2> QED  BY <1>1, <1>2, <2>6, <2>7, PlainMeans
<1>8. CASE d \in Query /\ (OnStack(t, d) \/ Call(t, d, f))
  <2>1. RankFalls(stack[t], d)
    <3> SUFFICES ASSUME NEW rank, IsRank(rank) PROVE rank[d] < rank[Cur(t)]
      BY <1>2 DEF RankFalls
    <3>1. PICK n \in 0..Now : Usable(Cur(t), f.rec, n)
      BY <1>3 DEF Revalidates
    <3>2. Sound(Cur(t), f.rec, n)
      BY <3>1 DEF Usable
    <3> QED  BY <1>2, <1>4, <1>8, <3>2, DepsRankLower
  <2> HIDE DEF d
  <2>2. Call(t, d, f)
    BY <1>1, <1>8, <2>1, NoCycle
  <2>3. home' = home
    BY <2>2 DEF Call
  <2>4. frame[t][Cur(t)].pc # "put"
    BY <1>1, <1>2
  <2>5. MayBecome(t, Cur(t), f)
    BY <1>1, <1>2, <1>6, <2>3, <2>4, AskerMayBecome
  <2> QED  BY <1>1, <1>2, <1>5, <1>8, <2>1, <2>2, <2>5, CallMeans
<1> QED  BY <1>1, <1>7, <1>8

-----------------------------------------------------------------------------
(* An access ends and its caller goes on *)

LEMMA CallerAsks ==
    ASSUME Known, NEW t \in Task, Active(t), Below(t) # <<>>, cell' = cell, home' = home
    PROVE  /\ Caller(t) \in Query /\ AsksFor(t, Caller(t), frame[t][Caller(t)], Cur(t))
           /\ RoleFits(frame[t][Caller(t)], role[<<t, Caller(t)>>])
<1> DEFINE k == Len(stack[t])
           x == Caller(t)
           f == frame[t][x]
<1>1. EngineTypes /\ TasksTyped /\ StacksFit
    BY KnownTypes DEF EngineTypes
<1>2. /\ x \in Query /\ k - 1 \in 1..k /\ x = stack[t][k - 1] /\ f \in Frame
      /\ AskedForMore(f) /\ HasWhatItNeeds(f)
    BY <1>1, BelowIsWaiting
<1>3. k \in Nat \ {0} /\ Cur(t) = stack[t][k] /\ Cur(t) \in Query
    BY <1>1, StackTop
<1>4. Waits(f, Cur(t))
  <2>1. \A n \in 1..(k - 1) : Waits(frame[t][stack[t][n]], stack[t][n + 1])
    BY DEF Known, MeaningInv, StacksAreAsked, StackIsAsked
  <2> HIDE DEF k, f, x
  <2>2. k - 1 \in 1..(k - 1) /\ (k - 1) + 1 = k
    BY <1>2, <1>3
  <2>3. Waits(frame[t][stack[t][k - 1]], stack[t][(k - 1) + 1])
    BY <2>1, <2>2
  <2> QED  BY <1>2, <1>3, <2>2, <2>3 DEF f
<1>5. f.pc \in {"compute", "touchLocal", "touchShared"}
    BY <1>2 DEF AskedForMore
<1>6. Waiting(x, f)
  <2>1. FrameSound(x, f)
    BY <1>2 DEF Known, MeaningInv, FramesAreSound
  <2>2. Alone => DepsTouched(f)
    BY <1>2 DEF Known, MeaningInv, NothingLags
  <2>3. \A val, ch : FrameStamp(f, val, ch) => Stamp(x, val, ch)
    BY DEF Stamp
  <2> QED  BY <2>1, <2>2, <2>3 DEF Waiting
<1>7. f.pc = "touchLocal" => Matches(cell'[home'[t]][x], f.rec)
  <2>1. home[t] # NoView
    BY <1>1 DEF TasksTyped, Active
  <2> QED  BY <1>2, <2>1 DEF Known, MeaningInv, CellsAreRevalidated
<1>8. RoleFits(f, role[<<t, x>>])
    BY <1>2 DEF Known, MeaningInv, RolesFit
<1> HIDE DEF f, x
<1> QED  BY <1>2, <1>3, <1>4, <1>5, <1>6, <1>7, <1>8 DEF AsksFor, f, x

\* The top access of t ends, and its caller goes on with g.
Pops(t, g) ==
    /\ stack' = [stack EXCEPT ![t] = Below(t)]
    /\ Below(t) = <<>> =>
        /\ frame' = [frame EXCEPT ![t][Cur(t)] = Idle]
        /\ home' = [home EXCEPT ![t] = NoView]
    /\ Below(t) # <<>> =>
        /\ frame' = [frame EXCEPT ![t] = [frame[t] EXCEPT ![Cur(t)] = Idle, ![Caller(t)] = g]]
        /\ home' = home
    /\ UNCHANGED <<dbVars, cell, shared>>

LEMMA LastAccess ==
    ASSUME EngineTypes, NEW t \in Task, Active(t), Below(t) = <<>>
    PROVE  \A x \in Query : x # Cur(t) => frame[t][x].pc = "idle"
<1> DEFINE k == Len(stack[t])
<1> SUFFICES ASSUME NEW x \in Query, x # Cur(t), OnStack(t, x) PROVE FALSE
    BY DEF EngineTypes, TasksTyped
<1>1. k \in Nat \ {0} /\ Cur(t) = stack[t][k] /\ Len(Below(t)) = k - 1
    BY StackTop, BelowIsWaiting DEF EngineTypes
<1>2. k = 1
    BY <1>1
<1>3. PICK n \in 1..k : stack[t][n] = x
    BY DEF OnStack
<1> QED  BY <1>1, <1>2, <1>3

LEMMA PopMeans ==
    ASSUME Known, NEW t \in Task, Active(t), NEW g, Pops(t, g), F(t).pc # "put", role'[H(t)] = "idle",
           UNCHANGED regVars \/ UsesRight(H(t)),
           Below(t) # <<>> => Even(g) /\ MayBecome(t, Caller(t), g) /\ RoleFits(g, role[<<t, Caller(t)>>])
    PROVE  MeaningInv'
<1> DEFINE c == Cur(t)
           p == Caller(t)
<1>1. /\ EngineTypes /\ TruthIsMeant /\ MeaningInv /\ DbTypeOK /\ Flights!IInv /\ StacksAreAsked
      /\ TasksTyped /\ StacksFit /\ c \in Query /\ H(t) = <<t, c>> /\ H(t) \in Holder
      /\ F(t) = frame[t][c] /\ frame \in [Task -> [Query -> Frame]] /\ home \in [Task -> View \union {NoView}]
    BY AccessIs, KnownTypes DEF Known, MeantPrograms, EngineInv, MeaningInv, EngineTypes, TasksTyped
<1>2. Below(t) # <<>> => p \in Query /\ p # c
    BY <1>1, BelowIsWaiting
<1>3. StacksAreAsked'
    BY <1>1, PopKeepsStacks DEF Pops
<1>4. FlightsProceed
    BY <1>1, UsesProceed DEF MeaningInv, Pops
<1>5. CellsProceed /\ RecordsProceed /\ UNCHANGED dbVars
    BY CellStays, RecordStays DEF Pops
<1>6. \A h \in Holder : h # H(t) => role'[h] = role[h]
    BY <1>1, OthersKeepRoles
<1>7. Below(t) = <<>> => \A x \in Query : x # c => frame[t][x].pc = "idle"
    BY <1>1, LastAccess
<1>8. Below(t) # <<>> => Even(g) /\ MayBecome(t, p, g) /\ RoleFits(g, role[<<t, p>>])
    OBVIOUS
<1> HIDE DEF c, p
<1>9. /\ frame'[t][c] = Idle
      /\ Below(t) # <<>> => frame'[t][p] = g
      /\ \A u \in Task, x \in Query :
            u # t \/ (x # c /\ (Below(t) = <<>> \/ x # p)) =>
                frame'[u][x] = frame[u][x] /\ (frame[u][x].pc # "idle" => home'[u] = home[u])
    BY <1>1, <1>2, <1>7 DEF Pops, c, p
<1>10. FramesProceed
  <2> SUFFICES ASSUME NEW u \in Task, NEW x \in Query
               PROVE  \/ frame'[u][x] = frame[u][x] /\ (frame[u][x].pc = "touchLocal" => home'[u] = home[u])
                      \/ MayBecome(u, x, frame'[u][x])
    BY DEF FramesProceed
  <2>1. CASE u = t /\ x = c
    BY <1>1, <1>9, <2>1, BlanksAre, BlankMayBecome
  <2>2. CASE u = t /\ x # c /\ Below(t) # <<>> /\ x = p
    BY <1>8, <1>9, <2>2
  <2>3. CASE u # t \/ (x # c /\ (Below(t) = <<>> \/ x # p))
    <3>1. frame'[u][x] = frame[u][x] /\ (frame[u][x].pc # "idle" => home'[u] = home[u])
      BY <1>9, <2>3
    <3> QED  BY <3>1
  <2> QED  BY <2>1, <2>2, <2>3
<1>11. RolesFit'
  <2> SUFFICES ASSUME NEW u \in Task, NEW x \in Query
               PROVE  RoleFits(frame'[u][x], role'[<<u, x>>])
    BY DEF RolesFit
  <2>1. CASE u = t /\ x = c
    BY <1>1, <2>1 DEF RoleFits
  <2>2. ASSUME u # t \/ x # c PROVE role'[<<u, x>>] = role[<<u, x>>]
    BY <1>1, <1>6, <2>2 DEF Holder
  <2>3. CASE u = t /\ x # c /\ Below(t) # <<>> /\ x = p
    BY <1>8, <1>9, <2>2, <2>3
  <2>4. CASE u # t \/ (x # c /\ (Below(t) = <<>> \/ x # p))
    <3>1. frame'[u][x] = frame[u][x] /\ role'[<<u, x>>] = role[<<u, x>>]
      BY <1>9, <2>2, <2>4
    <3>2. RoleFits(frame[u][x], role[<<u, x>>])
      BY <1>1 DEF MeaningInv, RolesFit
    <3> QED  BY <3>1, <3>2
  <2> QED  BY <2>1, <2>3, <2>4
<1> QED  BY <1>1, <1>3, <1>4, <1>5, <1>10, <1>11, StepKeepsMeaning

LEMMA ReturnMeans ==
    ASSUME Known, NEW t \in Task, Active(t), NEW a, Return(t, a), F(t).pc \in {"check", "raise"},
           AnswerIs(Cur(t), a), UNCHANGED <<dbVars, cell, shared, regVars>>
    PROVE  MeaningInv'
<1>1. PICK g : g = Resume(frame[t][Caller(t)], a)
    OBVIOUS
<1>2. Pops(t, g)
    BY <1>1 DEF Return, Pops, Below, Caller
<1>3. role'[H(t)] = "idle"
  <2>1. RoleFits(F(t), role[H(t)]) /\ role' = role
    BY AccessIs DEF regVars
  <2> QED  BY <2>1 DEF RoleFits
<1>4. ASSUME Below(t) # <<>>
      PROVE  Even(g) /\ MayBecome(t, Caller(t), g) /\ RoleFits(g, role[<<t, Caller(t)>>])
  <2>1. cell' = cell /\ home' = home
    BY <1>2, <1>4 DEF Pops
  <2>2. /\ Caller(t) \in Query /\ AsksFor(t, Caller(t), frame[t][Caller(t)], Cur(t))
        /\ RoleFits(frame[t][Caller(t)], role[<<t, Caller(t)>>])
    BY <1>4, <2>1, CallerAsks
  <2> QED  BY <1>1, <2>2, ResumeMeans
<1> QED  BY <1>2, <1>3, <1>4, PopMeans

LEMMA CheckMeans ==
    ASSUME Known, NEW t \in Task, Check(t) \/ Raise(t)
    PROVE  MeaningInv'
<1> DEFINE a == F(t).ans
<1>1. /\ Active(t) /\ F(t).pc \in {"check", "raise"}
      /\ UNCHANGED <<dbVars, cell, shared, regVars>>
      /\ Return(t, a) \/ (F(t).pc = "check" /\ Go(t, AtTop))
    BY DEF Check, Raise, At, cellVars
<1>2. /\ Cur(t) \in Query /\ F(t) \in Frame /\ HasWhatItNeeds(F(t)) /\ FrameSound(Cur(t), F(t))
      /\ RoleFits(F(t), role[H(t)])
      /\ Alone => (Tells(F(t)) => Touched(Cur(t)))
      /\ \A val, ch : FrameStamp(F(t), val, ch) => Stamp(Cur(t), val, ch)
    BY <1>1, AccessIs
<1>3. CASE Return(t, a)
  <2>1. a \in Answer /\ Means(Cur(t), a)
    BY <1>1, <1>2 DEF HasWhatItNeeds, FrameSound, Telling
  <2>2. a # NoAnswer => (a.ok => Stamp(Cur(t), a.val, a.ch))
    BY <1>1, <1>2 DEF FrameStamp
  <2>3. Alone /\ a.ok => Touched(Cur(t))
    BY <1>1, <1>2 DEF Tells, HasWhatItNeeds
  <2>4. a.ok => Stamp(Cur(t), a.val, a.ch)
    BY <2>1, <2>2, NonesOfService
  <2> HIDE DEF a
  <2>5. AnswerIs(Cur(t), a)
    BY <1>2, <2>1, <2>3, <2>4, IngredientsListed DEF AnswerIs
  <2> QED  BY <1>1, <1>3, <2>5, ReturnMeans
<1>4. CASE F(t).pc = "check" /\ Go(t, AtTop)
  <2>1. RoleFits(AtTop, role[H(t)])
    BY <1>2, <1>4 DEF RoleFits
  <2> QED  BY <1>1, <1>4, <2>1, BlanksAre, RestartMeans
<1> QED  BY <1>1, <1>3, <1>4

(* A dropped task lets go of its accesses one by one. *)
LEMMA DropMeans ==
    ASSUME Known, NEW t \in Task, Drop(t)
    PROVE  MeaningInv'
<1> DEFINE g == [Idle EXCEPT !.pc = "drop"]
<1>1. /\ Active(t) /\ F(t).pc = "drop" /\ UNCHANGED <<dbVars, shared>>
      /\ \/ role[H(t)] = "idle" /\ DropAccess(t) /\ UNCHANGED regVars
         \/ (Reg!Abandon(H(t)) \/ Reg!Remove(H(t))) /\ DropAccess(t)
         \/ (Reg!CancelLead(H(t)) \/ Reg!NotifyWaiters(H(t))) /\ UNCHANGED <<cell, taskVars>>
    BY DEF Drop, At, cellVars
<1>2. /\ H(t) \in Holder /\ Flights!IInv /\ RoleFits(F(t), role[H(t)])
      /\ EngineTypes /\ TasksTyped /\ StacksFit
    BY <1>1, AccessIs, KnownTypes DEF Known, EngineInv
<1>3. CASE (Reg!CancelLead(H(t)) \/ Reg!NotifyWaiters(H(t))) /\ UNCHANGED <<cell, taskVars>>
  <2>1. role'[H(t)] \in {"settled", "notified"}
    BY <1>2, <1>3, RolesMove DEF Reg!CancelLead
  <2>2. RoleFits(F(t), role'[H(t)])
    BY <1>1, <2>1 DEF RoleFits
  <2>3. UsesRight(H(t))
    BY <1>3 DEF UsesRight, Reg!Publish
  <2> QED  BY <1>1, <1>3, <2>2, <2>3, UsingMeans
<1>4. CASE DropAccess(t) /\ role'[H(t)] = "idle" /\ (UNCHANGED regVars \/ UsesRight(H(t)))
  <2>1. Pops(t, g)
    BY <1>1, <1>4 DEF DropAccess, Pops, Below, Caller
  <2>2. Blank(g) /\ g.pc = "drop"
    BY BlanksAre
  <2> HIDE DEF g
  <2>3. ASSUME Below(t) # <<>>
        PROVE  Even(g) /\ MayBecome(t, Caller(t), g) /\ RoleFits(g, role[<<t, Caller(t)>>])
    <3>1. /\ Caller(t) \in Query
          /\ RoleFits(frame[t][Caller(t)], role[<<t, Caller(t)>>])
          /\ frame[t][Caller(t)].pc \in {"compute", "touchLocal", "touchShared"}
      <4>1. Caller(t) \in Query /\ AskedForMore(frame[t][Caller(t)])
        BY <1>1, <1>2, <2>3, BelowIsWaiting
      <4> QED  BY <4>1 DEF AskedForMore, Known, MeaningInv, RolesFit
    <3>2. Even(g) /\ MayBecome(t, Caller(t), g)
      BY <2>2, <3>1, BlankMayBecome
    <3>3. RoleFits(g, role[<<t, Caller(t)>>])
      BY <2>2, <3>1 DEF RoleFits
    <3> QED  BY <3>2, <3>3
  <2> QED  BY <1>1, <1>4, <2>1, <2>3, PopMeans
<1>5. CASE role[H(t)] = "idle" /\ DropAccess(t) /\ UNCHANGED regVars
    BY <1>4, <1>5 DEF regVars
<1>6. CASE (Reg!Abandon(H(t)) \/ Reg!Remove(H(t))) /\ DropAccess(t)
  <2>1. role'[H(t)] = "idle"
    BY <1>2, <1>6, RolesMove
  <2>2. UsesRight(H(t))
    BY <1>6 DEF UsesRight, Reg!Publish
  <2> QED  BY <1>4, <1>6, <2>1, <2>2
<1> QED  BY <1>1, <1>3, <1>5, <1>6

(* A user's access begins. *)
LEMMA GetMeans ==
    ASSUME Known, NEW t \in Task, NEW v \in View, NEW q \in Query, Get(t, v, q)
    PROVE  MeaningInv'
<1>1. /\ stack[t] = <<>> /\ UNCHANGED <<dbVars, cell, shared, regVars>>
      /\ stack' = [stack EXCEPT ![t] = <<q>>]
      /\ frame' = [frame EXCEPT ![t][q] = AtTop]
      /\ home' = [home EXCEPT ![t] = v]
    BY DEF Get, Active, cellVars
<1>2. /\ EngineTypes /\ TruthIsMeant /\ MeaningInv /\ DbTypeOK /\ Flights!IInv /\ StacksAreAsked
      /\ TasksTyped /\ frame \in [Task -> [Query -> Frame]] /\ home \in [Task -> View \union {NoView}]
      /\ stack \in [Task -> Seq(Query)]
    BY KnownTypes DEF Known, MeantPrograms, EngineInv, MeaningInv, EngineTypes, TasksTyped
<1>3. \A x \in Query : frame[t][x].pc = "idle"
    BY <1>1, <1>2, EmptySeq DEF TasksTyped, OnStack
<1>4. /\ frame'[t][q] = AtTop /\ AtTop.pc = "top" /\ Blank(AtTop)
      /\ \A u \in Task, x \in Query : u # t \/ x # q =>
            frame'[u][x] = frame[u][x] /\ (frame[u][x].pc # "idle" => home'[u] = home[u])
    BY <1>1, <1>2, <1>3, BlanksAre
<1>5. StacksAreAsked'
  <2> SUFFICES ASSUME NEW u \in Task PROVE StackIsAsked(stack'[u], frame'[u])
    BY DEF StacksAreAsked
  <2>1. CASE u # t
    <3>1. stack'[u] = stack[u] /\ frame'[u] = frame[u]
      BY <1>1, <1>2, <2>1
    <3>2. StackIsAsked(stack[u], frame[u])
      BY <1>2 DEF StacksAreAsked
    <3> QED  BY <3>1, <3>2
  <2>2. CASE u = t
    <3>1. stack'[t] = <<q>> /\ Len(<<q>>) = 1 /\ <<q>>[1] = q /\ frame'[t][q].pc # "compute"
      BY <1>1, <1>2, <1>4
    <3> QED  BY <2>2, <3>1 DEF StackIsAsked
  <2> QED  BY <2>1, <2>2
<1>6. FlightsProceed /\ CellsProceed /\ RecordsProceed /\ UNCHANGED dbVars
    BY <1>1, <1>2, UsesProceed, CellStays, RecordStays DEF MeaningInv
<1>7. FramesProceed
  <2> SUFFICES ASSUME NEW u \in Task, NEW x \in Query
               PROVE  \/ frame'[u][x] = frame[u][x] /\ (frame[u][x].pc = "touchLocal" => home'[u] = home[u])
                      \/ MayBecome(u, x, frame'[u][x])
    BY DEF FramesProceed
  <2>1. CASE u = t /\ x = q
    BY <1>3, <1>4, <2>1, BlankMayBecome
  <2>2. CASE u # t \/ x # q
    <3>1. frame'[u][x] = frame[u][x] /\ (frame[u][x].pc # "idle" => home'[u] = home[u])
      BY <1>4, <2>2
    <3> QED  BY <3>1
  <2> QED  BY <2>1, <2>2
<1>8. RolesFit'
  <2> SUFFICES ASSUME NEW u \in Task, NEW x \in Query PROVE RoleFits(frame'[u][x], role[<<u, x>>])
    BY <1>1 DEF RolesFit, regVars
  <2>1. RoleFits(frame[u][x], role[<<u, x>>])
    BY <1>2 DEF MeaningInv, RolesFit
  <2>2. CASE u = t /\ x = q
    BY <1>3, <2>1, <2>2 DEF RoleFits
  <2>3. CASE u # t \/ x # q
    <3>1. frame'[u][x] = frame[u][x]
      BY <1>4, <2>3
    <3> QED  BY <2>1, <3>1
  <2> QED  BY <2>2, <2>3
<1> QED  BY <1>2, <1>5, <1>6, <1>7, <1>8, StepKeepsMeaning

-----------------------------------------------------------------------------
(* What the embedding program does *)

\* What the tasks and the caches hold is sound.
KeptInv ==
    /\ CellsAreSound
    /\ RecordsAreSound
    /\ FramesAreSound
    /\ StacksAreAsked
    /\ CellsAreRevalidated
    /\ RolesFit
    /\ FlightsAreSound
    /\ Alone => NothingLags

\* The database keeps its past and its cells, a view in use its cells, and
\* what is new in another view is the database's.
OnlyCopies ==
    /\ SamePast
    /\ UNCHANGED <<shared, taskVars, regVars>>
    /\ \A v \in View, x \in Query : cell'[v][x] \in {cell[v][x], Vacant, cell[Live][x]}
    /\ \A t \in Task : home[t] # NoView => cell'[home[t]] = cell[home[t]]
    /\ Alone' => Alone /\ cell'[Live] = cell[Live]

LEMMA CopiesAreSound ==
    ASSUME DbTypeOK, KeptInv, OnlyCopies
    PROVE  KeptInv'
<1>1. /\ Now' = Now /\ Present' = Present /\ \A n : Then(n)' = Then(n)
      /\ \A x, m, n : Sound(x, m, n)' <=> Sound(x, m, n)
    BY PastStays DEF OnlyCopies
<1>2. /\ shared' = shared /\ home' = home /\ stack' = stack /\ frame' = frame
      /\ role' = role /\ keyOf' = keyOf /\ entryOf' = entryOf
      /\ entryState' = entryState /\ entryResult' = entryResult
    BY DEF OnlyCopies, taskVars, regVars
<1>3. /\ Live \in View /\ SamePast
      /\ \A v \in View, x \in Query : cell'[v][x] \in {cell[v][x], Vacant, cell[Live][x]}
    BY LiveIsAView DEF OnlyCopies
<1>4. \A y \in Query, val \in QueryValue, ch \in Revision : Stamp(y, val, ch)' => Dated(y, val, ch)
  <2> SUFFICES ASSUME NEW x \in Query, NEW val \in QueryValue, NEW ch \in Revision, Stamp(x, val, ch)'
               PROVE  Stamp(x, val, ch)
    BY DEF Dated
  <2>1. CASE \E v \in View : cell'[v][x].st = "Ready" /\ cell'[v][x].val = val /\ cell'[v][x].ch = ch
    <3>1. PICK v \in View : cell'[v][x].st = "Ready" /\ cell'[v][x].val = val /\ cell'[v][x].ch = ch
      BY <2>1
    <3>2. cell'[v][x] = cell[v][x] \/ cell'[v][x] = cell[Live][x]
      BY <1>3, <3>1 DEF Vacant
    <3> QED  BY <1>3, <3>1, <3>2 DEF Stamp
  <2>2. CASE shared'[Live][x] # NoRecord /\ shared'[Live][x].val = val /\ shared'[Live][x].ch = ch
    BY <1>2, <2>2 DEF Stamp
  <2>3. CASE \E t \in Task : FrameStamp(frame'[t][x], val, ch)
    BY <1>2, <2>3 DEF Stamp
  <2>4. CASE \E h \in Holder :
          FlightOf(h, x)' /\ OutcomeIs(h, "Done")' /\ Payload(h)'.val = val /\ Payload(h)'.ch = ch
    BY <1>2, <2>4 DEF Stamp, FlightOf, OutcomeIs, Payload
  <2> QED  BY <2>1, <2>2, <2>3, <2>4 DEF Stamp
<1>5. \A x, m, n : Usable(x, m, n) => Usable(x, m, n)'
    BY <1>3, <1>4, UsableStays
<1>6. CellsAreSound'
  <2> SUFFICES ASSUME NEW v \in View, NEW x \in Query, NEW c, c = cell'[v][x]
               PROVE  /\ c.st = "Ready" => Usable(x, c, c.ver)'
                      /\ c.st = "Poisoned" =>
                            c.ver <= Now /\ Truth(x, Then(c.ver)) = [ok |-> FALSE, val |-> c.err]
    BY <1>1 DEF CellsAreSound
  <2>1. CASE c = Vacant
    BY <2>1 DEF Vacant
  <2>2. ASSUME NEW w \in View, c = cell[w][x]
        PROVE  /\ c.st = "Ready" => Usable(x, c, c.ver)
               /\ c.st = "Poisoned" =>
                    c.ver <= Now /\ Truth(x, Then(c.ver)) = [ok |-> FALSE, val |-> c.err]
    BY <2>2 DEF KeptInv, CellsAreSound
  <2>3. c = Vacant \/ \E w \in View : c = cell[w][x]
    BY <1>3
  <2> QED  BY <1>5, <2>1, <2>2, <2>3
<1>7. RecordsAreSound'
  <2> SUFFICES ASSUME NEW x \in Query, NEW r, r = shared[Live][x], r # NoRecord
               PROVE  Usable(x, r, r.ver)'
    BY <1>2 DEF RecordsAreSound
  <2> QED  BY <1>5 DEF KeptInv, RecordsAreSound
<1>8. FramesAreSound'
  <2> SUFFICES ASSUME NEW u \in Task, NEW x \in Query, NEW f, f = frame[u][x]
               PROVE  FrameSound(x, f)'
    BY <1>2 DEF FramesAreSound
  <2>1. FrameSound(x, f)
    BY DEF KeptInv, FramesAreSound
  <2>2. Revalidates(x, f.rec, f.i) => Revalidates(x, f.rec, f.i)'
    BY <1>1, <1>5 DEF Revalidates
  <2>3. HasRead(x, f.deps, f.seen) => HasRead(x, f.deps, f.seen)'
    BY <1>1 DEF HasRead
  <2>4. Means(x, f.ans) => Means(x, f.ans)'
    BY <1>1 DEF Means
  <2> QED  BY <1>1, <2>1, <2>2, <2>3, <2>4 DEF FrameSound
<1>9. StacksAreAsked'
    BY <1>2 DEF KeptInv, StacksAreAsked
<1>10. CellsAreRevalidated'
  <2> SUFFICES ASSUME NEW t \in Task, NEW x \in Query, home[t] # NoView, frame[t][x].pc = "touchLocal"
               PROVE  Matches(cell[home[t]][x], frame[t][x].rec)'
    BY <1>2 DEF CellsAreRevalidated, OnlyCopies
  <2>1. Matches(cell[home[t]][x], frame[t][x].rec) /\ cell'[home[t]] = cell[home[t]]
    BY DEF KeptInv, CellsAreRevalidated, OnlyCopies
  <2> QED  BY <1>1, <1>2, <2>1 DEF Matches
<1>11. RolesFit'
    BY <1>2 DEF KeptInv, RolesFit
<1>12. FlightsAreSound'
    BY <1>1, <1>2 DEF KeptInv, FlightsAreSound, FlightOf, OutcomeIs, Payload
<1>13. ASSUME Alone' PROVE NothingLags'
  <2>1. NothingLags /\ cell'[Live] = cell[Live]
    BY <1>13 DEF OnlyCopies, KeptInv
  <2>2. \A x : /\ PutPending(x)' <=> PutPending(x)
               /\ CellTouched(x)' <=> CellTouched(x)
    BY <1>1, <1>2, <2>1 DEF PutPending, CellTouched
  <2>3. \A x : RecordTouched(x)' <=> RecordTouched(x)
    BY <1>1, <1>2, <2>2 DEF RecordTouched
  <2>4. \A x : Touched(x)' <=> Touched(x)
    BY <2>2, <2>3 DEF Touched
  <2>5. \A deps : AllTouched(deps)' <=> AllTouched(deps)
    BY <2>4 DEF AllTouched
  <2>6. \A f : DepsTouched(f)' <=> DepsTouched(f)
    BY <2>4, <2>5 DEF DepsTouched
  <2> QED  BY <1>1, <1>2, <2>1, <2>2, <2>4, <2>5, <2>6 DEF NothingLags, FlightOf, OutcomeIs, Payload
<1> QED  BY <1>6, <1>7, <1>8, <1>9, <1>10, <1>11, <1>12, <1>13 DEF KeptInv

LEMMA MeaningIsKept == MeaningInv <=> OneTimeline /\ InputsAreDated /\ KeptInv
    BY DEF MeaningInv, KeptInv

LEMMA EndWriteMeans ==
    ASSUME Known, NEW v \in View, EndWrite(v)
    PROVE  MeaningInv'
<1>1. DbTypeOK /\ OneTimeline /\ InputsAreDated /\ KeptInv /\ MeaningInv
    BY MeaningIsKept DEF Known, EngineInv, MeaningInv
<1>2. writing[v] # NoWrite /\ v = Live /\ Live \in View
    BY <1>1, LiveIsAView DEF EndWrite, MarkDivergent, Write, OneTimeline, Snapshots
<1>3. /\ input' = [input EXCEPT ![Live][writing[Live].key] = [val |-> writing[Live].val, ch |-> writing[Live].ch]]
      /\ writing' = [writing EXCEPT ![Live] = NoWrite]
      /\ UNCHANGED <<rev, diverged, copied, hist, cell, shared, taskVars, regVars>>
    BY <1>1, <1>2 DEF EndWrite, MarkDivergent, Write, Snapshots, cellVars
<1>4. OnlyCopies
    BY <1>3 DEF OnlyCopies, SamePast, Alone
<1>5. KeptInv'
    BY <1>1, <1>4, CopiesAreSound
<1>6. /\ Now' = Now /\ Present' = Present /\ (\A n : Then(n)' = Then(n))
      /\ \A e, i : Since(e, i)' <=> Since(e, i)
    BY <1>4, PastStays DEF OnlyCopies
<1>7. \A s \in Snapshots : s \in View /\ s # Live /\ writing'[s] = writing[s]
    BY <1>1, <1>3 DEF Snapshots, DbTypeOK
<1>8. writing'[Live] = NoWrite
    BY <1>2, <1>3 DEF DbTypeOK, DbTypeOK, Known, EngineInv
<1>9. OneTimeline'
    BY <1>1, <1>3, <1>6, <1>7, <1>8 DEF OneTimeline
<1>10. InputsAreDated'
  <2> DEFINE k == writing[Live].key
             e == [val |-> writing[Live].val, ch |-> writing[Live].ch]
  <2>1. /\ k \in Input /\ e.val = Present[k] /\ e.ch = Now
        /\ \A i \in Input : i # k => Since(input[Live][i], i)
    BY <1>1, <1>2 DEF InputsAreDated, DbTypeOK
  <2>2. input'[Live][k] = e /\ \A i \in Input : i # k => input'[Live][i] = input[Live][i]
    BY <1>1, <1>2, <1>3, <2>1 DEF DbTypeOK
  <2> HIDE DEF k, e
  <2>3. Since(e, k)
    <3>1. Now \in Nat /\ Present = Then(Now)
      BY <1>1, HistoryIs
    <3>2. Now <= Now /\ \A n \in Now..Now : n = Now
      BY <3>1
    <3> QED  BY <2>1, <3>1, <3>2 DEF Since
  <2>4. \A i \in Input : Since(input'[Live][i], i)
    BY <2>1, <2>2, <2>3
  <2>5. \A s \in Snapshots : copied'[s] = 0
    BY <1>1, <1>2, <1>3 DEF OneTimeline
  <2>6. \A n : n \notin 1..(0 - 1)
    OBVIOUS
  <2> QED  BY <1>6, <1>8, <2>4, <2>5, <2>6 DEF InputsAreDated
<1> QED  BY <1>5, <1>9, <1>10 DEF MeaningInv, KeptInv

LEMMA SnapshotRuntimeMeans ==
    ASSUME Known, NEW s \in View, SnapshotRuntime(s), UNCHANGED <<cellVars, taskVars, shared, regVars>>,
           FamilyFrozen'
    PROVE  MeaningInv'
<1>1. DbTypeOK /\ OneTimeline /\ InputsAreDated /\ KeptInv
    BY DEF Known, EngineInv, MeaningInv, KeptInv
<1>2. /\ s \in Snapshots /\ s # Live /\ Live \in View /\ copied[s] = 0
      /\ rev' = [rev EXCEPT ![s] = rev[Live]] /\ hist' = [hist EXCEPT ![s] = hist[Live]]
      /\ copied' = [copied EXCEPT ![s] = 1]
      /\ UNCHANGED <<diverged, input, writing, cell, shared, taskVars, regVars>>
    BY LiveIsAView DEF SnapshotRuntime, Snapshots, cellVars
<1>3. /\ rev'[Live] = rev[Live] /\ hist'[Live] = hist[Live] /\ copied'[Live] = copied[Live]
      /\ rev'[s] = rev[Live] /\ hist'[s] = hist[Live] /\ copied'[s] = 1
      /\ \A w \in View : w # s => rev'[w] = rev[w] /\ hist'[w] = hist[w] /\ copied'[w] = copied[w]
    BY <1>1, <1>2 DEF DbTypeOK
<1>4. OnlyCopies
  <2>1. ~Alone'
    BY <1>2, <1>3 DEF Alone
  <2> QED  BY <1>2, <1>3, <2>1 DEF OnlyCopies, SamePast
<1>5. KeptInv'
    BY <1>1, <1>4, CopiesAreSound
<1>6. /\ Now' = Now /\ Present' = Present /\ (\A n : Then(n)' = Then(n))
      /\ \A e, i : Since(e, i)' <=> Since(e, i)
    BY <1>4, PastStays DEF OnlyCopies
<1>7. writing[Live] = NoWrite
    BY <1>2, <1>3 DEF FamilyFrozen
<1>8. OneTimeline'
  <2>1. \A v \in View : ~diverged'[v] /\ (copied'[v] # 0 => rev'[v] = Now /\ hist'[v] = hist[Live])
    BY <1>1, <1>2, <1>3 DEF OneTimeline, Now
  <2>2. \A w \in Snapshots : copied'[w] = 0 => w # s /\ copied[w] = 0
    BY <1>3 DEF Snapshots
  <2> QED  BY <1>1, <1>2, <1>3, <1>6, <1>7, <2>1, <2>2 DEF OneTimeline
<1>9. InputsAreDated'
  <2>1. \A w \in Snapshots : \A n \in 1..(copied'[w] - 1) : n \in 1..(copied[w] - 1)
    <3> TAKE w \in Snapshots
    <3>1. \A n : n \notin 1..(1 - 1)
      OBVIOUS
    <3> QED  BY <1>3, <3>1 DEF Snapshots
  <2> QED  BY <1>1, <1>2, <1>6, <2>1 DEF InputsAreDated
<1> QED  BY <1>5, <1>8, <1>9 DEF MeaningInv, KeptInv

LEMMA CopyingMeans ==
    ASSUME Known, NEW s \in View, NEW d, Copying(s, d),
           \/ d \in Input /\ input' = [input EXCEPT ![s][d] = input[Live][d]]
           \/ d \in Query /\ input' = input,
           copied' = [copied EXCEPT ![s] = copied[s] + 1], UNCHANGED <<rev, diverged, writing, hist>>,
           KeptInv', \A w \in View, x \in Query : w # s => cell'[w][x] = cell[w][x]
    PROVE  MeaningInv'
<1>1. DbTypeOK /\ OneTimeline /\ InputsAreDated
    BY DEF Known, EngineInv, MeaningInv
<1>2. /\ s \in Snapshots /\ s # Live /\ Live \in View /\ copied[s] \in Nat /\ copied[s] # 0
      /\ Ingredients[copied[s]] = d /\ d \in Input \union Query
    BY LiveIsAView DEF Copying, Snapshots
<1>3. /\ copied'[s] = copied[s] + 1 /\ \A w \in View : w # s => copied'[w] = copied[w]
    BY <1>1 DEF DbTypeOK
<1>4. /\ Now' = Now /\ Present' = Present /\ (\A n : Then(n)' = Then(n))
      /\ \A e, i : Since(e, i)' <=> Since(e, i)
    BY PastStays DEF SamePast
<1>5. OneTimeline'
  <2>1. \A v \in View : copied'[v] # 0 <=> copied[v] # 0
    <3> TAKE v \in View
    <3> QED  BY <1>2, <1>3
  <2>2. \A w \in Snapshots, x \in Query : w \in View /\ (copied[w] = 0 => cell'[w][x] = cell[w][x])
    BY <1>2 DEF Snapshots
  <2> QED  BY <1>1, <1>2, <1>4, <2>1, <2>2 DEF OneTimeline, Snapshots
<1>6. InputsAreDated'
  <2>1. input'[Live] = input[Live]
    BY <1>1, <1>2 DEF DbTypeOK
  <2>2. \A w \in Snapshots : \A n \in 1..(copied'[w] - 1) :
            Ingredients[n] \in Input => input'[w][Ingredients[n]] = input[Live][Ingredients[n]]
    <3> TAKE w \in Snapshots
    <3> TAKE n \in 1..(copied'[w] - 1)
    <3> HAVE Ingredients[n] \in Input
    <3>0. w \in View
      BY DEF Snapshots
    <3>1. CASE w # s
      <4>1. copied'[w] = copied[w] /\ input'[w] = input[w]
        BY <1>1, <1>3, <3>0, <3>1 DEF DbTypeOK
      <4> QED  BY <1>1, <4>1 DEF InputsAreDated
    <3>2. CASE w = s /\ n = copied[s]
      <4>1. Ingredients[n] = d /\ d \in Input /\ d \notin Query
        BY <1>2, <3>2, IngredientsListed
      <4> QED  BY <1>1, <3>2, <4>1 DEF DbTypeOK
    <3>3. CASE w = s /\ n # copied[s]
      <4>1. n \in 1..(copied[s] - 1)
        BY <1>2, <1>3, <3>3
      <4>2. input[s][Ingredients[n]] = input[Live][Ingredients[n]]
        BY <1>1, <1>2, <4>1 DEF InputsAreDated
      <4> QED  BY <1>1, <3>3, <4>2 DEF DbTypeOK
    <3> QED  BY <3>1, <3>2, <3>3
  <2> QED  BY <1>1, <1>4, <2>1, <2>2 DEF InputsAreDated
<1> QED  BY <1>5, <1>6 DEF MeaningInv, KeptInv

LEMMA SnapshotMeans ==
    ASSUME Known, NEW s \in View, Snapshot(s), FamilyFrozen'
    PROVE  MeaningInv'
<1>1. DbTypeOK /\ KeptInv /\ ReadyHomes /\ TasksTyped /\ CellsTyped
    BY DEF Known, EngineInv, MeaningInv, KeptInv, QuietInv
<1>2. ASSUME NEW d, Copying(s, d)
      PROVE  s \in Snapshots /\ s # Live /\ copied[s] # 0 /\ \A t \in Task : home[t] # s \/ home[t] = NoView
  <2>1. s \in Snapshots /\ copied[s] \in 1..Len(Ingredients) /\ Len(Ingredients) \in Nat
    BY <1>2, IngredientsListed, LenProperties DEF Copying
  <2>2. ~Ready(s)
    BY <2>1 DEF Ready
  <2> QED  BY <1>1, <2>1, <2>2 DEF Snapshots, ReadyHomes
<1>3. CASE SnapshotRuntime(s) /\ UNCHANGED <<cellVars, taskVars, shared, regVars>>
    BY <1>3, SnapshotRuntimeMeans
<1>4. ASSUME NEW i \in Input, SnapshotInput(s, i), UNCHANGED <<cellVars, taskVars, shared, regVars>>
      PROVE  MeaningInv'
  <2>1. /\ Copying(s, i) /\ input' = [input EXCEPT ![s][i] = input[Live][i]]
        /\ copied' = [copied EXCEPT ![s] = copied[s] + 1]
        /\ UNCHANGED <<rev, diverged, writing, hist, cell, shared, taskVars, regVars>>
    BY <1>4 DEF SnapshotInput, cellVars
  <2>2. OnlyCopies
    <3>1. copied'[s] # 0 /\ s \in Snapshots
      BY <1>1, <2>1 DEF Copying, DbTypeOK
    <3> QED  BY <2>1, <3>1 DEF OnlyCopies, SamePast, Alone
  <2>3. KeptInv'
    BY <1>1, <2>2, CopiesAreSound
  <2> QED  BY <2>1, <2>3, CopyingMeans
<1>5. ASSUME NEW q \in Query, SnapshotCells(s, q) PROVE MeaningInv'
  <2> DEFINE c == IF cell[Live][q].st = "Ready" THEN cell[Live][q] ELSE Vacant
  <2>1. /\ Copying(s, q) /\ cell' = [cell EXCEPT ![s][q] = c]
        /\ copied' = [copied EXCEPT ![s] = copied[s] + 1]
        /\ UNCHANGED <<rev, diverged, input, writing, hist, shared, taskVars, regVars>>
    BY <1>5 DEF SnapshotCells
  <2>2. c \in {Vacant, cell[Live][q]}
    OBVIOUS
  <2> HIDE DEF c
  <2>3. s # Live /\ copied[s] # 0 /\ s \in Snapshots /\ \A t \in Task : home[t] # s \/ home[t] = NoView
    BY <1>2, <2>1
  <2>4. \A w \in View : w # s => cell'[w] = cell[w]
    BY <1>1, <2>1 DEF CellsTyped
  <2>5. \A v \in View, x \in Query : cell'[v][x] \in {cell[v][x], Vacant, cell[Live][x]}
    BY <1>1, <2>1, <2>2 DEF CellsTyped
  <2>6. OnlyCopies
    <3>1. ~Alone'
      <4>1. copied'[s] # 0
        BY <1>1, <2>1 DEF Copying, DbTypeOK
      <4> QED  BY <2>3, <4>1 DEF Alone
    <3>2. \A t \in Task : home[t] # NoView => cell'[home[t]] = cell[home[t]]
      BY <1>1, <2>3, <2>4 DEF TasksTyped
    <3> QED  BY <2>1, <2>5, <3>1, <3>2 DEF OnlyCopies, SamePast
  <2>7. KeptInv'
    BY <1>1, <2>6, CopiesAreSound
  <2> QED  BY <2>1, <2>4, <2>7, CopyingMeans
<1> QED  BY <1>3, <1>4, <1>5 DEF Snapshot

\* The database is written before the first snapshot, and while nobody uses it.
LEMMA WrittenAlone ==
    ASSUME Known, NEW v \in View, NEW i \in Input, NEW x \in Stored, Bump(v, i, x),
           UNCHANGED <<cellVars, taskVars, shared, regVars>>,
           QuietWrites', FamilyFrozen', SnapshotsReadOnly'
    PROVE  /\ v = Live /\ Alone /\ writing'[Live] # NoWrite
           /\ \A t \in Task : home[t] = NoView
           /\ \A t \in Task, y \in Query : frame[t][y].pc = "idle"
           /\ \A h \in Holder : role[h] = "idle"
<1>1. DbTypeOK /\ TasksTyped /\ ReadyHomes /\ RolesFit
    BY DEF Known, EngineInv, MeaningInv, QuietInv
<1>2. /\ copied' = copied /\ home' = home
      /\ writing' = [writing EXCEPT ![v] = [key |-> i, val |-> x, ch |-> rev[v] + 1]]
      /\ rev[v] \in Revision /\ rev[v] < MaxRev
    BY <1>1 DEF Bump, taskVars, DbTypeOK
<1>3. rev[v] + 1 \in Revision
    BY <1>2, MaxRevIsNat DEF Revision
<1>4. writing'[v] # NoWrite
    BY <1>1, <1>2, <1>3, NonesAreNone DEF DbTypeOK
<1>5. v = Live
    BY <1>4 DEF SnapshotsReadOnly, Snapshots
<1>6. Alone
    BY <1>2, <1>4, <1>5 DEF FamilyFrozen, Alone
<1>7. \A t \in Task : home[t] = NoView
  <2> SUFFICES ASSUME NEW t \in Task, home[t] # NoView PROVE FALSE
    OBVIOUS
  <2>1. home[t] \in View /\ home[t] # Live
    BY <1>1, <1>2, <1>4, <1>5 DEF QuietWrites, TasksTyped
  <2>2. copied[home[t]] = 0 /\ copied[home[t]] = Len(Ingredients) + 1
    BY <1>1, <1>6, <2>1 DEF Alone, Snapshots, ReadyHomes, Ready
  <2>3. Len(Ingredients) \in Nat
    BY IngredientsListed, LenProperties
  <2> QED  BY <2>2, <2>3
<1>8. \A t \in Task, y \in Query : frame[t][y].pc = "idle"
  <2> TAKE t \in Task, y \in Query
  <2>1. stack[t] = <<>>
    BY <1>1, <1>7 DEF TasksTyped
  <2> QED  BY <1>1, <2>1, EmptySeq DEF TasksTyped, OnStack
<1>9. \A h \in Holder : role[h] = "idle"
    BY <1>1, <1>8 DEF RolesFit, RoleFits, Holder
<1> QED  BY <1>4, <1>5, <1>6, <1>7, <1>8, <1>9

\* What is verified now depends on nothing that is older.
LEMMA VerifiedIsKept ==
    ASSUME Known, NEW m, AllTouched(m.deps), m.deps \in DepLists, Alone,
           \A t \in Task, y \in Query : frame[t][y].pc = "idle",
           \A h \in Holder : role[h] = "idle"
    PROVE  Kept(m, Now)
<1>1. DbTypeOK /\ TruthIsMeant /\ OneTimeline /\ CellsAreSound
    BY DEF Known, MeantPrograms, EngineInv, MeaningInv
<1> SUFFICES ASSUME NEW i \in 1..Len(m.deps), m.deps[i] \in Query,
                    NEW val \in QueryValue, NEW ch \in Revision, Stamp(m.deps[i], val, ch)
             PROVE  val = Truth(m.deps[i], Present).val
    BY <1>1, HistoryIs DEF Kept
<1> DEFINE d == m.deps[i]
<1>2. Touched(d) /\ d \in Query /\ Stamp(d, val, ch)
    BY DEF AllTouched
<1> HIDE DEF d
<1>3. CASE \E v \in View : cell[v][d].st = "Ready" /\ cell[v][d].val = val /\ cell[v][d].ch = ch
  <2>1. PICK v \in View : cell[v][d].st = "Ready" /\ cell[v][d].val = val
    BY <1>3
  <2>2. v = Live
    <3>1. ASSUME v # Live PROVE FALSE
      <4>1. cell[v][d] = Vacant
        BY <1>1, <1>2, <3>1 DEF Alone, Snapshots, OneTimeline
      <4> QED  BY <2>1, <4>1 DEF Vacant
    <3> QED  BY <3>1
  <2> DEFINE c == cell[Live][d]
  <2>3. c.ver = Now /\ Usable(d, c, c.ver)
    BY <1>1, <1>2, <2>1, <2>2 DEF Touched, CellTouched, CellsAreSound
  <2>4. Truth(d, Present) = [ok |-> TRUE, val |-> c.val]
    <3>1. Sound(d, c, Now)
      BY <2>3 DEF Usable
    <3> HIDE DEF c
    <3> QED  BY <1>2, <3>1, SoundNow
  <2> QED  BY <2>1, <2>2, <2>4 DEF d
<1>4. CASE shared[Live][d] # NoRecord /\ shared[Live][d].val = val /\ shared[Live][d].ch = ch
  <2>1. shared[Live][d].val = Truth(d, Present).val
    BY <1>2, <1>4 DEF Touched, RecordTouched, PutPending
  <2> QED  BY <1>4, <2>1 DEF d
<1>5. ~\E t \in Task : FrameStamp(frame[t][d], val, ch)
    BY <1>2 DEF FrameStamp
<1>6. ~\E h \in Holder : FlightOf(h, d)
    BY DEF FlightOf
<1> QED  BY <1>2, <1>3, <1>4, <1>5, <1>6 DEF Stamp

LEMMA BeginWriteMeans ==
    ASSUME Known, NEW v \in View, BeginWrite(v), QuietWrites', FamilyFrozen', SnapshotsReadOnly'
    PROVE  MeaningInv'
<1>1. PICK i \in Input, x \in Stored : Bump(v, i, x)
    BY DEF BeginWrite
<1>2. UNCHANGED <<cell, shared, taskVars, regVars>> /\ UNCHANGED <<cellVars, taskVars, shared, regVars>>
    BY DEF BeginWrite, cellVars
<1>3. /\ v = Live /\ Alone /\ writing'[Live] # NoWrite
      /\ \A t \in Task : home[t] = NoView
      /\ \A t \in Task, y \in Query : frame[t][y].pc = "idle"
      /\ \A h \in Holder : role[h] = "idle"
    BY <1>1, <1>2, WrittenAlone
<1>4. /\ DbTypeOK /\ OneTimeline /\ InputsAreDated /\ CellsAreSound /\ RecordsAreSound /\ StacksAreAsked
      /\ RolesFit /\ NothingLags /\ CellsTyped /\ Live \in View
    BY <1>3, LiveIsAView DEF Known, EngineInv, MeaningInv
<1>5. /\ cell' = cell /\ shared' = shared /\ home' = home /\ stack' = stack /\ frame' = frame
      /\ role' = role /\ keyOf' = keyOf /\ entryOf' = entryOf
      /\ entryState' = entryState /\ entryResult' = entryResult
    BY <1>2 DEF taskVars, regVars
<1> DEFINE ins == [Contents(Live) EXCEPT ![i] = x]
           w == [key |-> i, val |-> x, ch |-> Now + 1]
<1>6. /\ rev' = [rev EXCEPT ![Live] = Now + 1] /\ hist' = [hist EXCEPT ![Live] = Append(hist[Live], ins)]
      /\ writing' = [writing EXCEPT ![Live] = w] /\ writing[Live] = NoWrite
      /\ UNCHANGED <<diverged, input, copied>>
    BY <1>1, <1>3 DEF Bump, Now
<1>7. /\ Now \in Nat /\ hist[Live] \in Seq(Valuation) /\ Len(hist[Live]) = Now + 1
      /\ Present \in Valuation /\ Present = Contents(Live) /\ Present = Then(Now)
    BY <1>4, HistoryIs
<1>8. /\ w.key = i /\ w.val = x /\ w.ch = Now + 1
      /\ ins \in Valuation /\ ins[i] = x /\ \A j \in Input : j # i => ins[j] = Present[j]
    BY <1>7 DEF Valuation
<1> HIDE DEF ins, w
<1>9. /\ Now' = Now + 1 /\ writing'[Live] = w /\ hist'[Live] = Append(hist[Live], ins)
      /\ \A s \in Snapshots : s \in View /\ writing'[s] = writing[s] /\ rev'[s] = rev[s] /\ hist'[s] = hist[s]
    BY <1>4, <1>6 DEF Now, DbTypeOK, Snapshots
<1>10. Present' = ins /\ \A n \in 0..Now : Then(n)' = Then(n)
  <2>1. /\ Append(hist[Live], ins)[Now + 2] = ins
        /\ \A k \in 1..(Now + 1) : Append(hist[Live], ins)[k] = hist[Live][k]
    BY <1>7, <1>8, AppendProperties
  <2>2. \A n \in 0..Now : n + 1 \in 1..(Now + 1)
    BY <1>7
  <2>3. (Now + 1) + 1 = Now + 2
    BY <1>7
  <2>4. Present' = hist'[Live][Now' + 1]
    BY DEF Present, Then
  <2>5. \A n \in 0..Now : Then(n)' = hist'[Live][n + 1]
    BY DEF Then
  <2> QED  BY <1>9, <2>1, <2>2, <2>3, <2>4, <2>5 DEF Then
<1>11. OneTimeline'
    BY <1>3, <1>4, <1>5, <1>6, <1>9 DEF OneTimeline, Alone, Snapshots, Now
<1>12. InputsAreDated'
  <2>1. ASSUME NEW j \in Input, j # i PROVE Since(input[Live][j], j)'
    <3>1. Since(input[Live][j], j) /\ input[Live][j].ch \in Nat
      BY <1>4, <1>6, RevisionsAreNat DEF InputsAreDated, DbTypeOK
    <3> DEFINE e == input[Live][j]
    <3> SUFFICES e.val = ins[j] /\ e.ch <= Now + 1 /\ \A n \in e.ch..(Now + 1) : Then(n)'[j] = e.val
      BY <1>6, <1>9, <1>10 DEF Since
    <3> HIDE DEF e
    <3>2. e.val = Present[j] /\ e.ch <= Now /\ (\A n \in e.ch..Now : Then(n)[j] = e.val) /\ e.ch \in Nat
      BY <3>1 DEF Since, e
    <3>3. ASSUME NEW n \in e.ch..(Now + 1) PROVE Then(n)'[j] = e.val
      <4>1. CASE n \in e.ch..Now
        <5>1. n \in 0..Now
          BY <1>7, <3>2, <4>1
        <5> QED  BY <1>10, <3>2, <4>1, <5>1
      <4>2. CASE n = Now + 1
        <5>1. Then(n)' = Present'
          BY <1>9, <4>2 DEF Present, Then
        <5> QED  BY <1>8, <1>10, <2>1, <3>2, <5>1
      <4> QED  BY <1>7, <3>2, <4>1, <4>2
    <3> QED  BY <1>7, <1>8, <2>1, <3>2, <3>3
  <2>2. \A s \in Snapshots : copied'[s] = 0
    BY <1>3, <1>6 DEF Alone
  <2>3. \A n : n \notin 1..(0 - 1)
    OBVIOUS
  <2> QED  BY <1>3, <1>8, <1>9, <1>10, <2>1, <2>2, <2>3 DEF InputsAreDated
<1>13. \A y \in Query, val \in QueryValue, ch \in Revision : Stamp(y, val, ch)' <=> Stamp(y, val, ch)
    BY <1>5 DEF Stamp, FlightOf, OutcomeIs, Payload
<1>14. ASSUME NEW y \in Query, NEW m, NEW n, Usable(y, m, n), n = Now => AllTouched(m.deps)
       PROVE  Usable(y, m, n)'
  <2>1. Sound(y, m, n) /\ n \in 0..Now /\ n \in 0..(Now + 1)
    BY <1>7, <1>14 DEF Usable, Sound
  <2>2. Then(n)' = Then(n)
    BY <1>10, <2>1
  <2>3. Sound(y, m, n)'
    BY <1>9, <2>1, <2>2 DEF Sound, Computes
  <2>4. Kept(m, n)
    <3>1. CASE n < Now
      BY <1>14, <3>1 DEF Usable
    <3>2. CASE n = Now
      <4>1. m.deps \in DepLists
        BY <2>1 DEF Sound
      <4> QED  BY <1>3, <1>14, <3>2, <4>1, VerifiedIsKept
    <3> QED  BY <1>7, <2>1, <3>1, <3>2
  <2>5. Kept(m, n)'
    BY <1>13, <2>2, <2>4 DEF Kept
  <2> QED  BY <2>3, <2>5 DEF Usable
<1>15. CellsAreSound'
  <2> SUFFICES ASSUME NEW u \in View, NEW y \in Query, NEW c, c = cell[u][y]
               PROVE  /\ c.st = "Ready" => Usable(y, c, c.ver)'
                      /\ c.st = "Poisoned" =>
                            c.ver <= Now + 1 /\ Truth(y, Then(c.ver)') = [ok |-> FALSE, val |-> c.err]
    BY <1>5, <1>9 DEF CellsAreSound
  <2>1. /\ c.st = "Ready" => Usable(y, c, c.ver)
        /\ c.st = "Poisoned" => c.ver <= Now /\ Truth(y, Then(c.ver)) = [ok |-> FALSE, val |-> c.err]
        /\ c \in Cell
    BY <1>4 DEF CellsAreSound, CellsTyped
  <2>2. ASSUME c.st = "Ready" PROVE Usable(y, c, c.ver)'
    <3>1. u = Live
      <4>1. u # Live => c = Vacant
        BY <1>3, <1>4 DEF Alone, Snapshots, OneTimeline
      <4> QED  BY <2>2, <4>1 DEF Vacant
    <3>2. c.ver = Now => AllTouched(c.deps)
      BY <1>4, <2>2, <3>1 DEF NothingLags
    <3> QED  BY <1>14, <2>1, <2>2, <3>2
  <2>3. ASSUME c.st = "Poisoned"
        PROVE  c.ver <= Now + 1 /\ Truth(y, Then(c.ver)') = [ok |-> FALSE, val |-> c.err]
    <3>1. c.ver \in Nat
      BY <2>1, <2>3, CellsAre, RevisionsAreNat
    <3>2. c.ver \in 0..Now /\ c.ver <= Now + 1
      BY <1>7, <2>1, <2>3, <3>1
    <3> QED  BY <1>10, <2>1, <2>3, <3>2
  <2> QED  BY <2>2, <2>3
<1>16. RecordsAreSound'
  <2> SUFFICES ASSUME NEW y \in Query, NEW r, r = shared[Live][y], r # NoRecord
               PROVE  Usable(y, r, r.ver)'
    BY <1>5 DEF RecordsAreSound
  <2>1. Usable(y, r, r.ver) /\ (r.ver = Now => AllTouched(r.deps))
    BY <1>4 DEF RecordsAreSound, NothingLags
  <2> QED  BY <1>14, <2>1
<1>17. FramesAreSound'
    BY <1>3, <1>5 DEF FramesAreSound, FrameSound, Telling
<1>18. StacksAreAsked' /\ RolesFit'
    BY <1>4, <1>5 DEF StacksAreAsked, RolesFit
<1>19. CellsAreRevalidated'
    BY <1>3, <1>5 DEF CellsAreRevalidated
<1>20. FlightsAreSound'
    BY <1>3, <1>5 DEF FlightsAreSound, FlightOf, Holder
<1>21. NothingLags'
  <2>1. \A y \in Query : ~PutPending(y) /\ ~PutPending(y)'
    BY <1>3, <1>5 DEF PutPending
  <2>2. ASSUME NEW y \in Query PROVE (cell[Live][y].st = "Ready" => cell[Live][y].ver # Now + 1)
                                     /\ (shared[Live][y] # NoRecord => shared[Live][y].ver # Now + 1)
    <3>1. cell[Live][y].st = "Ready" => cell[Live][y].ver \in 0..Now
      BY <1>4 DEF CellsAreSound, Usable, Sound
    <3>2. shared[Live][y] # NoRecord => shared[Live][y].ver \in 0..Now
      BY <1>4 DEF RecordsAreSound, Usable, Sound
    <3>3. \A n \in 0..Now : n # Now + 1
      BY <1>7
    <3> QED  BY <3>1, <3>2, <3>3
  <2>3. \A t \in Task, y \in Query : DepsTouched(frame[t][y])' /\ ~Tells(frame[t][y])'
    BY <1>3, <1>5 DEF DepsTouched, Tells
  <2>4. \A h \in Holder, y \in Query : ~FlightOf(h, y)'
    BY <1>3, <1>5 DEF FlightOf
  <2>5. \A y \in Query :
          cell[Live][y].st = "Ready" => shared[Live][y] = NoRecord \/ shared[Live][y].val = cell[Live][y].val
    BY <1>4, <2>1 DEF NothingLags
  <2> QED  BY <1>5, <1>9, <2>1, <2>2, <2>3, <2>4, <2>5 DEF NothingLags
<1> QED  BY <1>11, <1>12, <1>15, <1>16, <1>17, <1>18, <1>19, <1>20, <1>21 DEF MeaningInv

-----------------------------------------------------------------------------
(* MeaningInv is an inductive invariant *)

LEMMA InitMeans == Init => MeaningInv
<1> SUFFICES ASSUME Init PROVE MeaningInv
    OBVIOUS
<1> DEFINE none == [i \in Input |-> None]
<1>1. /\ \A v \in View : rev[v] = 0 /\ ~diverged[v] /\ writing[v] = NoWrite /\ hist[v] = <<none>>
      /\ \A v \in View, i \in Input : input[v][i].val = None /\ input[v][i].ch = 0
      /\ \A v \in View : copied[v] = IF v = Live THEN Len(Ingredients) + 1 ELSE 0
      /\ \A v \in View, x \in Query : cell[v][x] = Vacant /\ shared[v][x] = NoRecord
      /\ \A t \in Task : home[t] = NoView /\ stack[t] = <<>>
      /\ \A t \in Task, x \in Query : frame[t][x] = Idle
      /\ \A h \in Holder : role[h] = "idle"
    BY DEF Init, DbInit, Reg!Init
<1>2. Live \in View /\ Len(Ingredients) \in Nat /\ \A s \in Snapshots : s \in View /\ s # Live
    BY LiveIsAView, IngredientsListed, LenProperties DEF Snapshots
<1>3. Now = 0 /\ Present = none /\ Then(0) = none /\ copied[Live] # 0
  <2>1. <<none>>[1] = none /\ 0 + 1 = 1
    OBVIOUS
  <2> HIDE DEF none
  <2> QED  BY <1>1, <1>2, <2>1 DEF Now, Present, Then
<1>4. \A i \in Input : none[i] = None
    OBVIOUS
<1> HIDE DEF none
<1>5. OneTimeline
    BY <1>1, <1>2, <1>3 DEF OneTimeline
<1>6. InputsAreDated
  <2>1. \A n \in 0..0 : n = 0
    OBVIOUS
  <2>2. \A i \in Input : Since(input[Live][i], i)
    BY <1>1, <1>2, <1>3, <1>4, <2>1 DEF Since
  <2>3. \A n : n \notin 1..(0 - 1)
    OBVIOUS
  <2> QED  BY <1>1, <1>2, <2>2, <2>3 DEF InputsAreDated
<1>7. CellsAreSound /\ RecordsAreSound
    BY <1>1, <1>2 DEF CellsAreSound, RecordsAreSound, Vacant
<1>8. Idle.pc = "idle"
    BY BlanksAre
<1>9. FramesAreSound /\ CellsAreRevalidated
    BY <1>1, <1>8 DEF FramesAreSound, FrameSound, Telling, CellsAreRevalidated
<1>10. StacksAreAsked
  <2>1. Len(<<>>) = 0 /\ (\A n : n \notin 1..0) /\ \A n : n \notin 1..(0 - 1)
    OBVIOUS
  <2> QED  BY <1>1, <2>1 DEF StacksAreAsked, StackIsAsked
<1>11. RolesFit /\ FlightsAreSound
    BY <1>1 DEF RolesFit, RoleFits, FlightsAreSound, FlightOf, Holder
<1>12. NothingLags
    BY <1>1, <1>2, <1>8 DEF NothingLags, FlightOf, PutPending, DepsTouched, Tells, Vacant
<1> QED  BY <1>5, <1>6, <1>7, <1>9, <1>10, <1>11, <1>12 DEF MeaningInv

LEMMA NextMeans ==
    ASSUME Known, [ReadOnlyNext]_vars
    PROVE  MeaningInv'
<1>1. CASE UNCHANGED vars
  <2>1. UNCHANGED <<dbVars, cell, taskVars>> /\ shared' = shared /\ UNCHANGED regVars
    BY <1>1 DEF vars, cellVars
  <2>2. RolesFit'
    BY <2>1 DEF Known, MeaningInv, RolesFit, taskVars, regVars
  <2> QED  BY <2>1, <2>2, RecordStays, StillMeans
<1>2. CASE Calls /\ QuietWrites' /\ FamilyFrozen' /\ SnapshotsReadOnly'
  <2>1. ASSUME NEW t \in Task, Ask(t) PROVE MeaningInv'
    BY <2>1, GetMeans DEF Ask
  <2>2. ASSUME NEW v \in View, BeginWrite(v) \/ Snapshot(v) PROVE MeaningInv'
    BY <1>2, <2>2, BeginWriteMeans, SnapshotMeans
  <2> QED  BY <1>2, <2>1, <2>2 DEF Calls
<1>3. ASSUME NEW t \in Task, Step(t) \/ Cancel(t) PROVE MeaningInv'
  <2>1. CASE ReadRevision(t) \/ Observe(t) \/ Check(t) \/ Await(t) \/ Touch(t) \/ Verify(t) \/ Raise(t) \/ Start(t)
    BY <2>1, ReadRevisionMeans, ObserveMeans, CheckMeans, TouchMeans, VerifyMeans, StartMeans
  <2>2. CASE \/ SharedGet(t) \/ Adopt(t) \/ SharedPut(t)
             \/ TryLead(t) \/ Vacate(t) \/ Follow(t) \/ TakeOutcome(t)
    BY <2>2, SharedGetMeans, AdoptMeans, SharedPutMeans, TryLeadMeans, VacateMeans, FollowMeans, TakeOutcomeMeans
  <2>3. CASE \/ ReadInput(t) \/ ReadQuery(t) \/ Finish(t) \/ Poison(t)
             \/ SettleFlight(t) \/ PublishFlight(t) \/ Drop(t) \/ Cancel(t)
    BY <2>3, ReadInputMeans, ReadQueryMeans, FinishMeans, PoisonMeans, SettleMeans, PublishMeans,
       DropMeans, ReadRevisionMeans
  <2> QED  BY <1>3, <2>1, <2>2, <2>3 DEF Step
<1>4. ASSUME NEW v \in View, EndWrite(v) PROVE MeaningInv'
    BY <1>4, EndWriteMeans
<1>5. ASSUME NEW v \in View, NEW q \in Query, Evict(v, q) PROVE MeaningInv'
    BY <1>5, EvictMeans
<1> QED  BY <1>1, <1>2, <1>3, <1>4, <1>5 DEF ReadOnlyNext, Runs

LEMMA ReadOnlyIsQuiet == ReadOnlySpec => QuietSpec
<1>1. [ReadOnlyNext]_vars => [QuietNext]_vars
    BY DEF ReadOnlyNext, QuietNext
<1> QED  BY <1>1, PTL DEF ReadOnlySpec, QuietSpec

(* While only the database is written, before it has snapshots and while    *)
(* nobody accesses it, all that is kept anywhere of a query - cells, shared *)
(* records, the outcome of flights, what accesses carry - is what the query *)
(* means at the revision it is kept for, and may be revalidated.            *)
THEOREM MeaningInvariance ==
    ASSUME MeantPrograms
    PROVE  ReadOnlySpec => []Known
<1>1. Init => Known
    BY InitHoldsEngineInv, InitHoldsQuietInv, InitMeans DEF Known
<1>2. Known /\ [ReadOnlyNext]_vars => Known'
  <2> SUFFICES ASSUME Known, [ReadOnlyNext]_vars PROVE Known'
    OBVIOUS
  <2>1. [QuietNext]_vars /\ [Next]_vars
    BY QuietNextIsNext DEF ReadOnlyNext, QuietNext
  <2>2. EngineInv' /\ QuietInv'
    BY <2>1, NextKeepsEngineInv, NextKeepsQuietInv DEF Known
  <2>3. MeaningInv'
    BY NextMeans
  <2> QED  BY <2>2, <2>3 DEF Known
<1> QED  BY <1>1, <1>2, PTL DEF ReadOnlySpec

-----------------------------------------------------------------------------
(* What it means for cells and records *)

LEMMA ViewIs ==
    ASSUME Known, NEW v \in View, copied[v] # 0
    PROVE  /\ rev[v] = Now /\ hist[v] = hist[Live] /\ Contents(v) = Present /\ Scope(v) = Live
           /\ Now \in Nat /\ Present = Then(Now)
<1>1. DbTypeOK /\ OneTimeline
    BY DEF Known, EngineInv, MeaningInv
<1> QED  BY <1>1, HistoryIs DEF OneTimeline, Contents, Scope, Present, Then

LEMMA HeldMeans == Known => CellMeaning /\ StampsInOrder
<1> SUFFICES ASSUME Known PROVE CellMeaning /\ StampsInOrder
    OBVIOUS
<1>1. DbTypeOK /\ OneTimeline /\ CellsAreSound /\ TruthIsMeant
    BY DEF Known, EngineInv, MeaningInv, MeantPrograms
<1>2. ASSUME NEW v \in View, NEW x \in Query, NEW c, c = cell[v][x], c.st \in {"Ready", "Poisoned"}
      PROVE  /\ Truth(x, hist[v][c.ver + 1]) = Outcome(c)
             /\ c.st = "Ready" => c.ch <= c.ver /\ c.ver <= rev[v]
  <2>1. copied[v] # 0
    <3>1. copied[v] = 0 => c = Vacant
      BY <1>1, <1>2 DEF OneTimeline, Snapshots
    <3> QED  BY <1>2, <3>1 DEF Vacant
  <2>2. rev[v] = Now /\ hist[v] = hist[Live] /\ Now \in Nat
    BY <2>1, ViewIs
  <2>3. CASE c.st = "Ready"
    <3>1. Sound(x, c, c.ver)
      BY <1>1, <1>2, <2>3 DEF CellsAreSound, Usable
    <3>2. Truth(x, Then(c.ver)) = [ok |-> TRUE, val |-> c.val]
      BY <1>1, <3>1, SoundIsTruth
    <3>3. c.ver \in 0..Now /\ c.ch \in 0..c.ver
      BY <3>1 DEF Sound
    <3>4. c.ch <= c.ver /\ c.ver <= Now
      BY <2>2, <3>3
    <3> QED  BY <2>2, <2>3, <3>2, <3>4 DEF Then, Outcome
  <2>4. CASE c.st = "Poisoned"
    BY <1>1, <1>2, <2>2, <2>4 DEF CellsAreSound, Then, Outcome
  <2> QED  BY <1>2, <2>3, <2>4
<1> QED  BY <1>2 DEF CellMeaning, StampsInOrder

\* What would pass a revalidation is what its query computes now.
LEMMA RevalidatingMeans ==
    ASSUME Known, NEW v \in View, Ready(v), writing[v] = NoWrite,
           NEW x \in Query, NEW m, NEW n, Usable(x, m, n),
           n = Now \/ WouldRevalidate(v, m.deps, m.ch)
    PROVE  Truth(x, Contents(v)) = [ok |-> TRUE, val |-> m.val]
<1>1. /\ DbTypeOK /\ CellsTyped /\ OneTimeline /\ InputsAreDated /\ CellsAreSound /\ TruthIsMeant
    BY DEF Known, EngineInv, MeaningInv, MeantPrograms
<1>2. copied[v] # 0
  <2>1. Len(Ingredients) \in Nat
    BY IngredientsListed, LenProperties
  <2> QED  BY <2>1 DEF Ready
<1>3. /\ rev[v] = Now /\ Contents(v) = Present /\ Now \in Nat /\ Present = Then(Now)
      /\ Present \in Valuation
    BY <1>1, <1>2, ViewIs, HistoryIs
<1>4. Sound(x, m, n) /\ m.ch \in 0..n /\ n \in 0..Now /\ m.deps \in DepLists
    BY DEF Usable, Sound
<1>5. ASSUME n = Now PROVE Truth(x, Present) = [ok |-> TRUE, val |-> m.val]
    BY <1>4, <1>5, SoundNow
<1>6. ASSUME n # Now, WouldRevalidate(v, m.deps, m.ch)
      PROVE  Truth(x, Present) = [ok |-> TRUE, val |-> m.val]
  <2>1. n < Now /\ Kept(m, n)
    <3>1. n < Now
      BY <1>3, <1>4, <1>6
    <3> QED  BY <3>1 DEF Usable
  <2>2. ASSUME NEW i \in 1..Len(m.deps) PROVE Mean(m.deps[i], Then(n)) = Mean(m.deps[i], Present)
    <3> DEFINE d == m.deps[i]
    <3>1. d \in Input \union Query /\ DOMAIN m.deps = 1..Len(m.deps)
      BY <1>4, DepListIs
    <3>2. IF d \in Input THEN input[v][d].ch <= m.ch
          ELSE cell[v][d].st = "Ready" /\ cell[v][d].ver = Now /\ cell[v][d].ch <= m.ch
      BY <1>3, <1>6, <3>1 DEF WouldRevalidate
    <3>3. CASE d \in Input
      <4>1. Since(input[v][d], d)
        <5>1. CASE v = Live
          BY <1>1, <3>3, <5>1 DEF InputsAreDated
        <5>2. CASE v # Live
          <6>1. v \in Snapshots /\ writing[Live] = NoWrite
            BY <1>1, <1>2, <5>2 DEF OneTimeline, Snapshots
          <6>2. PICK k \in 1..Len(Ingredients) : Ingredients[k] = d
            BY <3>1, IngredientsListed
          <6>3. k \in 1..(copied[v] - 1)
            <7>1. Len(Ingredients) \in Nat
              BY IngredientsListed, LenProperties
            <7> QED  BY <6>2, <7>1 DEF Ready
          <6>4. input[v][d] = input[Live][d]
            BY <1>1, <3>3, <6>1, <6>2, <6>3 DEF InputsAreDated
          <6> QED  BY <1>1, <3>3, <6>1, <6>4 DEF InputsAreDated
        <5> QED  BY <5>1, <5>2
      <4>2. input[v][d].ch \in Nat
        BY <1>1, <3>3, RevisionsAreNat DEF DbTypeOK
      <4>3. n \in input[v][d].ch..Now
        BY <1>3, <1>4, <3>2, <3>3, <4>2
      <4>4. Then(n)[d] = Present[d]
        BY <4>1, <4>3 DEF Since
      <4> QED  BY <3>3, <4>4 DEF Mean
    <3>4. CASE d \notin Input
      <4> DEFINE c == cell[v][d]
      <4>1. d \in Query /\ c.st = "Ready" /\ c.ver = Now /\ c.ch <= m.ch /\ c \in Cell
        BY <1>1, <3>1, <3>2, <3>4 DEF CellsTyped
      <4>2. Stamp(d, c.val, c.ch)
        BY <4>1 DEF Stamp
      <4>3. Sound(d, c, Now)
        BY <1>1, <4>1 DEF CellsAreSound, Usable
      <4> HIDE DEF c
      <4>4. c.val \in QueryValue /\ c.ch \in Revision
        BY <4>1, CellsAre
      <4>5. c.val = Truth(d, Then(n)).val
        BY <2>1, <4>1, <4>2, <4>4 DEF Kept
      <4>6. Truth(d, Present) = [ok |-> TRUE, val |-> c.val]
        BY <4>1, <4>3, SoundNow
      <4> QED  BY <3>4, <4>5, <4>6 DEF Mean
    <3> QED  BY <3>3, <3>4
  <2>3. Computes(x, m.deps, m.val, Then(n))
    BY <1>4 DEF Sound
  <2>4. Computes(x, m.deps, m.val, Present)
    BY <2>2, <2>3, ComputedElsewhere
  <2> QED  BY <1>1, <1>3, <1>4, <2>4, ComputedIsMeant
<1> QED  BY <1>3, <1>5, <1>6

LEMMA RevalidationMeans == Known => RevalidationIsSound /\ AdoptionIsSound
<1> SUFFICES ASSUME Known PROVE RevalidationIsSound /\ AdoptionIsSound
    OBVIOUS
<1>1. CellsAreSound /\ RecordsAreSound /\ OneTimeline
    BY DEF Known, MeaningInv
<1>2. ASSUME NEW v \in View, NEW x \in Query, Ready(v), writing[v] = NoWrite,
             NEW c, c = cell[v][x], c.st = "Ready", WouldRevalidate(v, c.deps, c.ch)
      PROVE  Truth(x, Contents(v)) = Outcome(c)
  <2>1. Usable(x, c, c.ver)
    BY <1>1, <1>2 DEF CellsAreSound
  <2> QED  BY <1>2, <2>1, RevalidatingMeans DEF Outcome
<1>3. ASSUME NEW v \in View, NEW x \in Query, Ready(v), writing[v] = NoWrite,
             NEW r, r = shared[Scope(v)][x], r # NoRecord, r.ver = rev[v] \/ WouldRevalidate(v, r.deps, r.ch)
      PROVE  Truth(x, Contents(v)) = [ok |-> TRUE, val |-> r.val]
  <2>1. copied[v] # 0
    <3>1. Len(Ingredients) \in Nat
      BY IngredientsListed, LenProperties
    <3> QED  BY <1>3, <3>1 DEF Ready
  <2>2. rev[v] = Now /\ Scope(v) = Live
    BY <2>1, ViewIs
  <2>3. Usable(x, r, r.ver)
    BY <1>1, <1>3, <2>2 DEF RecordsAreSound
  <2> QED  BY <1>3, <2>2, <2>3, RevalidatingMeans
<1> QED  BY <1>2, <1>3 DEF RevalidationIsSound, AdoptionIsSound

(* What a cell holds is the meaning of its query at the revision it is       *)
(* verified at, a failure as much as a value (derived.rs:640-762).          *)
THEOREM CellsMean ==
    ASSUME MeantPrograms
    PROVE  ReadOnlySpec => []CellMeaning
<1> QED  BY HeldMeans, MeaningInvariance, PTL

(* changed_at is not after verified_at, nor that after the view's revision. *)
THEOREM StampsAreInOrder ==
    ASSUME MeantPrograms
    PROVE  ReadOnlySpec => []StampsInOrder
<1> QED  BY HeldMeans, MeaningInvariance, PTL

(* try_revalidate is sound: what passes it is the meaning of its query now, *)
(* though the query was not computed (derived.rs:771-804).                  *)
THEOREM RevalidatingIsSound ==
    ASSUME MeantPrograms
    PROVE  ReadOnlySpec => []RevalidationIsSound
<1> QED  BY RevalidationMeans, MeaningInvariance, PTL

(* Adopting a shared record is sound in every view that could               *)
(* (derived.rs:429-482).                                                    *)
THEOREM AdoptingIsSound ==
    ASSUME MeantPrograms
    PROVE  ReadOnlySpec => []AdoptionIsSound
<1> QED  BY RevalidationMeans, MeaningInvariance, PTL

-----------------------------------------------------------------------------
(* The engine provides the service *)

ContentsNow == [v \in View |-> IF copied[v] = 0 THEN NoContents ELSE Contents(v)]
AskedNow == [t \in Task |-> IF Active(t) THEN [view |-> home[t], query |-> stack[t][1]] ELSE NoAsk]

SameAsk(u) ==
    /\ stack'[u] = <<>> <=> stack[u] = <<>>
    /\ stack[u] # <<>> => home'[u] = home[u] /\ stack'[u][1] = stack[u][1]

LEMMA SameAsksAre ==
    ASSUME \A u \in Task : SameAsk(u)
    PROVE  AskedNow' = AskedNow
<1> QED  BY DEF AskedNow, Active, SameAsk

LEMMA SameContentsAre ==
    ASSUME UNCHANGED <<rev, hist>>, \A v \in View : copied'[v] = 0 <=> copied[v] = 0
    PROVE  ContentsNow' = ContentsNow
<1>1. \A v : Contents(v)' = Contents(v)
    BY DEF Contents
<1> QED  BY <1>1 DEF ContentsNow

\* What a step of an access does to the stack of its task.
LEMMA StepOnStack ==
    ASSUME NEW t \in Task, Step(t) \/ Cancel(t)
    PROVE  /\ UNCHANGED <<rev, hist, copied>>
           /\ \/ UNCHANGED <<home, stack, out>>
              \/ Active(t) /\ \E q \in Query : \E f : Call(t, q, f)
              \/ Active(t) /\ F(t).pc \in {"check", "raise"} /\ Return(t, F(t).ans)
              \/ Active(t) /\ DropAccess(t)
<1>1. CASE ReadRevision(t) \/ Observe(t) \/ Await(t) \/ Verify(t) \/ Start(t) \/ SharedGet(t)
    BY <1>1 DEF ReadRevision, Observe, Await, Verify, Start, SharedGet, Go, dbVars
<1>2. CASE Check(t) \/ Raise(t)
    BY <1>2 DEF Check, Raise, At, Go, dbVars
<1>3. CASE Touch(t)
    BY <1>3 DEF Touch, At, Go, dbVars
<1>4. CASE Adopt(t) \/ SharedPut(t) \/ TryLead(t) \/ Vacate(t) \/ TakeOutcome(t) \/ ReadInput(t)
    BY <1>4 DEF Adopt, AdoptRecord, SharedPut, TryLead, Vacate, TakeOutcome, ReadInput, Go, dbVars
<1>5. CASE ReadQuery(t)
    BY <1>5 DEF ReadQuery, Computing, At, Go, dbVars
<1>6. CASE Finish(t) \/ Poison(t) \/ SettleFlight(t) \/ PublishFlight(t) \/ Follow(t) \/ Cancel(t)
    BY <1>6 DEF Finish, Poison, SettleFlight, PublishFlight, Follow, Cancel, Go, dbVars, taskVars
<1>7. CASE Drop(t)
    BY <1>7 DEF Drop, At, dbVars, taskVars
<1> QED  BY <1>1, <1>2, <1>3, <1>4, <1>5, <1>6, <1>7 DEF Step

\* t's only access ends: nobody else's changes.
LEMMA LastAskEnds ==
    ASSUME Known, NEW t \in Task, Active(t), Below(t) = <<>>,
           stack' = [stack EXCEPT ![t] = Below(t)], home' = [home EXCEPT ![t] = NoView]
    PROVE  AskedNow' = [AskedNow EXCEPT ![t] = NoAsk]
<1>1. /\ stack \in [Task -> Seq(Query)] /\ home \in [Task -> View \union {NoView}]
    BY DEF Known, EngineInv, TasksTyped
<1>2. stack'[t] = <<>> /\ \A u \in Task : u # t => stack'[u] = stack[u] /\ home'[u] = home[u]
    BY <1>1
<1> QED  BY <1>2 DEF AskedNow, Active

\* An access below another one ends, or one begins on top of it.
LEMMA AsksStay ==
    ASSUME Known, NEW t \in Task, Active(t), home' = home,
           \/ \E q \in Query : stack' = [stack EXCEPT ![t] = Append(stack[t], q)]
           \/ Below(t) # <<>> /\ stack' = [stack EXCEPT ![t] = Below(t)]
    PROVE  AskedNow' = AskedNow
<1> DEFINE s == stack[t]
<1>1. EngineTypes /\ TasksTyped /\ StacksFit /\ stack \in [Task -> Seq(Query)]
    BY KnownTypes DEF EngineTypes, TasksTyped
<1>2. s \in Seq(Query) /\ Len(s) \in Nat \ {0} /\ s # <<>>
    BY <1>1, StackTop DEF Active
<1>3. stack'[t] # <<>> /\ stack'[t][1] = s[1]
  <2>1. CASE \E q \in Query : stack' = [stack EXCEPT ![t] = Append(s, q)]
    <3>1. PICK q \in Query : stack'[t] = Append(s, q)
      BY <1>1, <2>1
    <3>2. Len(Append(s, q)) = Len(s) + 1 /\ \A n \in 1..Len(s) : Append(s, q)[n] = s[n]
      BY <1>2, AppendProperties
    <3>3. Append(s, q) # <<>> /\ 1 \in 1..Len(s)
      <4>1. Len(Append(s, q)) # 0 /\ 1 \in 1..Len(s)
        BY <1>2, <3>2
      <4>2. Len(<<>>) = 0
        OBVIOUS
      <4> QED  BY <4>1, <4>2
    <3> QED  BY <3>1, <3>2, <3>3
  <2>2. CASE Below(t) # <<>> /\ stack' = [stack EXCEPT ![t] = Below(t)]
    <3>1. stack'[t] = Below(t)
      BY <1>1, <2>2
    <3>2. /\ Len(Below(t)) = Len(s) - 1 /\ Below(t) \in Seq(Query)
          /\ \A n \in 1..(Len(s) - 1) : Below(t)[n] = s[n]
      BY <1>1, BelowIsWaiting
    <3>3. Len(Below(t)) # 0
      BY <2>2, <3>2, EmptySeq
    <3>4. 1 \in 1..(Len(s) - 1)
      <4>1. \A k \in Nat \ {0} : k - 1 # 0 => 1 \in 1..(k - 1)
        OBVIOUS
      <4>2. Len(s) - 1 # 0
        BY <3>2, <3>3
      <4> QED  BY <1>2, <4>1, <4>2
    <3>5. Below(t)[1] = s[1]
      BY <3>2, <3>4
    <3> QED  BY <2>2, <3>1, <3>5
  <2> QED  BY <2>1, <2>2
<1>4. \A u \in Task : u # t => stack'[u] = stack[u]
    BY <1>1
<1>5. \A u \in Task : SameAsk(u)
    BY <1>2, <1>3, <1>4 DEF SameAsk
<1> QED  BY <1>5, SameAsksAre

LEMMA StepServes ==
    ASSUME Known, NEW t \in Task, Step(t) \/ Cancel(t)
    PROVE  [Service!Next]_(Service!vars)
<1>1. /\ UNCHANGED <<rev, hist, copied>>
      /\ \/ UNCHANGED <<home, stack, out>>
         \/ Active(t) /\ \E q \in Query : \E f : Call(t, q, f)
         \/ Active(t) /\ F(t).pc \in {"check", "raise"} /\ Return(t, F(t).ans)
         \/ Active(t) /\ DropAccess(t)
    BY StepOnStack
<1>2. ContentsNow' = ContentsNow
    BY <1>1, SameContentsAre
<1>3. ASSUME AskedNow' = AskedNow, out' = out PROVE UNCHANGED Service!vars
    BY <1>2, <1>3 DEF Service!vars, ContentsNow, AskedNow
<1>4. CASE UNCHANGED <<home, stack, out>>
  <2>1. AskedNow' = AskedNow
    BY <1>4, SameAsksAre DEF SameAsk
  <2> QED  BY <1>3, <1>4, <2>1
<1>5. ASSUME Active(t), NEW q \in Query, NEW f, Call(t, q, f) PROVE UNCHANGED Service!vars
  <2>1. AskedNow' = AskedNow
    BY <1>5, AsksStay DEF Call
  <2> QED  BY <1>3, <1>5, <2>1 DEF Call
<1>6. ASSUME Active(t), Below(t) # <<>>, Return(t, F(t).ans) \/ DropAccess(t) PROVE UNCHANGED Service!vars
  <2>1. stack' = [stack EXCEPT ![t] = Below(t)] /\ home' = home /\ out' = out
    BY <1>6 DEF Return, DropAccess, Below
  <2>2. AskedNow' = AskedNow
    BY <1>6, <2>1, AsksStay
  <2> QED  BY <1>3, <2>1, <2>2
<1>7. ASSUME Active(t) PROVE AskedNow[t] # NoAsk /\ AskedNow[t] = [view |-> home[t], query |-> stack[t][1]]
                             /\ home[t] \in View /\ ContentsNow[home[t]] = Present
  <2>1. home[t] \in View /\ copied[home[t]] # 0
    BY <1>7, AccessIs, AccessAt
  <2>2. stack[t][1] \in Query
    <3>1. EngineTypes
      BY KnownTypes
    <3>2. Len(stack[t]) \in Nat \ {0} /\ \A n \in 1..Len(stack[t]) : stack[t][n] \in Query
      BY <1>7, <3>1, StackTop
    <3>3. 1 \in 1..Len(stack[t])
      BY <3>2
    <3> QED  BY <3>2, <3>3
  <2>3. Contents(home[t]) = Present
    BY <2>1, ViewIs
  <2> QED  BY <1>7, <2>1, <2>2, <2>3, NonesOfService DEF AskedNow, ContentsNow
<1>8. ASSUME Active(t), Below(t) = <<>>, F(t).pc \in {"check", "raise"}, Return(t, F(t).ans)
      PROVE  Service!Answer(t)
  <2> DEFINE a == F(t).ans
             v == home[t]
  <2>1. /\ stack' = [stack EXCEPT ![t] = Below(t)] /\ home' = [home EXCEPT ![t] = NoView]
        /\ out' = [out EXCEPT ![t] = [view |-> v, query |-> Cur(t), ok |-> a.ok, val |-> a.val]]
    BY <1>8 DEF Return, Below
  <2>2. AskedNow' = [AskedNow EXCEPT ![t] = NoAsk]
    BY <1>8, <2>1, LastAskEnds
  <2>3. Truth(Cur(t), Present) = [ok |-> a.ok, val |-> a.val]
    BY <1>8, AccessIs DEF FrameSound, Telling, Means
  <2>4. Cur(t) = stack[t][1]
    <3>1. EngineTypes /\ TasksTyped /\ StacksFit
      BY KnownTypes DEF EngineTypes
    <3>2. Cur(t) = stack[t][Len(stack[t])] /\ Len(stack[t]) \in Nat \ {0} /\ Len(Below(t)) = Len(stack[t]) - 1
      BY <1>8, <3>1, StackTop, BelowIsWaiting
    <3>3. Len(stack[t]) = 1
      BY <1>8, <3>2
    <3> QED  BY <3>2, <3>3
  <2>5. AskedNow[t] # NoAsk /\ AskedNow[t].view = v /\ AskedNow[t].query = Cur(t) /\ ContentsNow[v] = Present
    BY <1>7, <1>8, <2>4
  <2> DEFINE r == Truth(AskedNow[t].query, ContentsNow[AskedNow[t].view])
  <2>6. r.ok = a.ok /\ r.val = a.val
    <3> HIDE DEF a, v
    <3> QED  BY <2>3, <2>5
  <2>7. out' = [out EXCEPT ![t] = [view |-> AskedNow[t].view, query |-> AskedNow[t].query,
                                   ok |-> r.ok, val |-> r.val]]
    <3> HIDE DEF a, v, r
    <3> QED  BY <2>1, <2>5, <2>6
  <2> QED  BY <1>2, <2>2, <2>5, <2>7 DEF Service!Answer, AskedNow, ContentsNow
<1>9. ASSUME Active(t), Below(t) = <<>>, DropAccess(t) PROVE Service!GiveUp(t)
  <2>1. /\ stack' = [stack EXCEPT ![t] = Below(t)] /\ home' = [home EXCEPT ![t] = NoView] /\ out' = out
    BY <1>9 DEF DropAccess, Below
  <2>2. AskedNow' = [AskedNow EXCEPT ![t] = NoAsk]
    BY <1>9, <2>1, LastAskEnds
  <2> QED  BY <1>2, <1>7, <1>9, <2>1, <2>2 DEF Service!GiveUp, AskedNow, ContentsNow
<1> QED  BY <1>1, <1>4, <1>5, <1>6, <1>8, <1>9 DEF Service!Next

LEMMA AskServes ==
    ASSUME Known, NEW t \in Task, Ask(t)
    PROVE  Service!Next
<1>1. PICK v \in View, q \in Query : Get(t, v, q)
    BY DEF Ask
<1>2. /\ stack[t] = <<>> /\ Ready(v) /\ UNCHANGED <<rev, hist, copied>>
      /\ stack' = [stack EXCEPT ![t] = <<q>>] /\ home' = [home EXCEPT ![t] = v]
      /\ out' = [out EXCEPT ![t] = NoAnswer]
    BY <1>1 DEF Get, Active, dbVars
<1>3. /\ stack \in [Task -> Seq(Query)] /\ home \in [Task -> View \union {NoView}]
    BY DEF Known, EngineInv, TasksTyped
<1>4. stack'[t] = <<q>> /\ home'[t] = v /\ \A u \in Task : u # t => stack'[u] = stack[u] /\ home'[u] = home[u]
    BY <1>2, <1>3
<1>5. <<q>> # <<>> /\ <<q>>[1] = q
    OBVIOUS
<1>6. AskedNow' = [AskedNow EXCEPT ![t] = [view |-> v, query |-> q]] /\ AskedNow[t] = NoAsk
    BY <1>2, <1>4, <1>5 DEF AskedNow, Active
<1>7. ContentsNow[v] # NoContents
  <2>1. Len(Ingredients) \in Nat
    BY IngredientsListed, LenProperties
  <2>2. copied[v] # 0
    BY <1>2, <2>1 DEF Ready
  <2>3. Contents(v) = Present /\ Present \in Valuation
    BY <2>2, ViewIs, HistoryIs DEF Known, EngineInv
  <2> QED  BY <2>2, <2>3, NonesOfService DEF ContentsNow
<1>8. ContentsNow' = ContentsNow
    BY <1>2, SameContentsAre
<1>9. Service!Ask(t, v, q)
    BY <1>2, <1>6, <1>7, <1>8 DEF Service!Ask, AskedNow, ContentsNow
<1> QED  BY <1>9 DEF Service!Next

LEMMA WriteServes ==
    ASSUME Known, NEW v \in View, BeginWrite(v)
    PROVE  Service!Next
<1>1. PICK i \in Input, x \in Stored : Bump(v, i, x)
    BY DEF BeginWrite
<1> DEFINE ins == [Contents(v) EXCEPT ![i] = x]
<1>2. /\ Ready(v) /\ rev' = [rev EXCEPT ![v] = rev[v] + 1] /\ hist' = [hist EXCEPT ![v] = Append(hist[v], ins)]
      /\ copied' = copied /\ home' = home /\ stack' = stack /\ out' = out
    BY <1>1 DEF BeginWrite, Bump, taskVars
<1>3. DbTypeOK
    BY DEF Known, EngineInv
<1>4. copied[v] # 0
  <2>1. Len(Ingredients) \in Nat
    BY IngredientsListed, LenProperties
  <2> QED  BY <1>2, <2>1 DEF Ready
<1>5. Contents(v) = Present /\ Present \in Valuation /\ ins \in Valuation
  <2>1. Contents(v) = Present /\ Present \in Valuation
    BY <1>3, <1>4, ViewIs, HistoryIs
  <2> QED  BY <2>1 DEF Valuation
<1> HIDE DEF ins
<1>6. Contents(v)' = ins
  <2>1. hist[v] \in Seq(Valuation) /\ Len(hist[v]) = rev[v] + 1 /\ rev[v] \in Nat
    BY <1>3, RevisionsAreNat DEF DbTypeOK
  <2>2. Append(hist[v], ins)[(rev[v] + 1) + 1] = ins
    BY <1>5, <2>1, AppendProperties
  <2>3. hist'[v] = Append(hist[v], ins) /\ rev'[v] = rev[v] + 1
    BY <1>2, <1>3 DEF DbTypeOK
  <2> QED  BY <2>2, <2>3 DEF Contents
<1>7. \A w \in View : w # v => Contents(w)' = Contents(w)
    BY <1>2, <1>3 DEF Contents, DbTypeOK
<1>8. ContentsNow' = [ContentsNow EXCEPT ![v] = ins] /\ ContentsNow[v] # NoContents
  <2>1. \A w \in View : ContentsNow'[w] = IF w = v THEN ins ELSE ContentsNow[w]
    BY <1>2, <1>4, <1>6, <1>7 DEF ContentsNow
  <2> QED  BY <1>4, <1>5, <2>1, NonesOfService DEF ContentsNow
<1>9. AskedNow' = AskedNow
    BY <1>2, SameAsksAre DEF SameAsk
<1>10. Service!Write(v)
    BY <1>2, <1>5, <1>8, <1>9 DEF Service!Write, AskedNow, ContentsNow
<1> QED  BY <1>10 DEF Service!Next

LEMMA SnapshotServes ==
    ASSUME Known, NEW s \in View, Snapshot(s)
    PROVE  [Service!Next]_(Service!vars)
<1>1. DbTypeOK /\ OneTimeline /\ Live \in View
    BY LiveIsAView DEF Known, EngineInv, MeaningInv
<1>2. UNCHANGED <<home, stack, out>>
    BY DEF Snapshot, SnapshotCells, taskVars
<1>3. AskedNow' = AskedNow
    BY <1>2, SameAsksAre DEF SameAsk
<1>4. CASE SnapshotRuntime(s)
  <2>1. /\ copied[s] = 0 /\ s # Live /\ rev' = [rev EXCEPT ![s] = rev[Live]]
        /\ hist' = [hist EXCEPT ![s] = hist[Live]] /\ copied' = [copied EXCEPT ![s] = 1]
    BY <1>4 DEF SnapshotRuntime, Snapshots
  <2>2. /\ rev'[s] = rev[Live] /\ hist'[s] = hist[Live] /\ copied'[s] = 1
        /\ \A w \in View : w # s => rev'[w] = rev[w] /\ hist'[w] = hist[w] /\ copied'[w] = copied[w]
    BY <1>1, <2>1 DEF DbTypeOK
  <2>3. Contents(s)' = Contents(Live) /\ \A w \in View : w # s => Contents(w)' = Contents(w)
    BY <2>2 DEF Contents
  <2>4. \A w \in View : ContentsNow'[w] = IF w = s THEN ContentsNow[Live] ELSE ContentsNow[w]
    BY <1>1, <2>2, <2>3 DEF ContentsNow, OneTimeline
  <2>5. ContentsNow' = [ContentsNow EXCEPT ![s] = ContentsNow[Live]] /\ ContentsNow[s] = NoContents
    BY <2>1, <2>4 DEF ContentsNow
  <2>6. Service!Fork(s)
    BY <1>2, <1>3, <2>5 DEF Service!Fork, AskedNow, ContentsNow
  <2> QED  BY <2>6 DEF Service!Next
<1>5. ASSUME NEW d, Copying(s, d), copied' = [copied EXCEPT ![s] = copied[s] + 1], UNCHANGED <<rev, hist>>
      PROVE  UNCHANGED Service!vars
  <2>1. copied[s] \in Nat /\ copied[s] # 0
    BY <1>5 DEF Copying
  <2>2. \A w \in View : copied'[w] = 0 <=> copied[w] = 0
    <3> TAKE w \in View
    <3>1. copied'[w] = IF w = s THEN copied[s] + 1 ELSE copied[w]
      BY <1>1, <1>5 DEF DbTypeOK
    <3> QED  BY <2>1, <3>1
  <2>3. ContentsNow' = ContentsNow
    BY <1>5, <2>2, SameContentsAre
  <2> QED  BY <1>2, <1>3, <2>3 DEF Service!vars, AskedNow, ContentsNow
<1> QED  BY <1>4, <1>5 DEF Snapshot, SnapshotInput, SnapshotCells

LEMMA NextServes ==
    ASSUME Known, [ReadOnlyNext]_vars
    PROVE  [Service!Next]_(Service!vars)
<1>1. ASSUME UNCHANGED <<rev, hist, copied, home, stack, out>> PROVE UNCHANGED Service!vars
  <2>1. ContentsNow' = ContentsNow
    BY <1>1, SameContentsAre
  <2>2. AskedNow' = AskedNow
    BY <1>1, SameAsksAre DEF SameAsk
  <2> QED  BY <1>1, <2>1, <2>2 DEF Service!vars, AskedNow, ContentsNow
<1>2. CASE UNCHANGED vars
    BY <1>1, <1>2 DEF vars, dbVars, taskVars
<1>3. CASE Calls
    BY <1>3, AskServes, WriteServes, SnapshotServes DEF Calls
<1>4. ASSUME NEW t \in Task, Step(t) \/ Cancel(t) PROVE [Service!Next]_(Service!vars)
    BY <1>4, StepServes
<1>5. ASSUME NEW v \in View, EndWrite(v) PROVE UNCHANGED Service!vars
    BY <1>1, <1>5 DEF EndWrite, MarkDivergent, Write, taskVars
<1>6. ASSUME NEW v \in View, NEW q \in Query, Evict(v, q) PROVE UNCHANGED Service!vars
    BY <1>1, <1>6 DEF Evict, dbVars, taskVars
<1> QED  BY <1>2, <1>3, <1>4, <1>5, <1>6 DEF ReadOnlyNext, Runs

LEMMA InitServes == Init => Service!Init
<1> SUFFICES ASSUME Init PROVE Service!Init
    OBVIOUS
<1>1. Len(Ingredients) \in Nat
    BY IngredientsListed, LenProperties
<1>2. Len(Ingredients) + 1 # 0
    BY <1>1
<1>3. \A v \in View : /\ copied[v] = IF v = Live THEN Len(Ingredients) + 1 ELSE 0
                      /\ rev[v] = 0 /\ hist[v] = <<[i \in Input |-> None]>>
    BY DEF Init, DbInit
<1>4. \A v \in View : Contents(v) = [i \in Input |-> None]
  <2>1. \A c : <<c>>[0 + 1] = c
    OBVIOUS
  <2> QED  BY <1>3, <2>1 DEF Contents
<1>5. ContentsNow = [v \in View |-> IF v = Live THEN [i \in Input |-> None] ELSE NoContents]
    BY <1>2, <1>3, <1>4 DEF ContentsNow
<1>6. AskedNow = [t \in Task |-> NoAsk] /\ out = [t \in Task |-> NoAnswer]
  <2>1. \A t \in Task : ~Active(t)
    BY DEF Active, Init
  <2> QED  BY <2>1 DEF AskedNow, Init
<1> QED  BY <1>5, <1>6 DEF Service!Init, AskedNow, ContentsNow

(* The engine provides the service: every answer is the meaning of the      *)
(* query on the contents of its view, which a snapshot took over from the   *)
(* database when it was made (derived.rs:253-764).                          *)
THEOREM EngineImplementsService ==
    ASSUME MeantPrograms
    PROVE  ReadOnlySpec => ImplementsService
<1>1. Init => Service!Init
    BY InitServes
<1>2. Known /\ [ReadOnlyNext]_vars => [Service!Next]_(Service!vars)
    BY NextServes
<1> QED  BY <1>1, <1>2, MeaningInvariance, PTL DEF ReadOnlySpec, ImplementsService, Service!Spec
=============================================================================
