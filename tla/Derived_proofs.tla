--------------------------- MODULE Derived_proofs ---------------------------
(***************************************************************************)
(* The query engine, for any tasks, views, queries and programs: it keeps  *)
(* its types, uses the in-flight registry as InFlight allows, and so has   *)
(* what InFlight_proofs proves of it; within a view that is not written     *)
(* under its accesses a query is computed by one of them at a time; and a  *)
(* cell that others wait for has an access that will write it, unless that *)
(* one is dropped or fails.                                                *)
(***************************************************************************)
EXTENDS Derived, FiniteSetTheorems, SequenceTheorems, TLAPS

Flights == INSTANCE InFlight_proofs WITH
    Holder <- Holder, Key <- InFlightKey, Result <- Record \union Error

-----------------------------------------------------------------------------
(* The inductive invariant: what an access has by the time it gets somewhere *)

\* What is to be compared, adopted, filed or told to followers is a record;
\* what is to be returned is an answer, and what is to be raised an error;
\* a computation starts with nothing read.
HasWhatItNeeds(f) ==
    /\ f.pc \in {"observe", "start", "shared", "touchShared", "lead"} => f.seen = <<>> /\ f.deps = <<>>
    /\ f.pc \in {"touchLocal", "touchShared", "adopt", "take", "put", "complete"} => f.rec \in Record
    /\ f.pc \in {"touchLocal", "touchShared"} => f.i >= 1
    /\ f.pc \in {"check", "put", "complete", "raise", "poison", "fail", "publish"} => f.ans \in Answer
    /\ f.pc \in {"raise", "poison", "fail"} => ~f.ans.ok

\* The program has read no more than it may ...
WithinReads(f) ==
    f.pc = "compute" => Len(f.seen) <= MaxReads /\ Len(f.deps) <= Len(f.seen)

\* ... and an access that waits for another one was allowed one more.
AskedForMore(f) ==
    /\ f.pc \in {"compute", "touchLocal", "touchShared"}
    /\ f.pc = "compute" => Len(f.seen) < MaxReads /\ Len(f.deps) <= Len(f.seen) + 1

StacksFit ==
    \A t \in Task :
        /\ \A m, n \in 1..Len(stack[t]) : stack[t][m] = stack[t][n] => m = n
        /\ \A n \in 1..Len(stack[t]) : HasWhatItNeeds(frame[t][stack[t][n]])
        /\ Active(t) => WithinReads(F(t))
        /\ \A n \in 1..(Len(stack[t]) - 1) : AskedForMore(frame[t][stack[t][n]])

\* The entry a holder refers to is allocated, and its payload is of its state.
EntriesFit ==
    /\ \A h \in Holder : role[h] # "idle" => entryState[entryOf[h]] # "Free"
    /\ \A e \in Entry :
        /\ entryState[e] = "Done" => entryResult[e] \in Record
        /\ entryState[e] = "Failed" => entryResult[e] \in Error

EngineInv ==
    /\ DbTypeOK
    /\ CellsTyped
    /\ TasksTyped
    /\ StacksFit
    /\ EntriesFit
    /\ Flights!IInv

-----------------------------------------------------------------------------
(* Stacks and frames *)

LEMMA RevisionsAreNat == Revision \subseteq Nat /\ 0 \in Revision
    BY MaxRevIsNat DEF Revision

LEMMA IdleIsFrame ==
    /\ Idle \in Frame /\ AtTop \in Frame
    /\ Idle.pc = "idle" /\ AtTop.pc = "top"
<1>1. <<>> \in Seq(Answered) /\ <<>> \in Seq(Input \union Query)
    BY EmptySeq
<1> QED  BY <1>1, RevisionsAreNat DEF Idle, AtTop, Frame, PC

(* The access a task is in is the last one on its stack. *)
LEMMA CurrentIsOnStack ==
    ASSUME TasksTyped, NEW t \in Task, Active(t)
    PROVE  /\ Len(stack[t]) \in Nat \ {0} /\ Len(stack[t]) \in 1..Len(stack[t])
           /\ Cur(t) \in Query /\ Cur(t) = stack[t][Len(stack[t])]
           /\ F(t) \in Frame /\ F(t) = frame[t][Cur(t)] /\ F(t).pc # "idle"
           /\ home[t] \in View /\ OnStack(t, Cur(t))
<1>1. stack[t] \in Seq(Query) /\ stack[t] # <<>>
    BY DEF TasksTyped, Active
<1>2. Len(stack[t]) \in Nat \ {0} /\ Len(stack[t]) \in 1..Len(stack[t])
    BY <1>1, EmptySeq, LenProperties
<1>3. Cur(t) \in Query
    BY <1>1, <1>2, ElementOfSeq DEF Cur
<1> QED  BY <1>1, <1>2, <1>3 DEF TasksTyped, Cur, F, OnStack

(* The access of a task goes on. *)
LEMMA GoFits ==
    ASSUME TasksTyped, StacksFit, NEW t \in Task, Active(t), NEW f \in Frame,
           Go(t, f), f.pc # "idle", HasWhatItNeeds(f), WithinReads(f)
    PROVE  TasksTyped' /\ StacksFit'
<1> DEFINE q == Cur(t)
<1>1. /\ Len(stack[t]) \in Nat \ {0} /\ q \in Query /\ q = stack[t][Len(stack[t])]
      /\ frame[t][q].pc # "idle" /\ Len(stack[t]) \in 1..Len(stack[t])
    BY CurrentIsOnStack
<1>2. home' = home /\ stack' = stack /\ out' = out /\ frame' = [frame EXCEPT ![t][q] = f]
    BY DEF Go
<1> HIDE DEF q
<1>3. /\ frame' \in [Task -> [Query -> Frame]] /\ frame'[t][q] = f
      /\ \A u \in Task, x \in Query : u # t \/ x # q => frame'[u][x] = frame[u][x]
    BY <1>1, <1>2 DEF TasksTyped
<1>4. \A u \in Task, x \in Query : frame'[u][x].pc # "idle" <=> frame[u][x].pc # "idle"
    BY <1>1, <1>3
<1>5. TasksTyped'
    BY <1>2, <1>3, <1>4 DEF TasksTyped, OnStack
<1>6. \A u \in Task : \A n \in 1..Len(stack[u]) : stack[u][n] \in Query
    BY ElementOfSeq DEF TasksTyped
<1>7. \A u \in Task : Active(u)' <=> Active(u)
    BY <1>2 DEF Active
<1>8. \A u \in Task : Active(u) => F(u)' = (IF u = t THEN f ELSE F(u))
    BY <1>1, <1>2, <1>3, <1>6, CurrentIsOnStack DEF F, Cur, q
<1>9. ASSUME NEW u \in Task PROVE
        /\ \A m, n \in 1..Len(stack[u]) : stack[u][m] = stack[u][n] => m = n
        /\ \A n \in 1..Len(stack[u]) : HasWhatItNeeds(frame'[u][stack[u][n]])
        /\ Active(u)' => WithinReads(F(u)')
        /\ \A n \in 1..(Len(stack[u]) - 1) : AskedForMore(frame'[u][stack[u][n]])
  <2>1. \A n \in 1..Len(stack[u]) : HasWhatItNeeds(frame'[u][stack[u][n]])
    BY <1>3, <1>6 DEF StacksFit
  <2>2. Active(u)' => WithinReads(F(u)')
    BY <1>7, <1>8 DEF StacksFit
  <2>3. \A n \in 1..(Len(stack[u]) - 1) : AskedForMore(frame'[u][stack[u][n]])
    <3> TAKE n \in 1..(Len(stack[u]) - 1)
    <3>1. Len(stack[u]) \in Nat
      BY LenProperties DEF TasksTyped
    <3>2. n \in 1..Len(stack[u]) /\ n # Len(stack[u]) /\ stack[u][n] \in Query
      BY <3>1, <1>6
    <3>3. u # t \/ stack[u][n] # q
      BY <1>1, <3>2 DEF StacksFit
    <3> QED  BY <1>3, <3>2, <3>3 DEF StacksFit
  <2> QED  BY <2>1, <2>2, <2>3 DEF StacksFit
<1>10. StacksFit'
    BY <1>2, <1>9 DEF StacksFit
<1> QED  BY <1>5, <1>10

\* How an access on top of a stack may go on.
MayGoOn(f) == f \in Frame /\ f.pc # "idle" /\ HasWhatItNeeds(f) /\ WithinReads(f)

\* What a caller is told: an answer, or how an input is.
Told == Answer \union [ok : {TRUE}, val : {None}, ch : Revision]

(* Whatever a caller is told, it goes on properly: at the next read or the  *)
(* next dependency, with a computation, or with the error.                  *)
LEMMA ResumeFits ==
    ASSUME NEW f \in Frame, AskedForMore(f), HasWhatItNeeds(f), NEW a \in Told
    PROVE  MayGoOn(Resume(f, a))
<1>1. CASE f.pc = "compute"
  <2>1. a.val \in Answered /\ MaxReads \in Nat
    BY ProgramsEnd DEF Told, Answer, Answered, Stored
  <2>2. /\ f.seen \in Seq(Answered) /\ f.deps \in Seq(Input \union Query)
        /\ Len(f.seen) \in Nat /\ Len(f.deps) \in Nat
    BY LenProperties DEF Frame
  <2>3. /\ Append(f.seen, a.val) \in Seq(Answered)
        /\ Len(Append(f.seen, a.val)) = Len(f.seen) + 1
    BY <2>1, <2>2, AppendProperties
  <2>4. Resume(f, a) = [f EXCEPT !.seen = Append(f.seen, a.val)]
    BY <1>1 DEF Resume
  <2>5. Resume(f, a) \in Frame /\ Resume(f, a).pc = "compute"
    BY <1>1, <2>3, <2>4 DEF Frame
  <2>6. Resume(f, a).seen = Append(f.seen, a.val) /\ Resume(f, a).deps = f.deps
    BY <2>4 DEF Frame
  <2>7. Len(f.seen) < MaxReads /\ Len(f.deps) <= Len(f.seen) + 1
    BY <1>1 DEF AskedForMore
  <2> QED
    BY <2>1, <2>2, <2>3, <2>5, <2>6, <2>7 DEF MayGoOn, HasWhatItNeeds, WithinReads
<1>2. CASE f.pc # "compute" /\ ~a.ok
  <2>1. a \in Answer
    BY <1>2 DEF Told
  <2>2. Resume(f, a) = [Idle EXCEPT !.pc = "raise", !.ans = a]
    BY <1>2 DEF Resume
  <2>3. Resume(f, a) \in Frame /\ Resume(f, a).pc = "raise" /\ Resume(f, a).ans = a
    BY <2>1, <2>2, IdleIsFrame DEF Frame, PC
  <2> QED  BY <1>2, <2>1, <2>3 DEF MayGoOn, HasWhatItNeeds, WithinReads
<1>3. f.pc # "compute" /\ a.ok => a.ch \in Nat /\ f.rec.ch \in Nat
  BY RevisionsAreNat DEF Told, Answer, AskedForMore, HasWhatItNeeds, Record
<1>4. CASE f.pc # "compute" /\ a.ok /\ a.ch <= f.rec.ch
  <2>1. Resume(f, a) = [f EXCEPT !.i = f.i + 1]
    BY <1>3, <1>4 DEF Resume
  <2>2. /\ Resume(f, a) \in Frame /\ Resume(f, a).i = f.i + 1
        /\ Resume(f, a).pc = f.pc /\ Resume(f, a).rec = f.rec
        /\ Resume(f, a).seen = f.seen /\ Resume(f, a).deps = f.deps
    BY <2>1 DEF Frame
  <2>3. f.pc \in {"touchLocal", "touchShared"} /\ f.i \in Nat
    BY <1>4 DEF AskedForMore, Frame
  <2> QED  BY <2>2, <2>3 DEF MayGoOn, HasWhatItNeeds, WithinReads
<1>5. CASE f.pc # "compute" /\ a.ok /\ a.ch > f.rec.ch
  <2>1. CASE f.pc = "touchLocal"
    <3>1. Resume(f, a) = [Idle EXCEPT !.pc = "start", !.rev = f.rev]
      BY <1>3, <1>5, <2>1 DEF Resume
    <3>2. Resume(f, a) \in Frame /\ Resume(f, a).pc = "start"
      BY <3>1, IdleIsFrame DEF Frame, PC
    <3>3. Resume(f, a).seen = <<>> /\ Resume(f, a).deps = <<>>
      BY <3>1 DEF Idle
    <3> QED  BY <3>2, <3>3 DEF MayGoOn, HasWhatItNeeds, WithinReads
  <2>2. CASE f.pc = "touchShared"
    <3>1. Resume(f, a) = [f EXCEPT !.pc = "lead", !.rec = NoRecord, !.i = 0]
      BY <1>3, <1>5, <2>2 DEF Resume
    <3>2. "lead" \in PC /\ 0 \in Nat
      BY DEF PC
    <3>3. Resume(f, a) \in Frame
      BY <3>1, <3>2 DEF Frame
    <3>4. Resume(f, a).pc = "lead" /\ Resume(f, a).seen = f.seen /\ Resume(f, a).deps = f.deps
      BY <3>1 DEF Frame
    <3> QED  BY <2>2, <3>3, <3>4 DEF MayGoOn, HasWhatItNeeds, WithinReads
  <2> QED  BY <1>5, <2>1, <2>2 DEF AskedForMore
<1> QED  BY <1>1, <1>2, <1>3, <1>4, <1>5

(* A new access on top of a stack; its caller waits for it. *)
LEMMA CallFits ==
    ASSUME TasksTyped, StacksFit, NEW t \in Task, Active(t), NEW q \in Query, ~OnStack(t, q),
           NEW f \in Frame, Call(t, q, f), HasWhatItNeeds(f), AskedForMore(f)
    PROVE  TasksTyped' /\ StacksFit'
<1> DEFINE c == Cur(t)
           k == Len(stack[t])
<1>1. /\ k \in Nat \ {0} /\ c \in Query /\ c = stack[t][k] /\ k \in 1..k /\ c # q
      /\ stack[t] \in Seq(Query) /\ home[t] # NoView
    BY CurrentIsOnStack, NonesAreNone DEF TasksTyped, OnStack
<1>2. /\ home' = home /\ out' = out
      /\ stack' = [stack EXCEPT ![t] = Append(stack[t], q)]
      /\ frame' = [frame EXCEPT ![t] = [frame[t] EXCEPT ![c] = f, ![q] = AtTop]]
    BY DEF Call
<1> HIDE DEF c
<1>3. /\ stack' \in [Task -> Seq(Query)] /\ stack'[t] = Append(stack[t], q)
      /\ \A u \in Task \ {t} : stack'[u] = stack[u]
    BY <1>1, <1>2, AppendProperties DEF TasksTyped
<1>4. /\ Len(stack'[t]) = k + 1 /\ stack'[t][k + 1] = q
      /\ \A n \in 1..k : stack'[t][n] = stack[t][n] /\ stack[t][n] \in Query /\ stack[t][n] # q
    BY <1>1, <1>3, AppendProperties, ElementOfSeq DEF OnStack
<1>5. /\ frame' \in [Task -> [Query -> Frame]]
      /\ frame'[t][c] = f /\ frame'[t][q] = AtTop
      /\ \A x \in Query \ {c, q} : frame'[t][x] = frame[t][x]
      /\ \A u \in Task \ {t} : frame'[u] = frame[u]
    BY <1>1, <1>2, IdleIsFrame DEF TasksTyped
<1> HIDE DEF k
<1>6. f.pc # "idle" /\ frame[t][c].pc # "idle"
    BY <1>1, CurrentIsOnStack DEF AskedForMore, c
<1>7. \A x \in Query : frame'[t][x].pc # "idle" <=> OnStack(t, x)'
  <2> TAKE x \in Query
  <2>1. OnStack(t, x)' <=> (x = q \/ OnStack(t, x))
    BY <1>1, <1>4 DEF OnStack, k
  <2>2. OnStack(t, c)
    BY <1>1 DEF OnStack, k
  <2> QED  BY <1>5, <1>6, <2>1, <2>2, IdleIsFrame DEF TasksTyped
<1>8. TasksTyped'
  <2>1. \A u \in Task \ {t}, x \in Query : frame'[u][x].pc # "idle" <=> OnStack(u, x)'
    <3> TAKE u \in Task \ {t}, x \in Query
    <3>1. OnStack(u, x)' <=> OnStack(u, x)
      BY <1>3 DEF OnStack
    <3> QED  BY <1>5, <3>1 DEF TasksTyped
  <2>2. \A u \in Task : home'[u] = NoView <=> stack'[u] = <<>>
    BY <1>1, <1>2, <1>3, AppendProperties DEF TasksTyped
  <2> QED  BY <1>2, <1>3, <1>5, <1>7, <2>1, <2>2 DEF TasksTyped
<1>9. \A u \in Task \ {t} :
        /\ \A m, n \in 1..Len(stack'[u]) : stack'[u][m] = stack'[u][n] => m = n
        /\ \A n \in 1..Len(stack'[u]) : HasWhatItNeeds(frame'[u][stack'[u][n]])
        /\ Active(u)' => WithinReads(F(u)')
        /\ \A n \in 1..(Len(stack'[u]) - 1) : AskedForMore(frame'[u][stack'[u][n]])
    BY <1>3, <1>5 DEF StacksFit, Active, F, Cur
<1>10. \A m, n \in 1..Len(stack'[t]) : stack'[t][m] = stack'[t][n] => m = n
    BY <1>1, <1>4 DEF StacksFit, k
<1>11. \A n \in 1..Len(stack'[t]) : HasWhatItNeeds(frame'[t][stack'[t][n]])
  <2>1. HasWhatItNeeds(AtTop)
    BY IdleIsFrame DEF HasWhatItNeeds
  <2> TAKE n \in 1..Len(stack'[t])
  <2>2. CASE n = k + 1
    BY <1>4, <1>5, <2>1, <2>2
  <2>3. CASE n # k + 1
    <3>1. n \in 1..k /\ stack'[t][n] = stack[t][n] /\ stack[t][n] \in Query /\ stack[t][n] # q
      BY <1>1, <1>4, <2>3
    <3>2. HasWhatItNeeds(frame[t][stack[t][n]])
      BY <3>1 DEF StacksFit, k
    <3> QED  BY <1>5, <3>1, <3>2
  <2> QED  BY <2>2, <2>3
<1>12. WithinReads(F(t)')
    BY <1>1, <1>4, <1>5, IdleIsFrame DEF F, Cur, WithinReads
<1>13. \A n \in 1..(Len(stack'[t]) - 1) : AskedForMore(frame'[t][stack'[t][n]])
  <2> TAKE n \in 1..(Len(stack'[t]) - 1)
  <2>1. n \in 1..k /\ stack'[t][n] = stack[t][n] /\ stack[t][n] \in Query /\ stack[t][n] # q
    BY <1>1, <1>4
  <2>2. CASE n = k
    BY <1>1, <1>5, <2>1, <2>2
  <2>3. CASE n # k
    BY <1>1, <1>5, <2>1, <2>3 DEF StacksFit, k
  <2> QED  BY <2>2, <2>3
<1> QED  BY <1>8, <1>9, <1>10, <1>11, <1>12, <1>13 DEF StacksFit

\* The accesses a task goes back to when its current one ends.
Below(t) == SubSeq(stack[t], 1, Len(stack[t]) - 1)
Caller(t) == Below(t)[Len(Below(t))]

LEMMA BelowIsWaiting ==
    ASSUME TasksTyped, StacksFit, NEW t \in Task, Active(t)
    PROVE  /\ Below(t) \in Seq(Query) /\ Len(Below(t)) = Len(stack[t]) - 1
           /\ \A n \in 1..(Len(stack[t]) - 1) :
                Below(t)[n] = stack[t][n] /\ stack[t][n] \in Query /\ stack[t][n] # Cur(t)
           /\ Below(t) # <<>> =>
                /\ Caller(t) \in Query /\ Caller(t) # Cur(t) /\ Len(stack[t]) - 1 \in 1..Len(stack[t])
                /\ Caller(t) = stack[t][Len(stack[t]) - 1]
                /\ frame[t][Caller(t)] \in Frame
                /\ AskedForMore(frame[t][Caller(t)]) /\ HasWhatItNeeds(frame[t][Caller(t)])
<1> DEFINE k == Len(stack[t])
<1>1. stack[t] \in Seq(Query) /\ k \in Nat \ {0} /\ Cur(t) = stack[t][k] /\ k \in 1..k
    BY CurrentIsOnStack DEF TasksTyped
<1>2. \A n \in 1..k : stack[t][n] \in Query
    BY <1>1, ElementOfSeq
<1>3. \A n \in 1..(k - 1) : stack[t][n] \in Query /\ n \in 1..k /\ n # k
    BY <1>1, <1>2
<1>4. /\ Below(t) \in Seq(Query) /\ Len(Below(t)) = k - 1
      /\ \A n \in 1..(k - 1) : Below(t)[n] = stack[t][n]
    BY <1>1, <1>3, SubSeqProperties DEF Below
<1>5. \A n \in 1..(k - 1) : stack[t][n] # Cur(t)
    BY <1>1, <1>3 DEF StacksFit
<1> HIDE DEF k
<1>6. ASSUME Below(t) # <<>> PROVE
        /\ Caller(t) \in Query /\ Caller(t) # Cur(t) /\ k - 1 \in 1..k /\ Caller(t) = stack[t][k - 1]
        /\ frame[t][Caller(t)] \in Frame
        /\ AskedForMore(frame[t][Caller(t)]) /\ HasWhatItNeeds(frame[t][Caller(t)])
  <2>1. k - 1 \in Nat /\ k - 1 # 0
    BY <1>1, <1>4, <1>6, EmptySeq
  <2>2. k - 1 \in 1..(k - 1) /\ k - 1 \in 1..k
    BY <1>1, <2>1
  <2>3. /\ Caller(t) = stack[t][k - 1] /\ Caller(t) \in Query /\ Caller(t) # Cur(t)
    BY <1>3, <1>4, <1>5, <2>2 DEF Caller
  <2>4. frame[t][Caller(t)] \in Frame
    BY <2>3 DEF TasksTyped
  <2> QED  BY <2>2, <2>3, <2>4 DEF StacksFit, k
<1> QED  BY <1>3, <1>4, <1>5, <1>6 DEF k

(* The current access of a task ends, and its caller goes on. *)
LEMMA PopFits ==
    ASSUME TasksTyped, StacksFit, NEW t \in Task, Active(t),
           out' \in [Task -> [view : View, query : Query, ok : BOOLEAN,
                              val : QueryValue \union Error] \union {NoAnswer}],
           stack' = [stack EXCEPT ![t] = Below(t)],
           Below(t) = <<>> =>
                /\ frame' = [frame EXCEPT ![t][Cur(t)] = Idle]
                /\ home' = [home EXCEPT ![t] = NoView],
           NEW f, Below(t) # <<>> =>
                /\ MayGoOn(f)
                /\ frame' = [frame EXCEPT ![t] = [@ EXCEPT ![Cur(t)] = Idle, ![Caller(t)] = f]]
                /\ home' = home
    PROVE  TasksTyped' /\ StacksFit'
<1> DEFINE q == Cur(t)
           c == Caller(t)
           k == Len(stack[t])
           rest == Below(t)
<1>1. /\ k \in Nat \ {0} /\ q \in Query /\ q = stack[t][k] /\ k \in 1..k
      /\ stack[t] \in Seq(Query) /\ home[t] # NoView /\ frame \in [Task -> [Query -> Frame]]
    BY CurrentIsOnStack, NonesAreNone DEF TasksTyped
<1>2. /\ rest \in Seq(Query) /\ Len(rest) = k - 1
      /\ \A n \in 1..(k - 1) : rest[n] = stack[t][n] /\ stack[t][n] \in Query /\ stack[t][n] # q
      /\ rest # <<>> => c \in Query /\ c # q /\ c = stack[t][k - 1] /\ frame[t][c].pc # "idle"
    BY BelowIsWaiting DEF AskedForMore
<1>3. rest # <<>> => k - 1 \in 1..(k - 1) /\ c = rest[k - 1]
    BY <1>1, <1>2, EmptySeq DEF Caller
<1> HIDE DEF q, c, k, rest
<1>4. /\ stack' \in [Task -> Seq(Query)] /\ stack'[t] = rest
      /\ \A u \in Task \ {t} : stack'[u] = stack[u]
    BY <1>1, <1>2 DEF TasksTyped, rest
<1>5. /\ frame' \in [Task -> [Query -> Frame]] /\ frame'[t][q] = Idle
      /\ \A u \in Task \ {t} : frame'[u] = frame[u]
      /\ rest # <<>> => frame'[t][c] = f /\ MayGoOn(f)
      /\ \A x \in Query \ {q} : (x = c /\ rest # <<>>) \/ frame'[t][x] = frame[t][x]
  <2>1. CASE rest = <<>>
    BY <1>1, <2>1, IdleIsFrame DEF q, rest
  <2>2. CASE rest # <<>>
    <3>1. frame' = [frame EXCEPT ![t] = [frame[t] EXCEPT ![q] = Idle, ![c] = f]] /\ f \in Frame
      BY <2>2 DEF q, c, rest, MayGoOn
    <3>2. [frame[t] EXCEPT ![q] = Idle, ![c] = f] \in [Query -> Frame]
      BY <1>1, <3>1, IdleIsFrame
    <3> QED  BY <1>1, <1>2, <2>2, <3>1, <3>2 DEF c, rest
  <2> QED  BY <2>1, <2>2
<1>6. \A x \in Query : frame'[t][x].pc # "idle" <=> OnStack(t, x)'
  <2> TAKE x \in Query
  <2>1. CASE x = q
    <3>1. ~OnStack(t, x)'
      BY <1>1, <1>2, <1>4, <2>1 DEF OnStack
    <3> QED  BY <1>5, <2>1, <3>1, IdleIsFrame
  <2>2. CASE x # q
    <3>1. OnStack(t, x)' <=> OnStack(t, x)
      <4>1. OnStack(t, x) <=> \E n \in 1..(k - 1) : stack[t][n] = x
        BY <1>1, <2>2 DEF OnStack, k
      <4>2. OnStack(t, x)' <=> \E n \in 1..(k - 1) : rest[n] = x
        BY <1>2, <1>4 DEF OnStack
      <4> QED  BY <1>2, <4>1, <4>2
    <3>2. frame'[t][x].pc # "idle" <=> frame[t][x].pc # "idle"
      BY <1>2, <1>5, <2>2 DEF MayGoOn
    <3> QED  BY <3>1, <3>2 DEF TasksTyped
  <2> QED  BY <2>1, <2>2
<1>7. TasksTyped'
  <2>1. \A u \in Task \ {t}, x \in Query : frame'[u][x].pc # "idle" <=> OnStack(u, x)'
    <3> TAKE u \in Task \ {t}, x \in Query
    <3>1. OnStack(u, x)' <=> OnStack(u, x)
      BY <1>4 DEF OnStack
    <3> QED  BY <1>5, <3>1 DEF TasksTyped
  <2>2. /\ home' \in [Task -> View \union {NoView}]
        /\ \A u \in Task : home'[u] = NoView <=> stack'[u] = <<>>
    <3>1. CASE rest = <<>>
      BY <1>4, <3>1 DEF TasksTyped, rest
    <3>2. CASE rest # <<>>
      BY <1>1, <1>4, <3>2 DEF TasksTyped, rest
    <3> QED  BY <3>1, <3>2
  <2>3. \A u \in Task, x \in Query : frame'[u][x].pc # "idle" <=> OnStack(u, x)'
    BY <1>6, <2>1
  <2> QED  BY <1>4, <1>5, <2>2, <2>3 DEF TasksTyped
<1>8. \A u \in Task \ {t} :
        /\ \A m, n \in 1..Len(stack'[u]) : stack'[u][m] = stack'[u][n] => m = n
        /\ \A n \in 1..Len(stack'[u]) : HasWhatItNeeds(frame'[u][stack'[u][n]])
        /\ Active(u)' => WithinReads(F(u)')
        /\ \A n \in 1..(Len(stack'[u]) - 1) : AskedForMore(frame'[u][stack'[u][n]])
    BY <1>4, <1>5 DEF StacksFit, Active, F, Cur
<1>9. \A m, n \in 1..Len(stack'[t]) : stack'[t][m] = stack'[t][n] => m = n
  <2>1. \A n \in 1..(k - 1) : n \in 1..k
    BY <1>1
  <2> QED  BY <1>2, <1>4, <2>1 DEF StacksFit, k
<1>10. \A n \in 1..Len(stack'[t]) : HasWhatItNeeds(frame'[t][stack'[t][n]])
  <2> TAKE n \in 1..Len(stack'[t])
  <2>1. n \in 1..(k - 1) /\ n \in 1..k
    BY <1>1, <1>2, <1>4
  <2>2. HasWhatItNeeds(frame[t][stack[t][n]])
    BY <2>1 DEF StacksFit, k
  <2> QED  BY <1>2, <1>4, <1>5, <2>1, <2>2 DEF MayGoOn
<1>11. Active(t)' => WithinReads(F(t)')
  <2> SUFFICES ASSUME rest # <<>> PROVE WithinReads(F(t)')
    BY <1>4 DEF Active
  <2>1. F(t)' = f
    BY <1>2, <1>3, <1>4, <1>5 DEF F, Cur
  <2> QED  BY <1>5, <2>1 DEF MayGoOn
<1>12. \A n \in 1..(Len(stack'[t]) - 1) : AskedForMore(frame'[t][stack'[t][n]])
  <2> TAKE n \in 1..(Len(stack'[t]) - 1)
  <2>1. n \in 1..(k - 1) /\ n \in 1..k /\ k - 1 \in 1..k /\ n # k - 1
    BY <1>1, <1>2, <1>4
  <2>2. stack[t][n] # stack[t][k - 1] /\ AskedForMore(frame[t][stack[t][n]])
    BY <2>1 DEF StacksFit, k
  <2>3. rest # <<>> => stack[t][n] # c
    BY <1>2, <2>2
  <2> QED  BY <1>2, <1>4, <1>5, <2>1, <2>2, <2>3
<1> QED  BY <1>7, <1>8, <1>9, <1>10, <1>11, <1>12 DEF StacksFit

(* The current access of a task returns an answer. *)
LEMMA ReturnFits ==
    ASSUME TasksTyped, StacksFit, NEW t \in Task, Active(t), NEW a \in Answer, Return(t, a)
    PROVE  TasksTyped' /\ StacksFit'
<1>1. stack' = [stack EXCEPT ![t] = Below(t)]
    BY DEF Return, Below
<1>2. CASE Below(t) = <<>>
  <2>1. /\ frame' = [frame EXCEPT ![t][Cur(t)] = Idle]
        /\ home' = [home EXCEPT ![t] = NoView]
        /\ out' = [out EXCEPT ![t] = [view |-> home[t], query |-> Cur(t), ok |-> a.ok, val |-> a.val]]
    BY <1>2 DEF Return, Below
  <2>2. [view |-> home[t], query |-> Cur(t), ok |-> a.ok, val |-> a.val]
            \in [view : View, query : Query, ok : BOOLEAN, val : QueryValue \union Error]
    BY CurrentIsOnStack DEF Answer
  <2>3. out' \in [Task -> [view : View, query : Query, ok : BOOLEAN,
                           val : QueryValue \union Error] \union {NoAnswer}]
    BY <2>1, <2>2 DEF TasksTyped
  <2> QED  BY <1>1, <1>2, <2>1, <2>3, PopFits
<1>3. CASE Below(t) # <<>>
  <2> DEFINE f == Resume(frame[t][Caller(t)], a)
  <2>1. /\ frame' = [frame EXCEPT ![t] = [@ EXCEPT ![Cur(t)] = Idle, ![Caller(t)] = f]]
        /\ home' = home /\ out' = out
    BY <1>3 DEF Return, Below, Caller
  <2>2. MayGoOn(f)
    <3>1. a \in Told
      BY DEF Told
    <3> QED  BY <1>3, <3>1, BelowIsWaiting, ResumeFits
  <2>3. out' \in [Task -> [view : View, query : Query, ok : BOOLEAN,
                           val : QueryValue \union Error] \union {NoAnswer}]
    BY <2>1 DEF TasksTyped
  <2> HIDE DEF f
  <2> QED  BY <1>1, <1>3, <2>1, <2>2, <2>3, PopFits
<1> QED  BY <1>2, <1>3

(* The current access of a dropped task is dropped, and its caller is next. *)
LEMMA DropFits ==
    ASSUME TasksTyped, StacksFit, NEW t \in Task, Active(t), DropAccess(t)
    PROVE  TasksTyped' /\ StacksFit'
<1> DEFINE f == [Idle EXCEPT !.pc = "drop"]
<1>1. MayGoOn(f)
  <2>1. f \in Frame /\ f.pc = "drop"
    BY IdleIsFrame DEF Frame, PC
  <2> QED  BY <2>1 DEF MayGoOn, HasWhatItNeeds, WithinReads
<1>2. stack' = [stack EXCEPT ![t] = Below(t)] /\ out' = out
    BY DEF DropAccess, Below
<1>3. Below(t) = <<>> =>
        /\ frame' = [frame EXCEPT ![t][Cur(t)] = Idle]
        /\ home' = [home EXCEPT ![t] = NoView]
    BY DEF DropAccess, Below
<1>4. Below(t) # <<>> =>
        /\ frame' = [frame EXCEPT ![t] = [@ EXCEPT ![Cur(t)] = Idle, ![Caller(t)] = f]]
        /\ home' = home
    BY DEF DropAccess, Below, Caller
<1> HIDE DEF f
<1>5. out' \in [Task -> [view : View, query : Query, ok : BOOLEAN,
                         val : QueryValue \union Error] \union {NoAnswer}]
    BY <1>2 DEF TasksTyped
<1> QED  BY <1>1, <1>2, <1>3, <1>4, <1>5, PopFits

-----------------------------------------------------------------------------
(* Cells, records and what a program does next *)

LEMMA CellsAre ==
    /\ Vacant \in Cell /\ Running \in Cell
    /\ \A c \in Cell :
        /\ c.st \in {"Vacant", "Running", "Ready", "Poisoned"}
        /\ c.st = "Ready" =>
            /\ c.val \in QueryValue /\ c.ver \in Revision /\ c.ch \in Revision /\ c.deps \in DepLists
            /\ c = ReadyCell(c.val, c.ver, c.ch, c.deps)
        /\ c.st = "Poisoned" => c.err \in Error /\ c.ver \in Revision
    /\ \A x \in QueryValue, r, h \in Revision, d \in DepLists : ReadyCell(x, r, h, d) \in Cell
    /\ \A e \in Error, r \in Revision : Poisoned(e, r) \in Cell
<1> USE DEF Cell, Vacant, Running, ReadyCell, Poisoned
<1>1. Vacant \in Cell /\ Running \in Cell
    OBVIOUS
<1>2. ASSUME NEW c \in Cell PROVE
        /\ c.st \in {"Vacant", "Running", "Ready", "Poisoned"}
        /\ c.st = "Ready" =>
            /\ c.val \in QueryValue /\ c.ver \in Revision /\ c.ch \in Revision /\ c.deps \in DepLists
            /\ c = ReadyCell(c.val, c.ver, c.ch, c.deps)
        /\ c.st = "Poisoned" => c.err \in Error /\ c.ver \in Revision
    OBVIOUS
<1>3. /\ \A x \in QueryValue, r, h \in Revision, d \in DepLists : ReadyCell(x, r, h, d) \in Cell
      /\ \A e \in Error, r \in Revision : Poisoned(e, r) \in Cell
    OBVIOUS
<1> QED  BY <1>1, <1>2, <1>3

LEMMA AnswersAre ==
    /\ \A x \in QueryValue, h \in Revision :
        Ok(x, h) \in Answer /\ [val |-> x, ch |-> h] \in [val : QueryValue, ch : Revision]
    /\ \A e \in Error : Err(e) \in Answer /\ ~Err(e).ok /\ Err(e).val = e
    /\ \A h \in Revision : Ok(None, h) \in Told
    /\ \A a \in Answer : ~a.ok => a.val \in Error
    /\ \A c \in Cell : c.st \in {"Ready", "Poisoned"} => AnswerOf(c) \in Answer
<1>1. /\ \A x \in QueryValue, h \in Revision :
            Ok(x, h) \in Answer /\ [val |-> x, ch |-> h] \in [val : QueryValue, ch : Revision]
      /\ \A e \in Error : Err(e) \in Answer /\ ~Err(e).ok /\ Err(e).val = e
      /\ \A h \in Revision : Ok(None, h) \in Told
      /\ \A a \in Answer : ~a.ok => a.val \in Error
    BY DEF Ok, Err, Answer, Told
<1>2. \A c \in Cell : c.st \in {"Ready", "Poisoned"} => AnswerOf(c) \in Answer
    BY <1>1, CellsAre DEF AnswerOf
<1> QED  BY <1>1, <1>2

LEMMA RecordsAre ==
    /\ \A x \in QueryValue, d \in DepLists, h \in Revision : [val |-> x, deps |-> d, ch |-> h] \in Record
    /\ \A r \in Record : r.val \in QueryValue /\ r.deps \in DepLists /\ r.ch \in Revision
    /\ \A r \in SharedRecord :
        r.val \in QueryValue /\ r.deps \in DepLists /\ r.ch \in Revision /\ r.ver \in Revision
    /\ \A x \in QueryValue, d \in DepLists, h, r \in Revision :
        [val |-> x, deps |-> d, ch |-> h, ver |-> r] \in SharedRecord
    BY DEF Record, SharedRecord

\* What an access holds while it is where it is.
LEMMA FrameFields ==
    ASSUME NEW f \in Frame
    PROVE  /\ f.pc \in PC /\ f.rev \in Revision /\ f.i \in Nat
           /\ f.prev \in [val : QueryValue, ch : Revision] \union {NoValue}
           /\ f.rec \in Record \union {NoRecord}
           /\ f.seen \in Seq(Answered) /\ f.deps \in Seq(Input \union Query)
           /\ Len(f.seen) \in Nat /\ Len(f.deps) \in Nat
<1>1. f.seen \in Seq(Answered) /\ f.deps \in Seq(Input \union Query)
    BY DEF Frame
<1>2. Len(f.seen) \in Nat /\ Len(f.deps) \in Nat
    BY <1>1, LenProperties
<1> QED  BY <1>1, <1>2 DEF Frame

\* The program, asked within its bound, goes on within it.
LEMMA ProgramFits ==
    ASSUME NEW x \in Query, NEW seen \in Seq(Answered), Len(seen) <= MaxReads
    PROVE  /\ Program(x, seen).do = "get" =>
                Program(x, seen).dep \in Input \union Query /\ Len(seen) < MaxReads
           /\ Program(x, seen).do = "ok" => Program(x, seen).val \in QueryValue
           /\ Program(x, seen).do = "err" => Program(x, seen).val \in Error
<1>1. MaxReads \in Nat /\ Len(seen) \in Nat /\ seen \in [1..Len(seen) -> Answered]
    BY ProgramsEnd, LenProperties
<1>2. Len(seen) \in 0..MaxReads
    BY <1>1
<1>3. LET p == Program(x, seen)
      IN  \/ p.do = "get" /\ p.dep \in Input \union Query /\ Len(seen) < MaxReads
          \/ p.do = "ok" /\ p.val \in QueryValue
          \/ p.do = "err" /\ p.val \in Error
    BY <1>1, <1>2, ProgramsEnd
<1> QED  BY <1>3

LEMMA DepListsAre ==
    /\ \A d \in Seq(Input \union Query) : Len(d) <= MaxReads => d \in DepLists
    /\ \A d \in DepLists : d \in Seq(Input \union Query)
<1>1. ASSUME NEW d \in Seq(Input \union Query), Len(d) <= MaxReads PROVE d \in DepLists
  <2>1. MaxReads \in Nat /\ Len(d) \in Nat /\ d \in [1..Len(d) -> Input \union Query]
    BY ProgramsEnd, LenProperties
  <2>2. Len(d) \in 0..MaxReads
    BY <1>1, <2>1
  <2> QED  BY <2>1, <2>2 DEF DepLists
<1>2. \A d \in DepLists : d \in Seq(Input \union Query)
  <2>1. 0..MaxReads \subseteq Nat
    BY ProgramsEnd
  <2> QED  BY <2>1, SeqDef DEF DepLists
<1> QED  BY <1>1, <1>2

-----------------------------------------------------------------------------
(* Each step of an access leaves the stacks and frames as they should be *)

LEMMA CurrentMayGoOn ==
    ASSUME TasksTyped, StacksFit, NEW t \in Task, Active(t)
    PROVE  MayGoOn(F(t))
    BY CurrentIsOnStack DEF StacksFit, MayGoOn

LEMMA Restarts ==
    /\ MayGoOn(AtTop) /\ MayGoOn([Idle EXCEPT !.pc = "await"]) /\ MayGoOn([Idle EXCEPT !.pc = "drop"])
    /\ \A r \in Revision : MayGoOn([AtTop EXCEPT !.pc = "observe", !.rev = r])
    /\ \A r \in Revision, a \in Answer :
        /\ MayGoOn([Idle EXCEPT !.pc = "check", !.rev = r, !.ans = a])
        /\ \A c \in Record : MayGoOn([Idle EXCEPT !.pc = "put", !.rev = r, !.rec = c, !.ans = a])
    /\ \A r \in Revision, a \in Answer : ~a.ok => MayGoOn([Idle EXCEPT !.pc = "fail", !.rev = r, !.ans = a])
<1> USE DEF HasWhatItNeeds, WithinReads
<1>1. /\ MayGoOn(AtTop) /\ MayGoOn([Idle EXCEPT !.pc = "await"]) /\ MayGoOn([Idle EXCEPT !.pc = "drop"])
  <2>1. /\ [Idle EXCEPT !.pc = "await"] \in Frame /\ [Idle EXCEPT !.pc = "await"].pc = "await"
        /\ [Idle EXCEPT !.pc = "drop"] \in Frame /\ [Idle EXCEPT !.pc = "drop"].pc = "drop"
    BY IdleIsFrame DEF Frame, PC
  <2> QED  BY <2>1, IdleIsFrame DEF MayGoOn
<1>2. ASSUME NEW r \in Revision PROVE MayGoOn([AtTop EXCEPT !.pc = "observe", !.rev = r])
  <2> DEFINE f == [AtTop EXCEPT !.pc = "observe", !.rev = r]
  <2>1. f \in Frame /\ f.pc = "observe"
    BY IdleIsFrame DEF Frame, PC
  <2>2. f.seen = <<>> /\ f.deps = <<>>
    BY DEF AtTop, Idle
  <2> QED  BY <2>1, <2>2 DEF MayGoOn
<1>3. ASSUME NEW r \in Revision, NEW a \in Answer
      PROVE  MayGoOn([Idle EXCEPT !.pc = "check", !.rev = r, !.ans = a])
  <2> DEFINE f == [Idle EXCEPT !.pc = "check", !.rev = r, !.ans = a]
  <2>1. f \in Frame /\ f.pc = "check" /\ f.ans = a
    BY IdleIsFrame DEF Frame, PC
  <2> QED  BY <2>1 DEF MayGoOn
<1>4. ASSUME NEW r \in Revision, NEW a \in Answer, NEW c \in Record
      PROVE  MayGoOn([Idle EXCEPT !.pc = "put", !.rev = r, !.rec = c, !.ans = a])
  <2> DEFINE f == [Idle EXCEPT !.pc = "put", !.rev = r, !.rec = c, !.ans = a]
  <2>1. f \in Frame /\ f.pc = "put" /\ f.ans = a /\ f.rec = c
    BY IdleIsFrame DEF Frame, PC
  <2> QED  BY <2>1 DEF MayGoOn
<1>5. ASSUME NEW r \in Revision, NEW a \in Answer, ~a.ok
      PROVE  MayGoOn([Idle EXCEPT !.pc = "fail", !.rev = r, !.ans = a])
  <2> DEFINE f == [Idle EXCEPT !.pc = "fail", !.rev = r, !.ans = a]
  <2>1. f \in Frame /\ f.pc = "fail" /\ f.ans = a
    BY IdleIsFrame DEF Frame, PC
  <2> QED  BY <1>5, <2>1 DEF MayGoOn
<1> QED  BY <1>1, <1>2, <1>3, <1>4, <1>5

(* What an access makes of its cell. *)
LEMMA ObservedFits ==
    ASSUME NEW f \in Frame, f.pc = "observe", HasWhatItNeeds(f), NEW c \in Cell
    PROVE  MayGoOn(Observed(f, c))
<1>1. c.st \in {"Vacant", "Running", "Ready", "Poisoned"}
    BY CellsAre
<1>2. CASE Current(c, f.rev)
  <2>1. AnswerOf(c) \in Answer
    BY <1>2, AnswersAre DEF Current
  <2>2. Observed(f, c) = [f EXCEPT !.pc = "check", !.ans = AnswerOf(c)]
    BY <1>2 DEF Observed, Current
  <2>3. Observed(f, c) \in Frame /\ Observed(f, c).pc = "check" /\ Observed(f, c).ans = AnswerOf(c)
    BY <2>1, <2>2 DEF Frame, PC
  <2> QED  BY <2>1, <2>3 DEF MayGoOn, HasWhatItNeeds, WithinReads
<1>3. CASE c.st = "Running"
  <2>1. Observed(f, c) = [Idle EXCEPT !.pc = "await"]
    BY <1>3 DEF Observed, Current
  <2> QED  BY <2>1, Restarts
<1>4. CASE c.st = "Ready" /\ ~Current(c, f.rev)
  <2> DEFINE r == [val |-> c.val, deps |-> c.deps, ch |-> c.ch]
  <2>1. r \in Record
    BY <1>4, CellsAre, RecordsAre
  <2>2. Observed(f, c) = [f EXCEPT !.pc = "touchLocal", !.i = 1, !.rec = r]
    BY <1>4 DEF Observed, Current
  <2> HIDE DEF r
  <2>3. "touchLocal" \in PC /\ 1 \in Nat
    BY DEF PC
  <2>4. Observed(f, c) \in Frame
    BY <2>1, <2>2, <2>3 DEF Frame
  <2>5. Observed(f, c).pc = "touchLocal" /\ Observed(f, c).rec = r /\ Observed(f, c).i = 1
    BY <2>2 DEF Frame
  <2> QED  BY <2>1, <2>4, <2>5 DEF MayGoOn, HasWhatItNeeds, WithinReads
<1>5. CASE c.st \in {"Vacant", "Poisoned"} /\ ~Current(c, f.rev)
  <2>1. Observed(f, c) = [f EXCEPT !.pc = "start"]
    BY <1>5 DEF Observed, Current
  <2>2. /\ Observed(f, c) \in Frame /\ Observed(f, c).pc = "start"
        /\ Observed(f, c).seen = f.seen /\ Observed(f, c).deps = f.deps
    BY <2>1 DEF Frame, PC
  <2> QED  BY <2>2 DEF MayGoOn, HasWhatItNeeds, WithinReads
<1> QED  BY <1>1, <1>2, <1>3, <1>4, <1>5

\* The types of everything but the registry, and what accesses have.
EngineTypes == DbTypeOK /\ CellsTyped /\ TasksTyped /\ StacksFit

LEMMA DbStays == ASSUME DbTypeOK, UNCHANGED dbVars PROVE DbTypeOK'
    BY DEF DbTypeOK, dbVars

LEMMA CellsStay == ASSUME CellsTyped, UNCHANGED <<cellVars, shared>> PROVE CellsTyped'
    BY DEF CellsTyped, cellVars

LEMMA TasksStay ==
    ASSUME TasksTyped, StacksFit, UNCHANGED taskVars PROVE TasksTyped' /\ StacksFit'
<1>1. TasksTyped'
    BY DEF TasksTyped, taskVars, OnStack
<1>2. StacksFit'
    BY DEF StacksFit, taskVars, Active, F, Cur
<1> QED  BY <1>1, <1>2

\* What an access sees is of its type.
LEMMA AccessSees ==
    ASSUME EngineTypes, NEW t \in Task, Active(t)
    PROVE  /\ Cur(t) \in Query /\ home[t] \in View /\ Scope(home[t]) \in View
           /\ TheCell(t) \in Cell /\ TheCell(t) = cell[home[t]][Cur(t)]
           /\ rev[home[t]] \in Revision /\ MayGoOn(F(t)) /\ F(t) \in Frame
           /\ \A i \in Input : input[home[t]][i].val \in Stored /\ input[home[t]][i].ch \in Revision
<1>1. Cur(t) \in Query /\ home[t] \in View /\ MayGoOn(F(t)) /\ F(t) \in Frame
    BY CurrentIsOnStack, CurrentMayGoOn DEF EngineTypes
<1>2. Scope(home[t]) \in View
    BY <1>1, LiveIsAView DEF Scope
<1>3. TheCell(t) \in Cell
    BY <1>1 DEF EngineTypes, CellsTyped, TheCell
<1>4. /\ rev[home[t]] \in Revision
      /\ \A i \in Input : input[home[t]][i].val \in Stored /\ input[home[t]][i].ch \in Revision
    BY <1>1 DEF EngineTypes, DbTypeOK
<1> QED  BY <1>1, <1>2, <1>3, <1>4 DEF TheCell

LEMMA NewCellFits ==
    ASSUME EngineTypes, NEW t \in Task, Active(t), NEW c \in Cell, NEW W \in SUBSET Task,
           cell' = [cell EXCEPT ![home[t]][Cur(t)] = c] \/ cell' = cell,
           waiting' = [waiting EXCEPT ![home[t]][Cur(t)] = W] \/ waiting' = waiting,
           shared' = shared
    PROVE  CellsTyped'
<1>1. Cur(t) \in Query /\ home[t] \in View
    BY AccessSees
<1> DEFINE v == home[t]
           q == Cur(t)
<1> HIDE DEF v, q
<1>2. cell' \in [View -> [Query -> Cell]]
  <2>1. cell \in [View -> [Query -> Cell]] /\ (cell' = cell \/ cell' = [cell EXCEPT ![v][q] = c])
    BY DEF EngineTypes, CellsTyped, v, q
  <2> QED  BY <1>1, <2>1 DEF v, q
<1>3. waiting' \in [View -> [Query -> SUBSET Task]]
  <2>1. /\ waiting \in [View -> [Query -> SUBSET Task]]
        /\ waiting' = waiting \/ waiting' = [waiting EXCEPT ![v][q] = W]
    BY DEF EngineTypes, CellsTyped, v, q
  <2>2. v \in View /\ [waiting[v] EXCEPT ![q] = W] \in [Query -> SUBSET Task]
    BY <1>1, <2>1 DEF v, q
  <2>3. [waiting EXCEPT ![v][q] = W] = [waiting EXCEPT ![v] = [waiting[v] EXCEPT ![q] = W]]
    BY <2>1, <2>2
  <2> QED  BY <2>1, <2>2, <2>3
<1> QED  BY <1>2, <1>3 DEF EngineTypes, CellsTyped

LEMMA SetCellFits ==
    ASSUME EngineTypes, NEW t \in Task, Active(t), NEW c \in Cell, SetCell(t, c), shared' = shared
    PROVE  CellsTyped'
<1>1. /\ cell' = [cell EXCEPT ![home[t]][Cur(t)] = c]
      /\ waiting' = [waiting EXCEPT ![home[t]][Cur(t)] = {}]
      /\ {} \in SUBSET Task
    BY DEF SetCell
<1> QED  BY <1>1, NewCellFits

\* An access goes on where it is, and the database stays.
LEMMA StepFits ==
    ASSUME EngineTypes, NEW t \in Task, Active(t), NEW f, MayGoOn(f), Go(t, f), UNCHANGED dbVars,
           CellsTyped'
    PROVE  EngineTypes'
<1>1. DbTypeOK'
    BY DbStays DEF EngineTypes
<1>2. TasksTyped' /\ StacksFit'
    BY GoFits DEF EngineTypes, MayGoOn
<1> QED  BY <1>1, <1>2 DEF EngineTypes

LEMMA LookingFits ==
    ASSUME EngineTypes, NEW t \in Task, ReadRevision(t) \/ Observe(t) \/ Await(t)
    PROVE  EngineTypes'
<1>1. Active(t)
    BY DEF ReadRevision, Observe, Await, At
<1>2. waiting[home[t]][Cur(t)] \subseteq Task
    BY <1>1, AccessSees DEF EngineTypes, CellsTyped
<1>3. CASE ReadRevision(t)
  <2>1. /\ Go(t, [AtTop EXCEPT !.pc = "observe", !.rev = rev[home[t]]])
        /\ UNCHANGED dbVars /\ cell' = cell /\ shared' = shared
        /\ waiting' = [waiting EXCEPT ![home[t]][Cur(t)] = waiting[home[t]][Cur(t)] \union {t}]
    BY <1>3 DEF ReadRevision
  <2>2. MayGoOn([AtTop EXCEPT !.pc = "observe", !.rev = rev[home[t]]])
    BY <1>1, AccessSees, Restarts
  <2>3. CellsTyped'
    <3>1. waiting[home[t]][Cur(t)] \union {t} \in SUBSET Task
      BY <1>2
    <3> QED  BY <1>1, <2>1, <3>1, NewCellFits, CellsAre
  <2> QED  BY <1>1, <2>1, <2>2, <2>3, StepFits
<1>4. CASE Observe(t)
  <2>1. /\ Go(t, Observed(F(t), TheCell(t))) /\ F(t).pc = "observe"
        /\ UNCHANGED dbVars /\ cell' = cell /\ shared' = shared
        /\ \/ waiting' = waiting
           \/ waiting' = [waiting EXCEPT ![home[t]][Cur(t)] = waiting[home[t]][Cur(t)] \ {t}]
    BY <1>4 DEF Observe, At
  <2>2. MayGoOn(Observed(F(t), TheCell(t)))
    BY <1>1, <2>1, AccessSees, ObservedFits DEF MayGoOn
  <2>3. CellsTyped'
    BY <1>1, <1>2, <2>1, NewCellFits, CellsAre
  <2> QED  BY <1>1, <2>1, <2>2, <2>3, StepFits
<1>5. CASE Await(t)
  <2>1. Go(t, AtTop) /\ UNCHANGED <<dbVars, cellVars, shared>>
    BY <1>5 DEF Await
  <2>2. CellsTyped'
    BY <2>1, CellsStay DEF EngineTypes
  <2> QED  BY <1>1, <2>1, <2>2, StepFits, Restarts
<1> QED  BY <1>3, <1>4, <1>5

LEMMA ReturningFits ==
    ASSUME EngineTypes, NEW t \in Task, Check(t) \/ Raise(t)
    PROVE  EngineTypes'
<1>1. /\ Active(t) /\ F(t).pc \in {"check", "raise"} /\ UNCHANGED <<dbVars, cellVars, shared>>
      /\ Return(t, F(t).ans) \/ Go(t, AtTop)
    BY DEF Check, Raise, At
<1>2. DbTypeOK' /\ CellsTyped'
    BY <1>1, DbStays, CellsStay DEF EngineTypes
<1>3. F(t).ans \in Answer
    BY <1>1, AccessSees DEF MayGoOn, HasWhatItNeeds
<1>4. TasksTyped' /\ StacksFit'
    BY <1>1, <1>3, ReturnFits, GoFits, Restarts DEF EngineTypes, MayGoOn
<1> QED  BY <1>2, <1>4 DEF EngineTypes

LEMMA TouchingFits ==
    ASSUME EngineTypes, NEW t \in Task, Touch(t)
    PROVE  EngineTypes'
<1> DEFINE f == F(t)
           d == f.rec.deps[f.i]
<1>1. /\ Active(t) /\ f.pc \in {"touchLocal", "touchShared"} /\ UNCHANGED <<dbVars, cellVars, shared>>
      /\ \/ d \in Input /\ Go(t, Resume(f, Ok(None, input[home[t]][d].ch)))
         \/ d \in Query /\ ~OnStack(t, d) /\ Call(t, d, f)
         \/ Go(t, Resume(f, Err(Cycle)))
    BY DEF Touch, At, OnStack
<1>2. DbTypeOK' /\ CellsTyped'
    BY <1>1, DbStays, CellsStay DEF EngineTypes
<1>3. f \in Frame /\ HasWhatItNeeds(f) /\ AskedForMore(f)
    BY <1>1, AccessSees DEF MayGoOn, AskedForMore
<1>4. \A a \in Told : MayGoOn(Resume(f, a))
    BY <1>3, ResumeFits
<1>5. Err(Cycle) \in Told /\ \A i \in Input : Ok(None, input[home[t]][i].ch) \in Told
    BY <1>1, AccessSees, AnswersAre, ErrorsAreNoValues DEF Told
<1>6. TasksTyped' /\ StacksFit'
  <2>1. CASE \E a \in Told : Go(t, Resume(f, a))
    BY <1>1, <1>4, <2>1, GoFits DEF EngineTypes, MayGoOn
  <2>2. CASE d \in Query /\ ~OnStack(t, d) /\ Call(t, d, f)
    BY <1>1, <1>3, <2>2, CallFits DEF EngineTypes
  <2> QED  BY <1>1, <1>5, <2>1, <2>2
<1> QED  BY <1>2, <1>6 DEF EngineTypes

\* An access that has read nothing moves on to lead, a follower to follow.
LEMMA MovesOn ==
    ASSUME NEW f, MayGoOn(f)
    PROVE  /\ f.seen = <<>> /\ f.deps = <<>> => MayGoOn([f EXCEPT !.pc = "lead"])
           /\ MayGoOn([f EXCEPT !.pc = "follow"])
<1>1. [f EXCEPT !.pc = "follow"] \in Frame /\ [f EXCEPT !.pc = "follow"].pc = "follow"
    BY DEF MayGoOn, Frame, PC
<1> DEFINE g == [f EXCEPT !.pc = "lead"]
<1>2. g \in Frame /\ g.pc = "lead" /\ g.seen = f.seen /\ g.deps = f.deps
    BY DEF MayGoOn, Frame, PC
<1> QED  BY <1>1, <1>2 DEF MayGoOn, HasWhatItNeeds, WithinReads

LEMMA VerifyFits ==
    ASSUME EngineTypes, NEW t \in Task, Verify(t)
    PROVE  EngineTypes'
<1> DEFINE c == TheCell(t)
           r == F(t).rev
<1>1. Active(t) /\ UNCHANGED dbVars /\ waiting' = waiting /\ shared' = shared
    BY DEF Verify, At
<1>2. Cur(t) \in Query /\ home[t] \in View /\ c \in Cell /\ c = cell[home[t]][Cur(t)] /\ r \in Revision
    BY <1>1, AccessSees, FrameFields
<1>3. CASE c.st = "Ready"
  <2>1. /\ cell' = [cell EXCEPT ![home[t]][Cur(t)].ver = r]
        /\ Go(t, [Idle EXCEPT !.pc = "check", !.rev = r, !.ans = AnswerOf(c)])
    BY <1>3 DEF Verify
  <2>2. c = ReadyCell(c.val, c.ver, c.ch, c.deps) /\ ReadyCell(c.val, r, c.ch, c.deps) \in Cell
    BY <1>2, <1>3, CellsAre
  <2>3. [c EXCEPT !.ver = r] = ReadyCell(c.val, r, c.ch, c.deps)
    BY <2>2 DEF ReadyCell
  <2>4. cell' = [cell EXCEPT ![home[t]][Cur(t)] = ReadyCell(c.val, r, c.ch, c.deps)]
    BY <1>2, <2>1, <2>3
  <2>5. CellsTyped'
    BY <1>1, <2>2, <2>4, NewCellFits
  <2>6. AnswerOf(c) \in Answer
    BY <1>2, <1>3, AnswersAre
  <2> QED  BY <1>1, <1>2, <2>1, <2>5, <2>6, StepFits, Restarts
<1>4. CASE c.st # "Ready"
  <2>1. cell' = cell /\ Go(t, AtTop)
    BY <1>4 DEF Verify
  <2>2. CellsTyped'
    BY <1>1, <2>1, NewCellFits, CellsAre
  <2> QED  BY <1>1, <2>1, <2>2, StepFits, Restarts
<1> QED  BY <1>3, <1>4

LEMMA StartFits ==
    ASSUME EngineTypes, NEW t \in Task, Start(t)
    PROVE  EngineTypes'
<1> DEFINE c == TheCell(t)
           old == IF c.st = "Ready" THEN [val |-> c.val, ch |-> c.ch] ELSE NoValue
           f == [F(t) EXCEPT !.pc = "shared", !.prev = old]
<1>1. /\ Active(t) /\ F(t).pc = "start"
      /\ UNCHANGED dbVars /\ waiting' = waiting /\ shared' = shared
      /\ \/ Go(t, AtTop) /\ cell' = cell
         \/ Go(t, f) /\ cell' = [cell EXCEPT ![home[t]][Cur(t)] = Running]
    BY DEF Start, At
<1>2. c \in Cell /\ F(t) \in Frame /\ F(t).seen = <<>> /\ F(t).deps = <<>>
    BY <1>1, AccessSees DEF MayGoOn, HasWhatItNeeds
<1>3. old \in [val : QueryValue, ch : Revision] \union {NoValue}
    BY <1>2, CellsAre, AnswersAre
<1> HIDE DEF c, old
<1>4. f \in Frame /\ f.pc = "shared" /\ f.seen = <<>> /\ f.deps = <<>>
    BY <1>2, <1>3 DEF Frame, PC
<1>5. MayGoOn(f)
    BY <1>4 DEF MayGoOn, HasWhatItNeeds, WithinReads
<1> HIDE DEF f
<1>6. CellsTyped'
    BY <1>1, NewCellFits, CellsAre
<1> QED  BY <1>1, <1>5, <1>6, StepFits, Restarts

LEMMA SharedGetFits ==
    ASSUME EngineTypes, NEW t \in Task, SharedGet(t)
    PROVE  EngineTypes'
<1> DEFINE f == F(t)
           r == shared[Scope(home[t])][Cur(t)]
           c == [val |-> r.val, deps |-> r.deps, ch |-> r.ch]
<1>1. Active(t) /\ f.pc = "shared" /\ UNCHANGED <<dbVars, cellVars, shared>>
    BY DEF SharedGet, At
<1>2. /\ f \in Frame /\ MayGoOn(f) /\ r \in SharedRecord \union {NoRecord}
      /\ f.seen = <<>> /\ f.deps = <<>>
    BY <1>1, AccessSees DEF EngineTypes, CellsTyped, MayGoOn, HasWhatItNeeds
<1>3. CellsTyped'
    BY <1>1, CellsStay DEF EngineTypes
<1>4. r # NoRecord => c \in Record
    BY <1>2, RecordsAre
<1>5. \/ Go(t, [f EXCEPT !.pc = "lead"])
      \/ r # NoRecord /\ Go(t, [f EXCEPT !.pc = "adopt", !.rec = c])
      \/ r # NoRecord /\ Go(t, [f EXCEPT !.pc = "touchShared", !.i = 1, !.rec = c])
    BY DEF SharedGet
<1> HIDE DEF f, r, c
<1>6. CASE Go(t, [f EXCEPT !.pc = "lead"])
    BY <1>1, <1>2, <1>3, <1>6, MovesOn, StepFits
<1>7. CASE r # NoRecord /\ Go(t, [f EXCEPT !.pc = "adopt", !.rec = c])
  <2> DEFINE g == [f EXCEPT !.pc = "adopt", !.rec = c]
  <2>1. g \in Frame /\ g.pc = "adopt" /\ g.rec = c
    BY <1>2, <1>4, <1>7 DEF Frame, PC
  <2>2. MayGoOn(g)
    BY <1>4, <1>7, <2>1 DEF MayGoOn, HasWhatItNeeds, WithinReads
  <2> QED  BY <1>1, <1>3, <1>7, <2>2, StepFits
<1>8. CASE r # NoRecord /\ Go(t, [f EXCEPT !.pc = "touchShared", !.i = 1, !.rec = c])
  <2> DEFINE g == [f EXCEPT !.pc = "touchShared", !.i = 1, !.rec = c]
  <2>1. "touchShared" \in PC /\ 1 \in Nat
    BY DEF PC
  <2>2. g \in Frame
    BY <1>2, <1>4, <1>8, <2>1 DEF Frame
  <2>3. g.pc = "touchShared" /\ g.rec = c /\ g.i = 1 /\ g.seen = f.seen /\ g.deps = f.deps
    BY <1>2 DEF Frame
  <2>4. MayGoOn(g)
    BY <1>2, <1>4, <1>8, <2>2, <2>3 DEF MayGoOn, HasWhatItNeeds, WithinReads
  <2> QED  BY <1>1, <1>3, <1>8, <2>4, StepFits
<1> QED  BY <1>5, <1>6, <1>7, <1>8

LEMMA AdoptFits ==
    ASSUME EngineTypes, NEW t \in Task, Adopt(t)
    PROVE  EngineTypes'
<1> DEFINE r == F(t).rec
           new == ReadyCell(r.val, F(t).rev, r.ch, r.deps)
<1>1. /\ Active(t) /\ F(t).pc \in {"adopt", "take", "touchShared"} /\ UNCHANGED dbVars /\ shared' = shared
      /\ SetCell(t, new)
      /\ Go(t, [Idle EXCEPT !.pc = "put", !.rev = F(t).rev, !.rec = r, !.ans = Ok(r.val, r.ch)])
    BY DEF Adopt, At, AdoptRecord
<1>2. r \in Record /\ F(t).rev \in Revision
    BY <1>1, AccessSees, FrameFields DEF MayGoOn, HasWhatItNeeds
<1>3. Ok(r.val, r.ch) \in Answer /\ new \in Cell
    BY <1>2, RecordsAre, AnswersAre, CellsAre
<1>4. CellsTyped'
    BY <1>1, <1>3, SetCellFits
<1>5. MayGoOn([Idle EXCEPT !.pc = "put", !.rev = F(t).rev, !.rec = r, !.ans = Ok(r.val, r.ch)])
    BY <1>2, <1>3, Restarts
<1> QED  BY <1>1, <1>4, <1>5, StepFits

LEMMA SharedPutFits ==
    ASSUME EngineTypes, NEW t \in Task, SharedPut(t)
    PROVE  EngineTypes'
<1> DEFINE f == F(t)
           r == f.rec
           s == [val |-> r.val, deps |-> r.deps, ch |-> r.ch, ver |-> f.rev]
<1>1. /\ Active(t) /\ f.pc = "put" /\ UNCHANGED <<dbVars, cellVars>>
      /\ shared' = [shared EXCEPT ![Scope(home[t])][Cur(t)] = s]
      /\ \/ Go(t, [f EXCEPT !.pc = "complete"])
         \/ Go(t, [f EXCEPT !.pc = "check", !.rec = NoRecord])
    BY DEF SharedPut, At
<1>2. /\ f \in Frame /\ r \in Record /\ f.ans \in Answer /\ f.rev \in Revision
      /\ Cur(t) \in Query /\ Scope(home[t]) \in View
    BY <1>1, AccessSees, FrameFields DEF MayGoOn, HasWhatItNeeds
<1>3. s \in SharedRecord
    BY <1>2, RecordsAre
<1> HIDE DEF s
<1>4. CellsTyped'
    BY <1>1, <1>2, <1>3 DEF EngineTypes, CellsTyped, cellVars
<1>5. MayGoOn([f EXCEPT !.pc = "complete"])
  <2> DEFINE g == [f EXCEPT !.pc = "complete"]
  <2>1. g \in Frame /\ g.pc = "complete" /\ g.rec = f.rec /\ g.ans = f.ans
    BY <1>2 DEF Frame, PC
  <2> QED  BY <1>2, <2>1 DEF MayGoOn, HasWhatItNeeds, WithinReads
<1>6. MayGoOn([f EXCEPT !.pc = "check", !.rec = NoRecord])
  <2> DEFINE g == [f EXCEPT !.pc = "check", !.rec = NoRecord]
  <2>1. g \in Frame /\ g.pc = "check" /\ g.ans = f.ans
    BY <1>2 DEF Frame, PC
  <2> QED  BY <1>2, <2>1 DEF MayGoOn, HasWhatItNeeds, WithinReads
<1> QED  BY <1>1, <1>4, <1>5, <1>6, StepFits

LEMMA EvictFits ==
    ASSUME EngineTypes, NEW v \in View, NEW q \in Query, Evict(v, q)
    PROVE  EngineTypes'
<1>1. /\ UNCHANGED <<dbVars, cellVars, taskVars>>
      /\ shared' = [shared EXCEPT ![v][q] = NoRecord]
    BY DEF Evict
<1>2. CellsTyped'
    BY <1>1 DEF EngineTypes, CellsTyped, cellVars
<1> QED  BY <1>1, <1>2, DbStays, TasksStay DEF EngineTypes

LEMMA TryLeadFits ==
    ASSUME EngineTypes, NEW t \in Task, TryLead(t)
    PROVE  EngineTypes'
<1> DEFINE f == F(t)
<1>1. /\ Active(t) /\ f.pc = "lead" /\ UNCHANGED <<dbVars, cellVars, shared>>
      /\ Go(t, [f EXCEPT !.pc = "compute"]) \/ Go(t, [f EXCEPT !.pc = "vacate", !.prev = NoValue])
    BY DEF TryLead, At
<1>2. f \in Frame /\ MayGoOn(f) /\ f.seen = <<>> /\ f.deps = <<>>
    BY <1>1, AccessSees DEF MayGoOn, HasWhatItNeeds
<1>3. CellsTyped'
    BY <1>1, CellsStay DEF EngineTypes
<1>4. MayGoOn([f EXCEPT !.pc = "compute"])
  <2> DEFINE g == [f EXCEPT !.pc = "compute"]
  <2>1. g \in Frame /\ g.pc = "compute" /\ g.seen = <<>> /\ g.deps = <<>>
    BY <1>2 DEF Frame, PC
  <2>2. Len(g.seen) = 0 /\ Len(g.deps) = 0 /\ MaxReads \in Nat
    BY <2>1, EmptySeq, ProgramsEnd
  <2> QED  BY <2>1, <2>2 DEF MayGoOn, HasWhatItNeeds, WithinReads
<1>5. MayGoOn([f EXCEPT !.pc = "vacate", !.prev = NoValue])
  <2> DEFINE g == [f EXCEPT !.pc = "vacate", !.prev = NoValue]
  <2>1. g \in Frame /\ g.pc = "vacate"
    BY <1>2 DEF Frame, PC
  <2> QED  BY <2>1 DEF MayGoOn, HasWhatItNeeds, WithinReads
<1> HIDE DEF f
<1> QED  BY <1>1, <1>3, <1>4, <1>5, StepFits

LEMMA VacateFits ==
    ASSUME EngineTypes, NEW t \in Task, Vacate(t)
    PROVE  EngineTypes'
<1>1. /\ Active(t) /\ UNCHANGED dbVars /\ waiting' = waiting /\ shared' = shared
      /\ cell' = [cell EXCEPT ![home[t]][Cur(t)] = Vacant]
      /\ Go(t, [F(t) EXCEPT !.pc = "follow"])
    BY DEF Vacate, At
<1>2. CellsTyped'
    BY <1>1, NewCellFits, CellsAre
<1>3. MayGoOn([F(t) EXCEPT !.pc = "follow"])
    BY <1>1, AccessSees, MovesOn
<1> QED  BY <1>1, <1>2, <1>3, StepFits

\* A follower takes a record from a flight that is done and an error from one
\* that failed.
LEMMA TakeOutcomeFits ==
    ASSUME EngineTypes, EntriesFit, Reg!TypeOK, NEW t \in Task, TakeOutcome(t)
    PROVE  EngineTypes'
<1> DEFINE f == F(t)
           e == entryOf[H(t)]
           r == entryResult[e]
<1>1. /\ Active(t) /\ f.pc = "follow" /\ UNCHANGED <<dbVars, cellVars, shared>>
      /\ role[H(t)] = "subscribed" /\ entryState[e] # "Running"
    BY DEF TakeOutcome, At, Reg!Take
<1>2. f \in Frame /\ MayGoOn(f) /\ H(t) \in Holder
    BY <1>1, AccessSees DEF H, Holder
<1>3. e \in Entry /\ entryState[e] \in {"Done", "Failed", "Cancelled"}
    BY <1>1, <1>2 DEF EntriesFit, Reg!TypeOK, Reg!States
<1>4. /\ entryState[e] = "Done" => r \in Record
      /\ entryState[e] = "Failed" => r \in Error
    BY <1>3 DEF EntriesFit
<1>5. \/ entryState[e] = "Done" /\ Go(t, [f EXCEPT !.pc = "take", !.rec = r])
      \/ entryState[e] = "Failed" /\ Go(t, [f EXCEPT !.pc = "poison", !.ans = Err(r)])
      \/ entryState[e] = "Cancelled" /\ Go(t, AtTop)
    BY <1>3 DEF TakeOutcome
<1>6. CellsTyped'
    BY <1>1, CellsStay DEF EngineTypes
<1> HIDE DEF f, e, r
<1>7. CASE entryState[e] = "Done" /\ Go(t, [f EXCEPT !.pc = "take", !.rec = r])
  <2> DEFINE g == [f EXCEPT !.pc = "take", !.rec = r]
  <2>1. g \in Frame /\ g.pc = "take" /\ g.rec = r
    BY <1>2, <1>4, <1>7 DEF Frame, PC
  <2>2. MayGoOn(g)
    BY <1>4, <1>7, <2>1 DEF MayGoOn, HasWhatItNeeds, WithinReads
  <2> QED  BY <1>1, <1>6, <1>7, <2>2, StepFits
<1>8. CASE entryState[e] = "Failed" /\ Go(t, [f EXCEPT !.pc = "poison", !.ans = Err(r)])
  <2> DEFINE g == [f EXCEPT !.pc = "poison", !.ans = Err(r)]
  <2>1. Err(r) \in Answer /\ ~Err(r).ok
    BY <1>4, <1>8, AnswersAre
  <2>2. g \in Frame /\ g.pc = "poison" /\ g.ans = Err(r)
    BY <1>2, <2>1 DEF Frame, PC
  <2>3. MayGoOn(g)
    BY <2>1, <2>2 DEF MayGoOn, HasWhatItNeeds, WithinReads
  <2> QED  BY <1>1, <1>6, <1>8, <2>3, StepFits
<1>9. CASE Go(t, AtTop)
    BY <1>1, <1>6, <1>9, StepFits, Restarts
<1> QED  BY <1>5, <1>7, <1>8, <1>9

\* The program reads on.
LEMMA ReadingFits ==
    ASSUME EngineTypes, NEW t \in Task, ReadInput(t) \/ ReadQuery(t)
    PROVE  EngineTypes'
<1> DEFINE f == F(t)
           d == Todo(t).dep
           g == [f EXCEPT !.deps = Append(@, d)]
<1>1. /\ Active(t) /\ f.pc = "compute" /\ Todo(t).do = "get" /\ UNCHANGED <<dbVars, cellVars, shared>>
    BY DEF ReadInput, ReadQuery, Computing, At
<1>2. /\ f \in Frame /\ MayGoOn(f) /\ Cur(t) \in Query
      /\ f.seen \in Seq(Answered) /\ f.deps \in Seq(Input \union Query)
      /\ Len(f.seen) \in Nat /\ Len(f.deps) \in Nat /\ MaxReads \in Nat
      /\ Len(f.seen) <= MaxReads /\ Len(f.deps) <= Len(f.seen)
    BY <1>1, AccessSees, FrameFields, ProgramsEnd DEF MayGoOn, WithinReads
<1>3. d \in Input \union Query /\ Len(f.seen) < MaxReads
    BY <1>1, <1>2, ProgramFits DEF Todo
<1>4. /\ Append(f.deps, d) \in Seq(Input \union Query)
      /\ Len(Append(f.deps, d)) = Len(f.deps) + 1
    BY <1>2, <1>3, AppendProperties
<1> HIDE DEF f, d
<1>5. g \in Frame /\ g.pc = "compute" /\ g.seen = f.seen /\ g.deps = Append(f.deps, d)
    BY <1>1, <1>2, <1>4 DEF Frame
<1>6. HasWhatItNeeds(g) /\ AskedForMore(g) /\ HasWhatItNeeds(f) /\ AskedForMore(f)
    BY <1>1, <1>2, <1>3, <1>4, <1>5 DEF MayGoOn, HasWhatItNeeds, AskedForMore
<1>7. DbTypeOK' /\ CellsTyped'
    BY <1>1, DbStays, CellsStay DEF EngineTypes
<1>8. CASE ReadInput(t)
  <2> DEFINE x == input[home[t]][d].val
             h == [f EXCEPT !.deps = Append(@, d), !.seen = Append(@, x)]
  <2>1. d \in Input /\ Go(t, h)
    BY <1>8 DEF ReadInput, f, d
  <2>2. x \in Answered
    BY <1>1, <2>1, AccessSees DEF Answered
  <2>3. /\ Append(f.seen, x) \in Seq(Answered)
        /\ Len(Append(f.seen, x)) = Len(f.seen) + 1
    BY <1>2, <2>2, AppendProperties
  <2> HIDE DEF x
  <2>4. h \in Frame /\ h.pc = "compute" /\ h.seen = Append(f.seen, x) /\ h.deps = Append(f.deps, d)
    BY <1>1, <1>2, <1>4, <2>3 DEF Frame
  <2>5. HasWhatItNeeds(h) /\ WithinReads(h)
    BY <1>2, <1>3, <1>4, <2>3, <2>4 DEF HasWhatItNeeds, WithinReads
  <2> HIDE DEF h
  <2>6. TasksTyped' /\ StacksFit'
    BY <1>1, <2>1, <2>4, <2>5, GoFits DEF EngineTypes
  <2> QED  BY <1>7, <2>6 DEF EngineTypes
<1>9. CASE ReadQuery(t)
  <2>1. \/ d \in Query /\ ~OnStack(t, d) /\ Call(t, d, g)
        \/ Go(t, Resume(f, Err(Cycle)))
    BY <1>9 DEF ReadQuery, OnStack, f, d
  <2>2. MayGoOn(Resume(f, Err(Cycle)))
    BY <1>2, <1>6, ResumeFits, AnswersAre, ErrorsAreNoValues DEF Told
  <2> HIDE DEF g
  <2>3. TasksTyped' /\ StacksFit'
    BY <1>1, <1>5, <1>6, <2>1, <2>2, CallFits, GoFits DEF EngineTypes, MayGoOn
  <2> QED  BY <1>7, <2>3 DEF EngineTypes
<1> QED  BY <1>8, <1>9

\* The program has ended, or a leader's failure is taken over.
LEMMA EndingFits ==
    ASSUME EngineTypes, NEW t \in Task, Finish(t) \/ Poison(t)
    PROVE  EngineTypes'
<1> DEFINE f == F(t)
<1>1. Active(t) /\ f.pc \in {"compute", "poison"} /\ UNCHANGED dbVars /\ shared' = shared
    BY DEF Finish, Poison, Computing, At
<1>2. /\ f \in Frame /\ MayGoOn(f) /\ Cur(t) \in Query /\ f.rev \in Revision
      /\ f.seen \in Seq(Answered) /\ f.deps \in Seq(Input \union Query)
      /\ f.prev \in [val : QueryValue, ch : Revision] \union {NoValue}
      /\ Len(f.seen) \in Nat /\ Len(f.deps) \in Nat /\ MaxReads \in Nat
    BY <1>1, AccessSees, FrameFields, ProgramsEnd
<1>3. CASE Finish(t)
  <2> DEFINE x == Todo(t).val
             ch == IF f.prev # NoValue /\ f.prev.val = x THEN f.prev.ch ELSE f.rev
             r == [val |-> x, deps |-> f.deps, ch |-> ch]
  <2>1. /\ f.pc = "compute" /\ Todo(t).do = "ok" /\ SetCell(t, ReadyCell(x, f.rev, ch, f.deps))
        /\ Go(t, [Idle EXCEPT !.pc = "put", !.rev = f.rev, !.ans = Ok(x, ch), !.rec = r])
    BY <1>3 DEF Finish, Computing, At
  <2>2. Len(f.seen) <= MaxReads /\ Len(f.deps) <= MaxReads
    BY <1>2, <2>1 DEF MayGoOn, WithinReads
  <2>3. x \in QueryValue /\ f.deps \in DepLists
    BY <1>2, <2>1, <2>2, ProgramFits, DepListsAre DEF Todo
  <2>4. ch \in Revision
    BY <1>2
  <2> HIDE DEF x, ch
  <2>5. r \in Record /\ Ok(x, ch) \in Answer /\ ReadyCell(x, f.rev, ch, f.deps) \in Cell
    BY <1>2, <2>3, <2>4, RecordsAre, AnswersAre, CellsAre
  <2> HIDE DEF r
  <2>6. CellsTyped'
    BY <1>1, <2>1, <2>5, SetCellFits
  <2>7. MayGoOn([Idle EXCEPT !.pc = "put", !.rev = f.rev, !.rec = r, !.ans = Ok(x, ch)])
    BY <1>2, <2>5, Restarts
  <2>8. [Idle EXCEPT !.pc = "put", !.rev = f.rev, !.ans = Ok(x, ch), !.rec = r]
            = [Idle EXCEPT !.pc = "put", !.rev = f.rev, !.rec = r, !.ans = Ok(x, ch)]
    BY DEF Idle
  <2> QED  BY <1>1, <2>1, <2>6, <2>7, <2>8, StepFits
<1>4. CASE Poison(t)
  <2> DEFINE e == IF At(t, "poison") THEN f.ans.val ELSE Todo(t).val
  <2>1. /\ SetCell(t, Poisoned(e, f.rev))
        /\ \/ Go(t, [Idle EXCEPT !.pc = "check", !.rev = f.rev, !.ans = Err(e)])
           \/ Go(t, [Idle EXCEPT !.pc = "fail", !.rev = f.rev, !.ans = Err(e)])
        /\ \/ f.pc = "poison" /\ e = f.ans.val
           \/ f.pc = "compute" /\ Todo(t).do = "err" /\ e = Todo(t).val
    BY <1>1, <1>4 DEF Poison, Computing, At
  <2> HIDE DEF e
  <2>2. ASSUME f.pc = "poison", e = f.ans.val PROVE e \in Error
    <3>1. f.ans \in Answer /\ ~f.ans.ok
      BY <1>2, <2>2 DEF MayGoOn, HasWhatItNeeds
    <3> QED  BY <2>2, <3>1, AnswersAre
  <2>3. ASSUME f.pc = "compute", Todo(t).do = "err", e = Todo(t).val PROVE e \in Error
    <3>1. Len(f.seen) <= MaxReads
      BY <1>2, <2>3 DEF MayGoOn, WithinReads
    <3> QED  BY <1>2, <2>3, <3>1, ProgramFits DEF Todo
  <2>4. e \in Error
    BY <2>1, <2>2, <2>3
  <2>5. Err(e) \in Answer /\ ~Err(e).ok /\ Poisoned(e, f.rev) \in Cell
    BY <1>2, <2>4, AnswersAre, CellsAre
  <2>6. CellsTyped'
    BY <1>1, <2>1, <2>5, SetCellFits
  <2> QED  BY <1>1, <1>2, <2>1, <2>5, <2>6, Restarts, StepFits
<1> QED  BY <1>3, <1>4

\* A leader settles its flight and publishes it.
LEMMA SettlingFits ==
    ASSUME EngineTypes, NEW t \in Task, SettleFlight(t) \/ PublishFlight(t)
    PROVE  EngineTypes'
<1> DEFINE f == F(t)
<1>1. Active(t) /\ UNCHANGED <<dbVars, cellVars, shared>> /\ f.pc \in {"complete", "fail", "publish"}
    BY DEF SettleFlight, PublishFlight, At
<1>2. f \in Frame /\ MayGoOn(f) /\ f.ans \in Answer
    BY <1>1, AccessSees DEF MayGoOn, HasWhatItNeeds
<1>3. CellsTyped'
    BY <1>1, CellsStay DEF EngineTypes
<1>4. \/ Go(t, [f EXCEPT !.pc = "publish", !.rec = NoRecord])
      \/ Go(t, [f EXCEPT !.pc = "check"])
      \/ UNCHANGED taskVars
    BY DEF SettleFlight, PublishFlight
<1>5. MayGoOn([f EXCEPT !.pc = "publish", !.rec = NoRecord])
  <2> DEFINE g == [f EXCEPT !.pc = "publish", !.rec = NoRecord]
  <2>1. g \in Frame /\ g.pc = "publish" /\ g.ans = f.ans
    BY <1>2 DEF Frame, PC
  <2> QED  BY <1>2, <2>1 DEF MayGoOn, HasWhatItNeeds, WithinReads
<1>6. MayGoOn([f EXCEPT !.pc = "check"])
  <2> DEFINE g == [f EXCEPT !.pc = "check"]
  <2>1. g \in Frame /\ g.pc = "check" /\ g.ans = f.ans
    BY <1>2 DEF Frame, PC
  <2> QED  BY <1>2, <2>1 DEF MayGoOn, HasWhatItNeeds, WithinReads
<1> HIDE DEF f
<1>7. CASE UNCHANGED taskVars
    BY <1>1, <1>3, <1>7, DbStays, TasksStay DEF EngineTypes
<1> QED  BY <1>1, <1>3, <1>4, <1>5, <1>6, <1>7, StepFits

\* A task is dropped at an await point, and then access by access.
LEMMA CancellingFits ==
    ASSUME EngineTypes, NEW t \in Task, Cancel(t) \/ Drop(t)
    PROVE  EngineTypes'
<1>1. CASE Cancel(t)
  <2>1. /\ Active(t) /\ UNCHANGED <<dbVars, cellVars, shared>>
        /\ Go(t, [Idle EXCEPT !.pc = "drop"])
    BY <1>1 DEF Cancel, Suspended, At
  <2>2. CellsTyped'
    BY <2>1, CellsStay DEF EngineTypes
  <2> QED  BY <2>1, <2>2, Restarts, StepFits
<1>2. CASE Drop(t)
  <2>1. /\ Active(t) /\ UNCHANGED dbVars /\ shared' = shared
        /\ DropAccess(t) \/ UNCHANGED <<cellVars, taskVars>>
    BY <1>2 DEF Drop, At
  <2>2. CASE DropAccess(t)
    <3>1. /\ cell' = cell
          /\ waiting' = [waiting EXCEPT ![home[t]][Cur(t)] = waiting[home[t]][Cur(t)] \ {t}]
      BY <2>2 DEF DropAccess
    <3>2. waiting[home[t]][Cur(t)] \ {t} \in SUBSET Task
      BY <2>1, AccessSees DEF EngineTypes, CellsTyped
    <3>3. CellsTyped'
      BY <2>1, <3>1, <3>2, NewCellFits, CellsAre
    <3> QED  BY <2>1, <2>2, <3>3, DbStays, DropFits DEF EngineTypes
  <2>3. CASE UNCHANGED <<cellVars, taskVars>>
    BY <2>1, <2>3, DbStays, CellsStay, TasksStay DEF EngineTypes
  <2> QED  BY <2>1, <2>2, <2>3
<1> QED  BY <1>1, <1>2

\* A user's access is the only one on the stack.
LEMMA GetFits ==
    ASSUME EngineTypes, NEW t \in Task, NEW v \in View, NEW q \in Query, Get(t, v, q)
    PROVE  EngineTypes'
<1>1. /\ stack[t] = <<>> /\ UNCHANGED <<dbVars, cellVars, shared>>
      /\ stack' = [stack EXCEPT ![t] = <<q>>]
      /\ frame' = [frame EXCEPT ![t][q] = AtTop]
      /\ home' = [home EXCEPT ![t] = v]
      /\ out' = [out EXCEPT ![t] = NoAnswer]
    BY DEF Get, Active
<1>2. DbTypeOK' /\ CellsTyped'
    BY <1>1, DbStays, CellsStay DEF EngineTypes
<1>3. <<q>> \in Seq(Query) /\ Len(<<q>>) = 1 /\ <<q>>[1] = q /\ <<q>> # <<>>
    OBVIOUS
<1>4. /\ TasksTyped /\ stack' \in [Task -> Seq(Query)] /\ stack'[t] = <<q>>
      /\ \A u \in Task \ {t} : stack'[u] = stack[u]
    BY <1>1, <1>3 DEF EngineTypes, TasksTyped
<1>5. /\ frame' \in [Task -> [Query -> Frame]] /\ frame'[t][q] = AtTop
      /\ \A u \in Task, x \in Query : u # t \/ x # q => frame'[u][x] = frame[u][x]
    BY <1>1, <1>4, IdleIsFrame DEF TasksTyped
<1>6. \A u \in Task, x \in Query : frame'[u][x].pc # "idle" <=> OnStack(u, x)'
  <2> TAKE u \in Task, x \in Query
  <2>1. frame[u][x].pc # "idle" <=> OnStack(u, x)
    BY <1>4 DEF TasksTyped
  <2>2. CASE u # t
    <3>1. OnStack(u, x)' <=> OnStack(u, x)
      BY <1>4, <2>2 DEF OnStack
    <3> QED  BY <1>5, <2>1, <2>2, <3>1
  <2>3. CASE u = t
    <3>1. ~OnStack(t, x)
      BY <1>1, EmptySeq DEF OnStack
    <3>2. OnStack(t, x)' <=> x = q
      BY <1>3, <1>4 DEF OnStack
    <3> QED  BY <1>5, <2>1, <2>3, <3>1, <3>2, IdleIsFrame
  <2> QED  BY <2>2, <2>3
<1>7. TasksTyped'
  <2>1. out' \in [Task -> [view : View, query : Query, ok : BOOLEAN,
                           val : QueryValue \union Error] \union {NoAnswer}]
    BY <1>1, <1>4 DEF TasksTyped
  <2>2. /\ home' \in [Task -> View \union {NoView}]
        /\ \A u \in Task : home'[u] = NoView <=> stack'[u] = <<>>
    BY <1>1, <1>3, <1>4, NonesAreNone DEF TasksTyped
  <2> QED  BY <1>4, <1>5, <1>6, <2>1, <2>2 DEF TasksTyped
<1>8. \A u \in Task \ {t} :
        /\ \A m, n \in 1..Len(stack'[u]) : stack'[u][m] = stack'[u][n] => m = n
        /\ \A n \in 1..Len(stack'[u]) : HasWhatItNeeds(frame'[u][stack'[u][n]])
        /\ Active(u)' => WithinReads(F(u)')
        /\ \A n \in 1..(Len(stack'[u]) - 1) : AskedForMore(frame'[u][stack'[u][n]])
  <2>1. \A u \in Task \ {t} : frame'[u] = frame[u]
    BY <1>1, <1>4 DEF TasksTyped
  <2> QED  BY <1>4, <2>1 DEF EngineTypes, StacksFit, Active, F, Cur
<1>9. /\ \A m, n \in 1..Len(stack'[t]) : stack'[t][m] = stack'[t][n] => m = n
      /\ \A n \in 1..Len(stack'[t]) : HasWhatItNeeds(frame'[t][stack'[t][n]])
      /\ Active(t)' => WithinReads(F(t)')
      /\ \A n \in 1..(Len(stack'[t]) - 1) : AskedForMore(frame'[t][stack'[t][n]])
  <2>1. HasWhatItNeeds(AtTop) /\ WithinReads(AtTop)
    BY Restarts DEF MayGoOn
  <2>2. F(t)' = AtTop
    BY <1>3, <1>4, <1>5 DEF F, Cur
  <2> QED  BY <1>3, <1>4, <1>5, <2>1, <2>2
<1> QED  BY <1>2, <1>7, <1>8, <1>9 DEF EngineTypes, StacksFit

-----------------------------------------------------------------------------
(* The views: writes and snapshots *)

LEMMA WritesFit ==
    ASSUME DbTypeOK, NEW v \in View,
           \/ \E i \in Input, x \in Stored : Bump(v, i, x)
           \/ MarkDivergent(v) \/ Write(v)
    PROVE  DbTypeOK'
<1>1. ASSUME NEW i \in Input, NEW x \in Stored, Bump(v, i, x) PROVE DbTypeOK'
  <2>1. /\ rev[v] \in Nat /\ rev[v] < MaxRev /\ MaxRev \in Nat
        /\ rev' = [rev EXCEPT ![v] = rev[v] + 1]
        /\ writing' = [writing EXCEPT ![v] = [key |-> i, val |-> x, ch |-> rev[v] + 1]]
        /\ hist' = [hist EXCEPT ![v] = Append(hist[v], [Contents(v) EXCEPT ![i] = x])]
        /\ UNCHANGED <<diverged, input, copied>>
    BY <1>1, MaxRevIsNat DEF Bump, DbTypeOK, Revision
  <2>2. rev[v] + 1 \in Revision
    BY <2>1 DEF Revision
  <2>3. hist[v] \in Seq(Valuation) /\ Len(hist[v]) = rev[v] + 1
    BY DEF DbTypeOK
  <2>4. Contents(v) \in Valuation
    <3>1. rev[v] + 1 \in 1..Len(hist[v])
      BY <2>1, <2>3
    <3> QED  BY <2>3, <3>1, ElementOfSeq DEF Contents
  <2> DEFINE c == [Contents(v) EXCEPT ![i] = x]
  <2>5. c \in Valuation
    BY <2>4 DEF Valuation
  <2> HIDE DEF c
  <2>6. Append(hist[v], c) \in Seq(Valuation) /\ Len(Append(hist[v], c)) = rev[v] + 1 + 1
    BY <2>3, <2>5, AppendProperties
  <2>7. rev' \in [View -> Revision] /\ rev'[v] = rev[v] + 1 /\ \A u \in View \ {v} : rev'[u] = rev[u]
    BY <2>1, <2>2 DEF DbTypeOK
  <2>8. /\ hist' \in [View -> Seq(Valuation)] /\ hist'[v] = Append(hist[v], c)
        /\ \A u \in View \ {v} : hist'[u] = hist[u]
    BY <2>1, <2>6 DEF DbTypeOK, c
  <2>9. writing' \in [View -> [key : Input, val : Stored, ch : Revision] \union {NoWrite}]
    BY <2>1, <2>2 DEF DbTypeOK
  <2>10. \A u \in View : Len(hist'[u]) = rev'[u] + 1
    BY <2>6, <2>7, <2>8 DEF DbTypeOK
  <2> QED  BY <2>1, <2>7, <2>8, <2>9, <2>10 DEF DbTypeOK
<1>2. CASE MarkDivergent(v)
    BY <1>2 DEF MarkDivergent, DbTypeOK
<1>3. CASE Write(v)
  <2> DEFINE w == writing[v]
             e == [val |-> w.val, ch |-> w.ch]
  <2>1. /\ w \in [key : Input, val : Stored, ch : Revision]
        /\ input' = [input EXCEPT ![v][w.key] = e]
        /\ writing' = [writing EXCEPT ![v] = NoWrite]
        /\ UNCHANGED <<rev, diverged, copied, hist>>
    BY <1>3 DEF Write, DbTypeOK
  <2>2. w.key \in Input /\ e \in [val : Stored, ch : Revision]
    BY <2>1
  <2> HIDE DEF w, e
  <2>3. input' \in [View -> [Input -> [val : Stored, ch : Revision]]]
    BY <2>1, <2>2 DEF DbTypeOK
  <2>4. writing' \in [View -> [key : Input, val : Stored, ch : Revision] \union {NoWrite}]
    BY <2>1 DEF DbTypeOK
  <2> QED  BY <2>1, <2>3, <2>4 DEF DbTypeOK
<1> QED  BY <1>1, <1>2, <1>3

LEMMA SnapshotsFit ==
    ASSUME EngineTypes, NEW s \in View, Snapshot(s)
    PROVE  EngineTypes'
<1>1. Len(Ingredients) \in Nat
    BY IngredientsListed, LenProperties
<1>2. /\ copied[s] \in 0..(Len(Ingredients) + 1) /\ Live \in View
      /\ rev[Live] \in Revision /\ hist[Live] \in Seq(Valuation) /\ Len(hist[Live]) = rev[Live] + 1
    BY LiveIsAView DEF EngineTypes, DbTypeOK
<1>3. copied[s] \in 1..Len(Ingredients) => copied[s] + 1 \in 0..(Len(Ingredients) + 1)
    BY <1>1
<1>4. CASE SnapshotRuntime(s) /\ UNCHANGED <<cellVars, taskVars, shared>>
  <2>1. 1 \in 0..(Len(Ingredients) + 1)
    BY <1>1
  <2>2. DbTypeOK'
    BY <1>2, <1>4, <2>1 DEF SnapshotRuntime, EngineTypes, DbTypeOK
  <2> QED  BY <1>4, <2>2, CellsStay, TasksStay DEF EngineTypes
<1>5. ASSUME NEW i \in Input, SnapshotInput(s, i), UNCHANGED <<cellVars, taskVars, shared>>
      PROVE  EngineTypes'
  <2>1. DbTypeOK'
    BY <1>2, <1>3, <1>5 DEF SnapshotInput, Copying, EngineTypes, DbTypeOK
  <2> QED  BY <1>5, <2>1, CellsStay, TasksStay DEF EngineTypes
<1>6. ASSUME NEW q \in Query, SnapshotCells(s, q) PROVE EngineTypes'
  <2> DEFINE c == IF cell[Live][q].st = "Ready" THEN cell[Live][q] ELSE Vacant
  <2>1. /\ copied[s] \in 1..Len(Ingredients)
        /\ cell' = [cell EXCEPT ![s][q] = c]
        /\ copied' = [copied EXCEPT ![s] = copied[s] + 1]
        /\ UNCHANGED <<rev, diverged, input, writing, hist, waiting, taskVars, shared>>
    BY <1>6 DEF SnapshotCells, Copying
  <2>2. c \in Cell
    BY <1>2, CellsAre DEF EngineTypes, CellsTyped
  <2> HIDE DEF c
  <2>3. DbTypeOK'
    BY <1>3, <2>1 DEF EngineTypes, DbTypeOK
  <2>4. CellsTyped'
    BY <2>1, <2>2 DEF EngineTypes, CellsTyped
  <2> QED  BY <2>1, <2>3, <2>4, TasksStay DEF EngineTypes
<1> QED  BY <1>4, <1>5, <1>6 DEF Snapshot

-----------------------------------------------------------------------------
(* Every step keeps the types and what accesses have. *)
LEMMA NextKeepsTypes ==
    ASSUME EngineTypes, EntriesFit, Reg!TypeOK, [Next]_vars
    PROVE  EngineTypes'
<1>1. CASE UNCHANGED vars
    BY <1>1, DbStays, CellsStay, TasksStay DEF EngineTypes, vars, cellVars, taskVars, dbVars
<1>2. ASSUME NEW t \in Task, Ask(t) \/ Step(t) \/ Cancel(t) PROVE EngineTypes'
  <2>1. CASE Ask(t)
    BY <2>1, GetFits DEF Ask
  <2>2. CASE Cancel(t)
    BY <2>2, CancellingFits
  <2>3. CASE ReadRevision(t) \/ Observe(t) \/ Check(t) \/ Await(t) \/ Touch(t) \/ Verify(t) \/ Raise(t) \/ Start(t)
    BY <2>3, LookingFits, ReturningFits, TouchingFits, VerifyFits, StartFits
  <2>4. CASE SharedGet(t) \/ Adopt(t) \/ SharedPut(t) \/ TryLead(t) \/ Vacate(t) \/ TakeOutcome(t)
    BY <2>4, SharedGetFits, AdoptFits, SharedPutFits, TryLeadFits, VacateFits, TakeOutcomeFits
  <2>5. CASE Follow(t)
    BY <2>5, DbStays, CellsStay, TasksStay DEF Follow, EngineTypes
  <2>6. CASE \/ ReadInput(t) \/ ReadQuery(t) \/ Finish(t) \/ Poison(t)
             \/ SettleFlight(t) \/ PublishFlight(t) \/ Drop(t)
    BY <2>6, ReadingFits, EndingFits, SettlingFits, CancellingFits
  <2> QED  BY <1>2, <2>1, <2>2, <2>3, <2>4, <2>5, <2>6 DEF Step
<1>3. ASSUME NEW v \in View, BeginWrite(v) \/ EndWrite(v) PROVE EngineTypes'
  <2>1. UNCHANGED <<cellVars, taskVars, shared>> /\ DbTypeOK'
    BY <1>3, WritesFit DEF BeginWrite, EndWrite, EngineTypes
  <2> QED  BY <2>1, CellsStay, TasksStay DEF EngineTypes
<1> QED  BY <1>1, <1>2, <1>3, EvictFits, SnapshotsFit DEF Next, Calls, Runs

-----------------------------------------------------------------------------
(* The engine's use of the registry *)

LEMMA HoldersAreFinite ==
    /\ IsFiniteSet(Holder) /\ IsFiniteSet(Entry) /\ Cardinality(Entry) >= Cardinality(Holder)
    /\ NoEntry \notin Entry /\ NoKey \notin InFlightKey /\ NoResult \notin Record \union Error
<1>1. IsFiniteSet(Holder) /\ Cardinality(Holder) = Cardinality(Task) * Cardinality(Query)
    BY AccessesHaveEntries, FS_Product DEF Holder
<1> QED  BY <1>1, AccessesHaveEntries, NonesAreNone, NoPayloadIsNone DEF InFlightKey

LEMMA FlightsAssumptions ==
    /\ Flights!IsFiniteSet(Holder) /\ Flights!IsFiniteSet(Entry)
    /\ Flights!Cardinality(Entry) >= Flights!Cardinality(Holder)
<1>1. \A S : Flights!IsFiniteSet(S) <=> IsFiniteSet(S)
    BY DEF IsFiniteSet, Flights!IsFiniteSet
<1>2. \A S : Flights!Cardinality(S) = Cardinality(S)
    BY DEF Cardinality, Flights!Cardinality
<1> QED  BY <1>1, <1>2, HoldersAreFinite

LEMMA FlightsKeepIInv == Flights!IInv /\ [Flights!Next]_(Flights!vars) => Flights!IInv'
    BY Flights!NextKeepsIInv, FlightsAssumptions, HoldersAreFinite

LEMMA FlightsBegin == Flights!Init => Flights!IInv
    BY Flights!InitHoldsIInv, FlightsAssumptions, HoldersAreFinite

\* What h does to the registry in a step of the engine.
UsesRegistry(h) ==
    \/ \E k \in InFlightKey : Reg!TryLead(h, k)
    \/ \E r \in Record : Reg!Complete(h, r)
    \/ \E e \in Error : Reg!Fail(h, e)
    \/ Reg!CancelLead(h) \/ Reg!Publish(h) \/ Reg!Follow(h) \/ Reg!Abandon(h)

LEMMA StepsUseTheRegistry ==
    ASSUME EngineTypes, [Next]_vars
    PROVE  UNCHANGED regVars \/ \E h \in Holder : UsesRegistry(h)
<1>1. ASSUME NEW t \in Task, Active(t) PROVE H(t) \in Holder
    BY <1>1, AccessSees DEF H, Holder
<1>2. ASSUME NEW t \in Task, TryLead(t) PROVE \E h \in Holder : UsesRegistry(h)
  <2> DEFINE k == <<Scope(home[t]), F(t).rev, Cur(t)>>
  <2>1. Active(t) /\ Reg!TryLead(H(t), k)
    BY <1>2 DEF TryLead, At, Reg!TryLead
  <2>2. k \in InFlightKey
    BY <2>1, AccessSees, FrameFields DEF InFlightKey
  <2> QED  BY <1>1, <2>1, <2>2 DEF UsesRegistry
<1>3. ASSUME NEW t \in Task, SettleFlight(t) PROVE \E h \in Holder : UsesRegistry(h)
  <2>1. /\ Active(t)
        /\ \/ F(t).pc = "complete" /\ Reg!Complete(H(t), F(t).rec)
           \/ F(t).pc = "fail" /\ Reg!Fail(H(t), F(t).ans.val)
    BY <1>3 DEF SettleFlight, At
  <2>2. /\ F(t).pc = "complete" => F(t).rec \in Record
        /\ F(t).pc = "fail" => F(t).ans.val \in Error
    BY <2>1, AccessSees, AnswersAre DEF MayGoOn, HasWhatItNeeds
  <2> QED  BY <1>1, <2>1, <2>2 DEF UsesRegistry
<1>4. ASSUME NEW t \in Task, Follow(t) \/ TakeOutcome(t) \/ PublishFlight(t) PROVE \E h \in Holder : UsesRegistry(h)
  <2>1. Active(t) /\ (Reg!Follow(H(t)) \/ Reg!Publish(H(t)))
    BY <1>4 DEF Follow, TakeOutcome, PublishFlight, At, Reg!Follow, Reg!Publish
  <2> QED  BY <1>1, <2>1 DEF UsesRegistry
<1>5. ASSUME NEW t \in Task, Drop(t) PROVE UNCHANGED regVars \/ \E h \in Holder : UsesRegistry(h)
  <2>1. /\ Active(t)
        /\ UNCHANGED regVars \/ Reg!Abandon(H(t)) \/ Reg!Publish(H(t)) \/ Reg!CancelLead(H(t))
    BY <1>5 DEF Drop, At, Reg!Publish
  <2> QED  BY <1>1, <2>1 DEF UsesRegistry
<1>6. ASSUME NEW t \in Task, Ask(t) \/ Step(t) \/ Cancel(t)
      PROVE  UNCHANGED regVars \/ \E h \in Holder : UsesRegistry(h)
    BY <1>2, <1>3, <1>4, <1>5, <1>6
    DEF Ask, Get, Cancel, Step, ReadRevision, Observe, Check, Await, Touch, Verify, Raise, Start,
        SharedGet, Adopt, SharedPut, Vacate, ReadInput, ReadQuery, Finish, Poison
<1>7. ASSUME NEW v \in View, BeginWrite(v) \/ EndWrite(v) \/ Snapshot(v) PROVE UNCHANGED regVars
    BY <1>7 DEF BeginWrite, EndWrite, Snapshot, SnapshotCells
<1>8. ASSUME NEW v \in View, NEW q \in Query, Evict(v, q) PROVE UNCHANGED regVars
    BY <1>8 DEF Evict
<1>9. CASE UNCHANGED vars
    BY <1>9 DEF vars, regVars
<1> QED  BY <1>6, <1>7, <1>8, <1>9 DEF Next, Calls, Runs

\* They are steps of the registry, whose payloads fit their outcomes.
LEMMA EveryUseIsAStep ==
    ASSUME NEW h \in Holder, UsesRegistry(h)
    PROVE  Reg!Next
<1>1. Record \subseteq Record \union Error /\ Error \subseteq Record \union Error
    OBVIOUS
<1> QED  BY <1>1 DEF UsesRegistry, Reg!Next, Reg!Compute

LEMMA SameRegistry ==
    /\ Reg!Init <=> Flights!Init
    /\ [Reg!Next]_(Reg!vars) <=> [Flights!Next]_(Flights!vars)
<1>1. Reg!Init <=> Flights!Init
    BY DEF Reg!Init, Flights!Init
<1>2. Reg!Next <=> Flights!Next
    BY DEF Flights!Next, Flights!TryLead, Flights!Compute, Flights!Publish, Flights!Follow,
           Flights!Abandon, Flights!Release, Flights!Lead, Flights!Join, Flights!FreeEntry,
           Flights!Take, Flights!Wait, Flights!Wake, Flights!Subscribe, Flights!NotifyWaiters,
           Flights!Remove, Flights!Complete, Flights!Fail, Flights!CancelLead, Flights!Settle,
           Flights!Following,
           Reg!Next, Reg!TryLead, Reg!Compute, Reg!Publish, Reg!Follow, Reg!Abandon, Reg!Release,
           Reg!Lead, Reg!Join, Reg!FreeEntry, Reg!Take, Reg!Wait, Reg!Wake, Reg!Subscribe,
           Reg!NotifyWaiters, Reg!Remove, Reg!Complete, Reg!Fail, Reg!CancelLead, Reg!Settle,
           Reg!Following
<1> QED  BY <1>1, <1>2 DEF Reg!vars, Flights!vars

\* What the engine needs to know of the registry.
LEMMA RegistryIs ==
    ASSUME Flights!IInv
    PROVE  /\ Reg!TypeOK
           /\ \A k \in InFlightKey : registry[k] # NoEntry =>
                \E h \in Holder : role[h] # "idle" /\ entryOf[h] = registry[k]
<1>1. Reg!TypeOK
    BY DEF Flights!IInv, Flights!TypeOK, Reg!TypeOK, Flights!States, Reg!States, Flights!Roles,
           Reg!Roles, Flights!Leading, Reg!Leading, Flights!Following, Reg!Following
<1>2. \A k \in InFlightKey : registry[k] # NoEntry =>
                \E h \in Holder : role[h] # "idle" /\ entryOf[h] = registry[k]
    BY DEF Flights!IInv, Flights!RegisteredIsLed, Flights!Leading
<1> QED  BY <1>1, <1>2

LEMMA UsesKeepEntriesFit ==
    ASSUME EntriesFit, Flights!IInv, NEW h \in Holder, UsesRegistry(h)
    PROVE  EntriesFit'
<1>1. /\ registry \in [InFlightKey -> Entry \union {NoEntry}]
      /\ entryState \in [Entry -> Reg!States]
      /\ entryResult \in [Entry -> Record \union Error \union {NoResult}]
      /\ role \in [Holder -> Reg!Roles]
      /\ entryOf \in [Holder -> Entry \union {NoEntry}]
      /\ \A g \in Holder : role[g] = "idle" <=> entryOf[g] = NoEntry
      /\ NoEntry \notin Entry
    BY RegistryIs, HoldersAreFinite DEF Reg!TypeOK
<1>2. ASSUME NEW k \in InFlightKey, Reg!Lead(h, k) PROVE EntriesFit'
  <2>1. PICK e \in Entry :
            /\ entryState' = [entryState EXCEPT ![e] = "Running"]
            /\ entryOf' = [entryOf EXCEPT ![h] = e]
            /\ role' = [role EXCEPT ![h] = "leader"] /\ entryResult' = entryResult
    BY <1>2 DEF Reg!Lead, Reg!FreeEntry
  <2> QED  BY <1>1, <2>1 DEF EntriesFit
<1>3. ASSUME NEW k \in InFlightKey, Reg!Join(h, k) PROVE EntriesFit'
  <2>1. /\ registry[k] \in Entry /\ entryOf' = [entryOf EXCEPT ![h] = registry[k]]
        /\ role' = [role EXCEPT ![h] = "follower"]
        /\ entryState' = entryState /\ entryResult' = entryResult
    BY <1>1, <1>3 DEF Reg!Join
  <2>2. entryState[registry[k]] # "Free"
    BY <1>3, RegistryIs DEF Reg!Join, EntriesFit
  <2> QED  BY <1>1, <2>1, <2>2 DEF EntriesFit
<1>4. ASSUME NEW st \in Reg!Settled, NEW r \in Record \union Error \union {NoResult}, Reg!Settle(h, st, r),
             st = "Done" => r \in Record, st = "Failed" => r \in Error
      PROVE  EntriesFit'
  <2>1. /\ role[h] = "leader" /\ entryOf[h] \in Entry /\ entryOf' = entryOf
        /\ entryState' = [entryState EXCEPT ![entryOf[h]] = st]
        /\ entryResult' = [entryResult EXCEPT ![entryOf[h]] = r]
        /\ role' = [role EXCEPT ![h] = "settled"] /\ st # "Free"
    BY <1>1, <1>4 DEF Reg!Settle, Reg!Settled
  <2> QED  BY <1>1, <1>4, <2>1 DEF EntriesFit
<1>5. ASSUME Reg!NotifyWaiters(h) \/ Reg!Subscribe(h) \/ Reg!Wait(h) \/ Reg!Wake(h) PROVE EntriesFit'
  <2>1. /\ role[h] # "idle" /\ \A g \in Holder : g # h => role'[g] = role[g]
        /\ entryOf' = entryOf /\ entryState' = entryState /\ entryResult' = entryResult
    BY <1>1, <1>5 DEF Reg!NotifyWaiters, Reg!Subscribe, Reg!Wait, Reg!Wake
  <2> QED  BY <2>1 DEF EntriesFit
<1>6. ASSUME Reg!Remove(h) \/ Reg!Take(h) \/ Reg!Abandon(h) PROVE EntriesFit'
  <2>1. Reg!Release(h) /\ role[h] # "idle"
    BY <1>6 DEF Reg!Remove, Reg!Take, Reg!Abandon, Reg!Following
  <2>2. /\ role' = [role EXCEPT ![h] = "idle"] /\ entryOf' = [entryOf EXCEPT ![h] = NoEntry]
        /\ \A g \in Holder \ {h}, e \in Entry : entryOf[g] = e => entryState'[e] = entryState[e]
        /\ \A e \in Entry :
            \/ entryState'[e] = entryState[e] /\ entryResult'[e] = entryResult[e]
            \/ entryState'[e] = "Free"
    BY <1>1, <2>1 DEF Reg!Release
  <2> QED  BY <1>1, <2>2 DEF EntriesFit
<1> QED
  <2>1. CASE \E k \in InFlightKey : Reg!TryLead(h, k)
    BY <1>2, <1>3, <2>1 DEF Reg!TryLead
  <2>2. CASE (\E r \in Record : Reg!Complete(h, r)) \/ (\E e \in Error : Reg!Fail(h, e)) \/ Reg!CancelLead(h)
    BY <1>4, <2>2 DEF Reg!Complete, Reg!Fail, Reg!CancelLead, Reg!Settled
  <2>3. CASE Reg!Publish(h) \/ Reg!Follow(h) \/ Reg!Abandon(h)
    BY <1>5, <1>6, <2>3 DEF Reg!Publish, Reg!Follow
  <2> QED  BY <2>1, <2>2, <2>3 DEF UsesRegistry

LEMMA NextUsesTheRegistry ==
    ASSUME EngineInv, [Next]_vars
    PROVE  [Reg!Next]_(Reg!vars) /\ EntriesFit' /\ Flights!IInv'
<1>1. EngineTypes /\ EntriesFit /\ Flights!IInv
    BY DEF EngineInv, EngineTypes
<1>2. CASE UNCHANGED regVars
  <2>1. [Reg!Next]_(Reg!vars)
    BY <1>2 DEF regVars, Reg!vars
  <2>2. EntriesFit'
    BY <1>1, <1>2 DEF EntriesFit, regVars
  <2> QED  BY <1>1, <2>1, <2>2, SameRegistry, FlightsKeepIInv
<1>3. CASE \E h \in Holder : UsesRegistry(h)
  <2>1. [Reg!Next]_(Reg!vars)
    BY <1>3, EveryUseIsAStep
  <2> QED  BY <1>1, <1>3, <2>1, UsesKeepEntriesFit, SameRegistry, FlightsKeepIInv
<1> QED  BY <1>1, <1>2, <1>3, StepsUseTheRegistry

-----------------------------------------------------------------------------
LEMMA InitHoldsEngineInv == Init => EngineInv
<1> SUFFICES ASSUME Init PROVE EngineInv
    OBVIOUS
<1>1. DbTypeOK
  <2>1. Len(Ingredients) \in Nat
    BY IngredientsListed, LenProperties
  <2>2. [i \in Input |-> None] \in Valuation
    BY DEF Valuation, Stored
  <2>3. /\ <<[i \in Input |-> None]>> \in Seq(Valuation) /\ Len(<<[i \in Input |-> None]>>) = 1
    BY <2>2
  <2> QED  BY <2>1, <2>3, RevisionsAreNat DEF Init, DbInit, DbTypeOK, Stored
<1>2. CellsTyped
    BY CellsAre DEF Init, CellsTyped
<1>3. \A t \in Task : stack[t] = <<>> /\ Len(stack[t]) = 0
    BY DEF Init
<1>4. TasksTyped
  <2>1. \A t \in Task, x \in Query : frame[t][x].pc = "idle" /\ ~OnStack(t, x)
    BY <1>3, IdleIsFrame DEF Init, OnStack
  <2>2. <<>> \in Seq(Query)
    BY EmptySeq
  <2> QED  BY <1>3, <2>1, <2>2, IdleIsFrame DEF Init, TasksTyped
<1>5. StacksFit
    BY <1>3 DEF StacksFit, Active
<1>6. EntriesFit
    BY DEF Init, Reg!Init, EntriesFit
<1>7. Flights!IInv
    BY SameRegistry, FlightsBegin DEF Init
<1> QED  BY <1>1, <1>2, <1>4, <1>5, <1>6, <1>7 DEF EngineInv

LEMMA NextKeepsEngineInv == EngineInv /\ [Next]_vars => EngineInv'
<1> SUFFICES ASSUME EngineInv, [Next]_vars PROVE EngineInv'
    OBVIOUS
<1>1. EngineTypes /\ EntriesFit /\ Reg!TypeOK
    BY RegistryIs DEF EngineInv, EngineTypes
<1>2. EngineTypes'
    BY <1>1, NextKeepsTypes
<1> QED  BY <1>2, NextUsesTheRegistry DEF EngineInv, EngineTypes

THEOREM EngineInvariance == Spec => []EngineInv
    BY InitHoldsEngineInv, NextKeepsEngineInv, PTL DEF Spec

(* Cells, answers and accesses keep their types: a stack holds a query at   *)
(* most once and ends with the program's reads, and an access has a record  *)
(* or an answer wherever its code takes one for granted.                    *)
THEOREM EngineTypeCorrect == Spec => []TypeOK
<1>1. EngineInv => TypeOK
    BY RegistryIs DEF EngineInv, TypeOK
<1> QED  BY <1>1, EngineInvariance, PTL

(* The engine, cancellation and panics included, uses the registry as        *)
(* InFlight allows, whatever programs and users do.                         *)
THEOREM EngineImplementsRegistry == Spec => ImplementsRegistry
<1>1. Init => Reg!Init
    BY DEF Init
<1>2. EngineInv /\ [Next]_vars => [Reg!Next]_(Reg!vars)
    BY NextUsesTheRegistry
<1> QED  BY <1>1, <1>2, EngineInvariance, PTL DEF Spec, ImplementsRegistry, Reg!Spec
-----------------------------------------------------------------------------
(***************************************************************************)
(* Views that are not written under the accesses that run in them: within a *)
(* view a query is computed by one access at a time.                        *)
(*                                                                         *)
(* Running is a lock that nobody holds a token of: an access takes it when  *)
(* the cell is neither Running nor current for the revision it has read.    *)
(* So the argument is about revisions: as long as those of the accesses of *)
(* a view are the view's own, whoever owns a cell has left it Running or    *)
(* finds it current, and both keep everybody else from taking it.          *)
(***************************************************************************)

OwnPC == {"shared", "touchShared", "adopt", "lead", "vacate", "compute"}

\* Where an access has not read the revision, or no longer uses it.
Unrevised == {"idle", "top", "await", "raise", "drop"}

ReadyHomes == \A t \in Task : home[t] # NoView => Ready(home[t])

AtRevision ==
    \A t \in Task, x \in Query :
        home[t] # NoView /\ frame[t][x].pc \notin Unrevised => frame[t][x].rev = rev[home[t]]

OwnedIsTaken ==
    \A t \in Task, v \in View, x \in Query :
        Owns(t, v, x) => cell[v][x] = Running \/ Current(cell[v][x], rev[v])

QuietInv ==
    /\ ReadyHomes
    /\ QuietWrites
    /\ AtRevision
    /\ OwnedIsTaken
    /\ OneOwner

-----------------------------------------------------------------------------
(* Steps of accesses that take no cell *)

\* How an access may go on at revision r without taking a cell.
Keeps(f, g, r) ==
    /\ g.pc \notin Unrevised => g.rev = r
    /\ g.pc \in OwnPC => f.pc \in OwnPC

FramesKeep ==
    \A u \in Task, x \in Query :
        home'[u] # NoView =>
            home'[u] = home[u] /\ Keeps(frame[u][x], frame'[u][x], rev[home[u]])

LEMMA RunningIsNoResult == \A r : ~Current(Running, r) /\ Vacant # Running
    BY DEF Running, Current, Vacant

(* An access goes on, and at most its own cell is written: nobody owns it   *)
(* any more, or it is current.                                              *)
LEMMA KeepingKeepsQuietInv ==
    ASSUME EngineTypes, QuietInv, NEW v \in View, NEW q \in Query,
           UNCHANGED dbVars, FramesKeep,
           \A w \in View, x \in Query :
               w # v \/ x # q => cell'[w][x] = cell[w][x],
           \/ cell'[v][q] = cell[v][q]
           \/ Current(cell'[v][q], rev[v])
           \/ \A u \in Task : home'[u] = v => frame'[u][q].pc \notin OwnPC
    PROVE  QuietInv'
<1>1. \A w \in View : rev'[w] = rev[w] /\ (Ready(w)' <=> Ready(w)) /\ writing' = writing /\ copied' = copied
    BY DEF dbVars, Ready
<1>2. \A u \in Task : home'[u] # NoView => home'[u] = home[u] /\ home[u] \in View
    BY DEF FramesKeep, EngineTypes, TasksTyped
<1>3. ReadyHomes'
    BY <1>1, <1>2 DEF QuietInv, ReadyHomes, Ready
<1>4. QuietWrites'
    BY <1>1, <1>2, NonesAreNone DEF QuietInv, QuietWrites, Ready, Snapshots
<1>5. AtRevision'
    BY <1>1, <1>2 DEF FramesKeep, Keeps, AtRevision
<1>6. \A u \in Task, w \in View, x \in Query : Owns(u, w, x)' => Owns(u, w, x)
  <2> TAKE u \in Task, w \in View, x \in Query
  <2> SUFFICES ASSUME home'[u] = w, frame'[u][x].pc \in OwnPC PROVE Owns(u, w, x)
    BY DEF Owns, OwnPC
  <2> QED  BY NonesAreNone DEF FramesKeep, Keeps, Owns, OwnPC
<1>7. OneOwner'
    BY <1>6 DEF QuietInv, OneOwner
<1>8. OwnedIsTaken'
  <2> SUFFICES ASSUME NEW u \in Task, NEW w \in View, NEW x \in Query, Owns(u, w, x)'
               PROVE  cell'[w][x] = Running \/ Current(cell'[w][x], rev[w])
    BY <1>1 DEF OwnedIsTaken
  <2>1. cell[w][x] = Running \/ Current(cell[w][x], rev[w])
    BY <1>6 DEF QuietInv, OwnedIsTaken
  <2>2. home'[u] = w /\ frame'[u][x].pc \in OwnPC
    BY DEF Owns, OwnPC
  <2> QED  BY <2>1, <2>2
<1> QED  BY <1>3, <1>4, <1>5, <1>7, <1>8 DEF QuietInv

\* The revision of an access, as far as it has one.
LEMMA AccessRevision ==
    ASSUME EngineTypes, QuietInv, NEW t \in Task, Active(t)
    PROVE  /\ home[t] # NoView
           /\ F(t).pc \notin Unrevised => F(t).rev = rev[home[t]]
           /\ \A x \in Query : frame[t][x].pc \notin Unrevised => frame[t][x].rev = rev[home[t]]
    BY AccessSees, NonesAreNone DEF F, QuietInv, AtRevision

LEMMA GoKeeps ==
    ASSUME EngineTypes, QuietInv, NEW t \in Task, Active(t), NEW g, Go(t, g),
           Keeps(F(t), g, rev[home[t]])
    PROVE  FramesKeep
<1>1. /\ home' = home /\ frame' = [frame EXCEPT ![t][Cur(t)] = g] /\ Cur(t) \in Query
      /\ F(t) = frame[t][Cur(t)]
    BY AccessSees DEF Go, F
<1>2. \A u \in Task, x \in Query :
        frame'[u][x] = IF u = t /\ x = Cur(t) THEN g ELSE frame[u][x]
    BY <1>1 DEF EngineTypes, TasksTyped
<1>3. \A u \in Task, x \in Query : home[u] # NoView => Keeps(frame[u][x], frame[u][x], rev[home[u]])
    BY DEF QuietInv, AtRevision, Keeps
<1> QED  BY <1>1, <1>2, <1>3 DEF FramesKeep

\* What a caller makes of an answer takes no cell.
LEMMA ResumeKeeps ==
    ASSUME NEW f \in Frame, AskedForMore(f), HasWhatItNeeds(f), NEW r, f.rev = r, NEW a \in Told
    PROVE  Keeps(f, Resume(f, a), r)
<1>1. f.pc # "compute" /\ a.ok => a.ch \in Nat /\ f.rec.ch \in Nat
    BY RevisionsAreNat DEF Told, Answer, AskedForMore, HasWhatItNeeds, Record
<1>2. CASE f.pc = "compute"
  <2>1. Resume(f, a) = [f EXCEPT !.seen = Append(f.seen, a.val)]
    BY <1>2 DEF Resume
  <2>2. Resume(f, a).pc = f.pc /\ Resume(f, a).rev = f.rev
    BY <2>1 DEF Frame
  <2> QED  BY <2>2 DEF Keeps
<1>3. CASE f.pc # "compute" /\ ~a.ok
  <2>1. Resume(f, a).pc = "raise"
    BY <1>3 DEF Resume, Idle
  <2> QED  BY <2>1 DEF Keeps, Unrevised, OwnPC
<1>4. CASE f.pc # "compute" /\ a.ok /\ a.ch <= f.rec.ch
  <2>1. Resume(f, a) = [f EXCEPT !.i = f.i + 1]
    BY <1>1, <1>4 DEF Resume
  <2>2. Resume(f, a).pc = f.pc /\ Resume(f, a).rev = f.rev
    BY <2>1 DEF Frame
  <2> QED  BY <2>2 DEF Keeps
<1>5. CASE f.pc # "compute" /\ a.ok /\ a.ch > f.rec.ch
  <2>1. CASE f.pc = "touchLocal"
    <3>1. Resume(f, a).pc = "start" /\ Resume(f, a).rev = f.rev
      BY <1>1, <1>5, <2>1 DEF Resume, Idle
    <3> QED  BY <3>1 DEF Keeps, OwnPC
  <2>2. CASE f.pc = "touchShared"
    <3>1. Resume(f, a) = [f EXCEPT !.pc = "lead", !.rec = NoRecord, !.i = 0]
      BY <1>1, <1>5, <2>2 DEF Resume
    <3>2. Resume(f, a).rev = f.rev
      BY <3>1 DEF Frame
    <3> QED  BY <2>2, <3>2 DEF Keeps, OwnPC
  <2> QED  BY <1>5, <2>1, <2>2 DEF AskedForMore
<1> QED  BY <1>1, <1>2, <1>3, <1>4, <1>5

LEMMA CallKeeps ==
    ASSUME EngineTypes, QuietInv, NEW t \in Task, Active(t), NEW q \in Query, ~OnStack(t, q),
           NEW f \in Frame, Call(t, q, f), f.pc = F(t).pc, f.rev = F(t).rev
    PROVE  FramesKeep
<1> DEFINE c == Cur(t)
<1>1. c \in Query /\ OnStack(t, c) /\ c # q /\ F(t) = frame[t][c]
    BY CurrentIsOnStack DEF EngineTypes
<1>2. home' = home /\ frame' = [frame EXCEPT ![t] = [frame[t] EXCEPT ![c] = f, ![q] = AtTop]]
    BY DEF Call
<1> HIDE DEF c
<1>3. /\ frame'[t][c] = f /\ frame'[t][q] = AtTop
      /\ \A u \in Task, x \in Query : u # t \/ (x # c /\ x # q) => frame'[u][x] = frame[u][x]
    BY <1>1, <1>2 DEF EngineTypes, TasksTyped
<1>4. \A u \in Task, x \in Query : home[u] # NoView => Keeps(frame[u][x], frame[u][x], rev[home[u]])
    BY DEF QuietInv, AtRevision, Keeps
<1>5. \A g, r : Keeps(g, AtTop, r)
    BY IdleIsFrame DEF Keeps, Unrevised, OwnPC
<1>6. \A r : Keeps(frame[t][c], frame[t][c], r) => Keeps(frame[t][c], f, r)
    BY <1>1 DEF Keeps
<1> QED
  <2> SUFFICES ASSUME NEW u \in Task, NEW x \in Query, home[u] # NoView
               PROVE  Keeps(frame[u][x], frame'[u][x], rev[home[u]])
    BY <1>2 DEF FramesKeep
  <2>1. CASE u = t /\ x = c
    BY <1>3, <1>4, <1>6, <2>1
  <2>2. CASE u = t /\ x = q
    BY <1>3, <1>5, <2>2
  <2>3. CASE u # t \/ (x # c /\ x # q)
    BY <1>3, <1>4, <2>3
  <2> QED  BY <2>1, <2>2, <2>3

\* The current access of t ends; its caller, if there is one, goes on with f.
LEMMA PopKeeps ==
    ASSUME EngineTypes, QuietInv, NEW t \in Task, Active(t),
           Below(t) = <<>> =>
                /\ frame' = [frame EXCEPT ![t][Cur(t)] = Idle]
                /\ home' = [home EXCEPT ![t] = NoView],
           NEW f, Below(t) # <<>> =>
                /\ Keeps(frame[t][Caller(t)], f, rev[home[t]])
                /\ frame' = [frame EXCEPT ![t] = [frame[t] EXCEPT ![Cur(t)] = Idle, ![Caller(t)] = f]]
                /\ home' = home
    PROVE  FramesKeep
<1> DEFINE q == Cur(t)
           c == Caller(t)
           rest == Below(t)
<1>1. q \in Query /\ (rest # <<>> => c \in Query /\ c # q)
    BY CurrentIsOnStack, BelowIsWaiting DEF EngineTypes
<1>2. \A u \in Task, x \in Query : home[u] # NoView => Keeps(frame[u][x], frame[u][x], rev[home[u]])
    BY DEF QuietInv, AtRevision, Keeps
<1>3. \A g, r : Keeps(g, Idle, r)
    BY IdleIsFrame DEF Keeps, Unrevised, OwnPC
<1>4. frame \in [Task -> [Query -> Frame]] /\ home \in [Task -> View \union {NoView}]
    BY DEF EngineTypes, TasksTyped
<1>5. CASE rest = <<>>
  <2>1. frame' = [frame EXCEPT ![t][q] = Idle] /\ home' = [home EXCEPT ![t] = NoView]
    BY <1>5
  <2> HIDE DEF q, c, rest
  <2>2. home'[t] = NoView /\ \A u \in Task \ {t} : home'[u] = home[u] /\ frame'[u] = frame[u]
    BY <1>4, <2>1
  <2> QED  BY <1>2, <2>2 DEF FramesKeep
<1>6. CASE rest # <<>>
  <2>1. /\ frame' = [frame EXCEPT ![t] = [frame[t] EXCEPT ![q] = Idle, ![c] = f]]
        /\ home' = home /\ Keeps(frame[t][c], f, rev[home[t]])
    BY <1>6
  <2> HIDE DEF q, c, rest
  <2>2. /\ frame'[t][q] = Idle /\ frame'[t][c] = f
        /\ \A u \in Task, x \in Query : u # t \/ (x # c /\ x # q) => frame'[u][x] = frame[u][x]
    BY <1>1, <1>4, <1>6, <2>1
  <2> SUFFICES ASSUME NEW u \in Task, NEW x \in Query, home[u] # NoView
               PROVE  Keeps(frame[u][x], frame'[u][x], rev[home[u]])
    BY <2>1 DEF FramesKeep
  <2>3. CASE u = t /\ x = c
    BY <2>1, <2>2, <2>3
  <2>4. CASE u = t /\ x = q
    BY <1>3, <2>2, <2>4
  <2>5. CASE u # t \/ (x # c /\ x # q)
    BY <1>2, <2>2, <2>5
  <2> QED  BY <2>3, <2>4, <2>5
<1> QED  BY <1>5, <1>6

LEMMA ReturnKeeps ==
    ASSUME EngineTypes, QuietInv, NEW t \in Task, Active(t), NEW a \in Answer, Return(t, a)
    PROVE  FramesKeep
<1> DEFINE f == Resume(frame[t][Caller(t)], a)
<1>1. Below(t) = <<>> =>
        /\ frame' = [frame EXCEPT ![t][Cur(t)] = Idle]
        /\ home' = [home EXCEPT ![t] = NoView]
    BY DEF Return, Below
<1>2. Below(t) # <<>> =>
        /\ frame' = [frame EXCEPT ![t] = [frame[t] EXCEPT ![Cur(t)] = Idle, ![Caller(t)] = f]]
        /\ home' = home
    BY DEF Return, Below, Caller
<1>3. ASSUME Below(t) # <<>> PROVE Keeps(frame[t][Caller(t)], f, rev[home[t]])
  <2>1. /\ frame[t][Caller(t)] \in Frame /\ Caller(t) \in Query
        /\ AskedForMore(frame[t][Caller(t)]) /\ HasWhatItNeeds(frame[t][Caller(t)])
    BY <1>3, BelowIsWaiting DEF EngineTypes
  <2>2. frame[t][Caller(t)].rev = rev[home[t]]
    BY <2>1, AccessRevision DEF AskedForMore, Unrevised
  <2>3. a \in Told
    BY DEF Told
  <2> QED  BY <2>1, <2>2, <2>3, ResumeKeeps
<1> HIDE DEF f
<1> QED  BY <1>1, <1>2, <1>3, PopKeeps

LEMMA DropKeeps ==
    ASSUME EngineTypes, QuietInv, NEW t \in Task, Active(t), DropAccess(t)
    PROVE  FramesKeep
<1> DEFINE f == [Idle EXCEPT !.pc = "drop"]
<1>1. Below(t) = <<>> =>
        /\ frame' = [frame EXCEPT ![t][Cur(t)] = Idle]
        /\ home' = [home EXCEPT ![t] = NoView]
    BY DEF DropAccess, Below
<1>2. Below(t) # <<>> =>
        /\ frame' = [frame EXCEPT ![t] = [frame[t] EXCEPT ![Cur(t)] = Idle, ![Caller(t)] = f]]
        /\ home' = home
    BY DEF DropAccess, Below, Caller
<1>3. \A g, r : Keeps(g, f, r)
    BY DEF Idle, Keeps, Unrevised, OwnPC
<1> HIDE DEF f
<1> QED  BY <1>1, <1>2, <1>3, PopKeeps

-----------------------------------------------------------------------------
(* Each step of an access *)

LEMMA WithoutCell ==
    ASSUME EngineTypes, QuietInv, NEW t \in Task, Active(t), UNCHANGED dbVars, FramesKeep, cell' = cell
    PROVE  QuietInv'
<1>1. home[t] \in View /\ Cur(t) \in Query
    BY AccessSees
<1> QED  BY <1>1, KeepingKeepsQuietInv

LEMMA WithCell ==
    ASSUME EngineTypes, QuietInv, NEW t \in Task, Active(t), UNCHANGED dbVars,
           NEW g, Go(t, g), Keeps(F(t), g, rev[home[t]]),
           NEW c, cell' = [cell EXCEPT ![home[t]][Cur(t)] = c],
           Current(c, rev[home[t]]) \/ (F(t).pc \in OwnPC /\ g.pc \notin OwnPC)
    PROVE  QuietInv'
<1> DEFINE v == home[t]
           q == Cur(t)
<1>1. v \in View /\ q \in Query /\ F(t) = frame[t][q]
    BY AccessSees DEF F
<1>2. FramesKeep
    BY GoKeeps
<1>3. home' = home /\ frame' = [frame EXCEPT ![t][q] = g]
    BY DEF Go
<1> HIDE DEF q
<1>4. /\ cell'[v][q] = c
      /\ \A w \in View, x \in Query : w # v \/ x # q => cell'[w][x] = cell[w][x]
    BY <1>1 DEF EngineTypes, CellsTyped, q
<1>5. frame'[t][q] = g /\ \A u \in Task \ {t} : frame'[u] = frame[u]
    BY <1>1, <1>3 DEF EngineTypes, TasksTyped
<1>6. \/ Current(cell'[v][q], rev[v])
      \/ \A u \in Task : home'[u] = v => frame'[u][q].pc \notin OwnPC
  <2> SUFFICES ASSUME F(t).pc \in OwnPC, g.pc \notin OwnPC, NEW u \in Task, home[u] = v
               PROVE  frame'[u][q].pc \notin OwnPC
    BY <1>3, <1>4
  <2>1. Owns(t, v, q)
    BY <1>1 DEF Owns, OwnPC
  <2>2. CASE u = t
    BY <1>5, <2>2
  <2>3. CASE u # t
    <3>1. ~Owns(u, v, q)
      BY <1>1, <2>1, <2>3 DEF QuietInv, OneOwner
    <3> QED  BY <1>5, <2>3, <3>1 DEF Owns, OwnPC
  <2> QED  BY <2>2, <2>3
<1> HIDE DEF v
<1> QED  BY <1>1, <1>2, <1>4, <1>6, KeepingKeepsQuietInv

LEMMA LookingIsQuiet ==
    ASSUME EngineTypes, QuietInv, NEW t \in Task, ReadRevision(t) \/ Observe(t) \/ Await(t)
    PROVE  QuietInv'
<1>1. Active(t) /\ UNCHANGED dbVars /\ cell' = cell
    BY DEF ReadRevision, Observe, Await, At, cellVars
<1>2. CASE ReadRevision(t)
  <2> DEFINE g == [AtTop EXCEPT !.pc = "observe", !.rev = rev[home[t]]]
  <2>1. Go(t, g) /\ g.rev = rev[home[t]] /\ g.pc = "observe"
    BY <1>2 DEF ReadRevision, AtTop, Idle
  <2>2. Keeps(F(t), g, rev[home[t]])
    BY <2>1 DEF Keeps, OwnPC
  <2> HIDE DEF g
  <2> QED  BY <1>1, <2>1, <2>2, GoKeeps, WithoutCell
<1>3. CASE Observe(t)
  <2> DEFINE f == F(t)
             c == TheCell(t)
  <2>1. Go(t, Observed(f, c)) /\ f.pc = "observe"
    BY <1>3 DEF Observe, At
  <2>2. c \in Cell /\ f \in Frame /\ f.rev = rev[home[t]]
    BY <1>1, <2>1, AccessSees, AccessRevision DEF Unrevised
  <2> HIDE DEF f, c
  <2>3. c.st \in {"Vacant", "Running", "Ready", "Poisoned"}
    BY <2>2, CellsAre
  <2>4. Keeps(f, Observed(f, c), rev[home[t]])
    <3>1. CASE Current(c, f.rev)
      <4>1. Observed(f, c) = [f EXCEPT !.pc = "check", !.ans = AnswerOf(c)]
        BY <3>1 DEF Observed, Current
      <4>2. Observed(f, c).pc = "check" /\ Observed(f, c).rev = f.rev
        BY <2>2, <4>1 DEF Frame
      <4> QED  BY <2>2, <4>2 DEF Keeps, OwnPC
    <3>2. CASE c.st = "Running"
      <4>1. Observed(f, c) = [Idle EXCEPT !.pc = "await"]
        BY <3>2 DEF Observed, Current
      <4>2. Observed(f, c).pc = "await"
        BY <4>1 DEF Idle
      <4> QED  BY <4>2 DEF Keeps, OwnPC, Unrevised
    <3>3. CASE c.st = "Ready" /\ ~Current(c, f.rev)
      <4>1. Observed(f, c) = [f EXCEPT !.pc = "touchLocal", !.i = 1,
                                  !.rec = [val |-> c.val, deps |-> c.deps, ch |-> c.ch]]
        BY <3>3 DEF Observed, Current
      <4>2. Observed(f, c).pc = "touchLocal" /\ Observed(f, c).rev = f.rev
        BY <2>2, <4>1 DEF Frame
      <4> QED  BY <2>2, <4>2 DEF Keeps, OwnPC
    <3>4. CASE c.st \in {"Vacant", "Poisoned"} /\ ~Current(c, f.rev)
      <4>1. Observed(f, c) = [f EXCEPT !.pc = "start"]
        BY <3>4 DEF Observed, Current
      <4>2. Observed(f, c).pc = "start" /\ Observed(f, c).rev = f.rev
        BY <2>2, <4>1 DEF Frame
      <4> QED  BY <2>2, <4>2 DEF Keeps, OwnPC
    <3> QED  BY <2>3, <3>1, <3>2, <3>3, <3>4
  <2> QED  BY <1>1, <2>1, <2>4, GoKeeps, WithoutCell DEF f
<1>4. CASE Await(t)
  <2>1. Go(t, AtTop) /\ Keeps(F(t), AtTop, rev[home[t]])
    BY <1>4, IdleIsFrame DEF Await, Keeps, OwnPC, Unrevised
  <2> QED  BY <1>1, <2>1, GoKeeps, WithoutCell
<1> QED  BY <1>2, <1>3, <1>4

LEMMA ReturningIsQuiet ==
    ASSUME EngineTypes, QuietInv, NEW t \in Task, Check(t) \/ Raise(t)
    PROVE  QuietInv'
<1>1. /\ Active(t) /\ F(t).pc \in {"check", "raise"} /\ UNCHANGED dbVars /\ cell' = cell
      /\ Return(t, F(t).ans) \/ Go(t, AtTop)
    BY DEF Check, Raise, At, cellVars
<1>2. F(t).ans \in Answer
    BY <1>1, AccessSees DEF MayGoOn, HasWhatItNeeds
<1>3. Keeps(F(t), AtTop, rev[home[t]])
    BY IdleIsFrame DEF Keeps, OwnPC, Unrevised
<1>4. FramesKeep
    BY <1>1, <1>2, <1>3, ReturnKeeps, GoKeeps
<1> QED  BY <1>1, <1>4, WithoutCell

LEMMA TouchingIsQuiet ==
    ASSUME EngineTypes, QuietInv, NEW t \in Task, Touch(t)
    PROVE  QuietInv'
<1> DEFINE f == F(t)
           d == f.rec.deps[f.i]
<1>1. /\ Active(t) /\ f.pc \in {"touchLocal", "touchShared"} /\ UNCHANGED dbVars /\ cell' = cell
      /\ \/ d \in Input /\ Go(t, Resume(f, Ok(None, input[home[t]][d].ch)))
         \/ d \in Query /\ ~OnStack(t, d) /\ Call(t, d, f)
         \/ Go(t, Resume(f, Err(Cycle)))
    BY DEF Touch, At, OnStack, cellVars
<1>2. f \in Frame /\ HasWhatItNeeds(f) /\ AskedForMore(f) /\ f.rev = rev[home[t]]
    BY <1>1, AccessSees, AccessRevision DEF MayGoOn, AskedForMore, Unrevised
<1>3. \A a \in Told : Keeps(f, Resume(f, a), rev[home[t]])
    BY <1>2, ResumeKeeps
<1>4. Err(Cycle) \in Told /\ \A i \in Input : Ok(None, input[home[t]][i].ch) \in Told
    BY <1>1, AccessSees, AnswersAre, ErrorsAreNoValues DEF Told
<1>5. FramesKeep
    BY <1>1, <1>2, <1>3, <1>4, GoKeeps, CallKeeps
<1> QED  BY <1>1, <1>5, WithoutCell

LEMMA VerifyIsQuiet ==
    ASSUME EngineTypes, QuietInv, NEW t \in Task, Verify(t)
    PROVE  QuietInv'
<1> DEFINE c == TheCell(t)
           r == F(t).rev
<1>1. Active(t) /\ UNCHANGED dbVars /\ F(t).pc = "touchLocal"
    BY DEF Verify, At
<1>2. /\ Cur(t) \in Query /\ home[t] \in View /\ c \in Cell /\ c = cell[home[t]][Cur(t)]
      /\ r = rev[home[t]]
    BY <1>1, AccessSees, AccessRevision DEF Unrevised
<1>3. CASE c.st = "Ready"
  <2> DEFINE g == [Idle EXCEPT !.pc = "check", !.rev = r, !.ans = AnswerOf(c)]
  <2>1. cell' = [cell EXCEPT ![home[t]][Cur(t)].ver = r] /\ Go(t, g)
    BY <1>3 DEF Verify
  <2>2. c = ReadyCell(c.val, c.ver, c.ch, c.deps)
    BY <1>2, <1>3, CellsAre
  <2>3. [c EXCEPT !.ver = r] = ReadyCell(c.val, r, c.ch, c.deps)
    BY <2>2 DEF ReadyCell
  <2>4. cell' = [cell EXCEPT ![home[t]][Cur(t)] = ReadyCell(c.val, r, c.ch, c.deps)]
    BY <1>2, <2>1, <2>3
  <2>5. Current(ReadyCell(c.val, r, c.ch, c.deps), rev[home[t]])
    BY <1>2 DEF Current, ReadyCell
  <2>6. g.pc = "check" /\ g.rev = r
    BY DEF Idle
  <2>7. Keeps(F(t), g, rev[home[t]])
    BY <1>2, <2>6 DEF Keeps, OwnPC
  <2> HIDE DEF g
  <2> QED  BY <1>1, <2>1, <2>4, <2>5, <2>7, WithCell
<1>4. CASE c.st # "Ready"
  <2>1. cell' = cell /\ Go(t, AtTop) /\ Keeps(F(t), AtTop, rev[home[t]])
    BY <1>4, IdleIsFrame DEF Verify, Keeps, OwnPC, Unrevised
  <2> QED  BY <1>1, <2>1, GoKeeps, WithoutCell
<1> QED  BY <1>3, <1>4

(* The one step that takes a cell: it is neither Running nor current at the *)
(* view's revision, so nobody owns it.                                      *)
LEMMA StartIsQuiet ==
    ASSUME EngineTypes, QuietInv, NEW t \in Task, Start(t)
    PROVE  QuietInv'
<1> DEFINE c == TheCell(t)
           v == home[t]
           q == Cur(t)
           old == IF c.st = "Ready" THEN [val |-> c.val, ch |-> c.ch] ELSE NoValue
           g == [F(t) EXCEPT !.pc = "shared", !.prev = old]
<1>1. /\ Active(t) /\ F(t).pc = "start" /\ UNCHANGED dbVars
      /\ \/ Go(t, AtTop) /\ cell' = cell
         \/ /\ ~Current(c, F(t).rev) /\ c.st # "Running"
            /\ Go(t, g) /\ cell' = [cell EXCEPT ![v][q] = Running]
    BY DEF Start, At
<1>2. /\ q \in Query /\ v \in View /\ c = cell[v][q] /\ F(t) \in Frame /\ F(t) = frame[t][q]
      /\ F(t).rev = rev[v] /\ v # NoView
    BY <1>1, AccessSees, AccessRevision, NonesAreNone DEF Unrevised, F
<1>3. CASE Go(t, AtTop) /\ cell' = cell
  <2>1. Keeps(F(t), AtTop, rev[v])
    BY IdleIsFrame DEF Keeps, OwnPC, Unrevised
  <2> QED  BY <1>1, <1>3, <2>1, GoKeeps, WithoutCell
<1>4. CASE /\ ~Current(c, F(t).rev) /\ c.st # "Running"
           /\ Go(t, g) /\ cell' = [cell EXCEPT ![v][q] = Running]
  <2>1. \A u \in Task : ~Owns(u, v, q)
    BY <1>2, <1>4 DEF QuietInv, OwnedIsTaken, Running
  <2>2. g.pc = "shared" /\ g.rev = rev[v]
    BY <1>2 DEF Frame
  <2>3. home' = home /\ frame' = [frame EXCEPT ![t][q] = g]
    BY <1>4 DEF Go
  <2> HIDE DEF c, v, q, g
  <2>4. /\ frame'[t][q] = g
        /\ \A u \in Task, x \in Query : u # t \/ x # q => frame'[u][x] = frame[u][x]
    BY <1>2, <2>3 DEF EngineTypes, TasksTyped
  <2>5. cell'[v][q] = Running /\ \A w \in View, x \in Query : w # v \/ x # q => cell'[w][x] = cell[w][x]
    BY <1>2, <1>4 DEF EngineTypes, CellsTyped
  <2>6. \A u \in Task, w \in View, x \in Query :
            Owns(u, w, x)' => Owns(u, w, x) \/ (u = t /\ w = v /\ x = q)
    <3> TAKE u \in Task, w \in View, x \in Query
    <3>1. CASE u = t /\ x = q
      BY <2>3, <3>1 DEF Owns, v
    <3>2. CASE u # t \/ x # q
      BY <2>3, <2>4, <3>2 DEF Owns
    <3> QED  BY <3>1, <3>2
  <2>7. OneOwner'
    <3> SUFFICES ASSUME NEW a \in Task, NEW b \in Task, NEW w \in View, NEW x \in Query,
                        Owns(a, w, x)', Owns(b, w, x)'
                 PROVE  a = b
      BY DEF OneOwner
    <3> QED  BY <2>1, <2>6 DEF QuietInv, OneOwner
  <2>8. OwnedIsTaken'
    <3> SUFFICES ASSUME NEW u \in Task, NEW w \in View, NEW x \in Query, Owns(u, w, x)'
                 PROVE  cell'[w][x] = Running \/ Current(cell'[w][x], rev[w])
      BY <1>1 DEF OwnedIsTaken, dbVars
    <3>1. CASE w = v /\ x = q
      BY <2>5, <3>1
    <3>2. CASE w # v \/ x # q
      BY <2>5, <2>6, <3>2 DEF QuietInv, OwnedIsTaken
    <3> QED  BY <3>1, <3>2
  <2>9. AtRevision'
    <3> SUFFICES ASSUME NEW u \in Task, NEW x \in Query, home[u] # NoView, frame'[u][x].pc \notin Unrevised
                 PROVE  frame'[u][x].rev = rev[home[u]]
      BY <1>1, <2>3 DEF AtRevision, dbVars
    <3>1. CASE u = t /\ x = q
      BY <2>2, <2>4, <3>1 DEF v
    <3>2. CASE u # t \/ x # q
      BY <2>4, <3>2 DEF QuietInv, AtRevision
    <3> QED  BY <3>1, <3>2
  <2>10. ReadyHomes' /\ QuietWrites'
    BY <1>1, <2>3 DEF QuietInv, ReadyHomes, QuietWrites, Ready, dbVars
  <2> QED  BY <2>7, <2>8, <2>9, <2>10 DEF QuietInv
<1> QED  BY <1>1, <1>3, <1>4

LEMMA AdoptingIsQuiet ==
    ASSUME EngineTypes, QuietInv, NEW t \in Task, SharedGet(t) \/ Adopt(t) \/ SharedPut(t)
    PROVE  QuietInv'
<1> DEFINE f == F(t)
<1>1. /\ Active(t) /\ UNCHANGED dbVars /\ f.pc \in {"shared", "adopt", "take", "touchShared", "put"}
    BY DEF SharedGet, Adopt, SharedPut, At
<1>2. f \in Frame /\ f.pc \notin Unrevised /\ f.rev = rev[home[t]]
    BY <1>1, AccessSees, AccessRevision DEF Unrevised
<1>3. CASE SharedGet(t)
  <2> DEFINE r == shared[Scope(home[t])][Cur(t)]
             c == [val |-> r.val, deps |-> r.deps, ch |-> r.ch]
  <2>1. /\ f.pc = "shared" /\ cell' = cell
        /\ \/ Go(t, [f EXCEPT !.pc = "lead"])
           \/ Go(t, [f EXCEPT !.pc = "adopt", !.rec = c])
           \/ Go(t, [f EXCEPT !.pc = "touchShared", !.i = 1, !.rec = c])
    BY <1>3 DEF SharedGet, At, cellVars
  <2> HIDE DEF c, f
  <2>2. \A g \in {[f EXCEPT !.pc = "lead"], [f EXCEPT !.pc = "adopt", !.rec = c],
                  [f EXCEPT !.pc = "touchShared", !.i = 1, !.rec = c]} : g.rev = f.rev
    BY <1>2 DEF Frame
  <2>3. \A g : g.rev = f.rev => Keeps(F(t), g, rev[home[t]])
    BY <1>2, <2>1 DEF f, Keeps, OwnPC
  <2> QED  BY <1>1, <2>1, <2>2, <2>3, GoKeeps, WithoutCell
<1>4. CASE Adopt(t)
  <2> DEFINE r == f.rec
             c == ReadyCell(r.val, f.rev, r.ch, r.deps)
             g == [Idle EXCEPT !.pc = "put", !.rev = f.rev, !.rec = r, !.ans = Ok(r.val, r.ch)]
  <2>1. cell' = [cell EXCEPT ![home[t]][Cur(t)] = c] /\ Go(t, g)
    BY <1>4 DEF Adopt, AdoptRecord, SetCell
  <2>2. g.pc = "put" /\ g.rev = f.rev
    BY DEF Idle
  <2>3. Keeps(F(t), g, rev[home[t]])
    BY <1>2, <2>2 DEF Keeps, OwnPC
  <2>4. Current(c, rev[home[t]])
    BY <1>2 DEF Current, ReadyCell
  <2> HIDE DEF g, c
  <2> QED  BY <1>1, <2>1, <2>3, <2>4, WithCell
<1>5. CASE SharedPut(t)
  <2>1. /\ f.pc = "put" /\ cell' = cell
        /\ \/ Go(t, [f EXCEPT !.pc = "complete"])
           \/ Go(t, [f EXCEPT !.pc = "check", !.rec = NoRecord])
    BY <1>5 DEF SharedPut, At, cellVars
  <2> HIDE DEF f
  <2>2. \A g \in {[f EXCEPT !.pc = "complete"], [f EXCEPT !.pc = "check", !.rec = NoRecord]} :
            g.rev = f.rev /\ g.pc \in {"complete", "check"}
    BY <1>2 DEF Frame
  <2>3. \A g : g.rev = f.rev /\ g.pc \in {"complete", "check"} => Keeps(F(t), g, rev[home[t]])
    BY <1>2 DEF f, Keeps, OwnPC
  <2> QED  BY <1>1, <2>1, <2>2, <2>3, GoKeeps, WithoutCell
<1> QED  BY <1>3, <1>4, <1>5

LEMMA UnchangedIsQuiet ==
    ASSUME QuietInv, UNCHANGED <<dbVars, cell, home, frame>>
    PROVE  QuietInv'
    BY DEF QuietInv, ReadyHomes, QuietWrites, Ready, AtRevision, OwnedIsTaken, OneOwner, Owns, dbVars

LEMMA FlyingIsQuiet ==
    ASSUME EngineTypes, QuietInv, Reg!TypeOK, EntriesFit, NEW t \in Task,
           TryLead(t) \/ Vacate(t) \/ Follow(t) \/ TakeOutcome(t)
    PROVE  QuietInv'
<1> DEFINE f == F(t)
<1>1. Active(t) /\ UNCHANGED dbVars /\ f.pc \in {"lead", "vacate", "follow"}
    BY DEF TryLead, Vacate, Follow, TakeOutcome, At
<1>2. f \in Frame /\ f.rev = rev[home[t]]
    BY <1>1, AccessSees, AccessRevision DEF Unrevised
<1>3. CASE TryLead(t)
  <2>1. /\ f.pc = "lead" /\ cell' = cell
        /\ Go(t, [f EXCEPT !.pc = "compute"]) \/ Go(t, [f EXCEPT !.pc = "vacate", !.prev = NoValue])
    BY <1>3 DEF TryLead, At, cellVars
  <2> HIDE DEF f
  <2>2. \A g \in {[f EXCEPT !.pc = "compute"], [f EXCEPT !.pc = "vacate", !.prev = NoValue]} : g.rev = f.rev
    BY <1>2 DEF Frame
  <2>3. \A g : g.rev = f.rev => Keeps(F(t), g, rev[home[t]])
    BY <1>2, <2>1 DEF f, Keeps, OwnPC
  <2> QED  BY <1>1, <2>1, <2>2, <2>3, GoKeeps, WithoutCell
<1>4. CASE Vacate(t)
  <2> DEFINE g == [f EXCEPT !.pc = "follow"]
  <2>1. f.pc = "vacate" /\ cell' = [cell EXCEPT ![home[t]][Cur(t)] = Vacant] /\ Go(t, g)
    BY <1>4 DEF Vacate, At
  <2>2. g.pc = "follow" /\ g.rev = f.rev
    BY <1>2 DEF Frame
  <2>3. Keeps(F(t), g, rev[home[t]]) /\ F(t).pc \in OwnPC /\ g.pc \notin OwnPC
    BY <1>2, <2>1, <2>2 DEF Keeps, OwnPC
  <2> HIDE DEF g
  <2> QED  BY <1>1, <2>1, <2>3, WithCell
<1>5. CASE Follow(t)
    BY <1>5, UnchangedIsQuiet DEF Follow, cellVars, taskVars
<1>6. CASE TakeOutcome(t)
  <2> DEFINE e == entryOf[H(t)]
             r == entryResult[e]
  <2>1. cell' = cell /\ role[H(t)] = "subscribed" /\ entryState[e] # "Running" /\ H(t) \in Holder
    BY <1>1, <1>6, AccessSees DEF TakeOutcome, cellVars, Reg!Take, H, Holder
  <2>2. entryState[e] \in {"Done", "Failed", "Cancelled"}
    BY <2>1 DEF EntriesFit, Reg!TypeOK, Reg!States
  <2>3. \/ Go(t, [f EXCEPT !.pc = "take", !.rec = r])
        \/ Go(t, [f EXCEPT !.pc = "poison", !.ans = Err(r)])
        \/ Go(t, AtTop)
    BY <1>6, <2>2 DEF TakeOutcome
  <2> HIDE DEF f, e, r
  <2>4. \A g \in {[f EXCEPT !.pc = "take", !.rec = r], [f EXCEPT !.pc = "poison", !.ans = Err(r)]} :
            g.rev = f.rev /\ g.pc \in {"take", "poison"}
    BY <1>2 DEF Frame
  <2>5. /\ Keeps(F(t), AtTop, rev[home[t]])
        /\ \A g : g.rev = f.rev /\ g.pc \in {"take", "poison"} => Keeps(F(t), g, rev[home[t]])
    BY <1>2, IdleIsFrame DEF f, Keeps, OwnPC, Unrevised
  <2> QED  BY <1>1, <2>1, <2>3, <2>4, <2>5, GoKeeps, WithoutCell
<1> QED  BY <1>3, <1>4, <1>5, <1>6

LEMMA ReadingIsQuiet ==
    ASSUME EngineTypes, QuietInv, NEW t \in Task, ReadInput(t) \/ ReadQuery(t)
    PROVE  QuietInv'
<1> DEFINE f == F(t)
           d == Todo(t).dep
           g == [f EXCEPT !.deps = Append(f.deps, d)]
<1>1. /\ Active(t) /\ f.pc = "compute" /\ Todo(t).do = "get" /\ UNCHANGED dbVars /\ cell' = cell
    BY DEF ReadInput, ReadQuery, Computing, At, cellVars
<1>2. /\ f \in Frame /\ MayGoOn(f) /\ Cur(t) \in Query /\ f.rev = rev[home[t]]
      /\ f.seen \in Seq(Answered) /\ f.deps \in Seq(Input \union Query)
      /\ Len(f.seen) \in Nat /\ Len(f.deps) \in Nat
      /\ Len(f.seen) <= MaxReads /\ Len(f.deps) <= Len(f.seen) /\ MaxReads \in Nat
    BY <1>1, AccessSees, AccessRevision, FrameFields, ProgramsEnd DEF MayGoOn, WithinReads, Unrevised
<1>3. d \in Input \union Query /\ Len(f.seen) < MaxReads
    BY <1>1, <1>2, ProgramFits DEF Todo
<1>4. Append(f.deps, d) \in Seq(Input \union Query)
    BY <1>2, <1>3, AppendProperties
<1> HIDE DEF f, d
<1>5. g \in Frame /\ g.pc = "compute" /\ g.rev = f.rev
    BY <1>1, <1>2, <1>4 DEF Frame
<1>6. CASE ReadInput(t)
  <2> DEFINE h == [f EXCEPT !.deps = Append(f.deps, d), !.seen = Append(f.seen, input[home[t]][d].val)]
  <2>1. Go(t, h)
    BY <1>6 DEF ReadInput, f, d
  <2>2. h.pc = "compute" /\ h.rev = f.rev
    BY <1>1, <1>2 DEF Frame
  <2>3. Keeps(F(t), h, rev[home[t]])
    BY <1>1, <1>2, <2>2 DEF Keeps, OwnPC, f
  <2> HIDE DEF h
  <2> QED  BY <1>1, <2>1, <2>3, GoKeeps, WithoutCell
<1>7. CASE ReadQuery(t)
  <2>1. \/ d \in Query /\ ~OnStack(t, d) /\ Call(t, d, g)
        \/ Go(t, Resume(f, Err(Cycle)))
    BY <1>7 DEF ReadQuery, OnStack, f, d
  <2>2. HasWhatItNeeds(f) /\ AskedForMore(f)
    BY <1>1, <1>2, <1>3 DEF MayGoOn, AskedForMore
  <2>3. Keeps(F(t), Resume(f, Err(Cycle)), rev[home[t]])
    BY <1>2, <2>2, ResumeKeeps, AnswersAre, ErrorsAreNoValues DEF Told, f
  <2> HIDE DEF g
  <2>4. FramesKeep
    BY <1>1, <1>5, <2>1, <2>3, GoKeeps, CallKeeps DEF f
  <2> QED  BY <1>1, <2>4, WithoutCell
<1> QED  BY <1>6, <1>7

LEMMA EndingIsQuiet ==
    ASSUME EngineTypes, QuietInv, NEW t \in Task, Finish(t) \/ Poison(t)
    PROVE  QuietInv'
<1> DEFINE f == F(t)
<1>1. Active(t) /\ f.pc \in {"compute", "poison"} /\ UNCHANGED dbVars
    BY DEF Finish, Poison, Computing, At
<1>2. f.rev = rev[home[t]]
    BY <1>1, AccessRevision DEF Unrevised
<1>3. PICK c, g :
        /\ Current(c, f.rev) /\ cell' = [cell EXCEPT ![home[t]][Cur(t)] = c]
        /\ Go(t, g) /\ g.rev = f.rev /\ g.pc \notin OwnPC
  <2>1. CASE Finish(t)
    <3> DEFINE x == Todo(t).val
               ch == IF f.prev # NoValue /\ f.prev.val = x THEN f.prev.ch ELSE f.rev
               c == ReadyCell(x, f.rev, ch, f.deps)
               g == [Idle EXCEPT !.pc = "put", !.rev = f.rev, !.ans = Ok(x, ch),
                                 !.rec = [val |-> x, deps |-> f.deps, ch |-> ch]]
    <3>1. cell' = [cell EXCEPT ![home[t]][Cur(t)] = c] /\ Go(t, g)
      BY <2>1 DEF Finish, SetCell
    <3>2. Current(c, f.rev) /\ g.rev = f.rev /\ g.pc \notin OwnPC
      BY DEF Current, ReadyCell, Idle, OwnPC
    <3> HIDE DEF c, g
    <3> QED  BY <3>1, <3>2
  <2>2. CASE Poison(t)
    <3> DEFINE e == IF At(t, "poison") THEN f.ans.val ELSE Todo(t).val
               c == Poisoned(e, f.rev)
               g == [Idle EXCEPT !.pc = IF At(t, "poison") THEN "check" ELSE "fail",
                                 !.rev = f.rev, !.ans = Err(e)]
    <3>1. cell' = [cell EXCEPT ![home[t]][Cur(t)] = c] /\ Go(t, g)
      BY <2>2 DEF Poison, SetCell
    <3>2. Current(c, f.rev) /\ g.rev = f.rev /\ g.pc \notin OwnPC
      BY DEF Current, Poisoned, Idle, OwnPC
    <3> HIDE DEF c, g
    <3> QED  BY <3>1, <3>2
  <2> QED  BY <2>1, <2>2
<1>4. Keeps(F(t), g, rev[home[t]])
    BY <1>2, <1>3 DEF Keeps
<1> QED  BY <1>1, <1>2, <1>3, <1>4, WithCell

LEMMA SettlingIsQuiet ==
    ASSUME EngineTypes, QuietInv, NEW t \in Task, SettleFlight(t) \/ PublishFlight(t)
    PROVE  QuietInv'
<1> DEFINE f == F(t)
<1>1. Active(t) /\ UNCHANGED dbVars /\ cell' = cell /\ f.pc \in {"complete", "fail", "publish"}
    BY DEF SettleFlight, PublishFlight, At, cellVars
<1>2. f \in Frame /\ f.rev = rev[home[t]]
    BY <1>1, AccessSees, AccessRevision DEF Unrevised
<1>3. \/ Go(t, [f EXCEPT !.pc = "publish", !.rec = NoRecord])
      \/ Go(t, [f EXCEPT !.pc = "check"])
      \/ UNCHANGED taskVars
    BY DEF SettleFlight, PublishFlight
<1> HIDE DEF f
<1>4. \A g \in {[f EXCEPT !.pc = "publish", !.rec = NoRecord], [f EXCEPT !.pc = "check"]} :
        g.rev = f.rev /\ g.pc \in {"publish", "check"}
    BY <1>2 DEF Frame
<1>5. \A g : g.rev = f.rev /\ g.pc \in {"publish", "check"} => Keeps(F(t), g, rev[home[t]])
    BY <1>2 DEF f, Keeps, OwnPC
<1>6. CASE UNCHANGED taskVars
    BY <1>1, <1>6, UnchangedIsQuiet DEF taskVars
<1> QED  BY <1>1, <1>3, <1>4, <1>5, <1>6, GoKeeps, WithoutCell

LEMMA CancellingIsQuiet ==
    ASSUME EngineTypes, QuietInv, NEW t \in Task, Cancel(t) \/ Drop(t)
    PROVE  QuietInv'
<1>1. Active(t) /\ UNCHANGED dbVars /\ cell' = cell
    BY DEF Cancel, Suspended, Drop, DropAccess, At, cellVars
<1>2. CASE Cancel(t)
  <2> DEFINE g == [Idle EXCEPT !.pc = "drop"]
  <2>1. Go(t, g) /\ Keeps(F(t), g, rev[home[t]])
    BY <1>2 DEF Cancel, Keeps, OwnPC, Unrevised, Idle
  <2> HIDE DEF g
  <2> QED  BY <1>1, <2>1, GoKeeps, WithoutCell
<1>3. CASE Drop(t)
  <2>1. DropAccess(t) \/ UNCHANGED taskVars
    BY <1>3 DEF Drop
  <2> QED  BY <1>1, <2>1, DropKeeps, WithoutCell, UnchangedIsQuiet DEF taskVars
<1> QED  BY <1>2, <1>3

-----------------------------------------------------------------------------
(* What the embedding program does *)

\* Nobody comes to own a cell, and views with owners are left alone.
LEMMA ApartFromOwners ==
    ASSUME QuietInv, ReadyHomes', QuietWrites', AtRevision',
           \A u \in Task, w \in View, x \in Query :
               Owns(u, w, x)' => Owns(u, w, x) /\ cell'[w] = cell[w] /\ rev'[w] = rev[w]
    PROVE  QuietInv'
<1>1. OwnedIsTaken'
  <2> SUFFICES ASSUME NEW u \in Task, NEW w \in View, NEW x \in Query, Owns(u, w, x)'
               PROVE  cell'[w][x] = Running \/ Current(cell'[w][x], rev'[w])
    BY DEF OwnedIsTaken
  <2> QED  BY DEF QuietInv, OwnedIsTaken
<1>2. OneOwner'
  <2> SUFFICES ASSUME NEW a \in Task, NEW b \in Task, NEW w \in View, NEW x \in Query,
                      Owns(a, w, x)', Owns(b, w, x)'
               PROVE  a = b
    BY DEF OneOwner
  <2> QED  BY DEF QuietInv, OneOwner
<1> QED  BY <1>1, <1>2 DEF QuietInv

LEMMA AskingIsQuiet ==
    ASSUME EngineTypes, QuietInv, QuietWrites', NEW t \in Task, Ask(t)
    PROVE  QuietInv'
<1>1. PICK v \in View, q \in Query : Get(t, v, q)
    BY DEF Ask
<1>2. /\ stack[t] = <<>> /\ Ready(v) /\ UNCHANGED dbVars /\ cell' = cell
      /\ frame' = [frame EXCEPT ![t][q] = AtTop] /\ home' = [home EXCEPT ![t] = v]
    BY <1>1 DEF Get, Active, cellVars
<1>3. \A x \in Query : frame[t][x].pc = "idle"
    BY <1>2, EmptySeq DEF EngineTypes, TasksTyped, OnStack
<1>4. /\ home'[t] = v /\ \A u \in Task \ {t} : home'[u] = home[u] /\ frame'[u] = frame[u]
      /\ \A x \in Query : frame'[t][x].pc \in {"idle", "top"}
    BY <1>2, <1>3, IdleIsFrame DEF EngineTypes, TasksTyped
<1>5. \A u \in Task, w \in View, x \in Query : Owns(u, w, x)' => Owns(u, w, x)
  <2> TAKE u \in Task, w \in View, x \in Query
  <2>1. CASE u = t
    BY <1>4, <2>1 DEF Owns
  <2>2. CASE u # t
    BY <1>4, <2>2 DEF Owns
  <2> QED  BY <2>1, <2>2
<1>6. ReadyHomes'
    BY <1>2, <1>4 DEF QuietInv, ReadyHomes, Ready, dbVars
<1>7. AtRevision'
  <2> SUFFICES ASSUME NEW u \in Task, NEW x \in Query, home'[u] # NoView, frame'[u][x].pc \notin Unrevised
               PROVE  frame'[u][x].rev = rev[home'[u]]
    BY <1>2 DEF AtRevision, dbVars
  <2>1. u # t
    BY <1>4 DEF Unrevised
  <2> QED  BY <1>4, <2>1 DEF QuietInv, AtRevision
<1> QED  BY <1>2, <1>5, <1>6, <1>7, ApartFromOwners DEF dbVars

\* A view that is written has no accesses, so its revision is nobody's.
LEMMA BeginningAWriteIsQuiet ==
    ASSUME EngineTypes, QuietInv, QuietWrites', NEW v \in View, BeginWrite(v)
    PROVE  QuietInv'
<1>1. PICK i \in Input, x \in Stored : Bump(v, i, x)
    BY DEF BeginWrite
<1>2. /\ UNCHANGED <<cell, home, frame, copied>>
      /\ rev' = [rev EXCEPT ![v] = rev[v] + 1] /\ rev[v] \in Revision /\ rev[v] < MaxRev
      /\ writing' = [writing EXCEPT ![v] = [key |-> i, val |-> x, ch |-> rev[v] + 1]]
    BY <1>1 DEF BeginWrite, Bump, cellVars, taskVars, EngineTypes, DbTypeOK
<1>3. rev[v] + 1 \in Revision
    BY <1>2, MaxRevIsNat DEF Revision
<1>4. writing'[v] # NoWrite
    BY <1>2, <1>3, NonesAreNone DEF EngineTypes, DbTypeOK
<1>5. \A u \in Task : home[u] # v
    BY <1>2, <1>4 DEF QuietWrites
<1>6. \A w \in View \ {v} : rev'[w] = rev[w]
    BY <1>2 DEF EngineTypes, DbTypeOK
<1>7. ReadyHomes' /\ \A u \in Task, w \in View, y \in Query : Owns(u, w, y)' => Owns(u, w, y) /\ w # v
    BY <1>2, <1>5 DEF QuietInv, ReadyHomes, Ready, Owns
<1>8. AtRevision'
  <2> SUFFICES ASSUME NEW u \in Task, NEW y \in Query, home[u] # NoView, frame[u][y].pc \notin Unrevised
               PROVE  frame[u][y].rev = rev'[home[u]]
    BY <1>2 DEF AtRevision
  <2>1. home[u] \in View \ {v}
    BY <1>5 DEF EngineTypes, TasksTyped
  <2> QED  BY <1>6, <2>1 DEF QuietInv, AtRevision
<1> QED  BY <1>2, <1>6, <1>7, <1>8, ApartFromOwners

LEMMA EndingAWriteIsQuiet ==
    ASSUME EngineTypes, QuietInv, NEW v \in View, EndWrite(v)
    PROVE  QuietInv'
<1>1. /\ UNCHANGED <<cell, home, frame, copied, rev>>
      /\ writing' = writing \/ writing' = [writing EXCEPT ![v] = NoWrite]
    BY DEF EndWrite, MarkDivergent, Write, cellVars, taskVars
<1>2. \A w \in View : writing'[w] # NoWrite => writing[w] # NoWrite
    BY <1>1 DEF EngineTypes, DbTypeOK
<1>3. ReadyHomes' /\ QuietWrites' /\ AtRevision'
    BY <1>1, <1>2 DEF QuietInv, ReadyHomes, QuietWrites, AtRevision, Ready
<1> QED  BY <1>1, <1>3, ApartFromOwners DEF Owns

\* A snapshot that is being made has no accesses.
LEMMA SnapshottingIsQuiet ==
    ASSUME EngineTypes, QuietInv, QuietWrites', NEW s \in View, Snapshot(s)
    PROVE  QuietInv'
<1>1. Len(Ingredients) \in Nat /\ copied[s] \in 0..(Len(Ingredients) + 1)
    BY IngredientsListed, LenProperties DEF EngineTypes, DbTypeOK
<1>2. ~Ready(s)
    BY <1>1 DEF Snapshot, SnapshotRuntime, SnapshotInput, SnapshotCells, Copying, Ready
<1>3. /\ UNCHANGED <<home, frame>>
      /\ \A w \in View \ {s} : cell'[w] = cell[w] /\ rev'[w] = rev[w] /\ copied'[w] = copied[w]
  <2>1. CASE SnapshotRuntime(s) /\ UNCHANGED <<cellVars, taskVars>>
    BY <2>1 DEF SnapshotRuntime, cellVars, taskVars, EngineTypes, DbTypeOK
  <2>2. CASE (\E i \in Input : SnapshotInput(s, i)) /\ UNCHANGED <<cellVars, taskVars>>
    BY <2>2 DEF SnapshotInput, cellVars, taskVars, EngineTypes, DbTypeOK
  <2>3. CASE \E q \in Query : SnapshotCells(s, q)
    <3>1. PICK q \in Query : SnapshotCells(s, q)
      BY <2>3
    <3> QED  BY <3>1 DEF SnapshotCells, taskVars, EngineTypes, DbTypeOK, CellsTyped
  <2> QED  BY <2>1, <2>2, <2>3 DEF Snapshot
<1>4. \A u \in Task : home[u] # NoView => home[u] \in View \ {s} /\ Ready(home[u])
    BY <1>2 DEF QuietInv, ReadyHomes, EngineTypes, TasksTyped
<1>5. ReadyHomes'
    BY <1>3, <1>4 DEF ReadyHomes, Ready
<1>6. AtRevision'
    BY <1>3, <1>4 DEF QuietInv, AtRevision
<1>7. \A u \in Task, w \in View, x \in Query :
        Owns(u, w, x)' => Owns(u, w, x) /\ cell'[w] = cell[w] /\ rev'[w] = rev[w]
  <2> TAKE u \in Task, w \in View, x \in Query
  <2>1. Owns(u, w, x)' => Owns(u, w, x)
    BY <1>3 DEF Owns
  <2>2. Owns(u, w, x) => w # s
    BY <1>4, NonesAreNone DEF Owns
  <2> QED  BY <1>3, <2>1, <2>2
<1> QED  BY <1>5, <1>6, <1>7, ApartFromOwners

-----------------------------------------------------------------------------
LEMMA NextKeepsQuietInv ==
    ASSUME EngineInv, QuietInv, [QuietNext]_vars
    PROVE  QuietInv'
<1>1. EngineTypes /\ EntriesFit /\ Reg!TypeOK
    BY RegistryIs DEF EngineInv, EngineTypes
<1>2. CASE UNCHANGED vars
    BY <1>2, UnchangedIsQuiet DEF vars, cellVars, taskVars
<1>3. CASE Calls /\ QuietWrites'
    BY <1>1, <1>3, AskingIsQuiet, BeginningAWriteIsQuiet, SnapshottingIsQuiet DEF Calls
<1>4. ASSUME NEW t \in Task, Step(t) \/ Cancel(t) PROVE QuietInv'
  <2>1. CASE ReadRevision(t) \/ Observe(t) \/ Check(t) \/ Await(t) \/ Touch(t) \/ Verify(t) \/ Raise(t) \/ Start(t)
    BY <1>1, <2>1, LookingIsQuiet, ReturningIsQuiet, TouchingIsQuiet, VerifyIsQuiet, StartIsQuiet
  <2>2. CASE \/ SharedGet(t) \/ Adopt(t) \/ SharedPut(t)
             \/ TryLead(t) \/ Vacate(t) \/ Follow(t) \/ TakeOutcome(t)
    BY <1>1, <2>2, AdoptingIsQuiet, FlyingIsQuiet
  <2>3. CASE \/ ReadInput(t) \/ ReadQuery(t) \/ Finish(t) \/ Poison(t)
             \/ SettleFlight(t) \/ PublishFlight(t) \/ Drop(t) \/ Cancel(t)
    BY <1>1, <2>3, ReadingIsQuiet, EndingIsQuiet, SettlingIsQuiet, CancellingIsQuiet
  <2> QED  BY <1>4, <2>1, <2>2, <2>3 DEF Step
<1>5. ASSUME NEW v \in View, NEW q \in Query, Evict(v, q) PROVE QuietInv'
    BY <1>5, UnchangedIsQuiet DEF Evict, cellVars, taskVars
<1>6. ASSUME NEW v \in View, EndWrite(v) PROVE QuietInv'
    BY <1>1, <1>6, EndingAWriteIsQuiet
<1> QED  BY <1>2, <1>3, <1>4, <1>5, <1>6 DEF QuietNext, Runs

LEMMA InitHoldsQuietInv == Init => QuietInv
<1> SUFFICES ASSUME Init PROVE QuietInv
    OBVIOUS
<1>1. /\ \A t \in Task : home[t] = NoView
      /\ \A v \in View : writing[v] = NoWrite
    BY DEF Init, DbInit
<1> QED  BY <1>1, NonesAreNone DEF QuietInv, ReadyHomes, QuietWrites, AtRevision, OwnedIsTaken, OneOwner, Owns

LEMMA QuietNextIsNext == [QuietNext]_vars => [Next]_vars
    BY DEF QuietNext, Next

(* Whatever else happens - tasks are dropped, programs fail, snapshots are   *)
(* written - the accesses of a view that is not written under them use its  *)
(* own revision, and whoever owns a cell has left it Running or finds it    *)
(* current.                                                                 *)
THEOREM QuietInvariance == QuietSpec => [](EngineInv /\ QuietInv)
<1>1. EngineInv /\ QuietInv /\ [QuietNext]_vars => (EngineInv /\ QuietInv)'
    BY NextKeepsEngineInv, NextKeepsQuietInv, QuietNextIsNext
<1>2. Init => EngineInv /\ QuietInv
    BY InitHoldsEngineInv, InitHoldsQuietInv
<1> QED  BY <1>1, <1>2, PTL DEF QuietSpec

(* Within a view that is not written under its accesses, a query is          *)
(* computed by one access at a time (derived.rs:399-422), even when tasks   *)
(* are dropped at any await point.                                          *)
THEOREM QueriesAreComputedOnce == QuietSpec => []OneOwner
<1>1. QuietInv => OneOwner
    BY DEF QuietInv
<1> QED  BY <1>1, QuietInvariance, PTL

-----------------------------------------------------------------------------
(* Who waits is met: a cell found Running is owned, and whoever sleeps on a  *)
(* cell has an access coming that will write it.  Only two things take an   *)
(* access away from a cell it owns or is coming to: its task is dropped, or *)
(* it fails with a dependency of the shared record it revalidates.          *)

\* An access on its way to a cell it has seen or will see unsettled.
Comes == {"top", "observe", "start", "follow", "take", "poison"}
Arrives(t, v, x) == home[t] = v /\ frame[t][x].pc \in Comes
Sleeps(t, v, x) == home[t] = v /\ frame[t][x].pc = "await" /\ t \in waiting[v][x]

SleepersAreMet ==
    \A t \in Task, v \in View, x \in Query : Sleeps(t, v, x) =>
        \/ cell[v][x] = Running
        \/ cell[v][x] = Vacant /\ \E u \in Task : Arrives(u, v, x)

MeetingInv == ReadyHomes /\ RunningIsOwned /\ SleepersAreMet

\* An access is dropped, or fails with a dependency of the shared record that
\* it revalidates.
GivesUp(p, p2) == p2 = "drop" \/ (p = "touchShared" /\ p2 = "raise")
Leaves(pcs) ==
    \E t \in Task, x \in Query : frame[t][x].pc \in pcs /\ GivesUp(frame[t][x].pc, frame'[t][x].pc)

\* How an access at p may go on at p2 while no cell is written.
Passes(p, p2) ==
    /\ p \in OwnPC => p2 \in OwnPC \/ GivesUp(p, p2)
    /\ p \in Comes => p2 \in Comes \/ GivesUp(p, p2)
    /\ p2 = "await" => p = "await"

\* No cell is written, owners own, arrivals arrive and nobody falls asleep.
GoesOn ==
    /\ cell' = cell
    /\ \A u \in Task, w \in View, x \in Query :
        /\ Owns(u, w, x) => Owns(u, w, x)' \/ GivesUp(frame[u][x].pc, frame'[u][x].pc)
        /\ Arrives(u, w, x) => Arrives(u, w, x)' \/ GivesUp(frame[u][x].pc, frame'[u][x].pc)
        /\ Sleeps(u, w, x)' => Sleeps(u, w, x)

LEMMA GoingOnKeepsOwners ==
    ASSUME RunningIsOwned, GoesOn, ~Leaves(OwnPC)
    PROVE  RunningIsOwned'
<1> SUFFICES ASSUME NEW v \in View, NEW x \in Query, cell[v][x] = Running
             PROVE  \E t \in Task : Owns(t, v, x)'
    BY DEF RunningIsOwned, GoesOn
<1>1. PICK t \in Task : Owns(t, v, x)
    BY DEF RunningIsOwned
<1>2. ~GivesUp(frame[t][x].pc, frame'[t][x].pc)
    BY <1>1 DEF Leaves, Owns, OwnPC
<1> QED  BY <1>1, <1>2 DEF GoesOn

LEMMA GoingOnMeetsSleepers ==
    ASSUME SleepersAreMet, GoesOn, ~Leaves(Comes)
    PROVE  SleepersAreMet'
<1> SUFFICES ASSUME NEW s \in Task, NEW v \in View, NEW x \in Query, Sleeps(s, v, x)',
                    cell[v][x] # Running
             PROVE  cell[v][x] = Vacant /\ \E u \in Task : Arrives(u, v, x)'
    BY DEF SleepersAreMet, GoesOn
<1>1. Sleeps(s, v, x)
    BY DEF GoesOn
<1>2. cell[v][x] = Vacant /\ \E u \in Task : Arrives(u, v, x)
    BY <1>1 DEF SleepersAreMet
<1>3. PICK u \in Task : Arrives(u, v, x)
    BY <1>2
<1>4. ~GivesUp(frame[u][x].pc, frame'[u][x].pc)
    BY <1>3 DEF Leaves, Arrives
<1> QED  BY <1>2, <1>3, <1>4 DEF GoesOn

\* What a step does for what waits and for what is waited for.
Meets ==
    /\ RunningIsOwned /\ ~Leaves(OwnPC) => RunningIsOwned'
    /\ SleepersAreMet /\ ~Leaves(Comes) => SleepersAreMet'

LEMMA GoingOnMeets ==
    ASSUME GoesOn
    PROVE  Meets
    BY GoingOnKeepsOwners, GoingOnMeetsSleepers DEF Meets

\* The current access goes on without writing its cell.
LEMMA GoMeets ==
    ASSUME EngineTypes, NEW t \in Task, Active(t), NEW g, Go(t, g), Passes(F(t).pc, g.pc), cell' = cell,
           \A u \in Task, w \in View, x \in Query : u \in waiting'[w][x] =>
               u \in waiting[w][x] \/ (u = t /\ x = Cur(t) /\ g.pc # "await")
    PROVE  Meets
<1>1. /\ home' = home /\ frame' = [frame EXCEPT ![t][Cur(t)] = g] /\ Cur(t) \in Query
      /\ F(t) = frame[t][Cur(t)]
    BY AccessSees DEF Go, F
<1>2. \A u \in Task, x \in Query :
        frame'[u][x] = IF u = t /\ x = Cur(t) THEN g ELSE frame[u][x]
    BY <1>1 DEF EngineTypes, TasksTyped
<1>3. \A u \in Task, x \in Query : u # t \/ x # Cur(t) => frame'[u][x] = frame[u][x]
    BY <1>2
<1>4. frame'[t][Cur(t)] = g
    BY <1>1, <1>2
<1>5. GoesOn
  <2> SUFFICES ASSUME NEW u \in Task, NEW w \in View, NEW x \in Query
               PROVE  /\ Owns(u, w, x) => Owns(u, w, x)' \/ GivesUp(frame[u][x].pc, frame'[u][x].pc)
                      /\ Arrives(u, w, x) => Arrives(u, w, x)' \/ GivesUp(frame[u][x].pc, frame'[u][x].pc)
                      /\ Sleeps(u, w, x)' => Sleeps(u, w, x)
    BY DEF GoesOn
  <2>1. CASE u = t /\ x = Cur(t)
    BY <1>1, <1>4, <2>1 DEF Passes, Owns, OwnPC, Arrives, Sleeps
  <2>2. CASE ~(u = t /\ x = Cur(t))
    BY <1>1, <1>3, <2>2 DEF Owns, Arrives, Sleeps
  <2> QED  BY <2>1, <2>2
<1> QED  BY <1>5, GoingOnMeets

LEMMA ResumePasses ==
    ASSUME NEW f \in Frame, AskedForMore(f), HasWhatItNeeds(f), NEW a \in Told
    PROVE  Passes(f.pc, Resume(f, a).pc) /\ Resume(f, a).pc # "await"
<1>1. f.pc # "compute" /\ a.ok => a.ch \in Nat /\ f.rec.ch \in Nat
    BY RevisionsAreNat DEF Told, Answer, AskedForMore, HasWhatItNeeds, Record
<1>2. f.pc \in {"compute", "touchLocal", "touchShared"}
    BY DEF AskedForMore
<1>3. CASE f.pc = "compute"
  <2>1. Resume(f, a) = [f EXCEPT !.seen = Append(f.seen, a.val)]
    BY <1>3 DEF Resume
  <2>2. Resume(f, a).pc = f.pc
    BY <2>1 DEF Frame
  <2> QED  BY <1>3, <2>2 DEF Passes, OwnPC, Comes
<1>4. CASE f.pc # "compute" /\ ~a.ok
  <2>1. Resume(f, a).pc = "raise"
    BY <1>4 DEF Resume, Idle
  <2> QED  BY <1>2, <1>4, <2>1 DEF Passes, GivesUp, OwnPC, Comes
<1>5. CASE f.pc # "compute" /\ a.ok /\ a.ch <= f.rec.ch
  <2>1. Resume(f, a) = [f EXCEPT !.i = f.i + 1]
    BY <1>1, <1>5 DEF Resume
  <2>2. Resume(f, a).pc = f.pc
    BY <2>1 DEF Frame
  <2> QED  BY <1>2, <2>2 DEF Passes, OwnPC, Comes
<1>6. CASE f.pc = "touchLocal" /\ a.ok /\ a.ch > f.rec.ch
  <2>1. Resume(f, a).pc = "start"
    BY <1>1, <1>6 DEF Resume, Idle
  <2> QED  BY <1>6, <2>1 DEF Passes, OwnPC, Comes
<1>7. CASE f.pc = "touchShared" /\ a.ok /\ a.ch > f.rec.ch
  <2>1. Resume(f, a) = [f EXCEPT !.pc = "lead", !.rec = NoRecord, !.i = 0]
    BY <1>1, <1>7 DEF Resume
  <2>2. Resume(f, a).pc = "lead"
    BY <2>1 DEF Frame
  <2> QED  BY <1>7, <2>2 DEF Passes, OwnPC, Comes
<1> QED  BY <1>1, <1>2, <1>3, <1>4, <1>5, <1>6, <1>7

LEMMA CallMeets ==
    ASSUME EngineTypes, NEW t \in Task, Active(t), NEW q \in Query, ~OnStack(t, q),
           NEW f, Call(t, q, f), f.pc = F(t).pc, UNCHANGED cellVars
    PROVE  Meets
<1> DEFINE c == Cur(t)
<1>1. c \in Query /\ OnStack(t, c) /\ c # q /\ F(t) = frame[t][c]
    BY CurrentIsOnStack DEF EngineTypes
<1>2. home' = home /\ frame' = [frame EXCEPT ![t] = [frame[t] EXCEPT ![c] = f, ![q] = AtTop]]
    BY DEF Call
<1>3. frame[t][q].pc = "idle"
    BY DEF EngineTypes, TasksTyped
<1> HIDE DEF c
<1>4. /\ frame'[t][c].pc = frame[t][c].pc /\ frame'[t][q].pc = "top"
      /\ \A u \in Task, x \in Query : u # t \/ (x # c /\ x # q) => frame'[u][x].pc = frame[u][x].pc
    BY <1>1, <1>2, IdleIsFrame DEF EngineTypes, TasksTyped
<1>5. \A u \in Task, x \in Query :
        \/ frame'[u][x].pc = frame[u][x].pc
        \/ frame[u][x].pc = "idle" /\ frame'[u][x].pc = "top"
    BY <1>3, <1>4
<1>6. GoesOn
  <2> SUFFICES ASSUME NEW u \in Task, NEW w \in View, NEW x \in Query
               PROVE  /\ Owns(u, w, x) => Owns(u, w, x)'
                      /\ Arrives(u, w, x) => Arrives(u, w, x)'
                      /\ Sleeps(u, w, x)' => Sleeps(u, w, x)
    BY DEF GoesOn, cellVars
  <2> QED  BY <1>2, <1>5 DEF Owns, Arrives, Comes, Sleeps, cellVars
<1> QED  BY <1>6, GoingOnMeets

\* The current access of t ends; its caller, if there is one, goes on with f.
LEMMA PopMeets ==
    ASSUME EngineTypes, NEW t \in Task, Active(t), F(t).pc \notin OwnPC \union Comes,
           Below(t) = <<>> =>
                /\ frame' = [frame EXCEPT ![t][Cur(t)] = Idle]
                /\ home' = [home EXCEPT ![t] = NoView],
           NEW f, Below(t) # <<>> =>
                /\ Passes(frame[t][Caller(t)].pc, f.pc)
                /\ frame' = [frame EXCEPT ![t] = [frame[t] EXCEPT ![Cur(t)] = Idle, ![Caller(t)] = f]]
                /\ home' = home,
           cell' = cell,
           \A u \in Task, w \in View, x \in Query : u \in waiting'[w][x] => u \in waiting[w][x]
    PROVE  Meets
<1> DEFINE q == Cur(t)
           c == Caller(t)
           rest == Below(t)
<1>1. /\ q \in Query /\ F(t) = frame[t][q] /\ (rest # <<>> => c \in Query /\ c # q)
    BY CurrentIsOnStack, BelowIsWaiting DEF EngineTypes
<1>2. frame \in [Task -> [Query -> Frame]] /\ home \in [Task -> View \union {NoView}]
    BY DEF EngineTypes, TasksTyped
<1>3. GoesOn
  <2> SUFFICES ASSUME NEW u \in Task, NEW w \in View, NEW x \in Query
               PROVE  /\ Owns(u, w, x) => Owns(u, w, x)' \/ GivesUp(frame[u][x].pc, frame'[u][x].pc)
                      /\ Arrives(u, w, x) => Arrives(u, w, x)' \/ GivesUp(frame[u][x].pc, frame'[u][x].pc)
                      /\ Sleeps(u, w, x)' => Sleeps(u, w, x)
    BY DEF GoesOn
  <2>1. CASE u # t
    <3>1. home'[u] = home[u] /\ frame'[u] = frame[u]
      BY <1>2, <2>1
    <3> QED  BY <3>1 DEF Owns, Arrives, Sleeps
  <2>2. CASE u = t /\ rest = <<>>
    <3>1. home'[t] = NoView /\ w # NoView
      BY <1>2, <2>2, NonesAreNone
    <3>2. frame[t][x].pc \notin OwnPC \union Comes
      <4>1. CASE x = q
        BY <1>1, <4>1
      <4>2. CASE x # q
        <5>1. Len(stack[t]) - 1 = 0 /\ Len(stack[t]) \in Nat
          BY <2>2, BelowIsWaiting, CurrentIsOnStack, EmptySeq DEF EngineTypes
        <5>2. ~OnStack(t, x)
          BY <4>2, <5>1 DEF OnStack, Cur
        <5>3. frame[t][x].pc = "idle"
          BY <5>2 DEF EngineTypes, TasksTyped
        <5> QED  BY <5>3 DEF OwnPC, Comes
      <4> QED  BY <4>1, <4>2
    <3> QED  BY <2>2, <3>1, <3>2 DEF Owns, OwnPC, Arrives, Sleeps
  <2>3. CASE u = t /\ rest # <<>>
    <3>1. /\ frame' = [frame EXCEPT ![t] = [frame[t] EXCEPT ![q] = Idle, ![c] = f]]
          /\ home' = home /\ Passes(frame[t][c].pc, f.pc)
      BY <2>3
    <3> HIDE DEF q, c, rest
    <3>2. /\ frame'[t][q] = Idle /\ frame'[t][c] = f
          /\ x # c /\ x # q => frame'[t][x] = frame[t][x]
      BY <1>1, <1>2, <2>3, <3>1
    <3>3. CASE x = c
      BY <2>3, <3>1, <3>2, <3>3 DEF Passes, Owns, OwnPC, Arrives, Sleeps
    <3>4. CASE x = q
      BY <1>1, <2>3, <3>1, <3>2, <3>4, IdleIsFrame DEF Owns, OwnPC, Arrives, Sleeps
    <3>5. CASE x # c /\ x # q
      BY <2>3, <3>1, <3>2, <3>5 DEF Owns, Arrives, Sleeps
    <3> QED  BY <3>3, <3>4, <3>5
  <2> QED  BY <2>1, <2>2, <2>3
<1> QED  BY <1>3, GoingOnMeets

LEMMA ReturnMeets ==
    ASSUME EngineTypes, NEW t \in Task, Active(t), F(t).pc \notin OwnPC \union Comes,
           NEW a \in Answer, Return(t, a), UNCHANGED cellVars
    PROVE  Meets
<1> DEFINE f == Resume(frame[t][Caller(t)], a)
<1>1. Below(t) = <<>> =>
        /\ frame' = [frame EXCEPT ![t][Cur(t)] = Idle]
        /\ home' = [home EXCEPT ![t] = NoView]
    BY DEF Return, Below
<1>2. Below(t) # <<>> =>
        /\ frame' = [frame EXCEPT ![t] = [frame[t] EXCEPT ![Cur(t)] = Idle, ![Caller(t)] = f]]
        /\ home' = home
    BY DEF Return, Below, Caller
<1>3. ASSUME Below(t) # <<>> PROVE Passes(frame[t][Caller(t)].pc, f.pc)
    BY <1>3, BelowIsWaiting, ResumePasses DEF EngineTypes, Told
<1>4. cell' = cell /\ waiting' = waiting
    BY DEF cellVars
<1> HIDE DEF f
<1> QED  BY <1>1, <1>2, <1>3, <1>4, PopMeets

LEMMA DropMeets ==
    ASSUME EngineTypes, NEW t \in Task, Active(t), F(t).pc = "drop", DropAccess(t)
    PROVE  Meets
<1> DEFINE f == [Idle EXCEPT !.pc = "drop"]
<1>1. Below(t) = <<>> =>
        /\ frame' = [frame EXCEPT ![t][Cur(t)] = Idle]
        /\ home' = [home EXCEPT ![t] = NoView]
    BY DEF DropAccess, Below
<1>2. Below(t) # <<>> =>
        /\ frame' = [frame EXCEPT ![t] = [frame[t] EXCEPT ![Cur(t)] = Idle, ![Caller(t)] = f]]
        /\ home' = home
    BY DEF DropAccess, Below, Caller
<1>3. Passes(frame[t][Caller(t)].pc, f.pc) /\ F(t).pc \notin OwnPC \union Comes
    BY DEF Idle, Passes, GivesUp, OwnPC, Comes
<1>4. cell' = cell /\ waiting' = [waiting EXCEPT ![home[t]][Cur(t)] = waiting[home[t]][Cur(t)] \ {t}]
    BY DEF DropAccess
<1>5. \A u \in Task, w \in View, x \in Query : u \in waiting'[w][x] => u \in waiting[w][x]
    BY <1>4, AccessSees DEF EngineTypes, CellsTyped
<1> HIDE DEF f
<1> QED  BY <1>1, <1>2, <1>3, <1>4, <1>5, PopMeets

\* t goes on with g and leaves d in its cell and W waiting on it: a Running
\* cell has an owner, and who is left waiting has somebody coming.
LeavesInOrder(t, d, g, W) ==
    /\ d = Running => g.pc \in OwnPC \/ (TheCell(t) = Running /\ F(t).pc \notin OwnPC)
    /\ \/ d = Running
       \/ W = {}
       \/ d = Vacant /\ g.pc \in Comes
       \/ TheCell(t) \notin {Running, Vacant} /\ W \subseteq waiting[home[t]][Cur(t)] /\ g.pc # "await"

\* The current access writes its cell, or falls asleep on it.
LEMMA CellMeets ==
    ASSUME EngineTypes, NEW t \in Task, Active(t), NEW g, Go(t, g),
           NEW d, cell' = [cell EXCEPT ![home[t]][Cur(t)] = d],
           NEW W, waiting' = [waiting EXCEPT ![home[t]][Cur(t)] = W],
           LeavesInOrder(t, d, g, W)
    PROVE  Meets
<1> DEFINE v == home[t]
           q == Cur(t)
<1>1. v \in View /\ q \in Query /\ F(t) = frame[t][q] /\ TheCell(t) = cell[v][q]
    BY AccessSees DEF F
<1>2. home' = home /\ frame' = [frame EXCEPT ![t][q] = g]
    BY DEF Go
<1>3. /\ cell' = [cell EXCEPT ![v][q] = d] /\ waiting' = [waiting EXCEPT ![v][q] = W]
      /\ d = Running => g.pc \in OwnPC \/ (cell[v][q] = Running /\ F(t).pc \notin OwnPC)
      /\ \/ d = Running
         \/ W = {}
         \/ d = Vacant /\ g.pc \in Comes
         \/ cell[v][q] \notin {Running, Vacant} /\ W \subseteq waiting[v][q] /\ g.pc # "await"
    BY <1>1 DEF LeavesInOrder
<1> HIDE DEF v, q
<1>4. /\ cell'[v][q] = d /\ waiting'[v][q] = W
      /\ \A w \in View, x \in Query : w # v \/ x # q =>
            cell'[w][x] = cell[w][x] /\ waiting'[w][x] = waiting[w][x]
    BY <1>1, <1>3 DEF EngineTypes, CellsTyped
<1>5. /\ frame'[t][q] = g
      /\ \A u \in Task, x \in Query : u # t \/ x # q => frame'[u][x] = frame[u][x]
    BY <1>1, <1>2 DEF EngineTypes, TasksTyped
<1>6. home[t] = v
    BY DEF v
<1>7. \A u \in Task, w \in View, x \in Query : w # v \/ x # q =>
        /\ Owns(u, w, x)' <=> Owns(u, w, x)
        /\ Arrives(u, w, x)' <=> Arrives(u, w, x)
        /\ Sleeps(u, w, x)' <=> Sleeps(u, w, x)
    BY <1>2, <1>4, <1>5, <1>6 DEF Owns, Arrives, Sleeps
<1>8. ASSUME RunningIsOwned PROVE RunningIsOwned'
  <2> SUFFICES ASSUME NEW w \in View, NEW x \in Query, cell'[w][x] = Running
               PROVE  \E u \in Task : Owns(u, w, x)'
    BY DEF RunningIsOwned
  <2>1. CASE w # v \/ x # q
    BY <1>4, <1>7, <1>8, <2>1 DEF RunningIsOwned
  <2>2. CASE w = v /\ x = q /\ g.pc \in OwnPC
    BY <1>2, <1>5, <1>6, <2>2 DEF Owns, OwnPC
  <2>3. CASE w = v /\ x = q /\ cell[v][q] = Running /\ F(t).pc \notin OwnPC
    <3>1. PICK u \in Task : Owns(u, v, q)
      BY <1>1, <1>8, <2>3 DEF RunningIsOwned
    <3>2. u # t
      BY <1>1, <2>3, <3>1 DEF Owns, OwnPC
    <3> QED  BY <1>1, <1>2, <1>5, <2>3, <3>1, <3>2 DEF Owns
  <2> QED  BY <1>3, <1>4, <2>1, <2>2, <2>3
<1>9. ASSUME SleepersAreMet PROVE SleepersAreMet'
  <2> SUFFICES ASSUME NEW s \in Task, NEW w \in View, NEW x \in Query, Sleeps(s, w, x)'
               PROVE  \/ cell'[w][x] = Running
                      \/ cell'[w][x] = Vacant /\ \E u \in Task : Arrives(u, w, x)'
    BY DEF SleepersAreMet
  <2>1. CASE w # v \/ x # q
    BY <1>4, <1>7, <1>9, <2>1 DEF SleepersAreMet
  <2>2. CASE w = v /\ x = q
    <3>1. CASE d = Running
      BY <1>4, <2>2, <3>1
    <3>2. CASE W = {}
      BY <1>4, <2>2, <3>2 DEF Sleeps
    <3>3. CASE d = Vacant /\ g.pc \in Comes
      BY <1>2, <1>4, <1>5, <1>6, <2>2, <3>3 DEF Arrives
    <3>4. CASE cell[v][q] \notin {Running, Vacant} /\ W \subseteq waiting[v][q] /\ g.pc # "await"
      <4>1. Sleeps(s, v, q)
        BY <1>1, <1>2, <1>4, <1>5, <2>2, <3>4 DEF Sleeps
      <4> QED  BY <1>1, <1>9, <3>4, <4>1 DEF SleepersAreMet
    <3> QED  BY <1>3, <3>1, <3>2, <3>3, <3>4
  <2> QED  BY <2>1, <2>2
<1> QED  BY <1>8, <1>9 DEF Meets

-----------------------------------------------------------------------------
(* Each step of an access meets who waits *)

LEMMA StayingMeets ==
    ASSUME UNCHANGED <<home, frame, cell, waiting>>
    PROVE  Meets
<1>1. GoesOn
    BY DEF GoesOn, Owns, Arrives, Sleeps
<1> QED  BY <1>1, GoingOnMeets

LEMMA GoOnMeets ==
    ASSUME EngineTypes, NEW t \in Task, Active(t), NEW g, Go(t, g), Passes(F(t).pc, g.pc),
           UNCHANGED cellVars
    PROVE  Meets
<1>1. cell' = cell /\ waiting' = waiting
    BY DEF cellVars
<1> QED  BY <1>1, GoMeets

LEMMA PassesWhen ==
    ASSUME NEW p, NEW p2, p2 # "await",
           \/ p \in OwnPC /\ p2 \in OwnPC
           \/ p \in Comes /\ p2 \in Comes
           \/ p \notin OwnPC \union Comes
    PROVE  Passes(p, p2)
    BY DEF Passes, OwnPC, Comes

LEMMA LookingMeets ==
    ASSUME EngineTypes, NEW t \in Task, ReadRevision(t) \/ Observe(t) \/ Await(t)
    PROVE  Meets
<1> DEFINE v == home[t]
           q == Cur(t)
<1>1. Active(t) /\ cell' = cell
    BY DEF ReadRevision, Observe, Await, At, cellVars
<1>2. v \in View /\ q \in Query /\ TheCell(t) = cell[v][q]
    BY <1>1, AccessSees
<1>3. CASE ReadRevision(t)
  <2> DEFINE g == [AtTop EXCEPT !.pc = "observe", !.rev = rev[v]]
  <2>1. /\ Go(t, g) /\ g.pc = "observe" /\ F(t).pc = "top"
        /\ waiting' = [waiting EXCEPT ![v][q] = waiting[v][q] \union {t}]
    BY <1>3 DEF ReadRevision, At, AtTop, Idle
  <2> HIDE DEF g
  <2>2. Passes(F(t).pc, g.pc)
    BY <2>1, PassesWhen DEF Comes
  <2>3. \A u \in Task, w \in View, x \in Query : u \in waiting'[w][x] =>
            u \in waiting[w][x] \/ (u = t /\ x = q /\ g.pc # "await")
    BY <1>2, <2>1 DEF EngineTypes, CellsTyped
  <2> QED  BY <1>1, <2>1, <2>2, <2>3, GoMeets
<1>4. CASE Observe(t)
  <2> DEFINE f == F(t)
             c == TheCell(t)
  <2>1. /\ Go(t, Observed(f, c)) /\ f.pc = "observe"
        /\ c.st = "Running" => waiting' = waiting
        /\ c.st # "Running" => waiting' = [waiting EXCEPT ![v][q] = waiting[v][q] \ {t}]
    BY <1>4 DEF Observe, At
  <2>2. c \in Cell /\ f \in Frame /\ c = cell[v][q]
    BY <1>1, AccessSees
  <2>3. CASE c.st = "Running"
    <3>1. c = Running
      BY <2>2, <2>3 DEF Cell, Vacant, Running
    <3>2. /\ cell' = [cell EXCEPT ![v][q] = c]
          /\ waiting' = [waiting EXCEPT ![v][q] = waiting[v][q]]
      <4>1. /\ cell \in [View -> [Query -> Cell]] /\ waiting \in [View -> [Query -> SUBSET Task]]
            /\ cell' = cell /\ waiting' = waiting /\ c = cell[v][q]
        BY <1>1, <2>1, <2>2, <2>3 DEF EngineTypes, CellsTyped
      <4> HIDE DEF v, q, c
      <4> QED  BY <1>2, <4>1
    <3>3. LeavesInOrder(t, c, Observed(f, c), waiting[v][q])
      BY <2>1, <3>1 DEF LeavesInOrder, OwnPC
    <3> QED  BY <1>1, <2>1, <3>2, <3>3, CellMeets
  <2>4. CASE c.st # "Running"
    <3> HIDE DEF f, c
    <3>1. c.st \in {"Vacant", "Ready", "Poisoned"}
      BY <2>2, <2>4, CellsAre
    <3>2. \/ Observed(f, c).pc \in {"check", "touchLocal"} /\ c.st \in {"Ready", "Poisoned"}
          \/ Observed(f, c).pc = "start"
      <4>1. CASE Current(c, f.rev)
        <5>1. Observed(f, c) = [f EXCEPT !.pc = "check", !.ans = AnswerOf(c)]
          BY <4>1 DEF Observed, Current
        <5> QED  BY <2>2, <4>1, <5>1 DEF Frame, Current
      <4>2. CASE c.st = "Ready" /\ ~Current(c, f.rev)
        <5>1. Observed(f, c) = [f EXCEPT !.pc = "touchLocal", !.i = 1,
                                    !.rec = [val |-> c.val, deps |-> c.deps, ch |-> c.ch]]
          BY <4>2 DEF Observed, Current
        <5> QED  BY <2>2, <4>2, <5>1 DEF Frame
      <4>3. CASE c.st \in {"Vacant", "Poisoned"} /\ ~Current(c, f.rev)
        <5>1. Observed(f, c) = [f EXCEPT !.pc = "start"]
          BY <4>3 DEF Observed, Current
        <5> QED  BY <2>2, <5>1 DEF Frame
      <4> QED  BY <3>1, <4>1, <4>2, <4>3
    <3>3. waiting' = [waiting EXCEPT ![v][q] = waiting[v][q] \ {t}]
      BY <2>1, <2>4
    <3>4. CASE Observed(f, c).pc \in {"check", "touchLocal"} /\ c.st \in {"Ready", "Poisoned"}
      <4>1. c \notin {Running, Vacant}
        BY <3>4 DEF Running, Vacant
      <4>2. cell' = [cell EXCEPT ![v][q] = c]
        BY <1>1, <1>2, <2>2 DEF EngineTypes, CellsTyped
      <4> DEFINE W == waiting[v][q] \ {t}
                 g == Observed(f, c)
      <4>3. LeavesInOrder(t, c, g, W)
        BY <3>4, <4>1 DEF c, LeavesInOrder
      <4>4. waiting' = [waiting EXCEPT ![v][q] = W] /\ Go(t, g)
        BY <2>1, <3>3
      <4> HIDE DEF W, g, c
      <4> QED  BY <1>1, <4>2, <4>3, <4>4, CellMeets
    <3>5. CASE Observed(f, c).pc = "start"
      <4>1. Passes(F(t).pc, Observed(f, c).pc)
        BY <2>1, <3>5, PassesWhen DEF f, Comes
      <4>2. \A u \in Task, w \in View, x \in Query : u \in waiting'[w][x] => u \in waiting[w][x]
        BY <1>2, <3>3 DEF EngineTypes, CellsTyped
      <4> QED  BY <1>1, <2>1, <4>1, <4>2, GoMeets
    <3> QED  BY <3>2, <3>4, <3>5
  <2> QED  BY <2>3, <2>4
<1>5. CASE Await(t)
  <2>1. Go(t, AtTop) /\ F(t).pc = "await" /\ UNCHANGED cellVars /\ AtTop.pc = "top"
    BY <1>5, IdleIsFrame DEF Await, At
  <2>2. Passes(F(t).pc, AtTop.pc)
    BY <2>1, PassesWhen DEF OwnPC, Comes
  <2> QED  BY <1>1, <2>1, <2>2, GoOnMeets
<1> QED  BY <1>3, <1>4, <1>5

\* Setting a cell wakes all who wait for it.
LEMMA SettingMeets ==
    ASSUME EngineTypes, NEW t \in Task, Active(t), NEW g, Go(t, g), NEW d, SetCell(t, d), d # Running
    PROVE  Meets
<1>1. /\ cell' = [cell EXCEPT ![home[t]][Cur(t)] = d]
      /\ waiting' = [waiting EXCEPT ![home[t]][Cur(t)] = {}]
    BY DEF SetCell
<1>2. LeavesInOrder(t, d, g, {})
    BY DEF LeavesInOrder
<1> QED  BY <1>1, <1>2, CellMeets

LEMMA ReturningMeets ==
    ASSUME EngineTypes, NEW t \in Task, Check(t) \/ Raise(t)
    PROVE  Meets
<1>1. /\ Active(t) /\ F(t).pc \in {"check", "raise"} /\ UNCHANGED cellVars
      /\ Return(t, F(t).ans) \/ Go(t, AtTop)
    BY DEF Check, Raise, At, cellVars
<1>2. F(t).ans \in Answer
    BY <1>1, AccessSees DEF MayGoOn, HasWhatItNeeds
<1>3. F(t).pc \notin OwnPC \union Comes
    BY <1>1 DEF OwnPC, Comes
<1>4. Passes(F(t).pc, AtTop.pc)
    BY <1>3, IdleIsFrame, PassesWhen
<1> QED  BY <1>1, <1>2, <1>3, <1>4, ReturnMeets, GoOnMeets

LEMMA TouchingMeets ==
    ASSUME EngineTypes, NEW t \in Task, Touch(t)
    PROVE  Meets
<1> DEFINE f == F(t)
           d == f.rec.deps[f.i]
<1>1. /\ Active(t) /\ f.pc \in {"touchLocal", "touchShared"} /\ UNCHANGED cellVars
      /\ \/ d \in Input /\ Go(t, Resume(f, Ok(None, input[home[t]][d].ch)))
         \/ d \in Query /\ ~OnStack(t, d) /\ Call(t, d, f)
         \/ Go(t, Resume(f, Err(Cycle)))
    BY DEF Touch, At, OnStack
<1>2. f \in Frame /\ HasWhatItNeeds(f) /\ AskedForMore(f)
    BY <1>1, AccessSees DEF MayGoOn, AskedForMore
<1>3. \A a \in Told : Passes(f.pc, Resume(f, a).pc)
    BY <1>2, ResumePasses
<1>4. Err(Cycle) \in Told /\ \A i \in Input : Ok(None, input[home[t]][i].ch) \in Told
    BY <1>1, AccessSees, AnswersAre, ErrorsAreNoValues DEF Told
<1> QED  BY <1>1, <1>3, <1>4, GoOnMeets, CallMeets

\* A Ready cell has nobody waiting, and stays Ready.
LEMMA VerifyMeets ==
    ASSUME EngineTypes, NEW t \in Task, Verify(t)
    PROVE  Meets
<1> DEFINE c == TheCell(t)
           r == F(t).rev
           v == home[t]
           q == Cur(t)
<1>1. Active(t) /\ F(t).pc = "touchLocal" /\ waiting' = waiting
    BY DEF Verify, At
<1>2. q \in Query /\ v \in View /\ c \in Cell /\ c = cell[v][q]
    BY <1>1, AccessSees
<1>3. CASE c.st = "Ready"
  <2> DEFINE g == [Idle EXCEPT !.pc = "check", !.rev = r, !.ans = AnswerOf(c)]
             d == [c EXCEPT !.ver = r]
  <2>1. cell' = [cell EXCEPT ![v][q].ver = r] /\ Go(t, g) /\ g.pc = "check"
    BY <1>3 DEF Verify, Idle
  <2>2. c = ReadyCell(c.val, c.ver, c.ch, c.deps)
    BY <1>2, <1>3, CellsAre
  <2>3. d = ReadyCell(c.val, r, c.ch, c.deps)
    BY <2>2 DEF ReadyCell
  <2>4. c \notin {Running, Vacant} /\ d # Running
    BY <1>3, <2>3 DEF Running, Vacant, ReadyCell
  <2>5. cell' = [cell EXCEPT ![v][q] = d]
    BY <1>2, <2>1
  <2>6. waiting' = [waiting EXCEPT ![v][q] = waiting[v][q]]
    <3>1. waiting \in [View -> [Query -> SUBSET Task]]
      BY DEF EngineTypes, CellsTyped
    <3> HIDE DEF v, q
    <3> QED  BY <1>1, <1>2, <3>1
  <2>7. LeavesInOrder(t, d, g, waiting[v][q])
    BY <2>1, <2>4 DEF LeavesInOrder
  <2> HIDE DEF g, d
  <2> QED  BY <1>1, <2>1, <2>5, <2>6, <2>7, CellMeets
<1>4. CASE c.st # "Ready"
  <2>1. UNCHANGED cellVars /\ Go(t, AtTop)
    BY <1>1, <1>4 DEF Verify, cellVars
  <2>2. Passes(F(t).pc, AtTop.pc)
    BY <1>1, IdleIsFrame, PassesWhen DEF OwnPC, Comes
  <2> QED  BY <1>1, <2>1, <2>2, GoOnMeets
<1> QED  BY <1>3, <1>4

LEMMA StartMeets ==
    ASSUME EngineTypes, NEW t \in Task, Start(t)
    PROVE  Meets
<1> DEFINE v == home[t]
           q == Cur(t)
           old == IF TheCell(t).st = "Ready" THEN [val |-> TheCell(t).val, ch |-> TheCell(t).ch] ELSE NoValue
           g == [F(t) EXCEPT !.pc = "shared", !.prev = old]
<1>1. /\ Active(t) /\ F(t).pc = "start" /\ waiting' = waiting
      /\ \/ Go(t, AtTop) /\ cell' = cell
         \/ Go(t, g) /\ cell' = [cell EXCEPT ![v][q] = Running]
    BY DEF Start, At
<1>2. q \in Query /\ v \in View /\ F(t) \in Frame
    BY <1>1, AccessSees
<1>3. CASE Go(t, AtTop) /\ cell' = cell
  <2>1. Passes(F(t).pc, AtTop.pc)
    BY <1>1, IdleIsFrame, PassesWhen DEF Comes
  <2> QED  BY <1>1, <1>3, <2>1, GoOnMeets DEF cellVars
<1>4. CASE Go(t, g) /\ cell' = [cell EXCEPT ![v][q] = Running]
  <2>1. g.pc \in OwnPC
    BY <1>2 DEF Frame, OwnPC
  <2>2. waiting' = [waiting EXCEPT ![v][q] = waiting[v][q]]
    <3>1. waiting \in [View -> [Query -> SUBSET Task]]
      BY DEF EngineTypes, CellsTyped
    <3> HIDE DEF v, q
    <3> QED  BY <1>1, <1>2, <3>1
  <2>3. LeavesInOrder(t, Running, g, waiting[v][q])
    BY <2>1 DEF LeavesInOrder
  <2> HIDE DEF g
  <2> QED  BY <1>1, <1>4, <2>2, <2>3, CellMeets
<1> QED  BY <1>1, <1>3, <1>4

LEMMA AdoptingMeets ==
    ASSUME EngineTypes, NEW t \in Task, SharedGet(t) \/ Adopt(t) \/ SharedPut(t)
    PROVE  Meets
<1> DEFINE f == F(t)
<1>1. Active(t)
    BY DEF SharedGet, Adopt, SharedPut, At
<1>2. f \in Frame
    BY <1>1, AccessSees
<1>3. CASE SharedGet(t)
  <2> DEFINE r == shared[Scope(home[t])][Cur(t)]
             c == [val |-> r.val, deps |-> r.deps, ch |-> r.ch]
  <2>1. /\ f.pc = "shared" /\ UNCHANGED cellVars
        /\ \/ Go(t, [f EXCEPT !.pc = "lead"])
           \/ Go(t, [f EXCEPT !.pc = "adopt", !.rec = c])
           \/ Go(t, [f EXCEPT !.pc = "touchShared", !.i = 1, !.rec = c])
    BY <1>3 DEF SharedGet, At
  <2> HIDE DEF c, f
  <2>2. \A g \in {[f EXCEPT !.pc = "lead"], [f EXCEPT !.pc = "adopt", !.rec = c],
                  [f EXCEPT !.pc = "touchShared", !.i = 1, !.rec = c]} :
          g.pc \in {"lead", "adopt", "touchShared"}
    BY <1>2 DEF Frame
  <2>3. PICK g : Go(t, g) /\ g.pc \in {"lead", "adopt", "touchShared"}
    BY <2>1, <2>2
  <2>4. Passes(F(t).pc, g.pc)
    BY <2>1, <2>3, PassesWhen DEF f, OwnPC
  <2> QED  BY <1>1, <2>1, <2>3, <2>4, GoOnMeets
<1>4. CASE Adopt(t)
  <2> DEFINE r == f.rec
             c == ReadyCell(r.val, f.rev, r.ch, r.deps)
             g == [Idle EXCEPT !.pc = "put", !.rev = f.rev, !.rec = r, !.ans = Ok(r.val, r.ch)]
  <2>1. SetCell(t, c) /\ Go(t, g) /\ c # Running
    BY <1>4 DEF Adopt, AdoptRecord, ReadyCell, Running
  <2> HIDE DEF g, c
  <2> QED  BY <1>1, <2>1, SettingMeets
<1>5. CASE SharedPut(t)
  <2>1. /\ f.pc = "put" /\ UNCHANGED cellVars
        /\ \/ Go(t, [f EXCEPT !.pc = "complete"])
           \/ Go(t, [f EXCEPT !.pc = "check", !.rec = NoRecord])
    BY <1>5 DEF SharedPut, At
  <2> HIDE DEF f
  <2>2. \A g \in {[f EXCEPT !.pc = "complete"], [f EXCEPT !.pc = "check", !.rec = NoRecord]} :
          g.pc \in {"complete", "check"}
    BY <1>2 DEF Frame
  <2>3. PICK g : Go(t, g) /\ g.pc \in {"complete", "check"}
    BY <2>1, <2>2
  <2>4. Passes(F(t).pc, g.pc)
    BY <2>1, <2>3, PassesWhen DEF f, OwnPC, Comes
  <2> QED  BY <1>1, <2>1, <2>3, <2>4, GoOnMeets
<1> QED  BY <1>3, <1>4, <1>5

\* A follower leaves its cell Vacant under those who wait on it, and is the
\* one that comes back to it.
LEMMA VacateMeets ==
    ASSUME EngineTypes, NEW t \in Task, Vacate(t)
    PROVE  Meets
<1> DEFINE f == F(t)
           v == home[t]
           q == Cur(t)
           g == [f EXCEPT !.pc = "follow"]
<1>1. Active(t)
    BY DEF Vacate, At
<1>2. f \in Frame /\ v \in View /\ q \in Query
    BY <1>1, AccessSees
<1>3. cell' = [cell EXCEPT ![v][q] = Vacant] /\ Go(t, g) /\ waiting' = waiting
    BY DEF Vacate
<1>4. g.pc = "follow" /\ Vacant # Running
    BY <1>2 DEF Frame, Vacant, Running
<1>5. LeavesInOrder(t, Vacant, g, waiting[v][q])
    BY <1>4 DEF LeavesInOrder, Comes
<1>6. waiting' = [waiting EXCEPT ![v][q] = waiting[v][q]]
  <2>1. waiting \in [View -> [Query -> SUBSET Task]]
    BY DEF EngineTypes, CellsTyped
  <2> HIDE DEF v, q
  <2> QED  BY <1>2, <1>3, <2>1
<1> HIDE DEF g
<1> QED  BY <1>1, <1>3, <1>5, <1>6, CellMeets

LEMMA FlyingMeets ==
    ASSUME EngineTypes, Reg!TypeOK, EntriesFit, NEW t \in Task,
           TryLead(t) \/ Follow(t) \/ TakeOutcome(t)
    PROVE  Meets
<1> DEFINE f == F(t)
<1>1. Active(t) /\ UNCHANGED cellVars /\ f.pc \in {"lead", "follow"}
    BY DEF TryLead, Follow, TakeOutcome, At
<1>2. f \in Frame
    BY <1>1, AccessSees
<1>3. CASE TryLead(t)
  <2>1. /\ f.pc = "lead"
        /\ Go(t, [f EXCEPT !.pc = "compute"]) \/ Go(t, [f EXCEPT !.pc = "vacate", !.prev = NoValue])
    BY <1>3 DEF TryLead, At
  <2> HIDE DEF f
  <2>2. \A g \in {[f EXCEPT !.pc = "compute"], [f EXCEPT !.pc = "vacate", !.prev = NoValue]} :
          g.pc \in {"compute", "vacate"}
    BY <1>2 DEF Frame
  <2>3. PICK g : Go(t, g) /\ g.pc \in {"compute", "vacate"}
    BY <2>1, <2>2
  <2>4. Passes(F(t).pc, g.pc)
    BY <2>1, <2>3, PassesWhen DEF f, OwnPC
  <2> QED  BY <1>1, <2>1, <2>3, <2>4, GoOnMeets
<1>4. CASE Follow(t)
    BY <1>4, StayingMeets DEF Follow, cellVars, taskVars
<1>5. CASE TakeOutcome(t)
  <2> DEFINE e == entryOf[H(t)]
             r == entryResult[e]
  <2>1. /\ f.pc = "follow" /\ role[H(t)] = "subscribed" /\ entryState[e] # "Running" /\ H(t) \in Holder
    BY <1>1, <1>5, AccessSees DEF TakeOutcome, At, Reg!Take, H, Holder
  <2>2. entryState[e] \in {"Done", "Failed", "Cancelled"}
    BY <2>1 DEF EntriesFit, Reg!TypeOK, Reg!States
  <2>3. \/ Go(t, [f EXCEPT !.pc = "take", !.rec = r])
        \/ Go(t, [f EXCEPT !.pc = "poison", !.ans = Err(r)])
        \/ Go(t, AtTop)
    BY <1>5, <2>2 DEF TakeOutcome
  <2> HIDE DEF f, e, r
  <2>4. \A g \in {[f EXCEPT !.pc = "take", !.rec = r], [f EXCEPT !.pc = "poison", !.ans = Err(r)], AtTop} :
          g.pc \in {"take", "poison", "top"}
    BY <1>2, IdleIsFrame DEF Frame
  <2>5. PICK g : Go(t, g) /\ g.pc \in {"take", "poison", "top"}
    BY <2>3, <2>4
  <2>6. Passes(F(t).pc, g.pc)
    BY <2>1, <2>5, PassesWhen DEF f, Comes
  <2> QED  BY <1>1, <2>5, <2>6, GoOnMeets
<1> QED  BY <1>3, <1>4, <1>5

LEMMA ReadingMeets ==
    ASSUME EngineTypes, NEW t \in Task, ReadInput(t) \/ ReadQuery(t)
    PROVE  Meets
<1> DEFINE f == F(t)
           d == Todo(t).dep
           g == [f EXCEPT !.deps = Append(f.deps, d)]
           h == [f EXCEPT !.deps = Append(f.deps, d), !.seen = Append(f.seen, input[home[t]][d].val)]
<1>1. /\ Active(t) /\ f.pc = "compute" /\ Todo(t).do = "get" /\ UNCHANGED cellVars
    BY DEF ReadInput, ReadQuery, Computing, At
<1>2. /\ f \in Frame /\ MayGoOn(f) /\ Cur(t) \in Query
      /\ f.seen \in Seq(Answered) /\ Len(f.seen) <= MaxReads /\ Len(f.deps) <= Len(f.seen)
      /\ Len(f.seen) \in Nat /\ Len(f.deps) \in Nat /\ MaxReads \in Nat
    BY <1>1, AccessSees, FrameFields, ProgramsEnd DEF MayGoOn, WithinReads
<1>3. Len(f.seen) < MaxReads
    BY <1>1, <1>2, ProgramFits DEF Todo
<1>4. HasWhatItNeeds(f) /\ AskedForMore(f)
    BY <1>1, <1>2, <1>3 DEF MayGoOn, AskedForMore
<1>5. \/ Go(t, h)
      \/ d \in Query /\ ~OnStack(t, d) /\ Call(t, d, g)
      \/ Go(t, Resume(f, Err(Cycle)))
    BY DEF ReadInput, ReadQuery, OnStack
<1>6. Passes(F(t).pc, Resume(f, Err(Cycle)).pc)
    BY <1>2, <1>4, ResumePasses, AnswersAre, ErrorsAreNoValues DEF Told
<1> HIDE DEF f, d
<1>7. g.pc = "compute" /\ h.pc = "compute"
    BY <1>1, <1>2 DEF Frame
<1>8. Passes(F(t).pc, h.pc) /\ g.pc = F(t).pc
    BY <1>1, <1>7, PassesWhen DEF f, OwnPC
<1> HIDE DEF g, h
<1> QED  BY <1>1, <1>5, <1>6, <1>8, GoOnMeets, CallMeets

LEMMA EndingMeets ==
    ASSUME EngineTypes, NEW t \in Task, Finish(t) \/ Poison(t)
    PROVE  Meets
<1> DEFINE f == F(t)
<1>1. Active(t)
    BY DEF Finish, Poison, Computing, At
<1>2. CASE Finish(t)
  <2> DEFINE x == Todo(t).val
             ch == IF f.prev # NoValue /\ f.prev.val = x THEN f.prev.ch ELSE f.rev
             c == ReadyCell(x, f.rev, ch, f.deps)
             g == [Idle EXCEPT !.pc = "put", !.rev = f.rev, !.ans = Ok(x, ch),
                               !.rec = [val |-> x, deps |-> f.deps, ch |-> ch]]
  <2>1. SetCell(t, c) /\ Go(t, g)
    BY <1>2 DEF Finish
  <2>2. c # Running
    BY DEF ReadyCell, Running
  <2> HIDE DEF c, g
  <2> QED  BY <1>1, <2>1, <2>2, SettingMeets
<1>3. CASE Poison(t)
  <2> DEFINE e == IF At(t, "poison") THEN f.ans.val ELSE Todo(t).val
             c == Poisoned(e, f.rev)
             g == [Idle EXCEPT !.pc = IF At(t, "poison") THEN "check" ELSE "fail",
                               !.rev = f.rev, !.ans = Err(e)]
  <2>1. SetCell(t, c) /\ Go(t, g)
    BY <1>3 DEF Poison
  <2>2. c # Running
    BY DEF Poisoned, Running
  <2> HIDE DEF c, g
  <2> QED  BY <1>1, <2>1, <2>2, SettingMeets
<1> QED  BY <1>2, <1>3

LEMMA SettlingMeets ==
    ASSUME EngineTypes, NEW t \in Task, SettleFlight(t) \/ PublishFlight(t)
    PROVE  Meets
<1> DEFINE f == F(t)
<1>1. Active(t) /\ UNCHANGED cellVars /\ f.pc \in {"complete", "fail", "publish"}
    BY DEF SettleFlight, PublishFlight, At
<1>2. f \in Frame
    BY <1>1, AccessSees
<1>3. \/ Go(t, [f EXCEPT !.pc = "publish", !.rec = NoRecord])
      \/ Go(t, [f EXCEPT !.pc = "check"])
      \/ UNCHANGED taskVars
    BY DEF SettleFlight, PublishFlight
<1> HIDE DEF f
<1>4. \A g \in {[f EXCEPT !.pc = "publish", !.rec = NoRecord], [f EXCEPT !.pc = "check"]} :
        g.pc \in {"publish", "check"}
    BY <1>2 DEF Frame
<1>5. CASE UNCHANGED taskVars
    BY <1>1, <1>5, StayingMeets DEF taskVars, cellVars
<1>6. CASE ~UNCHANGED taskVars
  <2>1. PICK g : Go(t, g) /\ g.pc \in {"publish", "check"}
    BY <1>3, <1>4, <1>6
  <2>2. Passes(F(t).pc, g.pc)
    BY <1>1, <2>1, PassesWhen DEF f, OwnPC, Comes
  <2> QED  BY <1>1, <2>1, <2>2, GoOnMeets
<1> QED  BY <1>5, <1>6

LEMMA CancellingMeets ==
    ASSUME EngineTypes, NEW t \in Task, Cancel(t) \/ Drop(t)
    PROVE  Meets
<1>1. CASE Cancel(t)
  <2> DEFINE g == [Idle EXCEPT !.pc = "drop"]
  <2>1. Active(t) /\ Go(t, g) /\ UNCHANGED cellVars
    BY <1>1 DEF Cancel, Suspended, At
  <2>2. Passes(F(t).pc, g.pc)
    BY DEF Idle, Passes, GivesUp
  <2> HIDE DEF g
  <2> QED  BY <2>1, <2>2, GoOnMeets
<1>2. CASE Drop(t)
  <2>1. /\ Active(t) /\ F(t).pc = "drop"
        /\ DropAccess(t) \/ UNCHANGED <<cellVars, taskVars>>
    BY <1>2 DEF Drop, At
  <2> QED  BY <2>1, DropMeets, StayingMeets DEF cellVars, taskVars
<1> QED  BY <1>1, <1>2

-----------------------------------------------------------------------------
(* What the embedding program does wakes nobody and takes nobody's cell *)

LEMMA AskingMeets ==
    ASSUME EngineTypes, NEW t \in Task, Ask(t)
    PROVE  Meets
<1>1. PICK v \in View, q \in Query : Get(t, v, q)
    BY DEF Ask
<1>2. /\ stack[t] = <<>> /\ cell' = cell /\ waiting' = waiting
      /\ frame' = [frame EXCEPT ![t][q] = AtTop] /\ home' = [home EXCEPT ![t] = v]
    BY <1>1 DEF Get, Active, cellVars
<1>3. home[t] = NoView /\ \A x \in Query : frame[t][x].pc = "idle"
    BY <1>2, EmptySeq DEF EngineTypes, TasksTyped, OnStack
<1>4. /\ \A u \in Task \ {t} : home'[u] = home[u] /\ frame'[u] = frame[u]
      /\ \A x \in Query : frame'[t][x].pc \in {"idle", "top"}
    BY <1>2, <1>3, IdleIsFrame DEF EngineTypes, TasksTyped
<1>5. GoesOn
  <2> SUFFICES ASSUME NEW u \in Task, NEW w \in View, NEW x \in Query
               PROVE  /\ Owns(u, w, x) => Owns(u, w, x)'
                      /\ Arrives(u, w, x) => Arrives(u, w, x)'
                      /\ Sleeps(u, w, x)' => Sleeps(u, w, x)
    BY <1>2 DEF GoesOn
  <2>1. CASE u = t
    BY <1>3, <1>4, <2>1, NonesAreNone DEF Owns, Arrives, Sleeps
  <2>2. CASE u # t
    BY <1>2, <1>4, <2>2 DEF Owns, Arrives, Sleeps
  <2> QED  BY <2>1, <2>2
<1> QED  BY <1>5, GoingOnMeets

LEMMA WritingMeets ==
    ASSUME NEW v \in View, BeginWrite(v) \/ EndWrite(v)
    PROVE  Meets
<1>1. UNCHANGED <<home, frame, cell, waiting>>
    BY DEF BeginWrite, EndWrite, cellVars, taskVars
<1> QED  BY <1>1, StayingMeets

\* What a snapshot that is being made is given is not Running, and nobody is
\* in it yet.
LEMMA SnapshottingMeets ==
    ASSUME EngineTypes, ReadyHomes, NEW s \in View, Snapshot(s)
    PROVE  Meets /\ ReadyHomes'
<1>1. Len(Ingredients) \in Nat /\ copied[s] \in 0..(Len(Ingredients) + 1)
    BY IngredientsListed, LenProperties DEF EngineTypes, DbTypeOK
<1>2. ~Ready(s)
    BY <1>1 DEF Snapshot, SnapshotRuntime, SnapshotInput, SnapshotCells, Copying, Ready
<1>3. \A u \in Task : home[u] # NoView => home[u] \in View \ {s} /\ Ready(home[u])
    BY <1>2 DEF ReadyHomes, EngineTypes, TasksTyped
<1>4. \A u \in Task : home[u] # s
    BY <1>3, NonesAreNone
<1>5. /\ UNCHANGED <<home, frame, waiting>>
      /\ \A w \in View \ {s} : copied'[w] = copied[w]
      /\ \A w \in View, x \in Query : cell'[w][x] = cell[w][x] \/ (w = s /\ cell'[w][x].st # "Running")
  <2>1. CASE SnapshotRuntime(s) /\ UNCHANGED <<cellVars, taskVars>>
    BY <2>1 DEF SnapshotRuntime, cellVars, taskVars, EngineTypes, DbTypeOK
  <2>2. CASE (\E i \in Input : SnapshotInput(s, i)) /\ UNCHANGED <<cellVars, taskVars>>
    BY <2>2 DEF SnapshotInput, cellVars, taskVars, EngineTypes, DbTypeOK
  <2>3. CASE \E q \in Query : SnapshotCells(s, q)
    <3>1. PICK q \in Query : SnapshotCells(s, q)
      BY <2>3
    <3> DEFINE c == IF cell[Live][q].st = "Ready" THEN cell[Live][q] ELSE Vacant
    <3>2. c.st # "Running" /\ cell' = [cell EXCEPT ![s][q] = c]
      BY <3>1 DEF SnapshotCells, Vacant
    <3> HIDE DEF c
    <3>3. \A w \in View, x \in Query : cell'[w][x] = cell[w][x] \/ (w = s /\ cell'[w][x].st # "Running")
      BY <3>2 DEF EngineTypes, CellsTyped
    <3> QED  BY <3>1, <3>3 DEF SnapshotCells, taskVars, EngineTypes, DbTypeOK
  <2> QED  BY <2>1, <2>2, <2>3 DEF Snapshot
<1>6. ReadyHomes'
    BY <1>3, <1>5 DEF ReadyHomes, Ready
<1>7. ASSUME RunningIsOwned PROVE RunningIsOwned'
  <2> SUFFICES ASSUME NEW w \in View, NEW x \in Query, cell'[w][x] = Running
               PROVE  \E u \in Task : Owns(u, w, x)
    BY <1>5 DEF RunningIsOwned, Owns
  <2> QED  BY <1>5, <1>7 DEF RunningIsOwned, Running
<1>8. ASSUME SleepersAreMet PROVE SleepersAreMet'
  <2> SUFFICES ASSUME NEW u \in Task, NEW w \in View, NEW x \in Query, Sleeps(u, w, x)
               PROVE  \/ cell'[w][x] = Running
                      \/ cell'[w][x] = Vacant /\ \E b \in Task : Arrives(b, w, x)
    BY <1>5 DEF SleepersAreMet, Sleeps, Arrives
  <2>1. cell'[w][x] = cell[w][x]
    BY <1>4, <1>5 DEF Sleeps
  <2> QED  BY <1>8, <2>1 DEF SleepersAreMet
<1> QED  BY <1>6, <1>7, <1>8 DEF Meets

\* A task leaves its view, or stays in it.
LEMMA StepStaysInReady ==
    ASSUME EngineTypes, ReadyHomes, NEW t \in Task, Step(t) \/ Cancel(t)
    PROVE  ReadyHomes'
<1>1. UNCHANGED dbVars
    BY DEF Step, Cancel, ReadRevision, Observe, Check, Await, Touch, Verify, Raise, Start, SharedGet, Adopt,
           SharedPut, TryLead, Vacate, Follow, TakeOutcome, ReadInput, ReadQuery, Finish, Poison,
           SettleFlight, PublishFlight, Drop
<1>2. home' = home \/ home' = [home EXCEPT ![t] = NoView]
  <2>1. CASE \/ ReadRevision(t) \/ Observe(t) \/ Check(t) \/ Await(t) \/ Touch(t) \/ Verify(t)
             \/ Raise(t) \/ Start(t) \/ SharedGet(t) \/ Adopt(t) \/ SharedPut(t)
    BY <2>1 DEF ReadRevision, Observe, Check, Await, Touch, Verify, Raise, Start, SharedGet, Adopt,
                AdoptRecord, SharedPut, Go, Call, Return
  <2>2. CASE \/ TryLead(t) \/ Vacate(t) \/ Follow(t) \/ TakeOutcome(t) \/ ReadInput(t) \/ ReadQuery(t)
             \/ Finish(t) \/ Poison(t) \/ SettleFlight(t) \/ PublishFlight(t) \/ Drop(t) \/ Cancel(t)
    BY <2>2 DEF TryLead, Vacate, Follow, TakeOutcome, ReadInput, ReadQuery, Finish, Poison,
                SettleFlight, PublishFlight, Drop, DropAccess, Cancel, Go, Call, taskVars
  <2> QED  BY <2>1, <2>2 DEF Step
<1>3. \A u \in Task : home'[u] # NoView => home'[u] = home[u]
    BY <1>2 DEF EngineTypes, TasksTyped
<1> QED  BY <1>1, <1>3 DEF ReadyHomes, Ready, dbVars

LEMMA NextMeets ==
    ASSUME EngineInv, ReadyHomes, [Next]_vars
    PROVE  Meets /\ ReadyHomes'
<1>1. EngineTypes /\ EntriesFit /\ Reg!TypeOK
    BY RegistryIs DEF EngineInv, EngineTypes
<1>2. ASSUME UNCHANGED <<home, frame, cell, waiting>>, UNCHANGED copied PROVE Meets /\ ReadyHomes'
    BY <1>2, StayingMeets DEF ReadyHomes, Ready
<1>3. CASE UNCHANGED vars
    BY <1>2, <1>3 DEF vars, dbVars, cellVars, taskVars
<1>4. ASSUME NEW t \in Task, Ask(t) PROVE Meets /\ ReadyHomes'
  <2>1. PICK v \in View, q \in Query : Get(t, v, q)
    BY <1>4 DEF Ask
  <2>2. Ready(v) /\ copied' = copied /\ home' = [home EXCEPT ![t] = v]
    BY <2>1 DEF Get, dbVars
  <2>3. ReadyHomes'
    BY <1>1, <2>2 DEF ReadyHomes, Ready, EngineTypes, TasksTyped
  <2> QED  BY <1>1, <1>4, <2>3, AskingMeets
<1>5. ASSUME NEW v \in View, BeginWrite(v) \/ EndWrite(v) PROVE Meets /\ ReadyHomes'
  <2>1. UNCHANGED <<home, copied>>
    BY <1>5 DEF BeginWrite, EndWrite, Bump, MarkDivergent, Write, taskVars
  <2> QED  BY <1>5, <2>1, WritingMeets DEF ReadyHomes, Ready
<1>6. ASSUME NEW v \in View, Snapshot(v) PROVE Meets /\ ReadyHomes'
    BY <1>1, <1>6, SnapshottingMeets
<1>7. ASSUME NEW v \in View, NEW q \in Query, Evict(v, q) PROVE Meets /\ ReadyHomes'
    BY <1>2, <1>7 DEF Evict, dbVars, cellVars, taskVars
<1>8. ASSUME NEW t \in Task, Step(t) \/ Cancel(t) PROVE Meets /\ ReadyHomes'
  <2>1. CASE ReadRevision(t) \/ Observe(t) \/ Check(t) \/ Await(t) \/ Touch(t) \/ Verify(t) \/ Raise(t) \/ Start(t)
    BY <1>1, <2>1, LookingMeets, ReturningMeets, TouchingMeets, VerifyMeets, StartMeets, StepStaysInReady DEF Step
  <2>2. CASE \/ SharedGet(t) \/ Adopt(t) \/ SharedPut(t)
             \/ TryLead(t) \/ Vacate(t) \/ Follow(t) \/ TakeOutcome(t)
    BY <1>1, <2>2, AdoptingMeets, FlyingMeets, VacateMeets, StepStaysInReady DEF Step
  <2>3. CASE \/ ReadInput(t) \/ ReadQuery(t) \/ Finish(t) \/ Poison(t)
             \/ SettleFlight(t) \/ PublishFlight(t) \/ Drop(t) \/ Cancel(t)
    BY <1>1, <2>3, ReadingMeets, EndingMeets, SettlingMeets, CancellingMeets, StepStaysInReady DEF Step
  <2> QED  BY <1>8, <2>1, <2>2, <2>3 DEF Step
<1> QED  BY <1>3, <1>4, <1>5, <1>6, <1>7, <1>8 DEF Next, Calls, Runs

LEMMA InitHoldsMeetingInv == Init => MeetingInv
<1> SUFFICES ASSUME Init PROVE MeetingInv
    OBVIOUS
<1>1. /\ \A t \in Task : home[t] = NoView
      /\ \A v \in View, x \in Query : cell[v][x] = Vacant
    BY DEF Init
<1>2. RunningIsOwned
    BY <1>1 DEF RunningIsOwned, Vacant, Running
<1> QED  BY <1>1, <1>2, NonesAreNone DEF MeetingInv, ReadyHomes, SleepersAreMet, Sleeps

(* A Running cell is somebody's (derived.rs:351-360), in any views and under *)
(* any writes, for as long as no access gives up a cell it owns: its task   *)
(* is not dropped there (derived.rs:410), and no dependency of a shared     *)
(* record fails while that is revalidated (derived.rs:439).                 *)
THEOREM RunningCellsAreOwned == Spec /\ [][~Leaves(OwnPC)]_vars => []RunningIsOwned
<1> DEFINE Inv == EngineInv /\ ReadyHomes /\ RunningIsOwned
<1>1. Init => Inv
    BY InitHoldsEngineInv, InitHoldsMeetingInv DEF MeetingInv
<1>2. Inv /\ [Next]_vars /\ [~Leaves(OwnPC)]_vars => Inv'
  <2> SUFFICES ASSUME Inv, [Next]_vars, [~Leaves(OwnPC)]_vars PROVE Inv'
    OBVIOUS
  <2>1. EngineInv' /\ ReadyHomes'
    BY NextKeepsEngineInv, NextMeets
  <2>2. CASE ~Leaves(OwnPC)
    BY <2>1, <2>2, NextMeets DEF Meets
  <2>3. CASE UNCHANGED vars
    BY <2>1, <2>3 DEF vars, cellVars, taskVars, RunningIsOwned, Owns
  <2> QED  BY <2>2, <2>3
<1>3. Inv => RunningIsOwned
    OBVIOUS
<1> QED  BY <1>1, <1>2, <1>3, PTL DEF Spec

(* Nobody sleeps on a cell that no one will write (derived.rs:288-290): who  *)
(* is not yet told has an access other than its own on its way to the cell, *)
(* as long as no access gives up a cell it owns or is coming to.  A follower *)
(* that makes a Running cell Vacant without telling anybody is on its way.  *)
THEOREM NobodySleepsOnASettledCell ==
    Spec /\ [][~Leaves(OwnPC \union Comes)]_vars => []NoSleepOnSettledCell
<1> DEFINE Inv == EngineInv /\ MeetingInv
<1>1. Init => Inv
    BY InitHoldsEngineInv, InitHoldsMeetingInv
<1>2. Inv /\ [Next]_vars /\ [~Leaves(OwnPC \union Comes)]_vars => Inv'
  <2> SUFFICES ASSUME Inv, [Next]_vars, [~Leaves(OwnPC \union Comes)]_vars PROVE Inv'
    OBVIOUS
  <2>1. EngineInv' /\ ReadyHomes'
    BY NextKeepsEngineInv, NextMeets DEF MeetingInv
  <2>2. CASE ~Leaves(OwnPC \union Comes)
    <3>1. ~Leaves(OwnPC) /\ ~Leaves(Comes)
      BY <2>2 DEF Leaves
    <3> QED  BY <2>1, <3>1, NextMeets DEF Meets, MeetingInv
  <2>3. CASE UNCHANGED vars
    BY <2>1, <2>3 DEF vars, cellVars, taskVars, MeetingInv, RunningIsOwned, Owns,
                      SleepersAreMet, Sleeps, Arrives
  <2> QED  BY <2>2, <2>3
<1>3. Inv => NoSleepOnSettledCell
  <2> SUFFICES ASSUME Inv, NEW t \in Task, NEW v \in View, NEW x \in Query,
                      home[t] = v /\ frame[t][x].pc = "await" /\ t \in waiting[v][x]
               PROVE  \E u \in Task \ {t} :
                          home[u] = v /\ frame[u][x].pc \notin {"idle", "await", "check", "raise"}
    BY DEF NoSleepOnSettledCell
  <2>1. \/ cell[v][x] = Running
        \/ \E u \in Task : Arrives(u, v, x)
    BY DEF MeetingInv, SleepersAreMet, Sleeps
  <2>2. PICK u \in Task : home[u] = v /\ frame[u][x].pc \in OwnPC \union Comes
    BY <2>1 DEF MeetingInv, RunningIsOwned, Owns, OwnPC, Arrives
  <2>3. frame[u][x].pc \notin {"idle", "await", "check", "raise"}
    BY <2>2 DEF OwnPC, Comes
  <2> QED  BY <2>2, <2>3
<1> QED  BY <1>1, <1>2, <1>3, PTL DEF Spec
=============================================================================
