--------------------------- MODULE Persist_proofs ---------------------------
(***************************************************************************)
(* What was saved or flushed survives every crash, and what is loaded       *)
(* answers right, for any inputs and values, any meaning of the query and   *)
(* any length of a log.                                                     *)
(*                                                                          *)
(* The argument is about the story that the files tell: the memory that the *)
(* base gives, and the one after each entry of the log.  A crash, or a      *)
(* writer that is dropped, may stop the story anywhere after what was       *)
(* flushed.  A writer whose log does not go with the base any more tells    *)
(* nothing.                                                                 *)
(***************************************************************************)
EXTENDS Persist, FiniteSetTheorems, SequenceTheorems, TLAPS

Memory == [entry : [Key -> Entry], cell : CellValue \union {NoCell}]

\* What a load of the base gives.
Loaded == IF base = NoFile THEN [rev |-> 0, entry |-> Unset, cell |-> NoCell] ELSE base

\* The log continues the base that is there.
Continues == log # NoFile /\ ~log.headless /\ log.base = Loaded.rev

Written == IF Continues THEN log.entries ELSE <<>>
Pending == IF Usable THEN writer.buffer ELSE <<>>
Told == Written \o Pending

\* The writer has the log at the path open.
Linked == writer # NoWriter /\ writer.file = "log"

-----------------------------------------------------------------------------
(* A story f of the entries s *)

IsStory(f, s) ==
    /\ f \in [0..Len(s) -> Memory]
    /\ f[0] = [entry |-> Loaded.entry, cell |-> Loaded.cell]
    /\ \A n \in 1..Len(s) : f[n] = Apply(f[n - 1], s[n])

\* After n entries, a replay has a revision of at least r.
Reached(s, n, r) == r <= Loaded.rev \/ \E i \in 1..n : r <= s[i].at

NoNewer(e, r) == \A k \in Key : e[k].ch <= r
ValuesOf(e) == [k \in Key |-> e[k].val]

\* Cell c is right among the inputs e: if none is newer than its verified_at,
\* it has what the query means.
CellFits(e, c) ==
    c # NoCell => /\ c.ch <= c.ver
                  /\ NoNewer(e, c.ver) => c.val = Eval(ValuesOf(e))

\* What is in d is in e, or has been overwritten.
Follows(e, d) == \A k \in Key : e[k] = d[k] \/ e[k].ch > d[k].ch

\* What the files are to hold is in e, or has been overwritten.
Keeps(e) == Follows(e, kept)

GoodMoment(s, n, m) ==
    /\ \A k \in Key : Reached(s, n, m.entry[k].ch)
    /\ CellFits(m.entry, m.cell)
    /\ m.cell # NoCell => Reached(s, n, m.cell.ver)

GoodStory(f) ==
    /\ IsStory(f, Told)
    /\ \A n \in 0..Len(Told) : GoodMoment(Told, n, f[n])
    /\ \A n \in Len(Written)..Len(Told) : Keeps(f[n].entry)

\* A replay is in the middle of the story.
ReplaysStory(f) ==
    Replaying =>
        /\ Continues
        /\ replay.next - 1 <= Len(log.entries)
        /\ entry = f[replay.next - 1].entry
        /\ cell = f[replay.next - 1].cell
        /\ Loaded.rev <= replay.rev
        /\ \A i \in 1..replay.next - 1 : log.entries[i].at <= replay.rev

\* The story ends with what a writer has seen; what differs now is newer than
\* all that it tells.
EndsAsSeen(m) ==
    /\ m.entry = writer.seen
    /\ m.cell # NoCell => m.cell.ver <= rev
    /\ \A k \in Key : entry[k] # writer.seen[k] =>
        /\ entry[k].ch > writer.base
        /\ entry[k].ch > writer.seen[k].ch
        /\ m.cell # NoCell => entry[k].ch > m.cell.ver

StoryIsTold ==
    \E f : GoodStory(f) /\ ReplaysStory(f) /\ (Usable => EndsAsSeen(f[Len(Told)]))

-----------------------------------------------------------------------------
(* The process *)

\* Which of the other variables matter when.
StatusFits ==
    /\ status # "up" => op = NoOp /\ writer = NoWriter
    /\ status # "loaded" => replay = NoReplay
    /\ status = "down" => rev = 0 /\ entry = Unset /\ cell = NoCell
    /\ status = "loaded" =>
        /\ rev = Loaded.rev
        /\ replay = NoReplay => entry = Loaded.entry /\ cell = Loaded.cell
    /\ status = "failed" => log # NoFile /\ (log.torn \/ ~Continues) /\ Keeps(entry)

UpIsSound ==
    status = "up" =>
        /\ NoNewer(entry, rev)
        /\ CellFits(entry, cell)
        /\ cell # NoCell => cell.ver <= rev
        /\ Keeps(entry)

\* What is in the log, or on the way there, is later than where it starts.
EntriesAreLater ==
    /\ log # NoFile => \A i \in 1..Len(log.entries) :
            /\ log.entries[i].at > log.base
            /\ status = "up" => log.entries[i].at <= rev
    /\ Linked => \A i \in 1..Len(writer.buffer) :
            writer.buffer[i].at > writer.base /\ writer.buffer[i].at <= rev

\* A writer that is not usable has seen nothing that the files do not hold.
WriterFits ==
    /\ writer # NoWriter => base # NoFile /\ writer.base <= base.rev /\ base.rev <= rev
    /\ Linked => log # NoFile /\ ~log.headless /\ log.base = writer.base
    /\ Usable => rev = writer.base \/ \E k \in Key : entry[k].ch = rev
    /\ writer # NoWriter /\ ~Usable => Follows(kept, writer.seen)

Doing(call) == op # NoOp /\ op.call = call

\* The base is what the memory is, for nothing has changed since.
BaseIsCurrent == base = [rev |-> rev, entry |-> entry, cell |-> cell] /\ kept = entry

\* What a call has done by the time it is at its next step.
CallsAreOnTheirWay ==
    /\ Doing("save") \/ Doing("compact") =>
        /\ op.i > 1 => IF op.cellsFirst THEN op.cell = cell ELSE op.entry = entry
        /\ op.i > 2 => op.entry = entry /\ op.cell = cell
        /\ op.i > 3 => op.rev = rev
    /\ Doing("save") =>
        /\ Spent
        /\ op.i > 4 => BaseIsCurrent
        /\ op.i > 5 => op.next = rev
    /\ Doing("compact") =>
        /\ op.i > 4 => op.next = rev
        /\ op.i > 5 => BaseIsCurrent
        /\ op.i > 6 /\ writer # NoWriter => writer.file = "deleted"
    /\ Doing("append") =>
        /\ Usable /\ ~writer.cut /\ ~op.cellsFirst
        /\ op.i > 1 => writer.seen = entry

PersistInv ==
    /\ TypeOK
    /\ StatusFits
    /\ UpIsSound
    /\ EntriesAreLater
    /\ WriterFits
    /\ CallsAreOnTheirWay
    /\ StoryIsTold

-----------------------------------------------------------------------------
(* Types, with what they need: who is in which call.  They hold also when   *)
(* the database is written during a save.                                   *)

TypeInv ==
    /\ TypeOK
    /\ status # "up" => op = NoOp /\ writer = NoWriter
    /\ replay # NoReplay => status = "loaded" /\ log # NoFile
    /\ Linked => log # NoFile
    /\ Doing("append") => writer # NoWriter

LEMMA PlanIs ==
    /\ DOMAIN Plan = {"save", "compact", "append"}
    /\ Plan["save"] = <<"inputs", "cells", "revision", "rename", "reread", "create", "writer">>
    /\ Plan["compact"] =
        <<"inputs", "cells", "revision", "reread", "rename", "unlink", "create", "header",
          "create", "writer">>
    /\ Plan["append"] = <<"logInputs", "logCells">>
    BY DEF Plan

LEMMA PlanLengths ==
    Len(Plan["save"]) = 7 /\ Len(Plan["compact"]) = 10 /\ Len(Plan["append"]) = 2
    BY PlanIs

(* The parts of a call under way. *)
LEMMA OpParts ==
    ASSUME TypeOK, op # NoOp
    PROVE  /\ op \in Operation /\ op.call \in {"save", "compact", "append"} /\ op.i \in Nat \ {0}
           /\ op.cellsFirst \in BOOLEAN
           /\ op.entry \in [Key -> Entry] /\ op.cell \in CellValue \union {NoCell}
           /\ op.rev \in Revision /\ op.next \in Revision
           /\ op.i <= Len(Plan[op.call])
    BY PlanIs DEF TypeOK, Operation

(* Where in a call each step is. *)
LEMMA AtPlaces ==
    ASSUME TypeOK
    PROVE  /\ At("inputs") => op # NoOp /\ op.call \in {"save", "compact"}
                                /\ op.i = IF op.cellsFirst THEN 2 ELSE 1
           /\ At("cells") => op # NoOp /\ op.call \in {"save", "compact"}
                                /\ op.i = IF op.cellsFirst THEN 1 ELSE 2
           /\ At("revision") => op # NoOp /\ op.i = 3 /\ op.call \in {"save", "compact"}
           /\ At("rename") => op # NoOp /\ ((op.call = "save" /\ op.i = 4) \/ (op.call = "compact" /\ op.i = 5))
           /\ At("reread") => op # NoOp /\ ((op.call = "save" /\ op.i = 5) \/ (op.call = "compact" /\ op.i = 4))
           /\ At("unlink") => op # NoOp /\ op.call = "compact" /\ op.i = 6
           /\ At("create") => op # NoOp /\ ((op.call = "save" /\ op.i = 6) \/ (op.call = "compact" /\ op.i \in {7, 9}))
           /\ At("header") => op # NoOp /\ op.call = "compact" /\ op.i = 8
           /\ At("writer") => op # NoOp /\ ((op.call = "save" /\ op.i = 7) \/ (op.call = "compact" /\ op.i = 10))
           /\ At("logInputs") => op # NoOp /\ op.call = "append" /\ op.i = IF op.cellsFirst THEN 2 ELSE 1
           /\ At("logCells") => op # NoOp /\ op.call = "append" /\ op.i = IF op.cellsFirst THEN 1 ELSE 2
<1> DEFINE p == Place(op)
<1> SUFFICES ASSUME op # NoOp
             PROVE  LET what == Plan[op.call][p]
                        first == IF op.cellsFirst THEN 2 ELSE 1
                        second == IF op.cellsFirst THEN 1 ELSE 2
                    IN  /\ what = "inputs" => op.call \in {"save", "compact"} /\ op.i = first
                        /\ what = "cells" => op.call \in {"save", "compact"} /\ op.i = second
                        /\ what = "revision" => op.i = 3 /\ op.call \in {"save", "compact"}
                        /\ what = "rename" => ((op.call = "save" /\ op.i = 4) \/ (op.call = "compact" /\ op.i = 5))
                        /\ what = "reread" => ((op.call = "save" /\ op.i = 5) \/ (op.call = "compact" /\ op.i = 4))
                        /\ what = "unlink" => op.call = "compact" /\ op.i = 6
                        /\ what = "create" => ((op.call = "save" /\ op.i = 6) \/ (op.call = "compact" /\ op.i \in {7, 9}))
                        /\ what = "header" => op.call = "compact" /\ op.i = 8
                        /\ what = "writer" => ((op.call = "save" /\ op.i = 7) \/ (op.call = "compact" /\ op.i = 10))
                        /\ what = "logInputs" => op.call = "append" /\ op.i = first
                        /\ what = "logCells" => op.call = "append" /\ op.i = second
    BY DEF At
<1>1. op.call \in {"save", "compact", "append"} /\ op.i \in Nat \ {0} /\ op.i <= Len(Plan[op.call])
      /\ op.cellsFirst \in BOOLEAN
    BY OpParts
<1>2. /\ p = 1 => op.i = IF op.cellsFirst THEN 2 ELSE 1
      /\ p = 2 => op.i = IF op.cellsFirst THEN 1 ELSE 2
      /\ p > 2 => op.i = p
      /\ p \in Nat \ {0} /\ (op.i <= 2 => p <= 2) /\ (op.i > 2 => p = op.i)
    BY <1>1 DEF Place
<1> HIDE DEF p
<1>3. CASE op.call = "save"
  <2>1. p \in {1, 2, 3, 4, 5, 6, 7}
    BY <1>1, <1>2, <1>3, PlanLengths
  <2>2. Plan[op.call][p] =
            <<"inputs", "cells", "revision", "rename", "reread", "create", "writer">>[p]
    BY <1>3, PlanIs
  <2> QED  BY <1>2, <1>3, <2>1, <2>2
<1>4. CASE op.call = "compact"
  <2>1. p \in {1, 2, 3, 4, 5, 6, 7, 8, 9, 10}
    BY <1>1, <1>2, <1>4, PlanLengths
  <2>2. Plan[op.call][p] =
            <<"inputs", "cells", "revision", "reread", "rename", "unlink", "create", "header",
              "create", "writer">>[p]
    BY <1>4, PlanIs
  <2> QED  BY <1>2, <1>4, <2>1, <2>2
<1>5. CASE op.call = "append"
  <2>1. p \in {1, 2}
    BY <1>1, <1>2, <1>5, PlanLengths
  <2> QED  BY <1>2, <1>5, <2>1, PlanIs
<1> QED  BY <1>1, <1>3, <1>4, <1>5

(* A call that goes on is at its next step, or has returned after the last. *)
LEMMA Advancing ==
    ASSUME TypeOK, op # NoOp, NEW o \in Operation, o.call = op.call, o.i = op.i, Advance(o)
    PROVE  /\ op' \in Operation \union {NoOp}
           /\ op' # NoOp =>
                /\ op'.i = op.i + 1 /\ op'.call = op.call /\ op'.i <= Len(Plan[op'.call])
                /\ op'.entry = o.entry /\ op'.cell = o.cell /\ op'.rev = o.rev /\ op'.next = o.next
                /\ op'.cellsFirst = o.cellsFirst
           /\ op' = NoOp <=> op.i = Len(Plan[op.call])
<1>1. op.i \in Nat \ {0} /\ op.i <= Len(Plan[op.call]) /\ Len(Plan[op.call]) \in Nat
    BY OpParts, PlanLengths
<1>2. CASE op.i = Len(Plan[op.call])
    BY <1>2 DEF Advance
<1>3. CASE op.i # Len(Plan[op.call])
  <2>1. op' = [o EXCEPT !.i = o.i + 1]
    BY <1>3 DEF Advance
  <2>2. op' \in Operation /\ op'.i = op.i + 1 /\ op'.call = op.call
    BY <1>1, <2>1 DEF Operation
  <2>3. op'.entry = o.entry /\ op'.cell = o.cell /\ op'.rev = o.rev /\ op'.next = o.next
        /\ op'.cellsFirst = o.cellsFirst
    BY <2>1 DEF Operation
  <2>4. op' # NoOp
    BY <2>2, NonesOfPersist
  <2>5. op'.i <= Len(Plan[op'.call])
    BY <1>1, <1>3, <2>2
  <2> QED  BY <1>3, <2>2, <2>3, <2>4, <2>5
<1> QED  BY <1>2, <1>3

LEMMA RevisionsAreNat == 0 \in Revision /\ \A r \in Revision : r \in Nat
    BY BoundsAreNat DEF Revision

LEMMA UnsetIsTyped == Unset \in [Key -> Entry]
    BY RevisionsAreNat DEF Unset, Entry, Stored

LEMMA LogParts ==
    ASSUME TypeOK, log # NoFile
    PROVE  /\ log \in LogFile /\ log.base \in Revision /\ log.entries \in Seq(Logged)
           /\ log.torn \in BOOLEAN /\ log.headless \in BOOLEAN
    BY DEF TypeOK, LogFile

LEMMA WriterParts ==
    ASSUME TypeOK, writer # NoWriter
    PROVE  /\ writer \in Writer /\ writer.base \in Revision /\ writer.buffer \in Seq(Logged)
           /\ writer.seen \in [Key -> Entry] /\ writer.cut \in BOOLEAN
           /\ writer.file \in {"log", "truncated", "deleted"}
    BY DEF TypeOK, Writer

LEMMA SavedParts ==
    ASSUME TypeOK
    PROVE  /\ Loaded \in Saved /\ Loaded.rev \in Revision /\ Loaded.entry \in [Key -> Entry]
           /\ Loaded.cell \in CellValue \union {NoCell}
<1>1. Loaded \in Saved
    BY RevisionsAreNat, UnsetIsTyped DEF TypeOK, Loaded, Saved
<1> QED  BY <1>1 DEF Saved

LEMMA LoggedParts ==
    ASSUME NEW e \in Logged
    PROVE  /\ e.at \in Revision
           /\ e.of \in Key => e.rec \in Stored
           /\ e.of \notin Key => e.of = Memo /\ e.rec \in CellValue
    BY NamesDiffer DEF Logged

LEMMA Applied ==
    ASSUME NEW m \in Memory, NEW e \in Logged
    PROVE  /\ Apply(m, e) \in Memory
           /\ e.of \in Key =>
                /\ Apply(m, e).cell = m.cell
                /\ Apply(m, e).entry = [m.entry EXCEPT ![e.of] = [val |-> e.rec, ch |-> e.at]]
           /\ e.of \notin Key => Apply(m, e).cell = e.rec /\ Apply(m, e).entry = m.entry
<1>1. e.at \in Revision /\ (e.of \in Key => e.rec \in Stored) /\ (e.of \notin Key => e.rec \in CellValue)
    BY LoggedParts
<1>2. m.entry \in [Key -> Entry]
    BY DEF Memory
<1>3. CASE e.of \in Key
  <2>1. [val |-> e.rec, ch |-> e.at] \in Entry
    BY <1>1, <1>3 DEF Entry
  <2> QED  BY <1>2, <1>3, <2>1 DEF Apply, Memory
<1>4. CASE e.of \notin Key
    BY <1>1, <1>4 DEF Apply, Memory
<1> QED  BY <1>3, <1>4

LEMMA LogIsMade ==
    /\ Headless \in LogFile
    /\ \A r \in Revision : LogFrom(r) \in LogFile
<1>1. <<>> \in Seq(Logged)
    BY EmptySeq
<1> QED  BY <1>1, RevisionsAreNat DEF Headless, LogFrom, LogFile

-----------------------------------------------------------------------------
(* Steps and types *)

\* A step of a call that collects or installs, and leaves the memory alone.
LEMMA CallKeepsTypes ==
    ASSUME TypeInv, op # NoOp, NEW o \in Operation, o.call = op.call, o.i = op.i, Advance(o),
           UNCHANGED <<status, memory, replay>>, writer' \in Writer \union {NoWriter},
           base' \in Saved \union {NoFile}, log' \in LogFile \union {NoFile}, kept' \in [Key -> Entry],
           Linked' => log' # NoFile, op.call = "append" => writer' # NoWriter
    PROVE  TypeInv'
<1>1. TypeOK /\ status = "up" /\ replay = NoReplay
    BY DEF TypeInv
<1>2. /\ op' \in Operation \union {NoOp}
      /\ op' # NoOp => op'.call = op.call /\ op'.i <= Len(Plan[op'.call])
    BY <1>1, Advancing
<1>3. TypeOK'
    BY <1>1, <1>2 DEF TypeOK, memory
<1> QED  BY <1>1, <1>2, <1>3 DEF TypeInv, Doing, memory

LEMMA WorkKeepsTypes == ASSUME TypeInv, Work PROVE TypeInv'
<1>1. TypeOK
    BY DEF TypeInv
<1>2. CASE Query
  <2>1. cell' \in CellValue \union {NoCell}
    <3>1. Contents \in [Key -> Stored]
      BY <1>1 DEF TypeOK, Contents, Entry
    <3>2. rev \in Revision
      BY <1>1 DEF TypeOK
    <3>3. CASE cell # NoCell /\ (Answers \/ cell.val = Eval(Contents))
      <4>1. cell \in CellValue /\ cell' = [cell EXCEPT !.ver = rev]
        BY <1>1, <1>2, <3>3 DEF Query, TypeOK
      <4> QED  BY <3>2, <4>1 DEF CellValue
    <3>4. CASE ~(cell # NoCell /\ (Answers \/ cell.val = Eval(Contents)))
      <4>1. cell' = [val |-> Eval(Contents), ver |-> rev, ch |-> rev]
        BY <1>2, <3>4 DEF Query
      <4> QED  BY <3>1, <3>2, <4>1 DEF CellValue
    <3> QED  BY <3>3, <3>4
  <2>2. UNCHANGED <<rev, entry, status, op, writer, base, log, kept, replay>>
    BY <1>2 DEF Query, files
  <2>3. TypeOK'
    BY <1>1, <2>1, <2>2 DEF TypeOK
  <2> QED  BY <2>2, <2>3 DEF TypeInv, Doing, Linked
<1>3. ASSUME NEW k \in Key, NEW x \in Stored, Set(k, x) PROVE TypeInv'
  <2>1. rev \in Revision /\ rev < MaxRev
    BY <1>1, <1>3 DEF TypeOK, Set, Working
  <2>2. rev + 1 \in Revision
    BY <2>1, BoundsAreNat DEF Revision
  <2>3. [val |-> x, ch |-> rev + 1] \in Entry
    BY <2>2 DEF Entry
  <2>4. entry' \in [Key -> Entry] /\ rev' \in Revision
    BY <1>1, <1>3, <2>2, <2>3 DEF Set, TypeOK
  <2>5. UNCHANGED <<cell, status, op, writer, base, log, kept, replay>>
    BY <1>3 DEF Set, files
  <2>6. TypeOK'
    BY <1>1, <2>4, <2>5 DEF TypeOK
  <2> QED  BY <2>5, <2>6 DEF TypeInv, Doing, Linked
<1> QED  BY <1>2, <1>3 DEF Work

LEMMA BeginKeepsTypes ==
    ASSUME TypeInv, NEW call \in DOMAIN Plan, NEW cellsFirst \in BOOLEAN, Begin(call, cellsFirst)
    PROVE  TypeInv'
<1>1. TypeOK /\ status = "up" /\ op = NoOp
    BY DEF TypeInv, Begin
<1> DEFINE o == [call |-> call, cellsFirst |-> cellsFirst, i |-> 1,
                 entry |-> Unset, cell |-> NoCell, rev |-> 0, next |-> 0]
<1>2. o \in Operation /\ o.call = call /\ o.i = 1
    BY UnsetIsTyped, RevisionsAreNat DEF Operation
<1>3. 1 <= Len(Plan[call])
  <2>1. call \in {"save", "compact", "append"}
    BY PlanIs
  <2>2. Len(Plan[call]) \in Nat \ {0}
    <3>1. CASE call = "save"
      BY <3>1, PlanLengths
    <3>2. CASE call = "compact"
      BY <3>2, PlanLengths
    <3>3. CASE call = "append"
      BY <3>3, PlanLengths
    <3> QED  BY <2>1, <3>1, <3>2, <3>3
  <2> QED  BY <2>2
<1> HIDE DEF o
<1>4. op' = o /\ UNCHANGED <<status, rev, entry, cell, replay, writer, base, log, kept>>
    BY DEF Begin, memory, files, o
<1>5. TypeOK'
    BY <1>1, <1>2, <1>3, <1>4 DEF TypeOK
<1>6. call = "append" => writer # NoWriter
    BY DEF Begin
<1> QED  BY <1>1, <1>2, <1>4, <1>5, <1>6 DEF TypeInv, Doing, Linked

LEMMA CollectKeepsTypes ==
    ASSUME TypeInv, CollectInputs \/ CollectCells \/ ReadRevision \/ RereadRevision
    PROVE  TypeInv'
<1>1. TypeOK /\ op # NoOp
    BY DEF TypeInv, CollectInputs, CollectCells, ReadRevision, RereadRevision, At
<1>2. op \in Operation /\ entry \in [Key -> Entry] /\ cell \in CellValue \union {NoCell} /\ rev \in Revision
    BY <1>1, OpParts DEF TypeOK
<1>3. UNCHANGED <<status, memory, writer, files, replay>>
    BY DEF CollectInputs, CollectCells, ReadRevision, RereadRevision
<1>4. PICK o \in Operation : o.call = op.call /\ o.i = op.i /\ Advance(o)
  <2>1. CASE CollectInputs
    <3>1. [op EXCEPT !.entry = entry] \in Operation
      BY <1>2 DEF Operation
    <3> QED  BY <1>2, <2>1, <3>1 DEF CollectInputs, Operation
  <2>2. CASE CollectCells
    <3>1. [op EXCEPT !.cell = cell] \in Operation
      BY <1>2 DEF Operation
    <3> QED  BY <1>2, <2>2, <3>1 DEF CollectCells, Operation
  <2>3. CASE ReadRevision
    <3>1. [op EXCEPT !.rev = rev] \in Operation
      BY <1>2 DEF Operation
    <3> QED  BY <1>2, <2>3, <3>1 DEF ReadRevision, Operation
  <2>4. CASE RereadRevision
    <3>1. [op EXCEPT !.next = rev] \in Operation
      BY <1>2 DEF Operation
    <3> QED  BY <1>2, <2>4, <3>1 DEF RereadRevision, Operation
  <2> QED  BY <2>1, <2>2, <2>3, <2>4
<1>5. UNCHANGED <<base, log, kept, writer>>
    BY <1>3 DEF files
<1>6. (Linked' => log' # NoFile) /\ (op.call = "append" => writer' # NoWriter)
    BY <1>1, <1>5 DEF TypeInv, Linked, Doing
<1>7. base' \in Saved \union {NoFile} /\ log' \in LogFile \union {NoFile} /\ kept' \in [Key -> Entry]
      /\ writer' \in Writer \union {NoWriter}
    BY <1>1, <1>5 DEF TypeOK
<1> QED  BY <1>1, <1>3, <1>4, <1>6, <1>7, CallKeepsTypes

(* What becomes of a writer when its file is emptied or loses its name. *)
LEMMA WriterMoves ==
    ASSUME TypeOK, NEW w,
           \/ w = writer
           \/ /\ writer # NoWriter
              /\ \E file \in {"truncated", "deleted"} : w = [writer EXCEPT !.file = file]
    PROVE  /\ w \in Writer \union {NoWriter}
           /\ w = NoWriter <=> writer = NoWriter
           /\ writer # NoWriter => /\ w.base = writer.base /\ w.buffer = writer.buffer
                                   /\ w.cut = writer.cut /\ w.seen = writer.seen
<1>1. CASE w = writer
    BY <1>1 DEF TypeOK
<1>2. ASSUME writer # NoWriter, NEW file \in {"truncated", "deleted"}, w = [writer EXCEPT !.file = file]
      PROVE  /\ w \in Writer /\ w.base = writer.base /\ w.buffer = writer.buffer
             /\ w.cut = writer.cut /\ w.seen = writer.seen
    BY <1>2 DEF TypeOK, Writer
<1> QED  BY <1>1, <1>2, NonesOfPersist

LEMMA InstallKeepsTypes ==
    ASSUME TypeInv, InstallBase \/ DeleteLog \/ CreateLog \/ WriteHeader
    PROVE  TypeInv'
<1>1. TypeOK /\ op # NoOp /\ Advance(op)
    BY DEF TypeInv, InstallBase, DeleteLog, CreateLog, WriteHeader, At
<1>2. op \in Operation /\ op.rev \in Revision /\ op.entry \in [Key -> Entry]
      /\ op.cell \in CellValue \union {NoCell} /\ op.next \in Revision
    BY <1>1, OpParts
<1>3. UNCHANGED <<status, memory, replay>>
    BY DEF InstallBase, DeleteLog, CreateLog, WriteHeader
<1>4. writer' \in Writer \union {NoWriter} /\ (op.call = "append" => writer' # NoWriter)
  <2>1. writer' \in Writer \union {NoWriter}
    BY <1>1, WriterMoves DEF InstallBase, DeleteLog, CreateLog, WriteHeader
  <2>2. op.call # "append"
    BY <1>1, AtPlaces DEF InstallBase, DeleteLog, CreateLog, WriteHeader
  <2> QED  BY <2>1, <2>2
<1>5. base' \in Saved \union {NoFile} /\ log' \in LogFile \union {NoFile} /\ kept' \in [Key -> Entry]
  <2>1. [rev |-> op.rev, entry |-> op.entry, cell |-> op.cell] \in Saved
    BY <1>2 DEF Saved
  <2> QED  BY <1>1, <1>2, <2>1, LogIsMade DEF InstallBase, DeleteLog, CreateLog, WriteHeader, TypeOK
<1>6. Linked' => log' # NoFile
  <2>1. CASE InstallBase
    BY <2>1 DEF InstallBase, TypeInv, Linked
  <2>2. CASE DeleteLog
    <3>1. writer # NoWriter => writer' = [writer EXCEPT !.file = "deleted"] /\ writer \in Writer
      BY <1>1, <2>2 DEF DeleteLog, TypeOK
    <3>2. writer # NoWriter => writer'.file = "deleted"
      BY <3>1 DEF Writer
    <3> QED  BY <2>2, <3>2 DEF DeleteLog, Linked
  <2>3. CASE CreateLog \/ WriteHeader
    BY <1>2, <2>3, LogIsMade, NonesOfPersist DEF CreateLog, WriteHeader
  <2> QED  BY <2>1, <2>2, <2>3
<1> QED  BY <1>1, <1>2, <1>3, <1>4, <1>5, <1>6, CallKeepsTypes

(* What may be in the file of a writer that goes away: what was in it, and   *)
(* some of the buffer.                                                       *)
LEMMA SpilledIs ==
    ASSUME TypeOK, writer # NoWriter, NEW l \in LogFile, NEW x \in Spilled(l)
    PROVE  \E n \in 0..Len(writer.buffer) :
                /\ x \in LogFile
                /\ x.base = l.base /\ x.headless = l.headless
                /\ x.entries \in Seq(Logged) /\ Len(x.entries) = Len(l.entries) + n
                /\ \A i \in 1..Len(x.entries) : x.entries[i] = (l.entries \o writer.buffer)[i]
<1> DEFINE E == l.entries
           B == writer.buffer
<1>1. E \in Seq(Logged) /\ B \in Seq(Logged) /\ l.torn \in BOOLEAN
    BY WriterParts DEF LogFile
<1>2. PICK n \in 0..Len(B), torn \in BOOLEAN :
        x = [l EXCEPT !.entries = E \o SubSeq(B, 1, n), !.torn = l.torn \/ torn]
    BY DEF Spilled
<1> HIDE DEF E, B
<1>3. Len(E) \in Nat /\ Len(B) \in Nat
    BY <1>1, LenProperties
<1>4. n \in Nat /\ n <= Len(B) /\ \A i \in 1..n : B[i] \in Logged
    BY <1>1, <1>2, <1>3, ElementOfSeq
<1> DEFINE C == SubSeq(B, 1, n)
<1>5. C \in Seq(Logged) /\ Len(C) = n /\ \A i \in 1..n : C[i] = B[i]
  <2>1. 1 \in Int /\ n \in Int
    BY <1>4
  <2>2. /\ SubSeq(B, 1, n) \in Seq(Logged)
        /\ Len(SubSeq(B, 1, n)) = IF 1 <= n THEN n - 1 + 1 ELSE 0
        /\ \A i \in 1 .. n - 1 + 1 : SubSeq(B, 1, n)[i] = B[1 + i - 1]
    BY <1>4, <2>1, SubSeqProperties
  <2>3. Len(C) = n
    BY <1>4, <2>2
  <2>4. ASSUME NEW i \in 1..n PROVE C[i] = B[i]
    <3>1. i \in 1..n - 1 + 1 /\ 1 + i - 1 = i
      BY <1>4
    <3> QED  BY <2>2, <3>1
  <2> QED  BY <2>2, <2>3, <2>4
<1> HIDE DEF C
<1>6. E \o C \in Seq(Logged) /\ Len(E \o C) = Len(E) + n
      /\ \A i \in 1..Len(E) + n : (E \o C)[i] = IF i <= Len(E) THEN E[i] ELSE C[i - Len(E)]
    BY <1>1, <1>5, ConcatProperties
<1>7. \A i \in 1..Len(E) + Len(B) : (E \o B)[i] = IF i <= Len(E) THEN E[i] ELSE B[i - Len(E)]
    BY <1>1, ConcatProperties
<1>8. ASSUME NEW i \in 1..Len(E) + n PROVE (E \o C)[i] = (E \o B)[i]
  <2>1. i \in 1..Len(E) + Len(B)
    BY <1>3, <1>4
  <2>2. CASE i <= Len(E)
    BY <1>6, <1>7, <2>1, <2>2
  <2>3. CASE ~(i <= Len(E))
    <3>1. i - Len(E) \in 1..n
      BY <1>3, <1>4, <2>3
    <3> QED  BY <1>5, <1>6, <1>7, <2>1, <2>3, <3>1
  <2> QED  BY <2>2, <2>3
<1>9. x \in LogFile /\ x.entries = E \o C /\ x.base = l.base /\ x.headless = l.headless
  <2>1. l.torn \/ torn \in BOOLEAN
    BY <1>1, <1>2
  <2>2. x = [l EXCEPT !.entries = E \o C, !.torn = (l.torn \/ torn)]
    BY <1>2 DEF C
  <2>3. PICK b \in BOOLEAN : x = [l EXCEPT !.entries = E \o C, !.torn = b]
    BY <2>1, <2>2
  <2> QED  BY <1>6, <2>3 DEF LogFile
<1> QED  BY <1>2, <1>6, <1>8, <1>9 DEF E, B

(* A writer that has nothing more to write leaves nothing. *)
LEMMA NothingSpilled ==
    ASSUME TypeOK, writer # NoWriter, writer.buffer = <<>>, NEW r \in Revision, NEW x \in Spilled(LogFrom(r))
    PROVE  x \in LogFile /\ x.entries = <<>> /\ x.base = r /\ ~x.headless
<1>1. LogFrom(r) \in LogFile
    BY LogIsMade
<1>2. LogFrom(r).base = r /\ LogFrom(r).entries = <<>> /\ ~LogFrom(r).headless
    BY DEF LogFrom
<1>3. Len(<<>>) = 0
    OBVIOUS
<1>4. PICK n \in 0..0 : /\ x \in LogFile /\ x.base = r /\ x.headless = LogFrom(r).headless
                        /\ x.entries \in Seq(Logged) /\ Len(x.entries) = 0 + n
    BY <1>1, <1>2, <1>3, SpilledIs
<1>5. Len(x.entries) = 0
    BY <1>4
<1> QED  BY <1>2, <1>4, <1>5, EmptySeq

(* The program's own writer is a new one, and its call has returned. *)
LEMMA TakeIs ==
    ASSUME TypeOK, TakeWriter
    PROVE  /\ op # NoOp /\ op \in Operation /\ op.next \in Revision
           /\ (op.call = "save" /\ op.i = 7) \/ (op.call = "compact" /\ op.i = 10)
           /\ op' = NoOp /\ log' \in LogFile /\ log' # NoFile
           /\ writer' = [base |-> op.next, file |-> "log", buffer |-> <<>>, cut |-> FALSE, seen |-> kept]
           /\ writer' \in Writer /\ writer' # NoWriter
           /\ UNCHANGED <<status, rev, entry, cell, replay, base, kept>>
<1>1. At("writer") /\ op # NoOp /\ Advance(op)
    BY DEF TakeWriter, At
<1>2. op \in Operation /\ op.next \in Revision
    BY <1>1, OpParts
<1>3. (op.call = "save" /\ op.i = 7) \/ (op.call = "compact" /\ op.i = 10)
    BY <1>1, AtPlaces
<1>4. op' = NoOp
  <2>1. op.i = Len(Plan[op.call])
    BY <1>3, PlanLengths
  <2> QED  BY <1>1, <1>2, <2>1, Advancing
<1>5. log' \in LogFile
  <2>1. LogFrom(op.next) \in LogFile
    BY <1>2, LogIsMade
  <2>2. CASE writer # NoWriter /\ writer.file = "truncated"
    <3>1. log' \in Spilled(LogFrom(op.next))
      BY <2>2 DEF TakeWriter
    <3> QED  BY <2>1, <2>2, <3>1, SpilledIs
  <2>3. CASE ~(writer # NoWriter /\ writer.file = "truncated")
    <3>1. log' \in {LogFrom(op.next)}
      BY <2>3 DEF TakeWriter
    <3> QED  BY <2>1, <3>1
  <2> QED  BY <2>2, <2>3
<1>6. writer' = [base |-> op.next, file |-> "log", buffer |-> <<>>, cut |-> FALSE, seen |-> kept]
      /\ UNCHANGED <<status, rev, entry, cell, replay, base, kept>>
    BY DEF TakeWriter, memory
<1>7. writer' \in Writer
  <2>1. <<>> \in Seq(Logged) /\ kept \in [Key -> Entry]
    BY EmptySeq DEF TypeOK
  <2> QED  BY <1>2, <1>6, <2>1 DEF Writer
<1> QED  BY <1>1, <1>2, <1>3, <1>4, <1>5, <1>6, <1>7, NonesOfPersist

LEMMA TakeKeepsTypes == ASSUME TypeInv, TakeWriter PROVE TypeInv'
<1>1. TypeOK /\ status = "up" /\ replay = NoReplay
    BY TakeIs DEF TypeInv
<1>2. TypeOK'
    BY <1>1, TakeIs DEF TypeOK
<1> QED  BY <1>1, <1>2, TakeIs DEF TypeInv, Doing

LEMMA ErrorKeepsTypes == ASSUME TypeInv, IoError PROVE TypeInv'
<1>1. op' = NoOp /\ UNCHANGED <<status, rev, entry, cell, replay, writer, base, log, kept>>
    BY DEF IoError, memory, files
<1>2. TypeOK'
    BY <1>1 DEF TypeInv, TypeOK
<1> QED  BY <1>1, <1>2 DEF TypeInv, Doing, Linked

(* The keys that changed, in some order, are all of them: a sequence without *)
(* repetition that is as long as the set.                                    *)
LEMMA OrdersAreComplete ==
    ASSUME NEW S \in SUBSET Key, NEW s \in SetToSeqs(S)
    PROVE  /\ s \in Seq(Key) /\ DOMAIN s = 1..Len(s)
           /\ \A i \in 1..Len(s) : s[i] \in S
           /\ \A k \in S : \E i \in 1..Len(s) : s[i] = k
<1> DEFINE D == 1..Cardinality(S)
<1>1. IsFiniteSet(S) /\ Cardinality(S) \in Nat
    BY KeysAreFinite, FS_Subset, FS_CardinalityType
<1>2. s \in [D -> S] /\ \A i, j \in D : i # j => s[i] # s[j]
    BY DEF SetToSeqs
<1>3. s \in Injection(D, S)
    BY <1>2 DEF Injection, IsInjective
<1>4. Cardinality(D) = Cardinality(S)
    BY <1>1, FS_Interval
<1>5. s \in Surjection(D, S)
    BY <1>1, <1>3, <1>4, FS_Injection
<1>6. s \in Seq(Key) /\ Len(s) = Cardinality(S)
    BY <1>1, <1>2
<1> QED  BY <1>2, <1>5, <1>6 DEF Surjection

(* What is written for an input that changed, and for the cell. *)
LEMMA RecordsAreLogged ==
    ASSUME TypeOK
    PROVE  /\ \A k \in Key : [of |-> k, at |-> entry[k].ch, rec |-> entry[k].val] \in Logged
           /\ cell # NoCell => [of |-> Memo, at |-> cell.ch, rec |-> cell] \in Logged
<1>1. \A k \in Key : entry[k].ch \in Revision /\ entry[k].val \in Stored
    BY DEF TypeOK, Entry
<1>2. cell # NoCell => cell \in CellValue /\ cell.ch \in Revision
    BY DEF TypeOK, CellValue
<1>3. \A k \in Key : [of |-> k, at |-> entry[k].ch, rec |-> entry[k].val] \in [of : Key, at : Revision, rec : Stored]
    BY <1>1
<1> QED  BY <1>2, <1>3 DEF Logged

LEMMA RecordsAre ==
    ASSUME TypeOK, NEW s \in Seq(Key), DOMAIN s = 1..Len(s)
    PROVE  /\ Records(s) \in Seq(Logged) /\ Len(Records(s)) = Len(s)
           /\ \A i \in 1..Len(s) : Records(s)[i] = [of |-> s[i], at |-> entry[s[i]].ch, rec |-> entry[s[i]].val]
<1>1. Len(s) \in Nat /\ \A i \in 1..Len(s) : s[i] \in Key
    BY ElementOfSeq, LenProperties
<1>2. \A i \in 1..Len(s) : Records(s)[i] = [of |-> s[i], at |-> entry[s[i]].ch, rec |-> entry[s[i]].val]
    BY DEF Records
<1>3. Records(s) \in [1..Len(s) -> Logged]
    BY <1>1, <1>2, RecordsAreLogged DEF Records
<1> QED  BY <1>1, <1>2, <1>3

LEMMA ExtendedIsTyped ==
    ASSUME TypeOK, writer # NoWriter, NEW es \in Seq(Logged)
    PROVE  /\ Extended(es) \in Seq(Logged)
           /\ ~writer.cut => Extended(es) = writer.buffer \o es
<1>1. writer.buffer \in Seq(Logged)
    BY WriterParts
<1>2. writer.buffer \o es \in Seq(Logged)
    BY <1>1, ConcatProperties
<1> QED  BY <1>1, <1>2 DEF Extended

LEMMA AppendInputsIs ==
    ASSUME TypeOK, AppendInputs
    PROVE  /\ \E s \in Seq(Key) :
                /\ DOMAIN s = 1..Len(s)
                /\ \A i \in 1..Len(s) : Changed(s[i])
                /\ \A k \in Key : Changed(k) => \E i \in 1..Len(s) : s[i] = k
                /\ writer' = [writer EXCEPT !.seen = entry, !.buffer = Extended(Records(s))]
           /\ At("logInputs") /\ Advance(op)
           /\ UNCHANGED <<status, memory, files, replay>>
<1>1. PICK s \in SetToSeqs({k \in Key : Changed(k)}) :
        writer' = [writer EXCEPT !.seen = entry, !.buffer = Extended(Records(s))]
    BY DEF AppendInputs
<1>2. {k \in Key : Changed(k)} \in SUBSET Key
    OBVIOUS
<1>3. /\ s \in Seq(Key) /\ DOMAIN s = 1..Len(s)
      /\ \A i \in 1..Len(s) : s[i] \in {k \in Key : Changed(k)}
      /\ \A k \in {l \in Key : Changed(l)} : \E i \in 1..Len(s) : s[i] = k
    BY <1>2, OrdersAreComplete
<1>4. At("logInputs") /\ Advance(op) /\ UNCHANGED <<status, memory, files, replay>>
    BY DEF AppendInputs
<1> QED  BY <1>1, <1>3, <1>4

\* What a writer has seen after it has logged the inputs s.
SeenAfter(s) ==
    [k \in Key |-> IF \E i \in 1..Len(s) : s[i] = k THEN entry[k] ELSE writer.seen[k]]

LEMMA AppendFailsIs ==
    ASSUME TypeOK, writer # NoWriter, AppendFails
    PROVE  /\ \E s \in Seq(Key), cut \in BOOLEAN :
                /\ DOMAIN s = 1..Len(s)
                /\ \A i \in 1..Len(s) : Changed(s[i])
                /\ writer' = [writer EXCEPT !.buffer = Extended(Records(s)),
                                            !.cut = cut, !.seen = SeenAfter(s)]
           /\ At("logInputs") \/ At("logCells")
           /\ op' = NoOp
           /\ UNCHANGED <<status, memory, files, replay>>
<1> DEFINE C == {k \in Key : At("logInputs") /\ Changed(k)}
           Seen(K) == [k \in Key |-> IF k \in K THEN entry[k] ELSE writer.seen[k]]
<1>1. PICK K \in SUBSET C, c \in BOOLEAN : \E s \in SetToSeqs(K) :
        writer' = [writer EXCEPT !.buffer = Extended(Records(s)), !.cut = writer.cut \/ c, !.seen = Seen(K)]
  <2>1. PICK K \in SUBSET C, c \in BOOLEAN : \E s \in SetToSeqs(K) :
          writer' = [writer EXCEPT !.buffer = Extended(Records(s)), !.cut = @ \/ c,
                        !.seen = [k \in Key |-> IF k \in K THEN entry[k] ELSE @[k]]]
    BY DEF AppendFails
  <2> QED  BY <2>1
<1>2. PICK s \in SetToSeqs(K) :
        writer' = [writer EXCEPT !.buffer = Extended(Records(s)), !.cut = writer.cut \/ c, !.seen = Seen(K)]
    BY <1>1
<1>3. PICK cut \in BOOLEAN : cut = (writer.cut \/ c)
    BY WriterParts
<1>4. K \in SUBSET Key /\ \A k \in K : Changed(k)
    BY <1>1
<1>5. /\ s \in Seq(Key) /\ DOMAIN s = 1..Len(s)
      /\ \A i \in 1..Len(s) : s[i] \in K
      /\ \A k \in K : \E i \in 1..Len(s) : s[i] = k
    BY <1>4, OrdersAreComplete
<1>6. Seen(K) = SeenAfter(s)
  <2>1. \A k \in Key : k \in K <=> \E i \in 1..Len(s) : s[i] = k
    BY <1>5
  <2> QED  BY <2>1 DEF SeenAfter
<1>7. At("logInputs") \/ At("logCells")
    BY DEF AppendFails
<1>8. op' = NoOp /\ UNCHANGED <<status, memory, files, replay>>
    BY DEF AppendFails
<1> HIDE DEF C, Seen
<1>9. writer' = [writer EXCEPT !.buffer = Extended(Records(s)), !.cut = cut, !.seen = SeenAfter(s)]
    BY <1>2, <1>3, <1>6
<1> QED  BY <1>4, <1>5, <1>7, <1>8, <1>9

LEMMA AppendCellsIs ==
    ASSUME TypeOK, writer # NoWriter, AppendCells
    PROVE  /\ At("logCells") /\ Advance(op)
           /\ UNCHANGED <<status, memory, files, replay>>
           /\ IF cell # NoCell /\ cell.ch > writer.base
              THEN /\ [of |-> Memo, at |-> cell.ch, rec |-> cell] \in Logged
                   /\ writer' = [writer EXCEPT !.buffer =
                                    Extended(<<[of |-> Memo, at |-> cell.ch, rec |-> cell]>>)]
              ELSE writer' = writer
<1>1. CASE cell # NoCell /\ cell.ch > writer.base
    BY <1>1, RecordsAreLogged DEF AppendCells
<1>2. CASE ~(cell # NoCell /\ cell.ch > writer.base)
    BY <1>2 DEF AppendCells
<1> QED  BY <1>1, <1>2 DEF AppendCells

LEMMA AppendKeepsTypes == ASSUME TypeInv, AppendInputs \/ AppendCells \/ AppendFails PROVE TypeInv'
<1>1. TypeOK /\ op # NoOp /\ op.call = "append" /\ op \in Operation
    BY AtPlaces, OpParts DEF TypeInv, AppendInputs, AppendCells, AppendFails
<1>2. writer # NoWriter /\ status = "up" /\ replay = NoReplay
    BY <1>1 DEF TypeInv, Doing
<1>3. UNCHANGED <<status, rev, entry, cell, base, log, kept, replay>>
    BY DEF AppendInputs, AppendCells, AppendFails, memory, files
<1>4. /\ op' \in Operation \union {NoOp}
      /\ op' # NoOp => op'.call = op.call /\ op'.i <= Len(Plan[op'.call])
    BY <1>1, Advancing DEF AppendInputs, AppendCells, AppendFails
<1>5. writer \in Writer /\ entry \in [Key -> Entry] /\ writer.seen \in [Key -> Entry]
    BY <1>1, <1>2, WriterParts DEF TypeOK
<1>6. writer' \in Writer /\ writer'.file = writer.file
  <2>1. CASE AppendInputs
    <3>1. PICK s \in Seq(Key) : DOMAIN s = 1..Len(s)
            /\ writer' = [writer EXCEPT !.seen = entry, !.buffer = Extended(Records(s))]
      BY <1>1, <2>1, AppendInputsIs
    <3>2. Extended(Records(s)) \in Seq(Logged)
      BY <1>1, <1>2, <3>1, RecordsAre, ExtendedIsTyped
    <3> QED  BY <1>5, <3>1, <3>2 DEF Writer
  <2>2. CASE AppendCells
    <3>1. CASE cell # NoCell /\ cell.ch > writer.base
      <4> DEFINE r == [of |-> Memo, at |-> cell.ch, rec |-> cell]
      <4>1. r \in Logged /\ writer' = [writer EXCEPT !.buffer = Extended(<<r>>)]
        BY <1>1, <1>2, <2>2, <3>1, AppendCellsIs
      <4> HIDE DEF r
      <4>2. <<r>> \in Seq(Logged)
        BY <4>1
      <4>3. Extended(<<r>>) \in Seq(Logged)
        BY <1>1, <1>2, <4>2, ExtendedIsTyped
      <4> QED  BY <1>5, <4>1, <4>3 DEF Writer
    <3>2. CASE ~(cell # NoCell /\ cell.ch > writer.base)
      BY <1>1, <1>2, <1>5, <2>2, <3>2, AppendCellsIs
    <3> QED  BY <3>1, <3>2
  <2>3. CASE AppendFails
    <3>1. PICK s \in Seq(Key), cut \in BOOLEAN : DOMAIN s = 1..Len(s)
            /\ writer' = [writer EXCEPT !.buffer = Extended(Records(s)), !.cut = cut, !.seen = SeenAfter(s)]
      BY <1>1, <1>2, <2>3, AppendFailsIs
    <3>2. Extended(Records(s)) \in Seq(Logged)
      BY <1>1, <1>2, <3>1, RecordsAre, ExtendedIsTyped
    <3>3. SeenAfter(s) \in [Key -> Entry]
      BY <1>5 DEF SeenAfter
    <3> QED  BY <1>5, <3>1, <3>2, <3>3 DEF Writer
  <2> QED  BY <2>1, <2>2, <2>3
<1>7. TypeOK'
    BY <1>1, <1>3, <1>4, <1>6 DEF TypeOK
<1>8. writer' # NoWriter
    BY <1>6, NonesOfPersist
<1> QED  BY <1>1, <1>2, <1>3, <1>4, <1>6, <1>7, <1>8 DEF TypeInv, Doing, Linked

LEMMA FlushIs ==
    ASSUME TypeInv, Flush
    PROVE  /\ writer # NoWriter /\ op = NoOp /\ status = "up" /\ replay = NoReplay
           /\ Linked => /\ log' \in LogFile /\ log' # NoFile
                        /\ log'.entries = log.entries \o writer.buffer
                        /\ log'.base = log.base /\ log'.headless = log.headless
           /\ ~Linked => log' = log
           /\ kept' = writer.seen
           /\ writer' \in Writer /\ writer' # NoWriter
           /\ writer'.base = writer.base /\ writer'.file = writer.file
           /\ writer'.seen = writer.seen /\ writer'.cut = writer.cut /\ writer'.buffer = <<>>
           /\ UNCHANGED <<status, rev, entry, cell, replay, op, base>>
<1>1. TypeOK /\ writer # NoWriter /\ op = NoOp /\ status = "up" /\ replay = NoReplay
    BY DEF TypeInv, Flush
<1>2. writer \in Writer /\ writer.buffer \in Seq(Logged) /\ writer.cut \in BOOLEAN
    BY <1>1, WriterParts
<1>3. kept' = writer.seen /\ UNCHANGED <<status, rev, entry, cell, replay, op, base>>
    BY DEF Flush, memory
<1>4. /\ writer' \in Writer /\ writer'.base = writer.base /\ writer'.file = writer.file
      /\ writer'.seen = writer.seen /\ writer'.cut = writer.cut /\ writer'.buffer = <<>>
  <2>1. writer' = [writer EXCEPT !.buffer = <<>>] /\ <<>> \in Seq(Logged)
    BY EmptySeq DEF Flush
  <2> QED  BY <1>2, <2>1 DEF Writer
<1>5. ASSUME Linked
      PROVE  /\ log' \in LogFile /\ log'.entries = log.entries \o writer.buffer
             /\ log'.base = log.base /\ log'.headless = log.headless
  <2>1. log \in LogFile /\ log.entries \in Seq(Logged) /\ log.torn \in BOOLEAN
    BY <1>1, <1>5, LogParts DEF TypeInv
  <2>2. log.entries \o writer.buffer \in Seq(Logged)
    BY <1>2, <2>1, ConcatProperties
  <2>3. PICK torn \in BOOLEAN : torn = (log.torn \/ writer.cut)
    BY <1>2, <2>1
  <2>4. log' = [log EXCEPT !.entries = log.entries \o writer.buffer, !.torn = log.torn \/ writer.cut]
    BY <1>5 DEF Flush, Linked
  <2>5. log' = [log EXCEPT !.entries = log.entries \o writer.buffer, !.torn = torn]
    BY <2>3, <2>4
  <2> QED  BY <2>1, <2>2, <2>5 DEF LogFile
<1>6. ~Linked => log' = log
    BY DEF Flush, Linked
<1> QED  BY <1>1, <1>3, <1>4, <1>5, <1>6, NonesOfPersist

LEMMA FlushKeepsTypes == ASSUME TypeInv, Flush PROVE TypeInv'
<1>1. TypeOK /\ writer.seen \in [Key -> Entry]
    BY FlushIs, WriterParts DEF TypeInv
<1>2. log' \in LogFile \union {NoFile}
    BY <1>1, FlushIs DEF TypeOK
<1>3. TypeOK'
    BY <1>1, <1>2, FlushIs DEF TypeOK
<1>4. Linked' => log' # NoFile
    BY FlushIs DEF TypeInv, Linked
<1> QED  BY <1>3, <1>4, FlushIs DEF TypeInv, Doing

(* What a writer leaves of the log when it goes away. *)
LEMMA LeftIs ==
    ASSUME TypeInv, LeavesLog
    PROVE  /\ ~Linked => log' = log
           /\ Linked => \E n \in 0..Len(writer.buffer) :
                /\ log' \in LogFile
                /\ log'.base = log.base /\ log'.headless = log.headless
                /\ log'.entries \in Seq(Logged) /\ Len(log'.entries) = Len(log.entries) + n
                /\ \A i \in 1..Len(log'.entries) : log'.entries[i] = (log.entries \o writer.buffer)[i]
<1>1. TypeOK /\ (Linked => writer # NoWriter /\ log \in LogFile)
    BY LogParts DEF TypeInv, Linked
<1>2. CASE Linked
  <2>1. log' \in Spilled(log)
    BY <1>2 DEF LeavesLog, Linked
  <2> QED  BY <1>1, <1>2, <2>1, SpilledIs
<1>3. CASE ~Linked
    BY <1>3 DEF LeavesLog, Linked
<1> QED  BY <1>2, <1>3

LEMMA CrashKeepsTypes == ASSUME TypeInv, Crash PROVE TypeInv'
<1>1. TypeOK /\ LeavesLog
    BY DEF TypeInv, Crash
<1>2. log' \in LogFile \union {NoFile}
    BY <1>1, LeftIs DEF TypeOK
<1>3. /\ status' = "down" /\ rev' = 0 /\ entry' = Unset /\ cell' = NoCell
      /\ replay' = NoReplay /\ op' = NoOp /\ writer' = NoWriter /\ UNCHANGED <<base, kept>>
    BY DEF Crash
<1>4. TypeOK'
    BY <1>1, <1>2, <1>3, RevisionsAreNat, UnsetIsTyped DEF TypeOK
<1> QED  BY <1>3, <1>4 DEF TypeInv, Doing, Linked

LEMMA CloseKeepsTypes == ASSUME TypeInv, CloseWriter PROVE TypeInv'
<1>1. TypeOK /\ LeavesLog /\ op = NoOp /\ status = "up"
    BY DEF TypeInv, CloseWriter
<1>2. log' \in LogFile \union {NoFile}
    BY <1>1, LeftIs DEF TypeOK
<1>3. writer' = NoWriter /\ UNCHANGED <<status, rev, entry, cell, op, base, kept, replay>>
    BY DEF CloseWriter, memory
<1>4. TypeOK'
    BY <1>1, <1>2, <1>3 DEF TypeOK
<1> QED  BY <1>1, <1>3, <1>4 DEF TypeInv, Doing, Linked

LEMMA LoadIs ==
    ASSUME Load
    PROVE  /\ status = "down" /\ status' = "loaded"
           /\ UNCHANGED <<replay, op, writer, base, log, kept>>
           /\ base = NoFile => UNCHANGED <<rev, entry, cell>>
           /\ base # NoFile => rev' = Loaded.rev /\ entry' = Loaded.entry /\ cell' = Loaded.cell
    BY DEF Load, memory, files, Loaded

LEMMA LoadKeepsTypes == ASSUME TypeInv, Load PROVE TypeInv'
<1>1. TypeOK
    BY DEF TypeInv
<1>2. rev' \in Revision /\ entry' \in [Key -> Entry] /\ cell' \in CellValue \union {NoCell}
    BY <1>1, LoadIs, SavedParts DEF TypeOK
<1>3. TypeOK'
    BY <1>1, <1>2, LoadIs DEF TypeOK
<1> QED  BY <1>3, LoadIs DEF TypeInv, Doing, Linked

LEMMA OpenIs ==
    ASSUME OpenLog
    PROVE  /\ status = "loaded" /\ replay = NoReplay
           /\ UNCHANGED <<rev, entry, cell, op, writer, base, log, kept>>
           /\ \/ log = NoFile /\ status' = "up" /\ replay' = NoReplay
              \/ log # NoFile /\ ~LogFits /\ status' = "failed" /\ replay' = NoReplay
              \/ log # NoFile /\ LogFits /\ status' = "loaded" /\ replay' = [next |-> 1, rev |-> rev]
<1>1. status = "loaded" /\ replay = NoReplay /\ UNCHANGED <<rev, entry, cell, op, writer, base, log, kept>>
    BY DEF OpenLog, memory, files
<1>2. CASE log = NoFile
  <2>1. ~LogFits
    BY <1>2 DEF LogFits
  <2>2. status' = "up" /\ replay' = NoReplay
    BY <1>2, <2>1 DEF OpenLog
  <2> QED  BY <1>1, <1>2, <2>2
<1>3. CASE log # NoFile /\ ~LogFits
  <2>1. status' = "failed" /\ replay' = NoReplay
    BY <1>3 DEF OpenLog
  <2> QED  BY <1>1, <1>3, <2>1
<1>4. CASE log # NoFile /\ LogFits
  <2>1. status' = "loaded" /\ replay' = [next |-> 1, rev |-> rev]
    BY <1>4 DEF OpenLog
  <2> QED  BY <1>1, <1>4, <2>1
<1> QED  BY <1>2, <1>3, <1>4

LEMMA OpenKeepsTypes == ASSUME TypeInv, OpenLog PROVE TypeInv'
<1>1. TypeOK /\ rev \in Revision
    BY DEF TypeInv, TypeOK
<1>2. replay' \in Replay \union {NoReplay} /\ status' \in {"loaded", "up", "failed"}
    BY <1>1, OpenIs DEF Replay
<1>3. TypeOK'
    BY <1>1, <1>2, OpenIs DEF TypeOK
<1>4. replay' # NoReplay => status' = "loaded" /\ log' # NoFile
    BY OpenIs
<1> QED  BY <1>3, <1>4, OpenIs DEF TypeInv, Doing, Linked

LEMMA ReplayIs ==
    ASSUME TypeInv, ReplayEntry
    PROVE  /\ replay \in Replay /\ replay.next \in 1..Len(log.entries) /\ replay.rev \in Revision
           /\ log # NoFile /\ log.entries[replay.next] \in Logged
           /\ entry' = Apply([entry |-> entry, cell |-> cell], log.entries[replay.next]).entry
           /\ cell' = Apply([entry |-> entry, cell |-> cell], log.entries[replay.next]).cell
           /\ replay' = [next |-> replay.next + 1, rev |-> Later(replay.rev, log.entries[replay.next])]
           /\ replay' \in Replay
           /\ UNCHANGED <<status, rev, op, writer, base, log, kept>>
<1>1. TypeOK /\ Replaying /\ log # NoFile
    BY DEF TypeInv, ReplayEntry, Replaying
<1>2. replay \in Replay /\ replay.next \in Nat \ {0} /\ replay.rev \in Revision /\ log.entries \in Seq(Logged)
    BY <1>1, LogParts DEF TypeOK, Replaying, Replay
<1>3. replay.next \in 1..Len(log.entries)
    BY <1>2, LenProperties DEF ReplayEntry
<1>4. log.entries[replay.next] \in Logged
    BY <1>2, <1>3, ElementOfSeq
<1>5. Later(replay.rev, log.entries[replay.next]) \in Revision
    BY <1>2, <1>4, LoggedParts DEF Later
<1>6. replay' = [next |-> replay.next + 1, rev |-> Later(replay.rev, log.entries[replay.next])]
    BY DEF ReplayEntry
<1>7. replay' \in Replay
    BY <1>2, <1>5, <1>6 DEF Replay
<1> QED  BY <1>1, <1>2, <1>3, <1>4, <1>6, <1>7 DEF ReplayEntry, files

LEMMA ReplayKeepsTypes == ASSUME TypeInv, ReplayEntry PROVE TypeInv'
<1> DEFINE m == [entry |-> entry, cell |-> cell]
           e == log.entries[replay.next]
<1>1. TypeOK /\ m \in Memory /\ e \in Logged
    BY ReplayIs DEF TypeInv, TypeOK, Memory
<1> HIDE DEF m, e
<1>2. Apply(m, e) \in Memory
    BY <1>1, Applied
<1>3. entry' \in [Key -> Entry] /\ cell' \in CellValue \union {NoCell}
    BY <1>2, ReplayIs DEF Memory, m, e
<1>4. TypeOK'
    BY <1>1, <1>3, ReplayIs DEF TypeOK
<1>5. status = "loaded"
    BY DEF ReplayEntry, Replaying
<1> QED  BY <1>4, <1>5, ReplayIs DEF TypeInv, Doing, Linked

LEMMA EndIs ==
    ASSUME TypeInv, EndReplay
    PROVE  /\ status = "loaded" /\ replay # NoReplay /\ replay \in Replay /\ replay.rev \in Revision
           /\ replay' = NoReplay /\ log # NoFile
           /\ UNCHANGED <<entry, cell, op, writer, base, log, kept>>
           /\ \/ log.torn /\ status' = "failed" /\ rev' = rev
              \/ ~log.torn /\ status' = "up" /\ rev' = replay.rev
    BY DEF TypeInv, TypeOK, EndReplay, Replaying, Replay, files

LEMMA EndKeepsTypes == ASSUME TypeInv, EndReplay PROVE TypeInv'
<1>1. TypeOK
    BY DEF TypeInv
<1>2. TypeOK'
    BY <1>1, EndIs DEF TypeOK
<1> QED  BY <1>2, EndIs DEF TypeInv, Doing, Linked

LEMMA DiscardKeepsTypes == ASSUME TypeInv, DiscardLog PROVE TypeInv'
<1>1. TypeOK /\ status = "failed" /\ status' = "down"
    BY DEF TypeInv, DiscardLog
<1>2. UNCHANGED <<replay, op, writer, base>> /\ rev' = 0 /\ entry' = Unset /\ cell' = NoCell /\ log' = NoFile
    BY DEF DiscardLog
<1>3. kept' \in [Key -> Entry]
    BY <1>1, SavedParts, UnsetIsTyped DEF DiscardLog, Loaded, TypeOK
<1>4. TypeOK'
    BY <1>1, <1>2, <1>3, RevisionsAreNat, UnsetIsTyped DEF TypeOK
<1> QED  BY <1>1, <1>2, <1>4 DEF TypeInv, Doing, Linked

LEMMA InitIsTyped == Init => TypeInv
<1> SUFFICES ASSUME Init PROVE TypeInv
    OBVIOUS
<1>1. TypeOK
    BY RevisionsAreNat, UnsetIsTyped DEF Init, TypeOK
<1> QED  BY <1>1 DEF Init, TypeInv, Doing, Linked

LEMMA StepKeepsTypes == ASSUME TypeInv, [Next]_vars PROVE TypeInv'
<1>1. CASE UNCHANGED vars
  <2>1. UNCHANGED <<status, rev, entry, cell, replay, op, writer, base, log, kept>>
    BY <1>1 DEF vars, memory, files
  <2> QED  BY <2>1 DEF TypeInv, TypeOK, Doing, Linked
<1>2. CASE Work
    BY <1>2, WorkKeepsTypes
<1>3. CASE Steps
    BY <1>3, CollectKeepsTypes, InstallKeepsTypes, TakeKeepsTypes, ErrorKeepsTypes, AppendKeepsTypes DEF Steps
<1>4. CASE Restart
    BY <1>4, CrashKeepsTypes, LoadKeepsTypes, OpenKeepsTypes, ReplayKeepsTypes, EndKeepsTypes,
       DiscardKeepsTypes DEF Restart
<1> QED  BY <1>1, <1>2, <1>3, <1>4, BeginKeepsTypes, FlushKeepsTypes, CloseKeepsTypes DEF Next

(* Every variable has its type, and no call is past its last step, whatever    *)
(* the program does: also when it writes the database during a save, or writes *)
(* to a log that was compacted under it.                                       *)
THEOREM PersistTypeCorrect == Spec => []TypeOK
<1>1. Init => TypeInv
    BY InitIsTyped
<1>2. TypeInv /\ [Next]_vars => TypeInv'
    BY StepKeepsTypes
<1>3. TypeInv => TypeOK
    BY DEF TypeInv
<1> QED  BY <1>1, <1>2, <1>3, PTL DEF Spec

-----------------------------------------------------------------------------
(* The story *)

LEMMA InvariantIsTyped == ASSUME PersistInv PROVE TypeInv
<1>1. replay # NoReplay => status = "loaded" /\ log # NoFile
  <2>1. Replaying => log # NoFile
    BY DEF PersistInv, StoryIsTold, ReplaysStory, Continues
  <2> QED  BY <2>1 DEF PersistInv, StatusFits, Replaying
<1>2. Linked => log # NoFile
    BY DEF PersistInv, WriterFits
<1>3. status # "up" => op = NoOp /\ writer = NoWriter
    BY DEF PersistInv, StatusFits
<1>4. Doing("append") => writer # NoWriter
    BY DEF PersistInv, CallsAreOnTheirWay, Spent, Usable
<1> QED  BY <1>1, <1>2, <1>3, <1>4 DEF PersistInv, TypeInv

(* What is written and buffered are sequences of entries, and so is all that *)
(* is told.                                                                  *)
LEMMA TellingIsTyped ==
    TypeOK =>
        /\ Written \in Seq(Logged) /\ Pending \in Seq(Logged) /\ Told \in Seq(Logged)
        /\ Len(Written) \in Nat /\ Len(Pending) \in Nat /\ Len(Told) = Len(Written) + Len(Pending)
        /\ Len(Written) <= Len(Told)
<1> SUFFICES ASSUME TypeOK
             PROVE  /\ Written \in Seq(Logged) /\ Pending \in Seq(Logged) /\ Told \in Seq(Logged)
                    /\ Len(Written) \in Nat /\ Len(Pending) \in Nat
                    /\ Len(Told) = Len(Written) + Len(Pending) /\ Len(Written) <= Len(Told)
    OBVIOUS
<1>1. <<>> \in Seq(Logged)
    BY EmptySeq
<1>2. Written \in Seq(Logged)
    BY <1>1, LogParts DEF Written, Continues
<1>3. Pending \in Seq(Logged)
    BY <1>1, WriterParts DEF Pending, Usable
<1>4. Told \in Seq(Logged) /\ Len(Told) = Len(Written) + Len(Pending)
    BY <1>2, <1>3, ConcatProperties DEF Told
<1>5. Len(Written) \in Nat /\ Len(Pending) \in Nat
    BY <1>2, <1>3, LenProperties
<1> QED  BY <1>2, <1>3, <1>4, <1>5

(* What is reached is reached also after more entries. *)
LEMMA ReachedLater ==
    ASSUME NEW s, NEW t, NEW n \in Nat, NEW m \in Nat, n <= m, NEW r,
           \A i \in 1..n : t[i] = s[i], Reached(s, n, r)
    PROVE  Reached(t, m, r)
<1>1. CASE r <= Loaded.rev
    BY <1>1 DEF Reached
<1>2. ASSUME NEW i \in 1..n, r <= s[i].at PROVE Reached(t, m, r)
  <2>1. i \in 1..m /\ t[i] = s[i]
    OBVIOUS
  <2> QED  BY <1>2, <2>1 DEF Reached
<1> QED  BY <1>1, <1>2 DEF Reached

LEMMA MomentLater ==
    ASSUME NEW s, NEW t, NEW n \in Nat, NEW m,
           \A i \in 1..n : t[i] = s[i], GoodMoment(s, n, m)
    PROVE  GoodMoment(t, n, m)
<1>1. \A k \in Key : Reached(t, n, m.entry[k].ch)
    BY ReachedLater DEF GoodMoment
<1>2. m.cell # NoCell => Reached(t, n, m.cell.ver)
    BY ReachedLater DEF GoodMoment
<1> QED  BY <1>1, <1>2 DEF GoodMoment

(* A process with the base in memory that has just been written has a story  *)
(* of no entries.                                                            *)
FreshBase ==
    /\ TypeOK /\ status = "up" /\ UpIsSound /\ BaseIsCurrent /\ Written = <<>>
    /\ Usable => writer.seen = entry /\ writer.buffer = <<>>

LEMMA FreshStory == FreshBase => StoryIsTold
<1> SUFFICES ASSUME FreshBase PROVE StoryIsTold
    OBVIOUS
<1> DEFINE m == [entry |-> entry, cell |-> cell]
           f == [n \in 0..0 |-> m]
<1>1. TypeOK /\ status = "up" /\ BaseIsCurrent
    BY DEF FreshBase
<1>2. Loaded = [rev |-> rev, entry |-> entry, cell |-> cell]
  <2>1. [rev |-> rev, entry |-> entry, cell |-> cell] \in Saved
    BY <1>1 DEF TypeOK, Saved
  <2>2. base # NoFile
    BY <1>1, <2>1, NonesOfPersist DEF BaseIsCurrent
  <2> QED  BY <1>1, <2>2 DEF Loaded, BaseIsCurrent
<1>3. Written = <<>> /\ Pending = <<>>
    BY DEF FreshBase, Pending
<1>4. Told = <<>> /\ Len(Told) = 0 /\ Len(Written) = 0
  <2>1. <<>> \in Seq(Logged) /\ Len(<<>>) = 0
    BY EmptySeq
  <2>2. <<>> \o <<>> = <<>>
    BY <2>1, ConcatEmptySeq
  <2> QED  BY <1>3, <2>1, <2>2 DEF Told
<1>5. m \in Memory /\ m.entry = entry /\ m.cell = cell
    BY <1>1 DEF TypeOK, Memory
<1> HIDE DEF m
<1>6. f \in [0..0 -> Memory] /\ f[0] = m
    BY <1>5
<1> HIDE DEF f
<1>7. IsStory(f, Told)
  <2>1. f[0] = [entry |-> Loaded.entry, cell |-> Loaded.cell]
    BY <1>2, <1>6 DEF m
  <2>2. 1..0 = {}
    OBVIOUS
  <2> QED  BY <1>4, <1>6, <2>1, <2>2 DEF IsStory
<1>8. GoodMoment(Told, 0, m) /\ Keeps(m.entry)
  <2>1. NoNewer(entry, rev) /\ CellFits(entry, cell) /\ (cell # NoCell => cell.ver <= rev) /\ Keeps(entry)
    BY <1>1 DEF FreshBase, UpIsSound
  <2>2. \A k \in Key : Reached(Told, 0, entry[k].ch)
    BY <1>2, <2>1 DEF Reached, NoNewer
  <2>3. cell # NoCell => Reached(Told, 0, cell.ver)
    BY <1>2, <2>1 DEF Reached
  <2> QED  BY <1>5, <2>1, <2>2, <2>3 DEF GoodMoment
<1>9. GoodStory(f)
  <2>1. \A n \in 0..Len(Told) : n = 0
    BY <1>4
  <2>2. \A n \in Len(Written)..Len(Told) : n = 0
    BY <1>4
  <2> QED  BY <1>6, <1>7, <1>8, <2>1, <2>2 DEF GoodStory
<1>10. ReplaysStory(f)
    BY <1>1 DEF ReplaysStory, Replaying
<1>11. Usable => EndsAsSeen(f[Len(Told)])
  <2>1. cell # NoCell => cell.ver <= rev
    BY <1>1 DEF FreshBase, UpIsSound
  <2> QED  BY <1>4, <1>5, <1>6, <2>1 DEF EndsAsSeen, FreshBase
<1> QED  BY <1>9, <1>10, <1>11 DEF StoryIsTold

(* The same is told, and what the files are to hold now is there as well. *)
LEMMA StoryStays ==
    ASSUME NEW f, GoodStory(f), Loaded' = Loaded, Told' = Told,
           \A n \in Len(Written')..Len(Told) : Keeps(f[n].entry)'
    PROVE  GoodStory(f)'
<1>1. IsStory(f, Told)'
    BY DEF GoodStory, IsStory
<1>2. ASSUME NEW n \in 0..Len(Told) PROVE GoodMoment(Told, n, f[n])'
  <2>1. GoodMoment(Told, n, f[n])
    BY DEF GoodStory
  <2>2. \A r : Reached(Told, n, r)' <=> Reached(Told, n, r)
    BY DEF Reached
  <2>3. CellFits(f[n].entry, f[n].cell)' <=> CellFits(f[n].entry, f[n].cell)
    BY DEF CellFits, NoNewer, ValuesOf
  <2> QED  BY <2>1, <2>2, <2>3 DEF GoodMoment
<1> QED  BY <1>1, <1>2 DEF GoodStory

(* The same files tell the same story. *)
LEMMA SameStory ==
    ASSUME NEW f, GoodStory(f), Loaded' = Loaded, Written' = Written, Told' = Told, kept' = kept
    PROVE  GoodStory(f)'
<1>1. \A n \in Len(Written')..Len(Told) : Keeps(f[n].entry)'
    BY DEF GoodStory, Keeps, Follows
<1> QED  BY <1>1, StoryStays

(* A story goes on with the entries R as h says. *)
LEMMA LongerStory ==
    ASSUME TypeOK, TypeOK', NEW f, GoodStory(f), NEW R \in Seq(Logged), NEW h \in [0..Len(R) -> Memory],
           h[0] = f[Len(Told)],
           UNCHANGED <<base, log, kept>>, Told' = Told \o R,
           \A i \in 1..Len(R) :
                /\ h[i] = Apply(h[i - 1], R[i])
                /\ GoodMoment(Told \o R, Len(Told) + i, h[i])
                /\ Keeps(h[i].entry)
    PROVE  \E g : GoodStory(g)' /\ g[Len(Told')] = h[Len(R)]
<1> DEFINE L == Len(Told)
           T == Told \o R
           N == Len(R)
<1>1. L \in Nat /\ N \in Nat /\ Told \in Seq(Logged) /\ Len(Written) \in Nat /\ Len(Written) <= L
    BY TellingIsTyped, LenProperties
<1>2. T \in Seq(Logged) /\ Len(T) = L + N
      /\ \A i \in 1..L + N : T[i] = IF i <= L THEN Told[i] ELSE R[i - L]
    BY <1>1, ConcatProperties
<1>3. Loaded' = Loaded /\ Continues' = Continues /\ Written' = Written /\ Told' = T
    BY DEF Loaded, Continues, Written
<1>4. /\ f \in [0..L -> Memory]
      /\ f[0] = [entry |-> Loaded.entry, cell |-> Loaded.cell]
      /\ \A n \in 1..L : f[n] = Apply(f[n - 1], Told[n])
      /\ \A n \in 0..L : GoodMoment(Told, n, f[n])
      /\ \A n \in Len(Written)..L : Keeps(f[n].entry)
    BY DEF GoodStory, IsStory
<1>5. /\ h \in [0..N -> Memory] /\ h[0] = f[L]
      /\ \A i \in 1..N : /\ h[i] = Apply(h[i - 1], R[i])
                         /\ GoodMoment(T, L + i, h[i])
                         /\ Keeps(h[i].entry)
    OBVIOUS
<1>6. PICK g \in [0..L + N -> Memory] :
        (\A n \in 0..L : g[n] = f[n]) /\ (\A i \in 0..N : g[L + i] = h[i])
  <2> DEFINE d == [n \in 0..L + N |-> IF n <= L THEN f[n] ELSE h[n - L]]
  <2>1. ASSUME NEW n \in 0..L + N PROVE (IF n <= L THEN f[n] ELSE h[n - L]) \in Memory
    <3>1. n <= L => n \in 0..L
      BY <1>1
    <3>2. ~(n <= L) => n - L \in 0..N
      BY <1>1
    <3> QED  BY <1>4, <1>5, <3>1, <3>2
  <2>2. d \in [0..L + N -> Memory]
    BY <2>1
  <2>3. \A n \in 0..L : d[n] = f[n]
    BY <1>1
  <2>4. ASSUME NEW i \in 0..N PROVE d[L + i] = h[i]
    <3>1. L + i \in 0..L + N /\ (L + i) - L = i
      BY <1>1
    <3>2. CASE i = 0
      <4>1. L \in 0..L /\ L + i = L
        BY <1>1, <3>2
      <4> QED  BY <1>5, <2>3, <3>2, <4>1
    <3>3. CASE i # 0
      <4>1. ~(L + i <= L)
        BY <1>1, <3>3
      <4> QED  BY <3>1, <4>1
    <3> QED  BY <3>2, <3>3
  <2> HIDE DEF d
  <2> QED  BY <2>2, <2>3, <2>4
<1>9. \A n \in 0..L + N : n \in 0..L \/ \E i \in 1..N : n = L + i
  <2> SUFFICES ASSUME NEW n \in 0..L + N, n \notin 0..L PROVE \E i \in 1..N : n = L + i
    OBVIOUS
  <2>1. n - L \in 1..N /\ n = L + (n - L)
    BY <1>1
  <2> QED  BY <2>1
<1> HIDE DEF T, N, L
<1>10. \A n \in 1..L + N : g[n] = Apply(g[n - 1], T[n])
  <2> SUFFICES ASSUME NEW n \in 1..L + N PROVE g[n] = Apply(g[n - 1], T[n])
    OBVIOUS
  <2>1. CASE n \in 0..L
    <3>1. n \in 1..L /\ n - 1 \in 0..L /\ T[n] = Told[n]
      BY <1>1, <1>2, <2>1
    <3> QED  BY <1>4, <1>6, <2>1, <3>1
  <2>2. ASSUME NEW i \in 1..N, n = L + i PROVE g[n] = Apply(g[n - 1], T[n])
    <3>1. n - 1 = L + (i - 1) /\ i - 1 \in 0..N /\ i \in 0..N /\ ~(n <= L) /\ n - L = i
      BY <1>1, <2>2
    <3>2. T[n] = R[i]
      BY <1>2, <3>1
    <3>3. g[n] = h[i] /\ g[n - 1] = h[i - 1]
      BY <1>6, <2>2, <3>1
    <3> QED  BY <1>5, <3>2, <3>3
  <2>3. n \in 0..L + N
    BY <1>1
  <2> QED  BY <1>9, <2>1, <2>2, <2>3
<1>11. \A n \in 0..L + N : GoodMoment(T, n, g[n])
  <2> SUFFICES ASSUME NEW n \in 0..L + N PROVE GoodMoment(T, n, g[n])
    OBVIOUS
  <2>1. CASE n \in 0..L
    <3>1. \A i \in 1..n : T[i] = Told[i]
      BY <1>1, <1>2, <2>1
    <3>2. GoodMoment(Told, n, f[n]) /\ n \in Nat
      BY <1>1, <1>4, <2>1
    <3>3. GoodMoment(T, n, f[n])
      BY <3>1, <3>2, MomentLater
    <3> QED  BY <1>6, <2>1, <3>3
  <2>2. ASSUME NEW i \in 1..N, n = L + i PROVE GoodMoment(T, n, g[n])
    <3>1. i \in 0..N
      BY <1>1
    <3> QED  BY <1>5, <1>6, <2>2, <3>1
  <2> QED  BY <1>9, <2>1, <2>2
<1>12. \A n \in Len(Written)..L + N : Keeps(g[n].entry)
  <2> SUFFICES ASSUME NEW n \in Len(Written)..L + N PROVE Keeps(g[n].entry)
    OBVIOUS
  <2>1. n \in 0..L + N
    BY <1>1
  <2>2. CASE n \in 0..L
    <3>1. n \in Len(Written)..L
      BY <1>1, <2>2
    <3> QED  BY <1>4, <1>6, <2>2, <3>1
  <2>3. ASSUME NEW i \in 1..N, n = L + i PROVE Keeps(g[n].entry)
    <3>1. i \in 0..N
      BY <1>1
    <3> QED  BY <1>5, <1>6, <2>3, <3>1
  <2> QED  BY <1>9, <2>1, <2>2, <2>3
<1>13. g[0] = [entry |-> Loaded.entry, cell |-> Loaded.cell]
  <2>1. 0 \in 0..L
    BY <1>1
  <2> QED  BY <1>4, <1>6, <2>1
<1>14. GoodStory(g)'
  <2>1. IsStory(g, Told)'
    BY <1>2, <1>3, <1>6, <1>10, <1>13 DEF IsStory
  <2>2. \A n \in 0..Len(Told') : GoodMoment(Told, n, g[n])'
    <3> SUFFICES ASSUME NEW n \in 0..L + N PROVE GoodMoment(Told, n, g[n])'
      BY <1>2, <1>3
    <3>1. GoodMoment(T, n, g[n])
      BY <1>11
    <3>2. \A r : Reached(Told, n, r)' <=> Reached(T, n, r)
      BY <1>3 DEF Reached
    <3>3. CellFits(g[n].entry, g[n].cell)' <=> CellFits(g[n].entry, g[n].cell)
      BY DEF CellFits, NoNewer, ValuesOf
    <3> QED  BY <3>1, <3>2, <3>3 DEF GoodMoment
  <2>3. \A n \in Len(Written')..Len(Told') : Keeps(g[n].entry)'
    BY <1>2, <1>3, <1>12 DEF Keeps, Follows
  <2> QED  BY <2>1, <2>2, <2>3 DEF GoodStory
<1>15. g[Len(Told')] = h[N]
  <2>1. N \in 0..N
    BY <1>1
  <2>2. Len(Told') = L + N
    BY <1>2, <1>3
  <2> QED  BY <1>6, <2>1, <2>2
<1> QED  BY <1>14, <1>15 DEF N

-----------------------------------------------------------------------------
(* The invariant, step by step: calls that collect *)

LEMMA NothingToldAnew ==
    ASSUME StoryIsTold, UNCHANGED <<status, replay, rev, entry, cell, writer, base, log, kept>>
    PROVE  StoryIsTold'
<1>1. PICK f : GoodStory(f) /\ ReplaysStory(f) /\ (Usable => EndsAsSeen(f[Len(Told)]))
    BY DEF StoryIsTold
<1>2. Loaded' = Loaded /\ Continues' = Continues /\ Usable' = Usable /\ Written' = Written /\ Told' = Told
    BY DEF Loaded, Continues, Usable, Written, Pending, Told
<1>3. GoodStory(f)'
    BY <1>1, <1>2, SameStory
<1>4. ReplaysStory(f)'
    BY <1>1, <1>2 DEF ReplaysStory, Replaying
<1>5. (Usable => EndsAsSeen(f[Len(Told)]))'
    BY <1>1, <1>2 DEF EndsAsSeen
<1> QED  BY <1>3, <1>4, <1>5 DEF StoryIsTold

\* A step that only brings the call under way on.
LEMMA OnlyTheCall ==
    ASSUME PersistInv, UNCHANGED <<status, replay, rev, entry, cell, writer, base, log, kept>>,
           TypeOK', status # "up" => op' = NoOp,
           CallsAreOnTheirWay'
    PROVE  PersistInv'
<1>1. StoryIsTold'
    BY NothingToldAnew DEF PersistInv
<1>2. Loaded' = Loaded /\ Continues' = Continues /\ Usable' = Usable /\ Linked' = Linked
    BY DEF Loaded, Continues, Usable, Linked
<1>3. StatusFits'
    BY <1>2 DEF PersistInv, StatusFits, Keeps, Follows
<1>4. UpIsSound'
    BY DEF PersistInv, UpIsSound, NoNewer, CellFits, ValuesOf, Keeps, Follows
<1>5. EntriesAreLater'
    BY <1>2 DEF PersistInv, EntriesAreLater
<1>6. WriterFits'
    BY <1>2 DEF PersistInv, WriterFits, Follows
<1> QED  BY <1>1, <1>3, <1>4, <1>5, <1>6 DEF PersistInv

LEMMA BeginKeeps ==
    ASSUME PersistInv, NEW call \in DOMAIN Plan, NEW cellsFirst \in BOOLEAN,
           Allowed(call, cellsFirst), Begin(call, cellsFirst)
    PROVE  PersistInv'
<1>1. TypeInv /\ TypeInv' /\ status = "up"
    BY InvariantIsTyped, BeginKeepsTypes DEF Begin
<1>2. UNCHANGED <<status, replay, rev, entry, cell, writer, base, log, kept>>
    BY DEF Begin, memory, files
<1>3. op' = [call |-> call, cellsFirst |-> cellsFirst, i |-> 1,
             entry |-> Unset, cell |-> NoCell, rev |-> 0, next |-> 0]
    BY DEF Begin
<1>4. op'.call = call /\ op'.cellsFirst = cellsFirst /\ op'.i = 1
    BY <1>3
<1>5. call \in {"save", "compact", "append"}
    BY PlanIs
<1>6. (call = "append" => Usable /\ ~writer.cut /\ ~cellsFirst) /\ (call = "save" => Spent)
    BY DEF Allowed
<1>7. Usable' = Usable /\ Spent' = Spent /\ BaseIsCurrent' = BaseIsCurrent
    BY <1>2 DEF Usable, Spent, BaseIsCurrent
<1>8. CallsAreOnTheirWay'
    BY <1>2, <1>3, <1>4, <1>5, <1>6, <1>7 DEF CallsAreOnTheirWay, Doing
<1> QED  BY <1>1, <1>2, <1>8, OnlyTheCall DEF TypeInv

LEMMA ErrorKeeps == ASSUME PersistInv, IoError PROVE PersistInv'
<1>1. TypeInv'
    BY InvariantIsTyped, ErrorKeepsTypes
<1>2. op' = NoOp /\ UNCHANGED <<status, replay, rev, entry, cell, writer, base, log, kept>>
    BY DEF IoError, memory, files
<1>3. CallsAreOnTheirWay'
    BY <1>2 DEF CallsAreOnTheirWay, Doing
<1> QED  BY <1>1, <1>2, <1>3, OnlyTheCall DEF TypeInv

(* What has been collected is what there is, for nothing changes meanwhile. *)
LEMMA CollectKeeps ==
    ASSUME PersistInv, CollectInputs \/ CollectCells \/ ReadRevision \/ RereadRevision
    PROVE  PersistInv'
<1>1. TypeInv /\ TypeInv' /\ TypeOK /\ op # NoOp /\ op \in Operation /\ status = "up"
      /\ op.call \in {"save", "compact"} /\ op.i \in Nat \ {0} /\ op.cellsFirst \in BOOLEAN
  <2>1. TypeInv /\ TypeInv' /\ TypeOK
    BY InvariantIsTyped, CollectKeepsTypes DEF TypeInv
  <2>2. At("inputs") \/ At("cells") \/ At("revision") \/ At("reread")
    BY DEF CollectInputs, CollectCells, ReadRevision, RereadRevision
  <2>3. op # NoOp /\ op.call \in {"save", "compact"}
    BY <2>1, <2>2, AtPlaces
  <2> QED  BY <2>1, <2>3, OpParts DEF TypeInv
<1>2. UNCHANGED <<status, replay, rev, entry, cell, writer, base, log, kept>>
    BY DEF CollectInputs, CollectCells, ReadRevision, RereadRevision, memory, files
<1>3. /\ op' # NoOp /\ op'.i = op.i + 1 /\ op'.call = op.call /\ op'.cellsFirst = op.cellsFirst
      /\ op'.entry = IF At("inputs") THEN entry ELSE op.entry
      /\ op'.cell = IF At("cells") THEN cell ELSE op.cell
      /\ op'.rev = IF At("revision") THEN rev ELSE op.rev
      /\ op'.next = IF At("reread") THEN rev ELSE op.next
  <2>1. op.i < 6 /\ op.i # Len(Plan[op.call])
    <3>1. op.i < 6
      BY <1>1, AtPlaces DEF CollectInputs, CollectCells, ReadRevision, RereadRevision
    <3>2. CASE op.call = "save"
      BY <3>1, <3>2, PlanLengths
    <3>3. CASE op.call = "compact"
      BY <3>1, <3>3, PlanLengths
    <3> QED  BY <1>1, <3>1, <3>2, <3>3
  <2>2. entry \in [Key -> Entry] /\ cell \in CellValue \union {NoCell} /\ rev \in Revision
    BY <1>1 DEF TypeOK
  <2>3. CASE CollectInputs
    <3>1. [op EXCEPT !.entry = entry] \in Operation
      BY <1>1, <2>2 DEF Operation
    <3>2. At("inputs") /\ ~At("cells") /\ ~At("revision") /\ ~At("reread") /\ Advance([op EXCEPT !.entry = entry])
      BY <2>3 DEF CollectInputs, At
    <3> QED  BY <1>1, <2>1, <3>1, <3>2, Advancing DEF Operation
  <2>4. CASE CollectCells
    <3>1. [op EXCEPT !.cell = cell] \in Operation
      BY <1>1, <2>2 DEF Operation
    <3>2. At("cells") /\ ~At("inputs") /\ ~At("revision") /\ ~At("reread") /\ Advance([op EXCEPT !.cell = cell])
      BY <2>4 DEF CollectCells, At
    <3> QED  BY <1>1, <2>1, <3>1, <3>2, Advancing DEF Operation
  <2>5. CASE ReadRevision
    <3>1. [op EXCEPT !.rev = rev] \in Operation
      BY <1>1, <2>2 DEF Operation
    <3>2. At("revision") /\ ~At("inputs") /\ ~At("cells") /\ ~At("reread") /\ Advance([op EXCEPT !.rev = rev])
      BY <2>5 DEF ReadRevision, At
    <3> QED  BY <1>1, <2>1, <3>1, <3>2, Advancing DEF Operation
  <2>6. CASE RereadRevision
    <3>1. [op EXCEPT !.next = rev] \in Operation
      BY <1>1, <2>2 DEF Operation
    <3>2. At("reread") /\ ~At("inputs") /\ ~At("cells") /\ ~At("revision") /\ Advance([op EXCEPT !.next = rev])
      BY <2>6 DEF RereadRevision, At
    <3> QED  BY <1>1, <2>1, <3>1, <3>2, Advancing DEF Operation
  <2> QED  BY <2>3, <2>4, <2>5, <2>6
<1>4. /\ At("inputs") \/ At("cells") \/ At("revision") \/ At("reread")
      /\ At("inputs") => op.i = IF op.cellsFirst THEN 2 ELSE 1
      /\ At("cells") => op.i = IF op.cellsFirst THEN 1 ELSE 2
      /\ At("revision") => op.i = 3
      /\ At("reread") => ((op.call = "save" /\ op.i = 5) \/ (op.call = "compact" /\ op.i = 4))
    BY <1>1, AtPlaces DEF CollectInputs, CollectCells, ReadRevision, RereadRevision
<1>5. CallsAreOnTheirWay'
  <2>1. /\ op.i > 1 => IF op.cellsFirst THEN op.cell = cell ELSE op.entry = entry
        /\ op.i > 2 => op.entry = entry /\ op.cell = cell
        /\ op.i > 3 => op.rev = rev
    BY <1>1 DEF PersistInv, CallsAreOnTheirWay, Doing
  <2>2. /\ op'.i > 1 => IF op'.cellsFirst THEN op'.cell = cell ELSE op'.entry = entry
        /\ op'.i > 2 => op'.entry = entry /\ op'.cell = cell
        /\ op'.i > 3 => op'.rev = rev
    <3>1. CASE op.cellsFirst
      BY <1>1, <1>3, <1>4, <2>1, <3>1
    <3>2. CASE ~op.cellsFirst
      BY <1>1, <1>3, <1>4, <2>1, <3>2
    <3> QED  BY <3>1, <3>2
  <2>3. BaseIsCurrent' = BaseIsCurrent /\ Spent' = Spent
    BY <1>2 DEF BaseIsCurrent, Spent
  <2>4. op.call = "save" => Spent /\ (op'.i > 4 => BaseIsCurrent) /\ (op'.i > 5 => op'.next = rev)
    <3> SUFFICES ASSUME op.call = "save"
                 PROVE  Spent /\ (op'.i > 4 => BaseIsCurrent) /\ (op'.i > 5 => op'.next = rev)
      OBVIOUS
    <3>1. Spent /\ (op.i > 4 => BaseIsCurrent) /\ (op.i > 5 => op.next = rev)
      BY <1>1 DEF PersistInv, CallsAreOnTheirWay, Doing
    <3> QED  BY <1>1, <1>3, <1>4, <3>1
  <2>5. op.call = "compact" => (op'.i > 4 => op'.next = rev) /\ op'.i <= 5
    <3> SUFFICES ASSUME op.call = "compact" PROVE (op'.i > 4 => op'.next = rev) /\ op'.i <= 5
      OBVIOUS
    <3>1. op.i > 4 => op.next = rev
      BY <1>1 DEF PersistInv, CallsAreOnTheirWay, Doing
    <3> QED  BY <1>1, <1>3, <1>4, <3>1
  <2>6. op.call = "compact" => ~(op'.i > 5) /\ ~(op'.i > 6)
    BY <1>1, <1>3, <2>5
  <2>7. op'.call # "append"
    BY <1>1, <1>3
  <2> QED  BY <1>2, <1>3, <2>2, <2>3, <2>4, <2>5, <2>6, <2>7 DEF CallsAreOnTheirWay, Doing
<1> QED  BY <1>1, <1>2, <1>5, OnlyTheCall DEF TypeInv

-----------------------------------------------------------------------------
(* Calls that install: the base and the log are put in place *)

LEMMA FollowsOn ==
    ASSUME NEW d \in [Key -> Entry], NEW e \in [Key -> Entry], NEW c \in [Key -> Entry],
           Follows(e, d), Follows(d, c)
    PROVE  Follows(e, c)
<1>1. \A k \in Key : d[k].ch \in Nat /\ e[k].ch \in Nat /\ c[k].ch \in Nat
    BY RevisionsAreNat DEF Entry
<1>2. ASSUME NEW k \in Key PROVE e[k] = c[k] \/ e[k].ch > c[k].ch
  <2>1. (e[k] = d[k] \/ e[k].ch > d[k].ch) /\ (d[k] = c[k] \/ d[k].ch > c[k].ch)
    BY DEF Follows
  <2> QED  BY <1>1, <2>1
<1> QED  BY <1>2 DEF Follows

(* What a writer has seen is in the memory, or has been overwritten. *)
LEMMA SeenIsKept ==
    ASSUME PersistInv, writer # NoWriter
    PROVE  /\ status = "up" /\ base # NoFile /\ writer.base <= base.rev /\ base.rev <= rev
           /\ writer.seen \in [Key -> Entry] /\ Follows(entry, writer.seen)
<1>1. TypeOK /\ status = "up" /\ base # NoFile /\ writer.base <= base.rev /\ base.rev <= rev
    BY DEF PersistInv, StatusFits, WriterFits
<1>2. writer.seen \in [Key -> Entry] /\ entry \in [Key -> Entry] /\ kept \in [Key -> Entry]
    BY <1>1, WriterParts DEF TypeOK
<1>3. CASE Usable
  <2>1. PICK m : EndsAsSeen(m)
    BY <1>3 DEF PersistInv, StoryIsTold
  <2> QED  BY <1>1, <1>2, <2>1 DEF EndsAsSeen, Follows
<1>4. CASE ~Usable
  <2>1. Follows(kept, writer.seen) /\ Follows(entry, kept)
    BY <1>1, <1>4 DEF PersistInv, WriterFits, UpIsSound, Keeps
  <2>2. Follows(entry, writer.seen)
    BY <1>2, <2>1, FollowsOn
  <2> QED  BY <1>1, <1>2, <2>2
<1> QED  BY <1>3, <1>4

\* A step of a save or a compaction that leaves a current base and a log with
\* nothing in it that continues the base.
LEMMA FreshFiles ==
    ASSUME PersistInv, TypeOK', UNCHANGED <<status, replay, rev, entry, cell>>, status = "up",
           BaseIsCurrent', (Written = <<>>)',
           log' # NoFile => \A i \in 1..Len(log'.entries) :
                log'.entries[i].at > log'.base /\ log'.entries[i].at <= rev,
           writer' # NoWriter => writer'.base <= rev,
           Linked' => /\ log' # NoFile /\ ~log'.headless /\ log'.base = writer'.base
                      /\ \A i \in 1..Len(writer'.buffer) :
                            writer'.buffer[i].at > writer'.base /\ writer'.buffer[i].at <= rev,
           Usable' => writer'.seen = entry /\ writer'.buffer = <<>>,
           writer' # NoWriter /\ ~Usable' => Follows(entry, writer'.seen),
           CallsAreOnTheirWay'
    PROVE  PersistInv'
<1>1. UpIsSound'
  <2>1. Keeps(entry)'
    BY DEF Keeps, Follows, BaseIsCurrent
  <2>2. (NoNewer(entry, rev) /\ CellFits(entry, cell) /\ (cell # NoCell => cell.ver <= rev))'
    BY DEF PersistInv, UpIsSound, NoNewer, CellFits, ValuesOf
  <2> QED  BY <2>1, <2>2 DEF UpIsSound
<1>2. StoryIsTold'
  <2>1. (FreshBase => StoryIsTold)'
    BY FreshStory, PTL
  <2>2. FreshBase'
    BY <1>1 DEF FreshBase
  <2> QED  BY <2>1, <2>2
<1>3. StatusFits'
    BY DEF PersistInv, StatusFits
<1>4. EntriesAreLater'
    BY DEF EntriesAreLater
<1>5. WriterFits'
  <2>1. base' # NoFile /\ base'.rev = rev /\ kept' = entry
    <3>1. base' = [rev |-> rev, entry |-> entry, cell |-> cell] /\ kept' = entry
      BY DEF BaseIsCurrent
    <3>2. base' \in Saved
      BY <3>1 DEF PersistInv, TypeOK, Saved
    <3> QED  BY <3>1, <3>2, NonesOfPersist
  <2>2. rev \in Nat
    BY RevisionsAreNat DEF PersistInv, TypeOK
  <2>3. Usable' => writer'.base = rev
    BY <2>1 DEF Usable
  <2>4. (writer # NoWriter /\ ~Usable => Follows(kept, writer.seen))'
    BY <2>1 DEF Follows
  <2> QED  BY <2>1, <2>2, <2>3, <2>4 DEF WriterFits
<1> QED  BY <1>1, <1>2, <1>3, <1>4, <1>5 DEF PersistInv

(* Where a save or a compaction that installs stands. *)
LEMMA InstallIs ==
    ASSUME PersistInv, op # NoOp, op.call \in {"save", "compact"}, op.i > 3
    PROVE  /\ TypeOK /\ status = "up" /\ op \in Operation /\ rev \in Nat
           /\ op.entry = entry /\ op.cell = cell /\ op.rev = rev
           /\ op.i > 5 => op.next = rev /\ BaseIsCurrent
           /\ op.call = "compact" /\ op.i > 4 => op.next = rev
           /\ op.call = "save" => Spent
           /\ op.call = "compact" /\ op.i > 6 /\ writer # NoWriter => writer.file = "deleted"
<1>1. TypeOK /\ op \in Operation /\ op.i \in Nat /\ rev \in Nat
    BY OpParts, RevisionsAreNat DEF PersistInv, TypeOK
<1>2. status = "up"
    BY DEF PersistInv, StatusFits
<1>3. op.i > 2 /\ (op.i > 5 => op.i > 4)
    BY <1>1
<1>4. op.call = "save" => Doing("save")
    BY DEF Doing
<1>5. op.call = "compact" => Doing("compact")
    BY DEF Doing
<1> QED  BY <1>1, <1>2, <1>3, <1>4, <1>5 DEF PersistInv, CallsAreOnTheirWay

(* A base that is installed next to an old log: nothing in the log is later  *)
(* than the new base, so that the log does not continue it, or is empty; and *)
(* a writer of the log has nothing to write that the base does not have.     *)
LEMMA InstallKeeps == ASSUME PersistInv, InstallBase PROVE PersistInv'
<1>1. TypeInv /\ TypeInv' /\ TypeOK /\ TypeOK' /\ At("rename") /\ Advance(op)
    BY InvariantIsTyped, InstallKeepsTypes DEF InstallBase, TypeInv
<1>2. op # NoOp /\ ((op.call = "save" /\ op.i = 4) \/ (op.call = "compact" /\ op.i = 5))
    BY <1>1, AtPlaces
<1>3. status = "up" /\ op \in Operation /\ op.entry = entry /\ op.cell = cell /\ op.rev = rev /\ rev \in Nat
      /\ (op.call = "compact" => op.next = rev) /\ (op.call = "save" => Spent)
    BY <1>2, InstallIs
<1>4. /\ UNCHANGED <<status, replay, rev, entry, cell, writer, log>>
      /\ base' = [rev |-> rev, entry |-> entry, cell |-> cell] /\ kept' = entry
    BY <1>3 DEF InstallBase, memory
<1>5. BaseIsCurrent' /\ base' # NoFile /\ base'.rev = rev
  <2>1. [rev |-> rev, entry |-> entry, cell |-> cell] \in Saved
    BY <1>1 DEF TypeOK, Saved
  <2> QED  BY <1>4, <2>1, NonesOfPersist DEF BaseIsCurrent
<1>6. \A s \in Seq(Logged) : (\A i \in 1..Len(s) : s[i].at > rev /\ s[i].at <= rev) => s = <<>>
  <2> SUFFICES ASSUME NEW s \in Seq(Logged), \A i \in 1..Len(s) : s[i].at > rev /\ s[i].at <= rev
               PROVE  s = <<>>
    OBVIOUS
  <2>1. \A i \in 1..Len(s) : s[i].at \in Nat
    BY ElementOfSeq, LoggedParts, RevisionsAreNat
  <2>2. \A i \in 1..Len(s) : FALSE
    BY <1>3, <2>1
  <2>3. Len(s) = 0
    <3>1. Len(s) \in Nat
      BY LenProperties
    <3>2. Len(s) # 0 => 1 \in 1..Len(s)
      BY <3>1
    <3> QED  BY <2>2, <3>2
  <2> QED  BY <2>3, EmptySeq
<1>7. (Written = <<>>)'
  <2>1. CASE Continues'
    <3>1. log # NoFile /\ log.base = rev /\ log.entries \in Seq(Logged)
      BY <1>1, <1>4, <1>5, <2>1, LogParts DEF Continues, Loaded
    <3>2. \A i \in 1..Len(log.entries) : log.entries[i].at > rev /\ log.entries[i].at <= rev
      BY <1>3, <3>1 DEF PersistInv, EntriesAreLater
    <3> QED  BY <1>4, <1>6, <2>1, <3>1, <3>2 DEF Written
  <2>2. CASE ~Continues'
    BY <2>2 DEF Written
  <2> QED  BY <2>1, <2>2
<1>8. writer' # NoWriter => /\ writer.base <= rev /\ writer.base \in Nat
                            /\ writer.seen \in [Key -> Entry] /\ Follows(entry, writer.seen)
  <2> SUFFICES ASSUME writer # NoWriter
               PROVE  /\ writer.base <= rev /\ writer.base \in Nat
                      /\ writer.seen \in [Key -> Entry] /\ Follows(entry, writer.seen)
    BY <1>4
  <2>1. base \in Saved /\ writer.base <= base.rev /\ base.rev <= rev
    BY <1>1, SeenIsKept DEF TypeOK
  <2>2. writer.base \in Nat /\ base.rev \in Nat
    BY <1>1, <2>1, WriterParts, RevisionsAreNat DEF Saved
  <2> QED  BY <1>3, <2>1, <2>2, SeenIsKept
<1>9. Linked' => /\ log # NoFile /\ ~log.headless /\ log.base = writer.base
                 /\ \A i \in 1..Len(writer.buffer) :
                        writer.buffer[i].at > writer.base /\ writer.buffer[i].at <= rev
    BY <1>4 DEF PersistInv, WriterFits, EntriesAreLater, Linked
<1>10. Usable' => writer.seen = entry /\ writer.buffer = <<>>
  <2> SUFFICES ASSUME Usable' PROVE writer.seen = entry /\ writer.buffer = <<>>
    OBVIOUS
  <2>1. writer # NoWriter /\ writer.file = "log" /\ writer.base = rev
    BY <1>4, <1>5 DEF Usable
  <2>2. base # NoFile /\ base \in Saved /\ rev <= base.rev /\ base.rev <= rev
    BY <1>1, <2>1, SeenIsKept DEF TypeOK
  <2>3. base.rev = rev
    BY <1>3, <2>2, RevisionsAreNat DEF Saved
  <2>4. Usable
    BY <2>1, <2>2, <2>3 DEF Usable
  <2>5. writer.buffer = <<>>
    <3>1. \A i \in 1..Len(writer.buffer) : writer.buffer[i].at > rev /\ writer.buffer[i].at <= rev
      BY <1>4, <1>9, <2>1 DEF Linked
    <3>2. writer.buffer \in Seq(Logged)
      BY <1>1, <2>1, WriterParts
    <3> QED  BY <1>6, <3>1, <3>2
  <2>6. PICK m : EndsAsSeen(m)
    BY <2>4 DEF PersistInv, StoryIsTold
  <2>7. ASSUME NEW k \in Key PROVE entry[k] = writer.seen[k]
    <3>1. entry[k].ch \in Nat
      BY <1>1, RevisionsAreNat DEF TypeOK, Entry
    <3>2. entry[k].ch <= rev
      BY <1>3 DEF PersistInv, UpIsSound, NoNewer
    <3>3. ~(entry[k].ch > rev)
      BY <1>3, <3>1, <3>2
    <3> QED  BY <2>1, <2>6, <3>3 DEF EndsAsSeen
  <2>8. entry \in [Key -> Entry] /\ writer.seen \in [Key -> Entry]
    BY <1>1, <2>1, WriterParts DEF TypeOK
  <2> QED  BY <2>5, <2>7, <2>8
<1>11. op' # NoOp => op'.i = op.i + 1 /\ op'.call = op.call /\ op'.entry = op.entry /\ op'.cell = op.cell
                    /\ op'.rev = op.rev /\ op'.next = op.next /\ op'.cellsFirst = op.cellsFirst
    BY <1>1, <1>2, <1>3, Advancing
<1>12. CallsAreOnTheirWay'
  <2>1. Spent' = Spent
    BY <1>4 DEF Spent
  <2> QED  BY <1>2, <1>3, <1>4, <1>5, <1>11, <2>1 DEF CallsAreOnTheirWay, Doing
<1>13. log' # NoFile => \A i \in 1..Len(log'.entries) :
            log'.entries[i].at > log'.base /\ log'.entries[i].at <= rev
    BY <1>3, <1>4 DEF PersistInv, EntriesAreLater
<1> HIDE DEF Linked, Usable
<1>14. writer' = writer /\ log' = log
    BY <1>4
<1> QED  BY <1>1, <1>3, <1>4, <1>5, <1>7, <1>8, <1>9, <1>10, <1>12, <1>13, <1>14, FreshFiles

(* What becomes of a writer whose log is deleted or truncated. *)
LEMMA StaleWriter ==
    ASSUME PersistInv, BaseIsCurrent, DeleteLog \/ CreateLog
    PROVE  /\ ~Linked' /\ ~Usable'
           /\ writer' # NoWriter =>
                /\ writer # NoWriter
                /\ writer'.base = writer.base /\ writer'.buffer = writer.buffer
                /\ writer'.cut = writer.cut /\ writer'.base <= rev /\ Follows(entry, writer'.seen)
                /\ DeleteLog \/ writer.file = "deleted" => writer'.file = "deleted"
                /\ writer'.file # "deleted" => writer.file # "deleted"
<1>1. TypeOK /\ (writer # NoWriter => writer \in Writer)
    BY WriterParts DEF PersistInv
<1>2. CASE writer = NoWriter
    BY <1>2 DEF DeleteLog, CreateLog, Linked, Usable
<1>3. CASE writer # NoWriter
  <2>1. writer.base <= rev /\ Follows(entry, writer.seen)
    BY <1>3, SeenIsKept DEF BaseIsCurrent
  <2>2. PICK file \in {"truncated", "deleted"} :
            /\ writer' = [writer EXCEPT !.file = file]
            /\ DeleteLog \/ writer.file = "deleted" => file = "deleted"
            /\ file # "deleted" => writer.file # "deleted"
    <3>1. CASE DeleteLog
      BY <1>3, <3>1 DEF DeleteLog
    <3>2. CASE CreateLog /\ writer.file = "log"
      <4>1. writer' = [writer EXCEPT !.file = "truncated"]
        BY <1>3, <3>2 DEF CreateLog
      <4>2. ~DeleteLog
        BY <1>1, <3>2, AtPlaces DEF CreateLog, DeleteLog
      <4> QED  BY <3>2, <4>1, <4>2
    <3>3. CASE CreateLog /\ writer.file # "log"
      <4>1. writer' = writer /\ writer.file \in {"truncated", "deleted"}
        BY <1>1, <1>3, <3>3 DEF CreateLog, Writer
      <4>2. writer = [writer EXCEPT !.file = writer.file]
        BY <1>1, <1>3 DEF Writer
      <4>3. ~DeleteLog
        BY <1>1, <3>3, AtPlaces DEF CreateLog, DeleteLog
      <4> QED  BY <4>1, <4>2, <4>3
    <3> QED  BY <3>1, <3>2, <3>3
  <2>3. /\ writer' \in Writer /\ writer'.file = file /\ writer'.base = writer.base
        /\ writer'.buffer = writer.buffer /\ writer'.cut = writer.cut /\ writer'.seen = writer.seen
    BY <1>1, <1>3, <2>2 DEF Writer
  <2> QED  BY <1>3, <2>1, <2>2, <2>3 DEF Linked, Usable
<1> QED  BY <1>2, <1>3

LEMMA DeleteKeeps == ASSUME PersistInv, DeleteLog PROVE PersistInv'
<1>1. TypeInv /\ TypeInv' /\ TypeOK /\ TypeOK' /\ At("unlink") /\ Advance(op)
    BY InvariantIsTyped, InstallKeepsTypes DEF DeleteLog, TypeInv
<1>2. op # NoOp /\ op.call = "compact" /\ op.i = 6
    BY <1>1, AtPlaces
<1>3. status = "up" /\ op \in Operation /\ op.entry = entry /\ op.cell = cell /\ op.rev = rev
      /\ op.next = rev /\ BaseIsCurrent
    BY <1>2, InstallIs
<1>4. UNCHANGED <<status, replay, rev, entry, cell, base, kept>> /\ log' = NoFile
    BY DEF DeleteLog, memory
<1>5. BaseIsCurrent'
    BY <1>3, <1>4 DEF BaseIsCurrent
<1>6. (Written = <<>>)'
    BY <1>4 DEF Written, Continues
<1>7. /\ ~Linked' /\ ~Usable'
      /\ writer' # NoWriter => writer'.base <= rev /\ Follows(entry, writer'.seen) /\ writer'.file = "deleted"
    BY <1>3, StaleWriter
<1>8. op' # NoOp => op'.i = 7 /\ op'.call = "compact" /\ op'.entry = op.entry /\ op'.cell = op.cell
                    /\ op'.rev = op.rev /\ op'.next = op.next
    BY <1>1, <1>2, <1>3, Advancing
<1>9. CallsAreOnTheirWay'
    BY <1>3, <1>4, <1>5, <1>7, <1>8 DEF CallsAreOnTheirWay, Doing
<1> HIDE DEF Linked, Usable
<1> QED  BY <1>1, <1>3, <1>4, <1>5, <1>6, <1>7, <1>9, FreshFiles

LEMMA CreateKeeps == ASSUME PersistInv, CreateLog PROVE PersistInv'
<1>1. TypeInv /\ TypeInv' /\ TypeOK /\ TypeOK' /\ At("create") /\ Advance(op)
    BY InvariantIsTyped, InstallKeepsTypes DEF CreateLog, TypeInv
<1>2. op # NoOp /\ ((op.call = "save" /\ op.i = 6) \/ (op.call = "compact" /\ op.i \in {7, 9}))
    BY <1>1, AtPlaces
<1>3. status = "up" /\ op \in Operation /\ op.entry = entry /\ op.cell = cell /\ op.rev = rev
      /\ op.next = rev /\ BaseIsCurrent
      /\ (op.call = "save" => Spent)
      /\ (op.call = "compact" /\ writer # NoWriter => writer.file = "deleted")
    BY <1>2, InstallIs
<1>4. UNCHANGED <<status, replay, rev, entry, cell, base, kept>> /\ log' = Headless
    BY DEF CreateLog, memory
<1>5. BaseIsCurrent'
    BY <1>3, <1>4 DEF BaseIsCurrent
<1>6. (Written = <<>>)' /\ log'.entries = <<>>
    BY <1>4 DEF Written, Continues, Headless
<1>7. /\ ~Linked' /\ ~Usable'
      /\ writer' # NoWriter =>
            /\ writer # NoWriter /\ writer'.base <= rev /\ Follows(entry, writer'.seen)
            /\ writer.file = "deleted" => writer'.file = "deleted"
            /\ writer'.file # "deleted" => writer.file # "deleted"
            /\ writer'.buffer = writer.buffer /\ writer'.cut = writer.cut
    BY <1>3, StaleWriter
<1>8. op' # NoOp => /\ op'.i = op.i + 1 /\ op'.call = op.call /\ op'.entry = op.entry /\ op'.cell = op.cell
                    /\ op'.rev = op.rev /\ op'.next = op.next
    BY <1>1, <1>2, <1>3, Advancing
<1>9. CallsAreOnTheirWay'
  <2>1. op.call = "save" => Spent'
    BY <1>3, <1>7 DEF Spent
  <2>2. op.call = "compact" /\ writer' # NoWriter => writer'.file = "deleted"
    BY <1>3, <1>7
  <2> QED  BY <1>2, <1>3, <1>4, <1>5, <1>8, <2>1, <2>2 DEF CallsAreOnTheirWay, Doing
<1>10. \A i \in 1..Len(log'.entries) : FALSE
    BY <1>6
<1> HIDE DEF Linked, Usable
<1> QED  BY <1>1, <1>3, <1>4, <1>5, <1>6, <1>7, <1>9, <1>10, FreshFiles

(* A compaction has the header written of a log whose writer is dropped: a   *)
(* writer the program still has belongs to the deleted file.                 *)
LEMMA HeaderKeeps == ASSUME PersistInv, WriteHeader PROVE PersistInv'
<1>1. TypeInv /\ TypeInv' /\ TypeOK /\ TypeOK' /\ At("header") /\ Advance(op)
    BY InvariantIsTyped, InstallKeepsTypes DEF WriteHeader, TypeInv
<1>2. op # NoOp /\ op.call = "compact" /\ op.i = 8
    BY <1>1, AtPlaces
<1>3. status = "up" /\ op \in Operation /\ op.entry = entry /\ op.cell = cell /\ op.rev = rev
      /\ op.next = rev /\ BaseIsCurrent /\ (writer # NoWriter => writer.file = "deleted")
    BY <1>2, InstallIs
<1>4. UNCHANGED <<status, replay, rev, entry, cell, writer, base, kept>> /\ log' = LogFrom(rev)
    BY <1>3 DEF WriteHeader, memory
<1>5. BaseIsCurrent'
    BY <1>3, <1>4 DEF BaseIsCurrent
<1>6. (Written = <<>>)' /\ log'.entries = <<>>
    BY <1>4 DEF Written, Continues, LogFrom
<1>7. /\ ~Linked' /\ ~Usable'
      /\ writer' # NoWriter => writer'.base <= rev /\ Follows(entry, writer'.seen)
    BY <1>3, <1>4, SeenIsKept DEF Linked, Usable, BaseIsCurrent
<1>8. op' # NoOp => op'.i = 9 /\ op'.call = "compact" /\ op'.entry = op.entry /\ op'.cell = op.cell
                    /\ op'.rev = op.rev /\ op'.next = op.next
    BY <1>1, <1>2, <1>3, Advancing
<1>9. CallsAreOnTheirWay'
    BY <1>3, <1>4, <1>5, <1>8 DEF CallsAreOnTheirWay, Doing
<1>10. \A i \in 1..Len(log'.entries) : FALSE
    BY <1>6
<1> HIDE DEF Linked, Usable
<1> QED  BY <1>1, <1>3, <1>4, <1>5, <1>6, <1>7, <1>9, <1>10, FreshFiles

(* The program goes on with a new writer, and nothing of the old one is left *)
(* in the log.                                                               *)
LEMMA TakeKeeps == ASSUME PersistInv, TakeWriter PROVE PersistInv'
<1>1. TypeInv /\ TypeInv' /\ TypeOK /\ TypeOK'
    BY InvariantIsTyped, TakeKeepsTypes DEF TypeInv
<1>2. /\ op # NoOp /\ op.call \in {"save", "compact"} /\ op.i > 6
      /\ op' = NoOp /\ log' \in LogFile /\ log' # NoFile
      /\ writer' = [base |-> op.next, file |-> "log", buffer |-> <<>>, cut |-> FALSE, seen |-> kept]
      /\ writer' # NoWriter
      /\ UNCHANGED <<status, rev, entry, cell, replay, base, kept>>
    BY <1>1, TakeIs
<1>3. status = "up" /\ op.next = rev /\ BaseIsCurrent /\ rev \in Nat
      /\ (writer # NoWriter /\ writer.file # "deleted" => writer.buffer = <<>>)
  <2>1. op.i > 5 /\ op.i > 3
    BY <1>1, <1>2, OpParts
  <2> QED  BY <1>2, <2>1, InstallIs DEF Spent
<1>4. log'.entries = <<>> /\ log'.base = rev /\ ~log'.headless
  <2>1. CASE writer # NoWriter /\ writer.file = "truncated"
    <3>1. log' \in Spilled(LogFrom(rev)) /\ rev \in Revision /\ writer.buffer = <<>>
      BY <1>1, <1>3, <2>1 DEF TakeWriter, TypeOK
    <3> QED  BY <1>1, <2>1, <3>1, NothingSpilled
  <2>2. CASE ~(writer # NoWriter /\ writer.file = "truncated")
    <3>1. log' \in {LogFrom(rev)}
      BY <1>3, <2>2 DEF TakeWriter
    <3> QED  BY <3>1 DEF LogFrom
  <2> QED  BY <2>1, <2>2
<1>5. BaseIsCurrent' /\ kept = entry
    BY <1>2, <1>3 DEF BaseIsCurrent
<1>6. (Written = <<>>)'
    BY <1>4 DEF Written
<1>7. writer'.base = rev /\ writer'.file = "log" /\ writer'.buffer = <<>> /\ writer'.seen = entry
    BY <1>2, <1>3, <1>5
<1>8. Usable'
  <2>1. base' = [rev |-> rev, entry |-> entry, cell |-> cell] /\ base' \in Saved
    BY <1>1, <1>2, <1>5 DEF BaseIsCurrent, TypeOK, Saved
  <2>2. base' # NoFile /\ base'.rev = rev
    BY <2>1, NonesOfPersist
  <2> QED  BY <1>2, <1>7, <2>2 DEF Usable
<1>9. (\A i \in 1..Len(log'.entries) : FALSE) /\ (\A i \in 1..Len(writer'.buffer) : FALSE)
    BY <1>4, <1>7
<1>10. CallsAreOnTheirWay'
    BY <1>2 DEF CallsAreOnTheirWay, Doing
<1> HIDE DEF Linked, Usable
<1>11. writer'.base <= rev
    BY <1>3, <1>7
<1> QED  BY <1>1, <1>2, <1>3, <1>4, <1>5, <1>6, <1>7, <1>8, <1>9, <1>10, <1>11, FreshFiles

-----------------------------------------------------------------------------
(* Flushing *)

(* How a writer of the present log and the base go together. *)
LEMMA WriterIs ==
    ASSUME PersistInv, Usable
    PROVE  /\ TypeOK /\ writer # NoWriter /\ Linked /\ status = "up" /\ replay = NoReplay /\ log # NoFile
           /\ Continues /\ log.base = writer.base /\ Loaded.rev = writer.base /\ writer.base <= rev
           /\ (rev = writer.base \/ \E k \in Key : entry[k].ch = rev)
           /\ writer.base \in Nat /\ rev \in Nat
           /\ entry \in [Key -> Entry] /\ writer.seen \in [Key -> Entry]
           /\ writer.buffer \in Seq(Logged) /\ Pending = writer.buffer /\ Written = log.entries
           /\ NoNewer(entry, rev) /\ CellFits(entry, cell) /\ (cell # NoCell => cell.ver <= rev)
           /\ Keeps(entry)
<1>1. TypeOK /\ writer # NoWriter /\ Linked
    BY DEF PersistInv, Usable, Linked
<1>2. status = "up" /\ replay = NoReplay
    BY <1>1 DEF PersistInv, StatusFits
<1>3. log # NoFile /\ ~log.headless /\ log.base = writer.base /\ base # NoFile /\ writer.base = base.rev
      /\ base.rev <= rev /\ (rev = writer.base \/ \E k \in Key : entry[k].ch = rev)
    BY <1>1 DEF PersistInv, WriterFits, Usable
<1>4. Loaded.rev = writer.base /\ Continues /\ writer.base <= rev
    BY <1>3 DEF Continues, Loaded
<1>5. writer.base \in Nat /\ rev \in Nat /\ entry \in [Key -> Entry] /\ writer.seen \in [Key -> Entry]
      /\ writer.buffer \in Seq(Logged)
    BY <1>1, WriterParts, RevisionsAreNat DEF TypeOK
<1>6. NoNewer(entry, rev) /\ CellFits(entry, cell) /\ (cell # NoCell => cell.ver <= rev) /\ Keeps(entry)
    BY <1>2 DEF PersistInv, UpIsSound
<1> QED  BY <1>1, <1>2, <1>3, <1>4, <1>5, <1>6 DEF Pending, Written

(* The log after a flush goes on as it began. *)
LEMMA FlushedIsLater == ASSUME PersistInv, Flush PROVE EntriesAreLater'
<1> DEFINE E == log.entries
           B == writer.buffer
<1>1. TypeInv /\ TypeOK /\ writer # NoWriter
    BY InvariantIsTyped, FlushIs DEF TypeInv
<1>2. status = "up" /\ UNCHANGED <<status, rev>> /\ writer'.base = writer.base /\ writer'.buffer = <<>>
    BY <1>1, FlushIs
<1>3. writer' # NoWriter => \A i \in 1..Len(writer'.buffer) : FALSE
  <2>1. Len(<<>>) = 0 /\ 1..0 = {}
    OBVIOUS
  <2> QED  BY <1>2, <2>1
<1>4. CASE ~Linked
  <2>1. log' = log
    BY <1>1, <1>4, FlushIs
  <2> QED  BY <1>2, <1>3, <2>1 DEF PersistInv, EntriesAreLater, Linked
<1>5. CASE Linked
  <2>1. log # NoFile /\ log.base = writer.base /\ log'.base = log.base /\ log'.entries = E \o B
    BY <1>1, <1>5, FlushIs DEF PersistInv, WriterFits
  <2>2. E \in Seq(Logged) /\ B \in Seq(Logged)
    BY <1>1, <2>1, LogParts, WriterParts
  <2> HIDE DEF E, B
  <2>3. ASSUME NEW i \in 1..Len(E \o B)
        PROVE  (E \o B)[i].at > log.base /\ (E \o B)[i].at <= rev
    <3>1. Len(E) \in Nat /\ Len(B) \in Nat /\ Len(E \o B) = Len(E) + Len(B)
          /\ (E \o B)[i] = IF i <= Len(E) THEN E[i] ELSE B[i - Len(E)]
      BY <2>2, ConcatProperties, LenProperties
    <3>2. CASE i <= Len(E)
      <4>1. i \in 1..Len(E)
        BY <3>1, <3>2
      <4>2. E[i].at > log.base /\ E[i].at <= rev
        BY <1>2, <2>1, <4>1 DEF PersistInv, EntriesAreLater, E
      <4> QED  BY <3>1, <3>2, <4>2
    <3>3. CASE ~(i <= Len(E))
      <4>1. i - Len(E) \in 1..Len(B)
        BY <3>1, <3>3
      <4>2. B[i - Len(E)].at > writer.base /\ B[i - Len(E)].at <= rev
        BY <1>5, <4>1 DEF PersistInv, EntriesAreLater, B
      <4> QED  BY <2>1, <3>1, <3>3, <4>2
    <3> QED  BY <3>2, <3>3
  <2> QED  BY <1>2, <1>3, <2>1, <2>3 DEF EntriesAreLater, Linked
<1> QED  BY <1>4, <1>5

(* Flushing what continues the base makes the end of the story sure; what    *)
(* any other writer flushes is not read again.                               *)
LEMMA FlushKeeps == ASSUME PersistInv, Flush PROVE PersistInv'
<1>1. TypeInv /\ TypeInv' /\ TypeOK /\ TypeOK'
    BY InvariantIsTyped, FlushKeepsTypes DEF TypeInv
<1>2. /\ writer # NoWriter /\ op = NoOp /\ status = "up" /\ replay = NoReplay
      /\ Linked => /\ log' # NoFile /\ log'.entries = log.entries \o writer.buffer
                   /\ log'.base = log.base /\ log'.headless = log.headless
      /\ ~Linked => log' = log
      /\ kept' = writer.seen
      /\ writer' # NoWriter /\ writer'.base = writer.base /\ writer'.file = writer.file
      /\ writer'.seen = writer.seen /\ writer'.buffer = <<>>
      /\ UNCHANGED <<status, rev, entry, cell, replay, op, base>>
    BY <1>1, FlushIs
<1>3. Loaded' = Loaded /\ Linked' = Linked /\ Usable' = Usable
    BY <1>2 DEF Loaded, Linked, Usable
<1>4. Pending' = <<>>
    BY <1>2 DEF Pending
<1>5. Follows(entry, writer.seen) /\ writer.seen \in [Key -> Entry]
    BY <1>2, SeenIsKept
<1>6. ASSUME Usable PROVE StoryIsTold'
  <2> DEFINE E == log.entries
             B == writer.buffer
  <2>1. Continues /\ Linked /\ log # NoFile /\ Written = E /\ Pending = B /\ E \in Seq(Logged) /\ B \in Seq(Logged)
    BY <1>1, <1>6, WriterIs, LogParts
  <2>2. Continues'
    BY <1>2, <1>3, <2>1 DEF Continues
  <2>3. Told = E \o B /\ Told' = Told /\ Written' = Told /\ Told \in Seq(Logged)
    <3>1. E \o B \in Seq(Logged)
      BY <2>1, ConcatProperties
    <3>2. (E \o B) \o <<>> = E \o B
      BY <3>1, ConcatEmptySeq
    <3> QED  BY <1>2, <1>4, <2>1, <2>2, <3>1, <3>2 DEF Told, Written
  <2>4. PICK f : GoodStory(f) /\ EndsAsSeen(f[Len(Told)])
    BY <1>6 DEF PersistInv, StoryIsTold
  <2>5. Len(Told) \in Nat
    BY <2>3, LenProperties
  <2>6. \A n \in Len(Written')..Len(Told) : Keeps(f[n].entry)'
    <3>1. \A n \in Len(Written')..Len(Told) : n = Len(Told)
      BY <2>3, <2>5
    <3> QED  BY <1>2, <2>4, <3>1 DEF Keeps, Follows, EndsAsSeen
  <2>7. GoodStory(f)'
    BY <1>3, <2>3, <2>4, <2>6, StoryStays
  <2>8. EndsAsSeen(f[Len(Told)])' /\ ReplaysStory(f)'
    BY <1>2, <2>3, <2>4 DEF EndsAsSeen, ReplaysStory, Replaying
  <2> QED  BY <2>7, <2>8 DEF StoryIsTold
<1>7. ASSUME ~Usable PROVE StoryIsTold'
  <2>1. Written' = Written
    <3>1. CASE Linked
      <4>1. log # NoFile /\ log.base = writer.base /\ base # NoFile
        BY <1>2, <3>1 DEF PersistInv, WriterFits
      <4>2. writer.base # base.rev
        BY <1>2, <1>7, <3>1, <4>1 DEF Usable, Linked
      <4>3. ~Continues /\ ~Continues'
        BY <1>2, <1>3, <3>1, <4>1, <4>2 DEF Continues, Loaded
      <4> QED  BY <4>3 DEF Written
    <3>2. CASE ~Linked
      <4>1. log' = log
        BY <1>2, <3>2
      <4> QED  BY <1>3, <4>1 DEF Written, Continues
    <3> QED  BY <3>1, <3>2
  <2>2. Told' = Told
    BY <1>3, <1>4, <1>7, <2>1 DEF Told, Pending
  <2>3. PICK f : GoodStory(f)
    BY DEF PersistInv, StoryIsTold
  <2>4. \A n \in Len(Written')..Len(Told) : Keeps(f[n].entry)'
    <3> SUFFICES ASSUME NEW n \in Len(Written)..Len(Told) PROVE Follows(f[n].entry, writer.seen)
      BY <1>2, <2>1 DEF Keeps, Follows
    <3>1. n \in 0..Len(Told)
      BY <1>1, TellingIsTyped
    <3>2. f[n].entry \in [Key -> Entry] /\ Follows(f[n].entry, kept)
      BY <2>3, <3>1 DEF GoodStory, IsStory, Memory, Keeps
    <3>3. kept \in [Key -> Entry] /\ Follows(kept, writer.seen)
      BY <1>1, <1>2, <1>7 DEF PersistInv, WriterFits, TypeOK
    <3> QED  BY <1>5, <3>2, <3>3, FollowsOn
  <2>5. GoodStory(f)'
    BY <1>3, <2>2, <2>3, <2>4, StoryStays
  <2>6. ReplaysStory(f)'
    BY <1>2 DEF ReplaysStory, Replaying
  <2> QED  BY <1>3, <1>7, <2>5, <2>6 DEF StoryIsTold
<1>8. StoryIsTold'
  <2>1. Usable \/ ~Usable
    OBVIOUS
  <2> QED  BY <1>6, <1>7, <2>1
<1>9. UpIsSound'
  <2>1. Keeps(entry)'
    BY <1>2, <1>5 DEF Keeps, Follows
  <2>2. (NoNewer(entry, rev) /\ CellFits(entry, cell) /\ (cell # NoCell => cell.ver <= rev))'
    BY <1>2 DEF PersistInv, UpIsSound, NoNewer, CellFits, ValuesOf
  <2> QED  BY <2>1, <2>2 DEF UpIsSound
<1>10. WriterFits'
  <2>1. Linked' => log' # NoFile /\ ~log'.headless /\ log'.base = writer'.base
    BY <1>2, <1>3 DEF PersistInv, WriterFits
  <2>2. (writer # NoWriter => base # NoFile /\ writer.base <= base.rev /\ base.rev <= rev)'
    BY <1>2 DEF PersistInv, WriterFits
  <2>3. (Usable => rev = writer.base \/ \E k \in Key : entry[k].ch = rev)'
    BY <1>2, <1>3 DEF PersistInv, WriterFits
  <2>4. Follows(kept, writer.seen)'
    BY <1>2 DEF Follows
  <2> QED  BY <2>1, <2>2, <2>3, <2>4 DEF WriterFits
<1>11. EntriesAreLater'
    BY FlushedIsLater
<1>12. StatusFits' /\ CallsAreOnTheirWay'
    BY <1>2 DEF PersistInv, StatusFits, CallsAreOnTheirWay, Doing
<1> QED  BY <1>1, <1>8, <1>9, <1>10, <1>11, <1>12 DEF PersistInv

-----------------------------------------------------------------------------
(* Appending *)
\* An append with the entries R leads to what the invariant says of a writer.
LEMMA AppendedStory ==
    ASSUME PersistInv, TypeOK', Usable, NEW R \in Seq(Logged),
           UNCHANGED <<status, replay, rev, entry, cell, base, log, kept>>,
           writer' \in Writer, writer'.base = writer.base, writer'.file = writer.file,
           writer'.buffer = writer.buffer \o R,
           CallsAreOnTheirWay',
           \A i \in 1..Len(R) : R[i].at > writer.base /\ R[i].at <= rev,
           NEW f, GoodStory(f), NEW h \in [0..Len(R) -> Memory], h[0] = f[Len(Told)],
           \A i \in 1..Len(R) :
                /\ h[i] = Apply(h[i - 1], R[i])
                /\ GoodMoment(Told \o R, Len(Told) + i, h[i])
                /\ Keeps(h[i].entry),
           h[Len(R)].entry = writer'.seen,
           h[Len(R)].cell # NoCell => h[Len(R)].cell.ver <= rev,
           \A k \in Key : entry[k] # writer'.seen[k] =>
                /\ entry[k].ch > writer.base
                /\ entry[k].ch > writer'.seen[k].ch
                /\ h[Len(R)].cell # NoCell => entry[k].ch > h[Len(R)].cell.ver
    PROVE  PersistInv'
<1> DEFINE B == writer.buffer
<1>1. writer' # NoWriter
    BY NonesOfPersist
<1>2. TypeOK /\ status = "up" /\ replay = NoReplay /\ log # NoFile /\ Continues /\ log.base = writer.base
      /\ writer.base <= rev /\ (rev = writer.base \/ \E k \in Key : entry[k].ch = rev)
      /\ B \in Seq(Logged) /\ Pending = B /\ Linked /\ writer # NoWriter
    BY WriterIs
<1>3. Loaded' = Loaded /\ Continues' = Continues /\ Written' = Written /\ Usable' /\ Linked'
    BY <1>1, <1>2 DEF Loaded, Continues, Written, Usable, Linked
<1>4. Told' = Told \o R
  <2>1. Pending' = Pending \o R
    BY <1>2, <1>3 DEF Pending
  <2>2. Written \in Seq(Logged) /\ Pending \in Seq(Logged) /\ R \in Seq(Logged)
    BY <1>2, TellingIsTyped
  <2>3. \A x, y, z \in Seq(Logged) : (x \o y) \o z = x \o (y \o z)
    BY ConcatAssociative
  <2>4. (Written \o Pending) \o R = Written \o (Pending \o R)
    BY <2>2, <2>3, Zenon
  <2> QED  BY <1>3, <2>1, <2>4 DEF Told
<1>5. PICK g : GoodStory(g)' /\ g[Len(Told')] = h[Len(R)]
  <2>1. UNCHANGED <<base, log, kept>>
    OBVIOUS
  <2> QED  BY <1>2, <1>4, <2>1, LongerStory
<1>6. StoryIsTold'
  <2>1. ReplaysStory(g)'
    BY <1>2 DEF ReplaysStory, Replaying
  <2>2. EndsAsSeen(g[Len(Told)])'
    BY <1>5 DEF EndsAsSeen
  <2> QED  BY <1>5, <2>1, <2>2 DEF StoryIsTold
<1>7. EntriesAreLater'
  <2>1. ASSUME NEW i \in 1..Len(B \o R)
        PROVE  (B \o R)[i].at > writer.base /\ (B \o R)[i].at <= rev
    <3>1. Len(B) \in Nat /\ Len(R) \in Nat /\ Len(B \o R) = Len(B) + Len(R)
          /\ (B \o R)[i] = IF i <= Len(B) THEN B[i] ELSE R[i - Len(B)]
      BY <1>2, ConcatProperties, LenProperties
    <3>2. CASE i <= Len(B)
      <4>1. i \in 1..Len(B)
        BY <3>1, <3>2
      <4>2. B[i].at > writer.base /\ B[i].at <= rev
        BY <1>2, <4>1 DEF PersistInv, EntriesAreLater
      <4> QED  BY <3>1, <3>2, <4>2
    <3>3. CASE ~(i <= Len(B))
      <4>1. i - Len(B) \in 1..Len(R)
        BY <3>1, <3>3
      <4> QED  BY <3>1, <3>3, <4>1
    <3> QED  BY <3>2, <3>3
  <2>2. \A i \in 1..Len(log.entries) : log.entries[i].at > log.base /\ log.entries[i].at <= rev
    BY <1>2 DEF PersistInv, EntriesAreLater
  <2> QED  BY <1>2, <2>1, <2>2 DEF EntriesAreLater
<1>8. UpIsSound'
    BY DEF PersistInv, UpIsSound, NoNewer, CellFits, ValuesOf, Keeps, Follows
<1>9. StatusFits'
    BY <1>2 DEF PersistInv, StatusFits
<1>10. WriterFits'
    BY <1>2, <1>3 DEF PersistInv, WriterFits
<1> QED  BY <1>6, <1>7, <1>8, <1>9, <1>10 DEF PersistInv

\* The memory after the first i of the inputs s have been replayed on m.
Mixed(s, m, i) ==
    [entry |-> [k \in Key |-> IF \E j \in 1..i : s[j] = k THEN entry[k] ELSE m.entry[k]],
     cell |-> m.cell]

(* Replaying the entries of s mixes the inputs in one after the other. *)
LEMMA MixedIsReplayed ==
    ASSUME TypeOK, NEW s \in Seq(Key), DOMAIN s = 1..Len(s), NEW m \in Memory, NEW i \in 1..Len(s)
    PROVE  Mixed(s, m, i) = Apply(Mixed(s, m, i - 1), Records(s)[i])
<1> DEFINE k0 == s[i]
           e == [of |-> k0, at |-> entry[k0].ch, rec |-> entry[k0].val]
           a == Mixed(s, m, i - 1)
<1>1. k0 \in Key /\ entry[k0] \in Entry /\ entry \in [Key -> Entry] /\ m.entry \in [Key -> Entry]
      /\ Len(s) \in Nat
    BY ElementOfSeq, LenProperties DEF TypeOK, Memory
<1>2. Records(s)[i] = e
    BY RecordsAre
<1>3. entry[k0] = [val |-> entry[k0].val, ch |-> entry[k0].ch]
    BY <1>1 DEF Entry
<1>4. \A k \in Key : (\E j \in 1..i : s[j] = k) <=> (k = k0 \/ \E j \in 1..i - 1 : s[j] = k)
  <2> SUFFICES ASSUME NEW k \in Key
               PROVE  (\E j \in 1..i : s[j] = k) <=> (k = k0 \/ \E j \in 1..i - 1 : s[j] = k)
    OBVIOUS
  <2>1. \A j \in 1..i : j = i \/ j \in 1..i - 1
    BY <1>1
  <2>2. \A j \in 1..i - 1 : j \in 1..i
    BY <1>1
  <2>3. i \in 1..i
    BY <1>1
  <2> QED  BY <2>1, <2>2, <2>3
<1>5. a.entry = [k \in Key |-> IF \E j \in 1..i - 1 : s[j] = k THEN entry[k] ELSE m.entry[k]]
      /\ a.cell = m.cell /\ a = [entry |-> a.entry, cell |-> a.cell]
    BY DEF Mixed
<1>6. Apply(a, e) = [a EXCEPT !.entry[k0] = entry[k0]]
  <2>1. e.of = k0 /\ e.at = entry[k0].ch /\ e.rec = entry[k0].val
    OBVIOUS
  <2>2. Apply(a, e) = [a EXCEPT !.entry[e.of] = [val |-> e.rec, ch |-> e.at]]
    BY <1>1, <2>1 DEF Apply
  <2> QED  BY <1>3, <2>1, <2>2
<1> HIDE DEF e, k0
<1>7. Apply(a, e) = [entry |-> [a.entry EXCEPT ![k0] = entry[k0]], cell |-> m.cell]
  <2> HIDE DEF a
  <2> QED  BY <1>5, <1>6
<1>8. [a.entry EXCEPT ![k0] = entry[k0]] =
          [k \in Key |-> IF \E j \in 1..i : s[j] = k THEN entry[k] ELSE m.entry[k]]
  <2> DEFINE b == a.entry
  <2>1. b = [k \in Key |-> IF \E j \in 1..i - 1 : s[j] = k THEN entry[k] ELSE m.entry[k]]
    BY <1>5
  <2> HIDE DEF b
  <2>2. [b EXCEPT ![k0] = entry[k0]] =
            [k \in Key |-> IF \E j \in 1..i : s[j] = k THEN entry[k] ELSE m.entry[k]]
    BY <1>1, <1>4, <2>1
  <2> QED  BY <2>2 DEF b
<1> QED  BY <1>2, <1>7, <1>8 DEF Mixed

\* Some of the inputs that changed since the base are logged; half of them are
\* right with the cell that is in the log already, unless one of them is newer
\* than it.
LEMMA SomeInputs ==
    ASSUME PersistInv, TypeOK', Usable, NEW s \in Seq(Key), DOMAIN s = 1..Len(s),
           \A i \in 1..Len(s) : Changed(s[i]),
           UNCHANGED <<status, replay, rev, entry, cell, base, log, kept>>,
           writer' \in Writer, writer'.base = writer.base, writer'.file = writer.file,
           writer'.buffer = writer.buffer \o Records(s), writer'.seen = SeenAfter(s),
           CallsAreOnTheirWay'
    PROVE  PersistInv'
<1>1. TypeOK /\ DOMAIN s = 1..Len(s) /\ \A i \in 1..Len(s) : Changed(s[i])
    BY DEF PersistInv
<1>2. PICK R \in Seq(Logged) : R = Records(s)
    BY <1>1, RecordsAre
<1>3. Len(R) = Len(s) /\ Len(s) \in Nat
      /\ \A i \in 1..Len(s) : R[i] = [of |-> s[i], at |-> entry[s[i]].ch, rec |-> entry[s[i]].val]
    BY <1>1, <1>2, RecordsAre, LenProperties
<1>4. /\ NoNewer(entry, rev) /\ Keeps(entry) /\ writer.base \in Nat /\ rev \in Nat
      /\ entry \in [Key -> Entry] /\ writer.seen \in [Key -> Entry]
    BY WriterIs
<1>5. PICK f : GoodStory(f) /\ EndsAsSeen(f[Len(Told)])
    BY DEF PersistInv, StoryIsTold
<1>6. Told \in Seq(Logged) /\ Len(Told) \in Nat /\ Len(Written) <= Len(Told)
    BY <1>1, TellingIsTyped, LenProperties
<1>7. PICK m \in Memory : m = f[Len(Told)] /\ GoodMoment(Told, Len(Told), m) /\ Keeps(m.entry)
  <2>1. Len(Told) \in 0..Len(Told) /\ Len(Told) \in Len(Written)..Len(Told)
    BY <1>1, <1>6, TellingIsTyped
  <2> QED  BY <1>5, <2>1 DEF GoodStory, IsStory
<1>8. /\ m.entry = writer.seen
      /\ m.cell # NoCell => m.cell.ver <= rev
      /\ \A k \in Key : entry[k] # writer.seen[k] =>
            /\ entry[k].ch > writer.base
            /\ entry[k].ch > writer.seen[k].ch
            /\ m.cell # NoCell => entry[k].ch > m.cell.ver
    BY <1>5, <1>7 DEF EndsAsSeen
<1>9. PICK h \in [0..Len(R) -> Memory] : \A i \in 0..Len(R) : h[i] = Mixed(s, m, i)
  <2>1. ASSUME NEW i \in 0..Len(R) PROVE Mixed(s, m, i) \in Memory
    BY <1>4 DEF Mixed, Memory
  <2>2. \E h \in [0..Len(R) -> Memory] : h = [i \in 0..Len(R) |-> Mixed(s, m, i)]
    BY <2>1
  <2> QED  BY <2>2
<1>10. h[0] = m
  <2>1. 0 \in 0..Len(R) /\ 1..0 = {}
    BY <1>3
  <2>2. m = [entry |-> m.entry, cell |-> m.cell] /\ m.entry = [k \in Key |-> m.entry[k]]
    BY DEF Memory
  <2> QED  BY <1>9, <2>1, <2>2 DEF Mixed
<1>11. ASSUME NEW i \in 1..Len(R) PROVE h[i] = Apply(h[i - 1], R[i])
  <2>1. i \in 0..Len(R) /\ i - 1 \in 0..Len(R) /\ i \in 1..Len(s)
    BY <1>3
  <2>2. Mixed(s, m, i) = Apply(Mixed(s, m, i - 1), Records(s)[i])
    BY <1>1, <2>1, MixedIsReplayed
  <2> QED  BY <1>2, <1>9, <2>1, <2>2
<1> DEFINE T == Told \o R
<1>12. /\ \A i \in 1..Len(Told) : T[i] = Told[i]
       /\ \A i \in 1..Len(R) : T[Len(Told) + i] = R[i]
  <2>1. \A i \in 1..Len(Told) + Len(R) : T[i] = IF i <= Len(Told) THEN Told[i] ELSE R[i - Len(Told)]
    BY <1>6, ConcatProperties
  <2>2. Len(R) \in Nat
    BY <1>3
  <2>3. ASSUME NEW i \in 1..Len(R) PROVE T[Len(Told) + i] = R[i]
    <3>1. Len(Told) + i \in 1..Len(Told) + Len(R) /\ ~(Len(Told) + i <= Len(Told)) /\ (Len(Told) + i) - Len(Told) = i
      BY <1>6, <2>2
    <3> QED  BY <2>1, <3>1
  <2>4. ASSUME NEW i \in 1..Len(Told) PROVE T[i] = Told[i]
    <3>1. i \in 1..Len(Told) + Len(R) /\ i <= Len(Told)
      BY <1>6, <2>2
    <3> QED  BY <2>1, <3>1
  <2> QED  BY <2>3, <2>4
<1> HIDE DEF T
<1>13. ASSUME NEW i \in 1..Len(R) PROVE GoodMoment(T, Len(Told) + i, h[i]) /\ Keeps(h[i].entry)
  <2>1. i \in 0..Len(R) /\ i \in Nat
    BY <1>3
  <2>2. /\ h[i].cell = m.cell
        /\ \A k \in Key : h[i].entry[k] = IF \E j \in 1..i : s[j] = k THEN entry[k] ELSE m.entry[k]
        /\ h[i].entry \in [Key -> Entry]
    <3>1. h[i] = Mixed(s, m, i) /\ h[i] \in Memory
      BY <1>9, <2>1
    <3>2. h[i].entry \in [Key -> Entry]
      BY <3>1 DEF Memory
    <3> QED  BY <3>1, <3>2 DEF Mixed
  <2>3. ASSUME NEW k \in Key PROVE Reached(T, Len(Told) + i, h[i].entry[k].ch)
    <3>1. CASE \E j \in 1..i : s[j] = k
      <4>1. PICK j \in 1..i : s[j] = k
        BY <3>1
      <4>2. j \in 1..Len(R) /\ Len(Told) + j \in 1..Len(Told) + i
        BY <1>3, <1>6, <2>1
      <4>3. T[Len(Told) + j].at = entry[k].ch
        <5>1. T[Len(Told) + j] = R[j] /\ j \in 1..Len(s)
          BY <1>3, <1>12, <4>2
        <5>2. R[j] = [of |-> s[j], at |-> entry[s[j]].ch, rec |-> entry[s[j]].val]
          BY <1>3, <5>1
        <5> QED  BY <4>1, <5>1, <5>2
      <4>4. entry[k].ch \in Nat
        BY <1>4, RevisionsAreNat DEF Entry
      <4>5. h[i].entry[k].ch = entry[k].ch
        BY <2>2, <3>1
      <4>6. entry[k].ch <= T[Len(Told) + j].at
        BY <4>3, <4>4
      <4> QED  BY <4>2, <4>5, <4>6 DEF Reached
    <3>2. CASE ~\E j \in 1..i : s[j] = k
      <4>1. Reached(Told, Len(Told), m.entry[k].ch)
        BY <1>7 DEF GoodMoment
      <4>2. Len(Told) <= Len(Told) + i /\ Len(Told) + i \in Nat
        BY <1>6, <2>1
      <4>3. Reached(T, Len(Told) + i, m.entry[k].ch)
        BY <1>6, <1>12, <4>1, <4>2, ReachedLater
      <4> QED  BY <2>2, <3>2, <4>3
    <3> QED  BY <3>1, <3>2
  <2>4. m.cell # NoCell => Reached(T, Len(Told) + i, m.cell.ver)
    <3> SUFFICES ASSUME m.cell # NoCell PROVE Reached(T, Len(Told) + i, m.cell.ver)
      OBVIOUS
    <3>1. Reached(Told, Len(Told), m.cell.ver)
      BY <1>7 DEF GoodMoment
    <3>2. Len(Told) <= Len(Told) + i /\ Len(Told) + i \in Nat
      BY <1>6, <2>1
    <3> QED  BY <1>6, <1>12, <3>1, <3>2, ReachedLater
  <2>5. CellFits(h[i].entry, m.cell)
    <3> SUFFICES ASSUME m.cell # NoCell
                 PROVE  /\ m.cell.ch <= m.cell.ver
                        /\ NoNewer(h[i].entry, m.cell.ver) => m.cell.val = Eval(ValuesOf(h[i].entry))
      BY DEF CellFits
    <3>1. m.cell.ch <= m.cell.ver /\ (NoNewer(m.entry, m.cell.ver) => m.cell.val = Eval(ValuesOf(m.entry)))
      BY <1>7 DEF GoodMoment, CellFits
    <3>2. ASSUME NoNewer(h[i].entry, m.cell.ver) PROVE h[i].entry = m.entry
      <4>1. m.cell.ver \in Nat
        BY RevisionsAreNat DEF Memory, CellValue
      <4>2. ASSUME NEW k \in Key PROVE h[i].entry[k] = m.entry[k]
        <5>1. entry[k].ch \in Nat /\ h[i].entry[k].ch <= m.cell.ver
          BY <1>4, <3>2, RevisionsAreNat DEF Entry, NoNewer
        <5>2. CASE \E j \in 1..i : s[j] = k
          <6>1. h[i].entry[k] = entry[k]
            BY <2>2, <5>2
          <6>2. ~(entry[k].ch > m.cell.ver)
            BY <4>1, <5>1, <6>1
          <6> QED  BY <1>8, <6>1, <6>2
        <5>3. CASE ~\E j \in 1..i : s[j] = k
          BY <2>2, <5>3
        <5> QED  BY <5>2, <5>3
      <4> QED  BY <1>4, <1>8, <2>2, <4>2
    <3> QED  BY <3>1, <3>2
  <2>6. Keeps(h[i].entry)
    BY <1>4, <1>7, <2>2 DEF Keeps, Follows
  <2> QED  BY <2>2, <2>3, <2>4, <2>5, <2>6 DEF GoodMoment
<1>14. h[Len(R)].entry = SeenAfter(s) /\ h[Len(R)].cell = m.cell
  <2>1. Len(R) \in 0..Len(R)
    BY <1>3
  <2>2. /\ h[Len(R)].cell = m.cell
        /\ h[Len(R)].entry = [k \in Key |-> IF \E j \in 1..Len(R) : s[j] = k THEN entry[k] ELSE m.entry[k]]
    <3>1. h[Len(R)] = Mixed(s, m, Len(R))
      BY <1>9, <2>1
    <3> QED  BY <3>1 DEF Mixed
  <2> QED  BY <1>3, <1>8, <2>2 DEF SeenAfter
<1>15. \A i \in 1..Len(R) : R[i].at > writer.base /\ R[i].at <= rev
  <2> SUFFICES ASSUME NEW i \in 1..Len(R) PROVE R[i].at > writer.base /\ R[i].at <= rev
    OBVIOUS
  <2>1. s[i] \in Key /\ R[i].at = entry[s[i]].ch
    <3>1. i \in 1..Len(s)
      BY <1>3
    <3>2. R[i] = [of |-> s[i], at |-> entry[s[i]].ch, rec |-> entry[s[i]].val]
      BY <1>3, <3>1
    <3>3. s[i] \in Key
      BY <3>1, ElementOfSeq
    <3> QED  BY <3>2, <3>3
  <2>2. entry[s[i]].ch > writer.base
    BY <1>1, <1>3 DEF Changed
  <2> QED  BY <1>4, <2>1, <2>2 DEF NoNewer
<1>16. ASSUME NEW k \in Key, entry[k] # SeenAfter(s)[k]
       PROVE  /\ entry[k].ch > writer.base
              /\ entry[k].ch > SeenAfter(s)[k].ch
              /\ m.cell # NoCell => entry[k].ch > m.cell.ver
  <2>1. SeenAfter(s)[k] = writer.seen[k]
    BY <1>16 DEF SeenAfter
  <2> QED  BY <1>8, <1>16, <2>1
<1> QED
  <2>1. h[0] = f[Len(Told)]
    BY <1>7, <1>10
  <2>2. \A i \in 1..Len(R) :
            /\ h[i] = Apply(h[i - 1], R[i])
            /\ GoodMoment(Told \o R, Len(Told) + i, h[i])
            /\ Keeps(h[i].entry)
    BY <1>11, <1>13 DEF T
  <2>3. h[Len(R)].entry = writer'.seen /\ (h[Len(R)].cell # NoCell => h[Len(R)].cell.ver <= rev)
    BY <1>8, <1>14
  <2>4. \A k \in Key : entry[k] # writer'.seen[k] =>
                /\ entry[k].ch > writer.base
                /\ entry[k].ch > writer'.seen[k].ch
                /\ h[Len(R)].cell # NoCell => entry[k].ch > h[Len(R)].cell.ver
    BY <1>14, <1>16
  <2>5. writer'.buffer = writer.buffer \o R
    BY <1>2
  <2> QED  BY <1>5, <1>15, <2>1, <2>2, <2>3, <2>4, <2>5, AppendedStory

(* What an append under way writes to. *)
LEMMA AppendIs ==
    ASSUME PersistInv, Doing("append")
    PROVE  /\ op.call = "append" /\ op # NoOp /\ op \in Operation
           /\ Usable /\ writer # NoWriter /\ writer \in Writer /\ ~writer.cut /\ ~op.cellsFirst
           /\ op.i > 1 => writer.seen = entry
<1>1. op.call = "append" /\ op # NoOp /\ op \in Operation
    BY OpParts DEF PersistInv, Doing
<1>2. Usable /\ ~writer.cut /\ ~op.cellsFirst /\ (op.i > 1 => writer.seen = entry)
    BY DEF PersistInv, CallsAreOnTheirWay
<1> QED  BY <1>1, <1>2, WriterIs, WriterParts

(* All inputs changed since the base are logged. *)
LEMMA InputsKeep == ASSUME PersistInv, AppendInputs PROVE PersistInv'
<1>1. TypeInv /\ TypeInv' /\ TypeOK /\ TypeOK' /\ At("logInputs") /\ Advance(op)
    BY InvariantIsTyped, AppendKeepsTypes DEF AppendInputs, TypeInv
<1>2. op # NoOp /\ op \in Operation /\ Doing("append") /\ ~op.cellsFirst /\ op.i = 1
      /\ Usable /\ writer # NoWriter /\ writer \in Writer /\ ~writer.cut
    BY <1>1, AtPlaces, AppendIs DEF Doing
<1>3. UNCHANGED <<status, replay, rev, entry, cell, base, log, kept>>
    BY DEF AppendInputs, memory, files
<1>4. PICK s \in Seq(Key) :
        /\ DOMAIN s = 1..Len(s)
        /\ \A i \in 1..Len(s) : Changed(s[i])
        /\ \A k \in Key : Changed(k) => \E i \in 1..Len(s) : s[i] = k
        /\ writer' = [writer EXCEPT !.seen = entry, !.buffer = Extended(Records(s))]
    BY <1>1, AppendInputsIs
<1>5. Records(s) \in Seq(Logged)
    BY <1>1, <1>4, RecordsAre
<1>6. Extended(Records(s)) = writer.buffer \o Records(s) /\ Extended(Records(s)) \in Seq(Logged)
    BY <1>1, <1>2, <1>5, ExtendedIsTyped
<1>7. SeenAfter(s) = entry
  <2>1. PICK m : EndsAsSeen(m)
    BY <1>2 DEF PersistInv, StoryIsTold
  <2>2. ASSUME NEW k \in Key, ~\E i \in 1..Len(s) : s[i] = k PROVE writer.seen[k] = entry[k]
    <3>1. ~Changed(k)
      BY <1>4, <2>2
    <3> QED  BY <2>1, <3>1 DEF EndsAsSeen, Changed
  <2>3. entry \in [Key -> Entry]
    BY <1>1 DEF TypeOK
  <2> QED  BY <2>2, <2>3 DEF SeenAfter
<1>8. /\ writer' \in Writer /\ writer'.base = writer.base /\ writer'.file = writer.file
      /\ writer'.cut = writer.cut /\ writer'.buffer = writer.buffer \o Records(s) /\ writer'.seen = entry
  <2>1. entry \in [Key -> Entry]
    BY <1>1 DEF TypeOK
  <2> QED  BY <1>2, <1>4, <1>6, <2>1 DEF Writer
<1>9. op' # NoOp => op'.i = 2 /\ op'.call = "append" /\ ~op'.cellsFirst
    BY <1>1, <1>2, Advancing DEF Doing
<1>10. CallsAreOnTheirWay'
  <2>1. Usable' /\ ~writer'.cut
    BY <1>2, <1>3, <1>8, NonesOfPersist DEF Usable
  <2> QED  BY <1>3, <1>8, <1>9, <2>1 DEF CallsAreOnTheirWay, Doing
<1> QED  BY <1>1, <1>2, <1>3, <1>4, <1>7, <1>8, <1>10, SomeInputs

(* An append that fails has logged some of the inputs, and is the last one   *)
(* of its writer.                                                            *)
LEMMA FailsKeep == ASSUME PersistInv, AppendFails PROVE PersistInv'
<1>1. TypeInv /\ TypeInv' /\ TypeOK /\ TypeOK'
    BY InvariantIsTyped, AppendKeepsTypes DEF TypeInv
<1>2. op' = NoOp /\ UNCHANGED <<status, replay, rev, entry, cell, base, log, kept>>
    BY DEF AppendFails, memory, files
<1>3. Usable /\ writer # NoWriter /\ writer \in Writer /\ ~writer.cut
  <2>1. Doing("append")
    BY <1>1, AtPlaces DEF AppendFails, Doing
  <2> QED  BY <2>1, AppendIs
<1>4. PICK s \in Seq(Key), cut \in BOOLEAN :
        /\ DOMAIN s = 1..Len(s)
        /\ \A i \in 1..Len(s) : Changed(s[i])
        /\ writer' = [writer EXCEPT !.buffer = Extended(Records(s)), !.cut = cut, !.seen = SeenAfter(s)]
    BY <1>1, <1>3, AppendFailsIs
<1>5. Records(s) \in Seq(Logged)
    BY <1>1, <1>4, RecordsAre
<1>6. Extended(Records(s)) = writer.buffer \o Records(s) /\ Extended(Records(s)) \in Seq(Logged)
    BY <1>1, <1>3, <1>5, ExtendedIsTyped
<1>7. /\ writer' \in Writer /\ writer'.base = writer.base /\ writer'.file = writer.file
      /\ writer'.buffer = writer.buffer \o Records(s) /\ writer'.seen = SeenAfter(s)
  <2>1. SeenAfter(s) \in [Key -> Entry]
    BY <1>1, <1>3, WriterParts DEF TypeOK, SeenAfter
  <2> QED  BY <1>3, <1>4, <1>6, <2>1 DEF Writer
<1>8. CallsAreOnTheirWay'
    BY <1>2 DEF CallsAreOnTheirWay, Doing
<1> QED  BY <1>1, <1>2, <1>3, <1>4, <1>7, <1>8, SomeInputs

(* The cell is logged after the inputs that it was computed from: the story  *)
(* ends with what the memory is.                                             *)
LEMMA CellsKeep == ASSUME PersistInv, AppendCells PROVE PersistInv'
<1>1. TypeInv /\ TypeInv' /\ TypeOK /\ TypeOK' /\ At("logCells") /\ Advance(op)
    BY InvariantIsTyped, AppendKeepsTypes DEF AppendCells, TypeInv
<1>2. op # NoOp /\ op \in Operation /\ op.call = "append" /\ op.i = 2
      /\ Usable /\ writer # NoWriter /\ ~writer.cut /\ writer.seen = entry
  <2>1. Doing("append") /\ op.i = IF op.cellsFirst THEN 1 ELSE 2
    BY <1>1, AtPlaces DEF Doing
  <2>2. ~op.cellsFirst
    BY <2>1, AppendIs
  <2> QED  BY <2>1, <2>2, AppendIs
<1>3. writer # NoWriter /\ writer.seen = entry
    BY <1>2
<1>4. UNCHANGED <<status, replay, rev, entry, cell, base, log, kept>>
    BY DEF AppendCells, memory, files
<1>5. op' = NoOp
  <2>1. op.i = Len(Plan[op.call])
    BY <1>2, PlanLengths
  <2> QED  BY <1>1, <1>2, <2>1, Advancing
<1>6. CallsAreOnTheirWay'
    BY <1>5 DEF CallsAreOnTheirWay, Spent, Usable, Doing
<1>7. CASE ~(cell # NoCell /\ cell.ch > writer.base)
  <2>1. writer' = writer
    BY <1>1, <1>2, <1>7, AppendCellsIs
  <2> QED  BY <1>1, <1>4, <1>5, <1>6, <2>1, OnlyTheCall
<1>8. CASE cell # NoCell /\ cell.ch > writer.base
  <2> DEFINE r == [of |-> Memo, at |-> cell.ch, rec |-> cell]
             L == Len(Told)
  <2>1. r \in Logged /\ r.of = Memo /\ r.at = cell.ch /\ r.rec = cell
    BY <1>1, <1>8, RecordsAreLogged
  <2>2. writer' = [writer EXCEPT !.buffer = Extended(<<r>>)]
    BY <1>1, <1>2, <1>8, AppendCellsIs
  <2> HIDE DEF r
  <2>3. PICK R \in Seq(Logged) : R = <<r>> /\ Len(R) = 1 /\ R[1] = r
    <3>1. <<r>> \in Seq(Logged) /\ Len(<<r>>) = 1 /\ <<r>>[1] = r
      BY <2>1
    <3> QED  BY <3>1
  <2>4. /\ Continues /\ Loaded.rev = writer.base
        /\ (rev = writer.base \/ \E k \in Key : entry[k].ch = rev)
        /\ CellFits(entry, cell) /\ cell.ver <= rev /\ Keeps(entry) /\ writer.base \in Nat /\ rev \in Nat
        /\ writer.buffer \in Seq(Logged) /\ writer \in Writer /\ entry \in [Key -> Entry]
        /\ cell \in CellValue
    BY <1>1, <1>2, <1>8, WriterIs, WriterParts DEF TypeOK
  <2>5. /\ writer' \in Writer /\ writer'.base = writer.base /\ writer'.file = writer.file
        /\ writer'.buffer = writer.buffer \o R /\ writer'.seen = entry
    <3>1. Extended(R) = writer.buffer \o R /\ Extended(R) \in Seq(Logged)
      BY <1>1, <1>2, ExtendedIsTyped
    <3> QED  BY <1>3, <2>2, <2>3, <2>4, <3>1 DEF Writer
  <2>6. PICK f : GoodStory(f) /\ EndsAsSeen(f[L])
    BY <1>2 DEF PersistInv, StoryIsTold
  <2>7. Told \in Seq(Logged) /\ L \in Nat
    BY <1>1, TellingIsTyped, LenProperties
  <2>8. PICK m \in Memory : m = f[L] /\ GoodMoment(Told, L, m) /\ m.entry = entry
    <3>1. L \in 0..L
      BY <2>7
    <3> QED  BY <1>3, <2>6, <3>1 DEF GoodStory, IsStory, EndsAsSeen
  <2>9. PICK n \in Memory : n = [entry |-> entry, cell |-> cell] /\ n.entry = entry /\ n.cell = cell
    <3>1. [entry |-> entry, cell |-> cell] \in Memory
      BY <2>4 DEF Memory
    <3> QED  BY <3>1
  <2>10. n = Apply(m, r)
    <3>1. r.of \notin Key
      BY <2>1, NamesDiffer
    <3>2. Apply(m, r) = [m EXCEPT !.cell = cell]
      BY <2>1, <3>1 DEF Apply
    <3>3. m = [entry |-> m.entry, cell |-> m.cell]
      BY DEF Memory
    <3> QED  BY <2>8, <2>9, <3>2, <3>3
  <2> DEFINE T == Told \o R
  <2>11. \A i \in 1..L : T[i] = Told[i]
    <3>1. \A i \in 1..L + 1 : T[i] = IF i <= L THEN Told[i] ELSE R[i - L]
      BY <2>3, <2>7, ConcatProperties
    <3>2. \A i \in 1..L : i \in 1..L + 1 /\ i <= L
      BY <2>7
    <3> QED  BY <3>1, <3>2
  <2> HIDE DEF T, L
  <2>12. \A x : Reached(Told, L, x) => Reached(T, L + 1, x)
    <3>1. L <= L + 1 /\ L + 1 \in Nat
      BY <2>7
    <3> QED  BY <2>7, <2>11, <3>1, ReachedLater
  <2>13. GoodMoment(T, L + 1, n)
    <3>1. \A k \in Key : Reached(Told, L, entry[k].ch)
      BY <2>8 DEF GoodMoment
    <3>2. Reached(Told, L, cell.ver)
      <4>1. cell.ver \in Nat
        BY <2>4, RevisionsAreNat DEF CellValue
      <4>2. CASE rev = writer.base
        BY <2>4, <4>2 DEF Reached
      <4>3. ASSUME NEW k \in Key, entry[k].ch = rev PROVE Reached(Told, L, cell.ver)
        <5>1. Reached(Told, L, rev)
          BY <3>1, <4>3
        <5>2. CASE rev <= Loaded.rev
          BY <2>4, <4>1, <5>2 DEF Reached
        <5>3. ASSUME NEW i \in 1..L, rev <= Told[i].at PROVE Reached(Told, L, cell.ver)
          <6>1. Told[i].at \in Nat
            BY <2>7, ElementOfSeq, LoggedParts, RevisionsAreNat DEF L
          <6>2. cell.ver <= Told[i].at
            BY <2>4, <4>1, <5>3, <6>1
          <6> QED  BY <6>2 DEF Reached
        <5> QED  BY <5>1, <5>2, <5>3 DEF Reached
      <4> QED  BY <2>4, <4>2, <4>3
    <3> QED  BY <2>4, <2>9, <2>12, <3>1, <3>2 DEF GoodMoment
  <2>14. PICK h \in [0..Len(R) -> Memory] : h[0] = m /\ h[1] = n
    <3> DEFINE d == [i \in 0..1 |-> IF i = 0 THEN m ELSE n]
    <3>1. d \in [0..1 -> Memory] /\ d[0] = m /\ d[1] = n
      OBVIOUS
    <3> HIDE DEF d
    <3> QED  BY <2>3, <3>1
  <2>15. \A i \in 1..Len(R) : i = 1
    BY <2>3
  <2>16. \A i \in 1..Len(R) :
            /\ h[i] = Apply(h[i - 1], R[i])
            /\ GoodMoment(Told \o R, Len(Told) + i, h[i])
            /\ Keeps(h[i].entry)
    BY <2>3, <2>4, <2>9, <2>10, <2>13, <2>14, <2>15 DEF T, L
  <2>17. \A i \in 1..Len(R) : R[i].at > writer.base /\ R[i].at <= rev
    <3>1. cell.ch <= cell.ver /\ cell.ch \in Nat /\ cell.ver \in Nat
      BY <1>8, <2>4, RevisionsAreNat DEF CellFits, CellValue
    <3>2. cell.ch <= rev
      BY <2>4, <3>1
    <3> QED  BY <1>8, <2>1, <2>3, <2>15, <3>2
  <2>18. h[0] = f[Len(Told)]
    BY <2>8, <2>14 DEF L
  <2>19. h[Len(R)].entry = writer'.seen /\ (h[Len(R)].cell # NoCell => h[Len(R)].cell.ver <= rev)
    BY <2>3, <2>4, <2>5, <2>9, <2>14
  <2>20. \A k \in Key : entry[k] = writer'.seen[k]
    BY <2>5
  <2> QED  BY <1>1, <1>2, <1>4, <1>6, <2>5, <2>6, <2>16, <2>17, <2>18, <2>19, <2>20, AppendedStory
<1> QED  BY <1>7, <1>8

-----------------------------------------------------------------------------
(* Writing and reading the database *)

LEMMA WorkKeeps == ASSUME PersistInv, Work, op = NoOp PROVE PersistInv'
<1>1. TypeInv /\ TypeInv' /\ TypeOK /\ TypeOK'
    BY InvariantIsTyped, WorkKeepsTypes DEF TypeInv
<1>2. status = "up" /\ UNCHANGED <<status, op, writer, base, log, kept, replay>>
    BY DEF Work, Query, Set, Working, files
<1>3. /\ Loaded' = Loaded /\ Continues' = Continues /\ Usable' = Usable /\ Linked' = Linked
      /\ Written' = Written /\ Told' = Told
    BY <1>2 DEF Loaded, Continues, Usable, Linked, Written, Pending, Told
<1>4. /\ NoNewer(entry, rev) /\ CellFits(entry, cell) /\ (cell # NoCell => cell.ver <= rev) /\ Keeps(entry)
      /\ rev \in Nat /\ entry \in [Key -> Entry] /\ cell \in CellValue \union {NoCell} /\ kept \in [Key -> Entry]
      /\ \A k \in Key : entry[k].ch \in Nat /\ kept[k].ch \in Nat
    BY <1>1, <1>2, RevisionsAreNat DEF PersistInv, UpIsSound, TypeOK, Entry
<1>5. CallsAreOnTheirWay'
    BY <1>2 DEF CallsAreOnTheirWay, Spent, Usable, Doing
<1>6. StatusFits'
    BY <1>2 DEF PersistInv, StatusFits
<1>7. CASE Query
  <2>1. rev' = rev /\ entry' = entry
    BY <1>7 DEF Query
  <2>2. EntriesAreLater' /\ WriterFits'
    BY <1>2, <1>3, <2>1 DEF PersistInv, EntriesAreLater, WriterFits, Follows
  <2>3. StoryIsTold'
    <3>1. PICK f : GoodStory(f) /\ (Usable => EndsAsSeen(f[Len(Told)]))
      BY DEF PersistInv, StoryIsTold
    <3>2. GoodStory(f)'
      BY <1>2, <1>3, <3>1, SameStory
    <3>3. ReplaysStory(f)'
      BY <1>2 DEF ReplaysStory, Replaying
    <3>4. (Usable => EndsAsSeen(f[Len(Told)]))'
      BY <1>2, <1>3, <2>1, <3>1 DEF EndsAsSeen
    <3> QED  BY <3>2, <3>3, <3>4 DEF StoryIsTold
  <2>4. Contents = ValuesOf(entry)
    BY DEF Contents, ValuesOf
  <2>5. CellFits(entry, cell') /\ (cell' # NoCell => cell'.ver <= rev)
    <3>1. CASE cell # NoCell /\ (Answers \/ cell.val = Eval(Contents))
      <4>1. cell' = [cell EXCEPT !.ver = rev] /\ cell \in CellValue /\ cell.ver # rev
        BY <1>4, <1>7, <3>1 DEF Query
      <4>2. cell'.val = cell.val /\ cell'.ver = rev /\ cell'.ch = cell.ch
        BY <4>1 DEF CellValue
      <4>3. cell.ch \in Nat /\ cell.ver \in Nat /\ cell.ch <= cell.ver /\ cell.ver <= rev
        BY <1>4, <3>1, <4>1, RevisionsAreNat DEF CellValue, CellFits
      <4>4. cell.val = Eval(Contents)
        <5>1. CASE \A k \in Key : entry[k].ch <= cell.ch
          <6>1. NoNewer(entry, cell.ver)
            BY <1>4, <4>3, <5>1 DEF NoNewer
          <6> QED  BY <1>4, <2>4, <3>1, <6>1 DEF CellFits
        <5> QED  BY <3>1, <4>1, <5>1 DEF Answers
      <4>5. cell'.ch <= cell'.ver
        BY <1>4, <4>2, <4>3
      <4> QED  BY <1>4, <2>4, <4>2, <4>4, <4>5 DEF CellFits
    <3>2. CASE ~(cell # NoCell /\ (Answers \/ cell.val = Eval(Contents)))
      <4>1. cell' = [val |-> Eval(Contents), ver |-> rev, ch |-> rev]
        BY <1>7, <3>2 DEF Query
      <4> QED  BY <1>4, <2>4, <4>1 DEF CellFits
    <3> QED  BY <3>1, <3>2
  <2>6. UpIsSound'
    <3>1. CellFits(entry, cell)'
      BY <2>1, <2>5 DEF CellFits, NoNewer, ValuesOf
    <3>2. (NoNewer(entry, rev) /\ Keeps(entry))'
      BY <1>2, <1>4, <2>1 DEF NoNewer, Keeps, Follows
    <3> QED  BY <2>1, <2>5, <3>1, <3>2 DEF UpIsSound
  <2> QED  BY <1>1, <1>5, <1>6, <2>2, <2>3, <2>6 DEF PersistInv
<1>8. ASSUME NEW k \in Key, NEW x \in Stored, Set(k, x) PROVE PersistInv'
  <2>1. rev' = rev + 1 /\ cell' = cell /\ entry' = [entry EXCEPT ![k] = [val |-> x, ch |-> rev + 1]]
    BY <1>8 DEF Set
  <2>2. entry'[k].ch = rev' /\ \A l \in Key : l # k => entry'[l] = entry[l]
    BY <1>4, <2>1
  <2>3. EntriesAreLater'
    <3>1. \A i \in 1..Len(log.entries) : log # NoFile => log.entries[i].at \in Nat
      BY <1>1, LogParts, ElementOfSeq, LoggedParts, RevisionsAreNat
    <3>2. \A i \in 1..Len(writer.buffer) : writer # NoWriter => writer.buffer[i].at \in Nat
      BY <1>1, WriterParts, ElementOfSeq, LoggedParts, RevisionsAreNat
    <3>3. Linked => writer # NoWriter
      BY DEF Linked
    <3> QED  BY <1>2, <1>3, <1>4, <2>1, <3>1, <3>2, <3>3 DEF PersistInv, EntriesAreLater
  <2>4. WriterFits'
    <3>1. (writer # NoWriter => base # NoFile /\ writer.base <= base.rev /\ base.rev <= rev)'
      <4> SUFFICES ASSUME writer # NoWriter PROVE base # NoFile /\ writer.base <= base.rev /\ base.rev <= rev'
        BY <1>2
      <4>1. base # NoFile /\ writer.base <= base.rev /\ base.rev <= rev
        BY DEF PersistInv, WriterFits
      <4>2. base.rev \in Nat
        BY <1>1, <4>1, RevisionsAreNat DEF TypeOK, Saved
      <4> QED  BY <1>4, <2>1, <4>1, <4>2
    <3>2. (Linked => log # NoFile /\ ~log.headless /\ log.base = writer.base)'
      BY <1>2, <1>3 DEF PersistInv, WriterFits
    <3>3. (writer # NoWriter /\ ~Usable => Follows(kept, writer.seen))'
      BY <1>2, <1>3 DEF PersistInv, WriterFits, Follows
    <3> QED  BY <2>2, <3>1, <3>2, <3>3 DEF WriterFits
  <2>5. StoryIsTold'
    <3>1. PICK f : GoodStory(f) /\ (Usable => EndsAsSeen(f[Len(Told)]))
      BY DEF PersistInv, StoryIsTold
    <3>2. GoodStory(f)'
      BY <1>2, <1>3, <3>1, SameStory
    <3>3. ReplaysStory(f)'
      BY <1>2 DEF ReplaysStory, Replaying
    <3>4. ASSUME Usable PROVE EndsAsSeen(f[Len(Told)])'
      <4>1. Len(Told) \in 0..Len(Told)
        BY <1>1, TellingIsTyped
      <4>2. PICK m \in Memory : m = f[Len(Told)]
        BY <3>1, <4>1 DEF GoodStory, IsStory
      <4>3. /\ m.entry = writer.seen
            /\ m.cell # NoCell => m.cell.ver <= rev
            /\ \A l \in Key : entry[l] # writer.seen[l] =>
                 /\ entry[l].ch > writer.base
                 /\ entry[l].ch > writer.seen[l].ch
                 /\ m.cell # NoCell => entry[l].ch > m.cell.ver
        BY <3>1, <3>4, <4>2 DEF EndsAsSeen
      <4>4. writer.base <= rev /\ writer.base \in Nat /\ writer.seen \in [Key -> Entry]
        BY <3>4, WriterIs
      <4>5. (m.cell # NoCell => m.cell.ver \in Nat) /\ writer.seen[k].ch \in Nat
        BY <4>4, RevisionsAreNat DEF Memory, CellValue, Entry
      <4>6. writer.seen[k].ch <= rev
        BY <1>4, <4>3, <4>5 DEF NoNewer
      <4>7. m.cell # NoCell => m.cell.ver <= rev'
        BY <1>4, <2>1, <4>3, <4>5
      <4>8. entry'[k].ch > writer.base /\ entry'[k].ch > writer.seen[k].ch
            /\ (m.cell # NoCell => entry'[k].ch > m.cell.ver)
        BY <1>4, <2>1, <2>2, <4>3, <4>4, <4>5, <4>6
      <4>9. \A l \in Key : entry'[l] # writer.seen[l] =>
                 /\ entry'[l].ch > writer.base
                 /\ entry'[l].ch > writer.seen[l].ch
                 /\ m.cell # NoCell => entry'[l].ch > m.cell.ver
        BY <2>2, <4>3, <4>8
      <4> QED  BY <1>2, <1>3, <4>2, <4>3, <4>7, <4>9 DEF EndsAsSeen
    <3> QED  BY <1>3, <3>2, <3>3, <3>4 DEF StoryIsTold
  <2>6. UpIsSound'
    <3>1. NoNewer(entry, rev)'
      BY <1>4, <2>1, <2>2 DEF NoNewer
    <3>2. CellFits(entry, cell)'
      <4> SUFFICES ASSUME cell # NoCell
                   PROVE  cell.ch <= cell.ver /\ ~NoNewer(entry', cell.ver)
        BY <2>1 DEF CellFits, NoNewer, ValuesOf
      <4>1. cell.ch <= cell.ver /\ cell.ver <= rev /\ cell.ver \in Nat
        BY <1>4, RevisionsAreNat DEF CellFits, CellValue
      <4>2. ~(entry'[k].ch <= cell.ver)
        BY <1>4, <2>1, <2>2, <4>1
      <4> QED  BY <4>1, <4>2 DEF NoNewer
    <3>3. (cell # NoCell => cell.ver <= rev)'
      <4>1. cell # NoCell => cell.ver \in Nat
        BY <1>4, RevisionsAreNat DEF CellValue
      <4> QED  BY <1>4, <2>1, <4>1
    <3>4. Keeps(entry)'
      <4>1. kept[k].ch <= rev
        BY <1>4 DEF Keeps, Follows, NoNewer
      <4>2. entry'[k].ch > kept[k].ch
        BY <1>4, <2>1, <2>2, <4>1
      <4> QED  BY <1>2, <1>4, <2>2, <4>2 DEF Keeps, Follows
    <3> QED  BY <3>1, <3>2, <3>3, <3>4 DEF UpIsSound
  <2> QED  BY <1>1, <1>5, <1>6, <2>3, <2>4, <2>5, <2>6 DEF PersistInv
<1> QED  BY <1>7, <1>8 DEF Work

-----------------------------------------------------------------------------
(* Crashing and starting *)

(* A story that is stopped after the entries that s has of it. *)
LEMMA ShorterStory ==
    ASSUME TypeOK, NEW f, GoodStory(f), NEW n \in 0..Len(Told), NEW s,
           Len(s) = n, \A i \in 1..n : s[i] = Told[i]
    PROVE  \E g : /\ g \in [0..n -> Memory]
                  /\ g[0] = [entry |-> Loaded.entry, cell |-> Loaded.cell]
                  /\ \A i \in 1..n : g[i] = Apply(g[i - 1], s[i])
                  /\ \A i \in 0..n : g[i] = f[i] /\ GoodMoment(s, i, g[i])
<1> DEFINE g == [i \in 0..n |-> f[i]]
<1>1. Len(Told) \in Nat /\ n \in Nat /\ n <= Len(Told)
    BY TellingIsTyped, LenProperties
<1>2. \A i \in 0..n : i \in 0..Len(Told) /\ i \in Nat
    BY <1>1
<1>3. \A i \in 1..n : i \in 1..Len(Told) /\ i \in 0..n /\ i - 1 \in 0..n
    BY <1>1
<1>4. g \in [0..n -> Memory] /\ \A i \in 0..n : g[i] = f[i]
    BY <1>2 DEF GoodStory, IsStory
<1> HIDE DEF g
<1>5. g[0] = [entry |-> Loaded.entry, cell |-> Loaded.cell]
  <2>1. 0 \in 0..n
    BY <1>1
  <2> QED  BY <1>4, <2>1 DEF GoodStory, IsStory
<1>6. \A i \in 1..n : g[i] = Apply(g[i - 1], s[i])
    BY <1>3, <1>4 DEF GoodStory, IsStory
<1>7. ASSUME NEW i \in 0..n PROVE GoodMoment(s, i, g[i])
  <2>1. GoodMoment(Told, i, f[i]) /\ i \in Nat
    BY <1>2 DEF GoodStory
  <2>2. \A j \in 1..i : s[j] = Told[j]
    BY <1>1
  <2>3. GoodMoment(s, i, f[i])
    BY <2>1, <2>2, MomentLater
  <2> QED  BY <1>4, <2>3
<1> QED  BY <1>4, <1>5, <1>6, <1>7

(* The files after a step that leaves the base, told in less: what is told   *)
(* now starts what was told, and has at least what the files are to hold.    *)
LEMMA CutStory ==
    ASSUME TypeOK, TypeOK', NEW f, GoodStory(f), Loaded' = Loaded, writer' = NoWriter, status' # "loaded",
           Len(Told') \in 0..Len(Told), \A i \in 1..Len(Told') : Told'[i] = Told[i],
           \A i \in Len(Written')..Len(Told') : Follows(f[i].entry, kept')
    PROVE  StoryIsTold'
<1>1. PICK s \in Seq(Logged) : s = Told'
  <2>1. (TypeOK => Told \in Seq(Logged))'
    BY TellingIsTyped, PTL
  <2> QED  BY <2>1
<1>2. PICK n \in 0..Len(Told) : n = Len(s)
    BY <1>1
<1>3. PICK g : /\ g \in [0..n -> Memory]
               /\ g[0] = [entry |-> Loaded.entry, cell |-> Loaded.cell]
               /\ \A i \in 1..n : g[i] = Apply(g[i - 1], s[i])
               /\ \A i \in 0..n : g[i] = f[i] /\ GoodMoment(s, i, g[i])
  <2>1. Len(s) = n /\ \A i \in 1..n : s[i] = Told[i]
    BY <1>1, <1>2
  <2> QED  BY <2>1, ShorterStory
<1>4. IsStory(g, Told)'
    BY <1>1, <1>2, <1>3 DEF IsStory
<1>5. \A i \in 0..Len(Told') : GoodMoment(Told, i, g[i])'
  <2> SUFFICES ASSUME NEW i \in 0..n PROVE GoodMoment(Told, i, g[i])'
    BY <1>1, <1>2
  <2>1. GoodMoment(s, i, g[i])
    BY <1>3
  <2>2. \A r : Reached(Told, i, r)' <=> Reached(s, i, r)
    BY <1>1 DEF Reached
  <2>3. CellFits(g[i].entry, g[i].cell)' <=> CellFits(g[i].entry, g[i].cell)
    BY DEF CellFits, NoNewer, ValuesOf
  <2> QED  BY <2>1, <2>2, <2>3 DEF GoodMoment
<1>6. \A i \in Len(Written')..Len(Told') : Keeps(g[i].entry)'
  <2>1. (TypeOK => Len(Written) \in Nat)'
    BY TellingIsTyped, PTL
  <2>2. \A i \in Len(Written')..Len(Told') : i \in 0..n
    BY <1>1, <1>2, <2>1
  <2> QED  BY <1>3, <2>2 DEF Keeps, Follows
<1>7. GoodStory(g)'
    BY <1>4, <1>5, <1>6 DEF GoodStory
<1>8. ReplaysStory(g)'
    BY DEF ReplaysStory, Replaying
<1>9. ~Usable'
    BY DEF Usable
<1> QED  BY <1>7, <1>8, <1>9 DEF StoryIsTold

(* What is left by a writer that goes away: the log may have less of its     *)
(* buffer than a flush would have written.                                   *)
LEMMA LeftIsLater ==
    ASSUME PersistInv, LeavesLog, writer' = NoWriter, status' = "up" => status = "up" /\ rev' = rev
    PROVE  EntriesAreLater'
<1> DEFINE E == log.entries
           B == writer.buffer
<1>1. TypeInv /\ TypeOK
    BY InvariantIsTyped DEF TypeInv
<1>2. ~Linked'
    BY DEF Linked
<1>3. CASE ~Linked
  <2>1. log' = log
    BY <1>1, <1>3, LeftIs
  <2> QED  BY <1>2, <2>1 DEF PersistInv, EntriesAreLater
<1>4. CASE Linked
  <2>1. log # NoFile /\ log.base = writer.base /\ writer # NoWriter /\ status = "up"
    BY <1>4 DEF PersistInv, WriterFits, StatusFits, Linked
  <2>2. E \in Seq(Logged) /\ B \in Seq(Logged)
    BY <1>1, <2>1, LogParts, WriterParts
  <2>3. Len(E) \in Nat /\ Len(B) \in Nat
        /\ \A i \in 1..Len(E) + Len(B) : (E \o B)[i] = IF i <= Len(E) THEN E[i] ELSE B[i - Len(E)]
    BY <2>2, ConcatProperties, LenProperties
  <2>4. PICK n \in 0..Len(B) :
            /\ log'.base = log.base /\ Len(log'.entries) = Len(E) + n
            /\ \A i \in 1..Len(log'.entries) : log'.entries[i] = (E \o B)[i]
    BY <1>1, <1>4, LeftIs
  <2> DEFINE D == log'.entries
  <2> HIDE DEF E, B, D
  <2>5. ASSUME NEW i \in 1..Len(D) PROVE D[i].at > log.base /\ D[i].at <= rev
    <3>1. i \in 1..Len(E) + Len(B) /\ D[i] = (E \o B)[i]
      <4>1. Len(D) = Len(E) + n /\ n \in Nat /\ n <= Len(B)
        BY <2>3, <2>4 DEF D
      <4>2. D[i] = (E \o B)[i]
        BY <2>4 DEF D
      <4> QED  BY <2>3, <4>1, <4>2
    <3>2. CASE i <= Len(E)
      <4>1. i \in 1..Len(E)
        BY <2>3, <3>1, <3>2
      <4>2. E[i].at > log.base /\ E[i].at <= rev
        BY <2>1, <4>1 DEF PersistInv, EntriesAreLater, E
      <4> QED  BY <2>3, <3>1, <3>2, <4>2
    <3>3. CASE ~(i <= Len(E))
      <4>1. i - Len(E) \in 1..Len(B)
        BY <2>3, <3>1, <3>3
      <4>2. B[i - Len(E)].at > log.base /\ B[i - Len(E)].at <= rev
        BY <1>4, <2>1, <4>1 DEF PersistInv, EntriesAreLater, B
      <4> QED  BY <2>3, <3>1, <3>3, <4>2
    <3> QED  BY <3>2, <3>3
  <2> QED  BY <1>2, <2>4, <2>5 DEF EntriesAreLater, D
<1> QED  BY <1>3, <1>4

LEMMA LeftIsTold ==
    ASSUME PersistInv, TypeOK', LeavesLog, writer' = NoWriter, status' # "loaded", UNCHANGED <<base, kept>>
    PROVE  StoryIsTold'
<1>1. TypeInv /\ TypeOK
    BY InvariantIsTyped DEF TypeInv
<1>2. PICK f : GoodStory(f)
    BY DEF PersistInv, StoryIsTold
<1>3. Loaded' = Loaded /\ Pending' = <<>>
    BY DEF Loaded, Pending, Usable
<1>4. Told \in Seq(Logged) /\ Len(Told) \in Nat /\ Len(Written) \in Nat /\ Len(Written) <= Len(Told)
    BY <1>1, TellingIsTyped, LenProperties
<1>5. CASE ~Usable
  <2>1. Written' = Written
    <3>1. CASE Linked
      <4>1. log # NoFile /\ log.base = writer.base /\ base # NoFile /\ writer # NoWriter
        BY <3>1 DEF PersistInv, WriterFits, Linked
      <4>2. writer.base # base.rev
        BY <1>5, <3>1, <4>1 DEF Usable, Linked
      <4>3. log'.base = log.base
        BY <1>1, <3>1, LeftIs
      <4>4. ~Continues /\ ~Continues'
        BY <1>3, <4>1, <4>2, <4>3 DEF Continues, Loaded
      <4> QED  BY <4>4 DEF Written
    <3>2. CASE ~Linked
      <4>1. log' = log
        BY <1>1, <3>2, LeftIs
      <4> QED  BY <1>3, <4>1 DEF Written, Continues
    <3> QED  BY <3>1, <3>2
  <2>2. Told' = Told
    BY <1>3, <1>5, <2>1 DEF Told, Pending
  <2>3. \A i \in Len(Written')..Len(Told') : Follows(f[i].entry, kept')
    BY <1>2, <2>1, <2>2 DEF GoodStory, Keeps
  <2>4. Len(Told') \in 0..Len(Told) /\ \A i \in 1..Len(Told') : Told'[i] = Told[i]
    BY <1>4, <2>2
  <2> QED  BY <1>1, <1>2, <1>3, <2>3, <2>4, CutStory
<1>6. CASE Usable
  <2> DEFINE E == log.entries
             B == writer.buffer
  <2>1. Continues /\ Linked /\ Written = E /\ Pending = B /\ log # NoFile /\ log.base = writer.base
        /\ E \in Seq(Logged) /\ B \in Seq(Logged) /\ Told = E \o B
    BY <1>1, <1>6, WriterIs, LogParts DEF Told
  <2>2. PICK n \in 0..Len(B) :
                /\ log' \in LogFile
                /\ log'.base = log.base /\ log'.headless = log.headless
                /\ log'.entries \in Seq(Logged) /\ Len(log'.entries) = Len(E) + n
                /\ \A i \in 1..Len(log'.entries) : log'.entries[i] = (E \o B)[i]
    BY <1>1, <2>1, LeftIs
  <2>3. log' # NoFile /\ Continues'
    BY <1>3, <2>1, <2>2, NonesOfPersist DEF Continues
  <2>4. Written' = log'.entries /\ Told' = log'.entries
    <3>1. Written' = log'.entries
      BY <2>3 DEF Written
    <3>2. log'.entries \o <<>> = log'.entries
      BY <2>2, ConcatEmptySeq
    <3> QED  BY <1>3, <3>1, <3>2 DEF Told
  <2>5. Len(E) \in Nat /\ Len(B) \in Nat /\ Len(Told) = Len(E) + Len(B)
    BY <2>1, ConcatProperties, LenProperties
  <2> DEFINE D == log'.entries
  <2> HIDE DEF E, B, D
  <2>6. n \in Nat /\ n <= Len(B) /\ Len(D) = Len(E) + n
    BY <2>2, <2>5 DEF B, D, E
  <2>7. Len(Told') \in 0..Len(Told) /\ \A i \in 1..Len(Told') : Told'[i] = Told[i]
    <3>1. Told' = D /\ Told = E \o B
      BY <2>1, <2>4 DEF D
    <3>2. Len(D) \in 0..Len(E) + Len(B)
      BY <2>5, <2>6
    <3>3. \A i \in 1..Len(D) : D[i] = (E \o B)[i]
      BY <2>2 DEF D, E, B
    <3> QED  BY <2>5, <3>1, <3>2, <3>3
  <2>8. \A i \in Len(Written')..Len(Told') : i \in Len(Written)..Len(Told)
    <3>1. Len(Written') = Len(D) /\ Len(Told') = Len(D) /\ Len(Written) = Len(E)
      BY <2>1, <2>4 DEF D
    <3> QED  BY <2>5, <2>6, <3>1
  <2>9. \A i \in Len(Written')..Len(Told') : Follows(f[i].entry, kept')
    BY <1>2, <2>8 DEF GoodStory, Keeps
  <2> QED  BY <1>1, <1>2, <1>3, <2>7, <2>9, CutStory
<1> QED  BY <1>5, <1>6

LEMMA CrashKeeps == ASSUME PersistInv, Crash PROVE PersistInv'
<1>1. TypeInv /\ TypeInv' /\ TypeOK /\ TypeOK'
    BY InvariantIsTyped, CrashKeepsTypes DEF TypeInv
<1>2. /\ status' = "down" /\ rev' = 0 /\ entry' = Unset /\ cell' = NoCell
      /\ replay' = NoReplay /\ op' = NoOp /\ writer' = NoWriter
      /\ LeavesLog /\ UNCHANGED <<base, kept>>
    BY DEF Crash
<1>3. ~Linked' /\ ~Usable'
    BY <1>2 DEF Linked, Usable
<1>4. StatusFits' /\ UpIsSound' /\ WriterFits' /\ CallsAreOnTheirWay'
    BY <1>2, <1>3 DEF StatusFits, UpIsSound, WriterFits, CallsAreOnTheirWay, Doing
<1>5. EntriesAreLater' /\ StoryIsTold'
    BY <1>1, <1>2, LeftIsLater, LeftIsTold
<1> QED  BY <1>1, <1>4, <1>5 DEF PersistInv

LEMMA CloseKeeps == ASSUME PersistInv, CloseWriter PROVE PersistInv'
<1>1. TypeInv /\ TypeInv' /\ TypeOK /\ TypeOK'
    BY InvariantIsTyped, CloseKeepsTypes DEF TypeInv
<1>2. /\ status = "up" /\ op = NoOp /\ writer' = NoWriter
      /\ LeavesLog /\ UNCHANGED <<status, rev, entry, cell, op, base, kept, replay>>
    BY DEF CloseWriter, memory
<1>3. ~Linked' /\ ~Usable'
    BY <1>2 DEF Linked, Usable
<1>4. StatusFits' /\ WriterFits' /\ CallsAreOnTheirWay'
    BY <1>2, <1>3 DEF PersistInv, StatusFits, WriterFits, CallsAreOnTheirWay, Doing
<1>5. UpIsSound'
    BY <1>2 DEF PersistInv, UpIsSound, NoNewer, CellFits, ValuesOf, Keeps, Follows
<1>6. EntriesAreLater' /\ StoryIsTold'
    BY <1>1, <1>2, LeftIsLater, LeftIsTold
<1> QED  BY <1>1, <1>4, <1>5, <1>6 DEF PersistInv

(* Giving up the log leaves the base. *)
LEMMA DiscardKeeps == ASSUME PersistInv, DiscardLog PROVE PersistInv'
<1>1. TypeInv /\ TypeInv' /\ TypeOK /\ TypeOK'
    BY InvariantIsTyped, DiscardKeepsTypes DEF TypeInv
<1>2. /\ status = "failed" /\ status' = "down" /\ rev' = 0 /\ entry' = Unset /\ cell' = NoCell
      /\ log' = NoFile /\ UNCHANGED <<replay, op, writer, base>>
      /\ kept' = IF ~log.torn THEN kept ELSE Loaded.entry
    BY DEF DiscardLog, Loaded
<1>3. op = NoOp /\ writer = NoWriter /\ replay = NoReplay /\ (log.torn \/ ~Continues)
    BY <1>2 DEF PersistInv, StatusFits
<1>4. PICK f : GoodStory(f)
    BY DEF PersistInv, StoryIsTold
<1>5. Loaded' = Loaded
    BY <1>2 DEF Loaded
<1>6. Told \in Seq(Logged) /\ Len(Told) \in Nat /\ Len(Written) \in Nat /\ Len(Written) <= Len(Told)
    BY <1>1, TellingIsTyped, LenProperties
<1>7. Written' = <<>> /\ Told' = <<>> /\ Len(Written') = 0 /\ Len(Told') = 0
  <2>1. <<>> \in Seq(Logged) /\ Len(<<>>) = 0
    BY EmptySeq
  <2>2. Written' = <<>> /\ Pending' = <<>>
    BY <1>2, <1>3 DEF Written, Pending, Usable, Continues
  <2>3. <<>> \o <<>> = <<>>
    BY <2>1, ConcatEmptySeq
  <2> QED  BY <2>1, <2>2, <2>3 DEF Told
<1>8. StatusFits' /\ UpIsSound' /\ WriterFits' /\ CallsAreOnTheirWay' /\ EntriesAreLater'
    BY <1>2, <1>3 DEF StatusFits, UpIsSound, WriterFits, Linked, Usable, CallsAreOnTheirWay, Spent, Doing, EntriesAreLater
<1>9. Follows(f[0].entry, kept')
  <2>1. f[0].entry = Loaded.entry
    BY <1>4 DEF GoodStory, IsStory
  <2>2. CASE log.torn
    BY <1>2, <2>1, <2>2 DEF Follows
  <2>3. CASE ~log.torn
    <3>1. Written = <<>>
      BY <1>3, <2>3 DEF Written
    <3>2. 0 \in Len(Written)..Len(Told)
      BY <1>6, <3>1, EmptySeq
    <3> QED  BY <1>2, <1>4, <2>3, <3>2 DEF GoodStory, Keeps, Follows
  <2> QED  BY <2>2, <2>3
<1>10. StoryIsTold'
  <2>1. Len(Told') \in 0..Len(Told)
    BY <1>6, <1>7
  <2>2. \A i \in 1..Len(Told') : Told'[i] = Told[i]
    BY <1>7
  <2>3. \A i \in Len(Written')..Len(Told') : i = 0
    BY <1>7
  <2>4. \A i \in Len(Written')..Len(Told') : Follows(f[i].entry, kept')
    BY <1>9, <2>3
  <2> QED  BY <1>1, <1>2, <1>3, <1>4, <1>5, <2>1, <2>2, <2>4, CutStory
<1> QED  BY <1>1, <1>8, <1>10 DEF PersistInv

LEMMA LoadKeeps == ASSUME PersistInv, Load PROVE PersistInv'
<1>1. TypeInv /\ TypeInv' /\ TypeOK /\ TypeOK'
    BY InvariantIsTyped, LoadKeepsTypes DEF TypeInv
<1>2. status = "down" /\ status' = "loaded" /\ UNCHANGED <<replay, op, writer, base, log, kept>>
    BY LoadIs
<1>3. op = NoOp /\ writer = NoWriter /\ replay = NoReplay /\ rev = 0 /\ entry = Unset /\ cell = NoCell
    BY <1>2 DEF PersistInv, StatusFits
<1>4. rev' = Loaded.rev /\ entry' = Loaded.entry /\ cell' = Loaded.cell
    BY <1>3, LoadIs DEF Loaded
<1>5. Loaded' = Loaded /\ Continues' = Continues /\ Written' = Written /\ Told' = Told
    BY <1>2 DEF Loaded, Continues, Written, Pending, Usable, Told
<1>6. PICK f : GoodStory(f)
    BY DEF PersistInv, StoryIsTold
<1>7. GoodStory(f)'
    BY <1>2, <1>5, <1>6, SameStory
<1>8. StoryIsTold'
    BY <1>2, <1>3, <1>7 DEF StoryIsTold, ReplaysStory, Replaying, Usable
<1>9. StatusFits' /\ UpIsSound' /\ WriterFits' /\ CallsAreOnTheirWay' /\ EntriesAreLater'
    BY <1>2, <1>3, <1>4, <1>5
    DEF PersistInv, StatusFits, UpIsSound, WriterFits, Linked, Usable, CallsAreOnTheirWay, Spent, Doing, EntriesAreLater
<1> QED  BY <1>1, <1>8, <1>9 DEF PersistInv

LEMMA OpenKeeps == ASSUME PersistInv, OpenLog PROVE PersistInv'
<1>1. TypeInv /\ TypeInv' /\ TypeOK /\ TypeOK'
    BY InvariantIsTyped, OpenKeepsTypes DEF TypeInv
<1>2. /\ status = "loaded" /\ replay = NoReplay
      /\ UNCHANGED <<rev, entry, cell, op, writer, base, log, kept>>
      /\ \/ log = NoFile /\ status' = "up" /\ replay' = NoReplay
         \/ log # NoFile /\ ~LogFits /\ status' = "failed" /\ replay' = NoReplay
         \/ log # NoFile /\ LogFits /\ status' = "loaded" /\ replay' = [next |-> 1, rev |-> rev]
    BY OpenIs
<1>3. op = NoOp /\ writer = NoWriter /\ rev = Loaded.rev /\ entry = Loaded.entry /\ cell = Loaded.cell
    BY <1>2 DEF PersistInv, StatusFits
<1>4. Loaded' = Loaded /\ Continues' = Continues /\ Written' = Written /\ Told' = Told
    BY <1>2 DEF Loaded, Continues, Written, Pending, Usable, Told
<1>5. Continues <=> LogFits
    BY <1>3 DEF Continues, LogFits
<1>6. PICK f : GoodStory(f)
    BY DEF PersistInv, StoryIsTold
<1>7. GoodStory(f)'
    BY <1>2, <1>4, <1>6, SameStory
<1>8. f[0].entry = entry /\ f[0].cell = cell
    BY <1>3, <1>6 DEF GoodStory, IsStory
<1>9. ~Continues => Told = <<>> /\ Len(Told) = 0 /\ Len(Written) = 0
  <2>1. <<>> \in Seq(Logged) /\ Len(<<>>) = 0
    BY EmptySeq
  <2>2. ~Continues => Written = <<>> /\ Pending = <<>>
    BY <1>3 DEF Written, Pending, Usable
  <2>3. <<>> \o <<>> = <<>>
    BY <2>1, ConcatEmptySeq
  <2> QED  BY <2>1, <2>2, <2>3 DEF Told
<1>10. ~Continues => Keeps(entry) /\ GoodMoment(Told, 0, [entry |-> entry, cell |-> cell])
  <2> SUFFICES ASSUME ~Continues PROVE Keeps(entry) /\ GoodMoment(Told, 0, [entry |-> entry, cell |-> cell])
    OBVIOUS
  <2>1. 0 \in Len(Written)..Len(Told) /\ 0 \in 0..Len(Told)
    BY <1>9
  <2> QED  BY <1>3, <1>6, <1>8, <2>1 DEF GoodStory, IsStory
<1>11. CallsAreOnTheirWay' /\ WriterFits'
    BY <1>2, <1>3 DEF CallsAreOnTheirWay, Spent, WriterFits, Linked, Usable, Doing
<1>12. CASE log = NoFile
  <2>1. ~Continues /\ status' = "up" /\ replay' = NoReplay
    BY <1>2, <1>12 DEF Continues
  <2>2. UpIsSound'
    <3>1. NoNewer(entry, rev)
      <4>1. \A k \in Key : Reached(Told, 0, entry[k].ch)
        BY <1>10, <2>1 DEF GoodMoment
      <4>2. \A i \in 1..0 : FALSE
        OBVIOUS
      <4> QED  BY <1>3, <4>1, <4>2 DEF Reached, NoNewer
    <3>2. CellFits(entry, cell) /\ (cell # NoCell => cell.ver <= rev)
      <4>1. CellFits(entry, cell) /\ (cell # NoCell => Reached(Told, 0, cell.ver))
        BY <1>10, <2>1 DEF GoodMoment
      <4>2. \A i \in 1..0 : FALSE
        OBVIOUS
      <4> QED  BY <1>3, <4>1, <4>2 DEF Reached
    <3>3. Keeps(entry)
      BY <1>10, <2>1
    <3>4. (NoNewer(entry, rev) /\ CellFits(entry, cell) /\ (cell # NoCell => cell.ver <= rev) /\ Keeps(entry))'
      BY <1>2, <3>1, <3>2, <3>3 DEF NoNewer, CellFits, ValuesOf, Keeps, Follows
    <3> QED  BY <3>4 DEF UpIsSound
  <2>3. StatusFits' /\ EntriesAreLater'
    BY <1>2, <1>3, <1>12, <2>1 DEF StatusFits, EntriesAreLater, Linked
  <2>4. StoryIsTold'
    BY <1>2, <1>3, <1>7, <2>1 DEF StoryIsTold, ReplaysStory, Replaying, Usable
  <2> QED  BY <1>1, <1>11, <2>2, <2>3, <2>4 DEF PersistInv
<1>13. CASE log # NoFile /\ ~LogFits
  <2>1. ~Continues /\ status' = "failed" /\ replay' = NoReplay
    BY <1>2, <1>5, <1>13
  <2>2. StatusFits'
    <3>1. Keeps(entry)'
      BY <1>2, <1>10, <2>1 DEF Keeps, Follows
    <3> QED  BY <1>2, <1>3, <1>4, <1>13, <2>1, <3>1 DEF StatusFits
  <2>3. UpIsSound' /\ EntriesAreLater'
    BY <1>2, <1>3, <2>1 DEF PersistInv, UpIsSound, EntriesAreLater, Linked
  <2>4. StoryIsTold'
    BY <1>2, <1>3, <1>7, <2>1 DEF StoryIsTold, ReplaysStory, Replaying, Usable
  <2> QED  BY <1>1, <1>11, <2>2, <2>3, <2>4 DEF PersistInv
<1>14. CASE log # NoFile /\ LogFits
  <2>1. Continues /\ status' = "loaded" /\ replay' = [next |-> 1, rev |-> rev]
    BY <1>2, <1>5, <1>14
  <2>2. replay'.next - 1 = 0 /\ replay'.rev = rev /\ rev \in Nat /\ Len(log.entries) \in Nat
    BY <1>1, <1>14, <2>1, RevisionsAreNat, LogParts, LenProperties DEF TypeOK
  <2>3. ReplaysStory(f)'
    <3>1. \A i \in 1..0 : FALSE
      OBVIOUS
    <3>2. 0 <= Len(log.entries) /\ Loaded.rev <= replay'.rev
      BY <1>3, <2>2
    <3> QED  BY <1>2, <1>4, <1>8, <2>1, <2>2, <3>1, <3>2 DEF ReplaysStory
  <2>4. replay' # NoReplay
    <3>1. replay' \in Replay
      BY <1>1, <2>1 DEF TypeOK, Replay
    <3> QED  BY <3>1, NonesOfPersist
  <2>5. StatusFits'
    BY <1>2, <1>3, <1>4, <2>1, <2>4 DEF StatusFits
  <2>6. UpIsSound' /\ EntriesAreLater'
    BY <1>2, <1>3, <2>1 DEF PersistInv, UpIsSound, EntriesAreLater, Linked
  <2>7. StoryIsTold'
    BY <1>2, <1>3, <1>7, <2>3 DEF StoryIsTold, Usable
  <2> QED  BY <1>1, <1>11, <2>5, <2>6, <2>7 DEF PersistInv
<1> QED  BY <1>12, <1>13, <1>14

(* During a replay all that is told is what is in the log. *)
LEMMA ReplayedIs ==
    ASSUME PersistInv, status = "loaded", replay # NoReplay
    PROVE  /\ TypeOK /\ op = NoOp /\ writer = NoWriter /\ rev = Loaded.rev /\ Continues /\ log # NoFile
           /\ Told = log.entries /\ Written = log.entries /\ log.entries \in Seq(Logged) /\ Len(log.entries) \in Nat
           /\ replay \in Replay /\ replay.next \in Nat \ {0} /\ replay.rev \in Nat /\ Loaded.rev \in Nat
           /\ \E f : GoodStory(f) /\ ReplaysStory(f)
<1>1. TypeOK /\ Replaying
    BY DEF PersistInv, Replaying
<1>2. PICK f : GoodStory(f) /\ ReplaysStory(f)
    BY DEF PersistInv, StoryIsTold
<1>3. op = NoOp /\ writer = NoWriter /\ rev = Loaded.rev
    BY DEF PersistInv, StatusFits
<1>4. Continues /\ log # NoFile
    BY <1>1, <1>2 DEF ReplaysStory, Continues
<1>5. log.entries \in Seq(Logged) /\ Len(log.entries) \in Nat
    BY <1>1, <1>4, LogParts, LenProperties
<1>6. Told = log.entries /\ Written = log.entries
  <2>1. Written = log.entries /\ Pending = <<>>
    BY <1>3, <1>4 DEF Written, Pending, Usable
  <2> QED  BY <1>5, <2>1, ConcatEmptySeq DEF Told
<1>7. replay \in Replay /\ replay.next \in Nat \ {0} /\ replay.rev \in Nat /\ Loaded.rev \in Nat
    BY <1>1, <1>3, RevisionsAreNat DEF TypeOK, Replay
<1> QED  BY <1>1, <1>2, <1>3, <1>4, <1>5, <1>6, <1>7

LEMMA ReplayKeeps == ASSUME PersistInv, ReplayEntry PROVE PersistInv'
<1>1. TypeInv /\ TypeInv' /\ TypeOK /\ TypeOK' /\ status = "loaded" /\ replay # NoReplay
    BY InvariantIsTyped, ReplayKeepsTypes DEF TypeInv, ReplayEntry, Replaying
<1>2. /\ op = NoOp /\ writer = NoWriter /\ rev = Loaded.rev /\ Continues /\ Told = log.entries
      /\ log.entries \in Seq(Logged) /\ Len(log.entries) \in Nat
      /\ replay.next \in Nat \ {0} /\ replay.rev \in Nat /\ Loaded.rev \in Nat
    BY <1>1, ReplayedIs
<1>3. PICK f : GoodStory(f) /\ ReplaysStory(f)
    BY <1>1, ReplayedIs
<1> DEFINE n == replay.next
           e == log.entries[n]
<1>4. /\ n \in 1..Len(log.entries) /\ e \in Logged
      /\ entry' = Apply([entry |-> entry, cell |-> cell], e).entry
      /\ cell' = Apply([entry |-> entry, cell |-> cell], e).cell
      /\ replay' = [next |-> n + 1, rev |-> Later(replay.rev, e)] /\ replay' \in Replay
      /\ UNCHANGED <<status, rev, op, writer, base, log, kept>>
    BY <1>1, ReplayIs
<1>5. Loaded' = Loaded /\ Continues' = Continues /\ Written' = Written /\ Told' = Told
    BY <1>4 DEF Loaded, Continues, Written, Pending, Usable, Told
<1>6. GoodStory(f)'
    BY <1>3, <1>4, <1>5, SameStory
<1> HIDE DEF n, e
<1>7. /\ n - 1 <= Len(log.entries) /\ entry = f[n - 1].entry /\ cell = f[n - 1].cell
      /\ Loaded.rev <= replay.rev /\ \A i \in 1..n - 1 : log.entries[i].at <= replay.rev
    BY <1>1, <1>3 DEF ReplaysStory, Replaying, n
<1>8. entry' = f[n].entry /\ cell' = f[n].cell
  <2>1. n - 1 \in 0..Len(Told) /\ n \in 1..Len(Told)
    BY <1>2, <1>4
  <2>2. f[n - 1] \in Memory /\ f[n] = Apply(f[n - 1], e)
    BY <1>2, <1>3, <2>1 DEF GoodStory, IsStory, e
  <2>3. f[n - 1] = [entry |-> entry, cell |-> cell]
    BY <1>7, <2>2 DEF Memory
  <2> QED  BY <1>4, <2>2, <2>3
<1>9. e.at \in Nat /\ Later(replay.rev, e) \in Nat /\ replay.rev <= Later(replay.rev, e) /\ e.at <= Later(replay.rev, e)
  <2>1. e.at \in Nat
    BY <1>4, LoggedParts, RevisionsAreNat
  <2> QED  BY <1>2, <2>1 DEF Later
<1>10. replay'.next - 1 = n /\ replay'.rev = Later(replay.rev, e)
    BY <1>2, <1>4 DEF n
<1>11. \A i \in 1..n : log.entries[i].at <= replay'.rev
  <2> SUFFICES ASSUME NEW i \in 1..n PROVE log.entries[i].at <= replay'.rev
    OBVIOUS
  <2>1. CASE i = n
    BY <1>9, <1>10, <2>1 DEF e
  <2>2. CASE i # n
    <3>1. i \in 1..n - 1 /\ i \in 1..Len(log.entries)
      BY <1>2, <1>4, <2>2
    <3>2. log.entries[i].at \in Nat
      BY <1>2, <3>1, ElementOfSeq, LoggedParts, RevisionsAreNat
    <3> QED  BY <1>2, <1>7, <1>9, <1>10, <3>1, <3>2
  <2> QED  BY <2>1, <2>2
<1>12. ReplaysStory(f)'
  <2>1. Loaded.rev <= replay'.rev
    BY <1>2, <1>7, <1>9, <1>10
  <2>2. n <= Len(log.entries)
    BY <1>2, <1>4
  <2> QED  BY <1>2, <1>4, <1>5, <1>8, <1>10, <1>11, <2>1, <2>2 DEF ReplaysStory
<1>13. StoryIsTold'
    BY <1>2, <1>4, <1>6, <1>12 DEF StoryIsTold, Usable
<1>14. replay' # NoReplay
    BY <1>4, NonesOfPersist
<1>15. StatusFits' /\ UpIsSound' /\ WriterFits' /\ CallsAreOnTheirWay' /\ EntriesAreLater'
    BY <1>1, <1>2, <1>4, <1>5, <1>14
    DEF PersistInv, StatusFits, UpIsSound, WriterFits, Linked, Usable, CallsAreOnTheirWay, Spent, Doing, EntriesAreLater
<1> QED  BY <1>1, <1>13, <1>15 DEF PersistInv

(* At the end of the log the memory is what was flushed at least, and the    *)
(* revision has caught up with all of it.                                    *)
LEMMA EndKeeps == ASSUME PersistInv, EndReplay PROVE PersistInv'
<1>1. TypeInv /\ TypeInv' /\ TypeOK /\ TypeOK' /\ status = "loaded" /\ replay # NoReplay
      /\ replay.next > Len(log.entries)
    BY InvariantIsTyped, EndKeepsTypes DEF TypeInv, EndReplay, Replaying
<1>2. /\ op = NoOp /\ writer = NoWriter /\ rev = Loaded.rev /\ Continues /\ log # NoFile
      /\ Told = log.entries /\ Written = log.entries
      /\ log.entries \in Seq(Logged) /\ Len(log.entries) \in Nat
      /\ replay.next \in Nat \ {0} /\ replay.rev \in Nat /\ Loaded.rev \in Nat
    BY <1>1, ReplayedIs
<1>3. PICK f : GoodStory(f) /\ ReplaysStory(f)
    BY <1>1, ReplayedIs
<1>4. /\ replay' = NoReplay
      /\ UNCHANGED <<entry, cell, op, writer, base, log, kept>>
      /\ \/ log.torn /\ status' = "failed" /\ rev' = rev
         \/ ~log.torn /\ status' = "up" /\ rev' = replay.rev
    BY <1>1, EndIs
<1>5. Loaded' = Loaded /\ Continues' = Continues /\ Written' = Written /\ Told' = Told
    BY <1>4 DEF Loaded, Continues, Written, Pending, Usable, Told
<1>6. GoodStory(f)'
    BY <1>3, <1>4, <1>5, SameStory
<1> DEFINE L == Len(log.entries)
<1>7. /\ replay.next - 1 = L /\ entry = f[L].entry /\ cell = f[L].cell
      /\ Loaded.rev <= replay.rev /\ \A i \in 1..L : log.entries[i].at <= replay.rev
  <2>1. /\ replay.next - 1 <= L /\ entry = f[replay.next - 1].entry /\ cell = f[replay.next - 1].cell
        /\ Loaded.rev <= replay.rev /\ \A i \in 1..replay.next - 1 : log.entries[i].at <= replay.rev
    BY <1>1, <1>3 DEF ReplaysStory, Replaying
  <2>2. replay.next - 1 = L
    BY <1>1, <1>2, <2>1
  <2> QED  BY <2>1, <2>2
<1>8. GoodMoment(Told, L, f[L]) /\ Keeps(entry)
  <2>1. L \in 0..Len(Told) /\ L \in Len(Written)..Len(Told)
    BY <1>2
  <2> QED  BY <1>3, <1>7, <2>1 DEF GoodStory
<1> HIDE DEF L
<1>9. \A r \in Nat : Reached(Told, L, r) => r <= replay.rev
  <2> SUFFICES ASSUME NEW r \in Nat, Reached(Told, L, r) PROVE r <= replay.rev
    OBVIOUS
  <2>1. CASE r <= Loaded.rev
    BY <1>2, <1>7, <2>1
  <2>2. ASSUME NEW i \in 1..L, r <= Told[i].at PROVE r <= replay.rev
    <3>1. Told[i].at \in Nat
      BY <1>2, ElementOfSeq, LoggedParts, RevisionsAreNat DEF L
    <3> QED  BY <1>2, <1>7, <2>2, <3>1
  <2> QED  BY <2>1, <2>2 DEF Reached
<1>10. /\ NoNewer(entry, replay.rev) /\ CellFits(entry, cell)
       /\ cell # NoCell => cell.ver <= replay.rev
  <2>1. \A k \in Key : entry[k].ch \in Nat
    BY <1>1, RevisionsAreNat DEF TypeOK, Entry
  <2>2. cell # NoCell => cell.ver \in Nat
    BY <1>1, RevisionsAreNat DEF TypeOK, CellValue
  <2> QED  BY <1>7, <1>8, <1>9, <2>1, <2>2 DEF GoodMoment, NoNewer
<1>11. StoryIsTold'
    BY <1>2, <1>4, <1>6 DEF StoryIsTold, ReplaysStory, Replaying, Usable
<1>12. WriterFits' /\ CallsAreOnTheirWay'
    BY <1>2, <1>4 DEF WriterFits, Linked, Usable, CallsAreOnTheirWay, Spent, Doing
<1>13. Keeps(entry)'
    BY <1>4, <1>8 DEF Keeps, Follows
<1>14. StatusFits'
    BY <1>2, <1>4, <1>5, <1>13 DEF StatusFits
<1>15. UpIsSound'
  <2>1. status' = "up" => rev' = replay.rev
    BY <1>4
  <2> QED  BY <1>4, <1>10, <1>13, <2>1 DEF UpIsSound, NoNewer, CellFits, ValuesOf
<1>16. EntriesAreLater'
  <2>1. \A i \in 1..Len(log.entries) : log.entries[i].at > log.base
    BY <1>2 DEF PersistInv, EntriesAreLater, Linked
  <2>2. status' = "up" => rev' = replay.rev
    BY <1>4
  <2> QED  BY <1>2, <1>4, <1>7, <2>1, <2>2 DEF EntriesAreLater, Linked, L
<1> QED  BY <1>1, <1>11, <1>12, <1>14, <1>15, <1>16 DEF PersistInv

-----------------------------------------------------------------------------
(* The theorems *)

LEMMA InitIsSound == Init => PersistInv
<1> SUFFICES ASSUME Init PROVE PersistInv
    OBVIOUS
<1> DEFINE m == [entry |-> Unset, cell |-> NoCell]
           f == [n \in 0..0 |-> m]
<1>1. TypeOK
    BY InitIsTyped DEF TypeInv
<1>2. Loaded = [rev |-> 0, entry |-> Unset, cell |-> NoCell] /\ ~Continues
    BY DEF Init, Loaded, Continues
<1>3. Told = <<>> /\ Len(Told) = 0 /\ Len(Written) = 0
  <2>1. <<>> \in Seq(Logged) /\ Len(<<>>) = 0
    BY EmptySeq
  <2>2. Written = <<>> /\ Pending = <<>>
    BY <1>2 DEF Init, Written, Pending, Usable
  <2>3. <<>> \o <<>> = <<>>
    BY <2>1, ConcatEmptySeq
  <2> QED  BY <2>1, <2>2, <2>3 DEF Told
<1>4. m \in Memory /\ m.entry = Unset /\ m.cell = NoCell
    BY UnsetIsTyped DEF Memory
<1> HIDE DEF m
<1>5. f \in [0..0 -> Memory] /\ f[0] = m
    BY <1>4
<1> HIDE DEF f
<1>6. IsStory(f, Told)
  <2>1. f[0] = [entry |-> Loaded.entry, cell |-> Loaded.cell]
    BY <1>2, <1>5 DEF m
  <2>2. \A n \in 1..0 : FALSE
    OBVIOUS
  <2> QED  BY <1>3, <1>5, <2>1, <2>2 DEF IsStory
<1>7. GoodMoment(Told, 0, m) /\ Keeps(m.entry)
  <2>1. \A k \in Key : Unset[k].ch = 0
    BY DEF Unset
  <2>2. \A k \in Key : Reached(Told, 0, m.entry[k].ch)
    BY <1>2, <1>4, <2>1 DEF Reached
  <2>3. kept = Unset
    BY DEF Init
  <2> QED  BY <1>4, <2>2, <2>3 DEF GoodMoment, CellFits, Keeps, Follows
<1>8. GoodStory(f)
  <2>1. \A n \in 0..Len(Told) : n = 0
    BY <1>3
  <2>2. \A n \in Len(Written)..Len(Told) : n = 0
    BY <1>3
  <2> QED  BY <1>5, <1>6, <1>7, <2>1, <2>2 DEF GoodStory
<1>9. StoryIsTold
    BY <1>8 DEF Init, StoryIsTold, ReplaysStory, Replaying, Usable
<1> QED  BY <1>1, <1>9
         DEF Init, PersistInv, StatusFits, UpIsSound, EntriesAreLater, WriterFits, Linked, Usable, CallsAreOnTheirWay, Spent, Doing

LEMMA QuietStepKeeps == ASSUME PersistInv, [QuietNext]_vars PROVE PersistInv'
<1>1. CASE UNCHANGED vars
  <2>1. UNCHANGED <<status, rev, entry, cell, replay, op, writer, base, log, kept>>
    BY <1>1 DEF vars, memory, files
  <2>2. status # "up" => op' = NoOp
    BY <2>1 DEF PersistInv, StatusFits
  <2>3. TypeOK'
    BY <2>1 DEF PersistInv, TypeOK
  <2>4. CallsAreOnTheirWay'
    BY <2>1 DEF PersistInv, CallsAreOnTheirWay, Usable, Spent, Doing, BaseIsCurrent
  <2> QED  BY <2>1, <2>2, <2>3, <2>4, OnlyTheCall
<1>2. CASE Work /\ op = NoOp
    BY <1>2, WorkKeeps
<1>3. CASE Steps
    BY <1>3, CollectKeeps, InstallKeeps, DeleteKeeps, CreateKeeps, HeaderKeeps, TakeKeeps, ErrorKeeps,
       InputsKeep, CellsKeep, FailsKeep DEF Steps
<1>4. CASE Flush \/ CloseWriter
    BY <1>4, FlushKeeps, CloseKeeps
<1>5. CASE Restart
    BY <1>5, CrashKeeps, LoadKeeps, OpenKeeps, ReplayKeeps, EndKeeps, DiscardKeeps DEF Restart
<1>6. ASSUME NEW call \in DOMAIN Plan, NEW cellsFirst \in BOOLEAN,
             Allowed(call, cellsFirst) /\ Begin(call, cellsFirst)
      PROVE  PersistInv'
    BY <1>6, BeginKeeps
<1> QED  BY <1>1, <1>2, <1>3, <1>4, <1>5, <1>6 DEF QuietNext, Orderly

(* PersistInv holds of a program that follows the rules of QuietSpec, which  *)
(* the code does not check: the database is left alone while a save or an    *)
(* append runs; who logs has the writer of the present log, with no append   *)
(* to it cut half way, and lists the inputs before the queries; and a save   *)
(* starts when the writer before has nothing left to write.                  *)
THEOREM PersistInvariance == QuietSpec => []PersistInv
<1>1. Init => PersistInv
    BY InitIsSound
<1>2. PersistInv /\ [QuietNext]_vars => PersistInv'
    BY QuietStepKeeps
<1> QED  BY <1>1, <1>2, PTL DEF QuietSpec

(* What a save or a flush that returned has put in the files is there after  *)
(* any crash and restart, or has been overwritten (persist.rs:206-268,       *)
(* wal.rs:219-277), for a program that follows the rules of QuietSpec;       *)
(* among them the one about the writer is what this rests on.                *)
THEOREM FlushesAreDurable == QuietSpec => []FlushedIsDurable
<1>1. PersistInv => FlushedIsDurable
    BY DEF PersistInv, UpIsSound, StatusFits, Keeps, Follows, FlushedIsDurable
<1> QED  BY <1>1, PersistInvariance, PTL

(* A loaded, replayed or kept cell that answers without being computed has   *)
(* the value that the query means (persist.rs:626-745), for a program that   *)
(* follows the rules of QuietSpec; among them that inputs are logged before  *)
(* queries, as in the list that the macro of a database generates, is what   *)
(* this rests on.                                                            *)
THEOREM LoadedCellsAreSound == QuietSpec => []CacheIsSound
<1>1. PersistInv => CacheIsSound
  <2> SUFFICES ASSUME PersistInv, status = "up", cell # NoCell, Answers PROVE cell.val = Eval(Contents)
    BY DEF CacheIsSound
  <2>1. TypeOK /\ NoNewer(entry, rev) /\ CellFits(entry, cell)
    BY DEF PersistInv, UpIsSound
  <2>2. NoNewer(entry, cell.ver)
    <3>1. CASE cell.ver = rev
      BY <2>1, <3>1
    <3>2. CASE \A k \in Key : entry[k].ch <= cell.ch
      <4>1. cell.ch \in Nat /\ cell.ver \in Nat /\ \A k \in Key : entry[k].ch \in Nat
        BY <2>1, RevisionsAreNat DEF TypeOK, CellValue, Entry
      <4>2. cell.ch <= cell.ver
        BY <2>1 DEF CellFits
      <4> QED  BY <3>2, <4>1, <4>2 DEF NoNewer
    <3> QED  BY <3>1, <3>2 DEF Answers
  <2>3. Contents = ValuesOf(entry)
    BY DEF Contents, ValuesOf
  <2> QED  BY <2>1, <2>2, <2>3 DEF CellFits
<1> QED  BY <1>1, PersistInvariance, PTL

(* After a load or a replay no stamp is ahead of the revision                *)
(* (persist.rs:730-745), for a program that follows the rules of QuietSpec:  *)
(* an entry says when its value changed and not when it was verified, so the *)
(* inputs that were verified with it must come before it in the log.         *)
THEOREM RevisionsCover == QuietSpec => []RevisionCovers
<1>1. PersistInv => RevisionCovers
    BY DEF PersistInv, UpIsSound, NoNewer, CellFits, RevisionCovers
<1> QED  BY <1>1, PersistInvariance, PTL
=============================================================================
