------------------------------ MODULE Persist ------------------------------
(***************************************************************************)
(* Persistence: the base file of crates/picante/src/persist.rs, the log of *)
(* wal.rs, and a process that saves, logs, compacts, meets I/O errors,     *)
(* crashes at any moment and starts again.                                 *)
(*                                                                         *)
(* The database in the process is reduced to what persistence sees of it:  *)
(* inputs with their changed_at, and one derived query, which reads them   *)
(* all and whose meaning is Eval, with its cell.  Encoding and decoding of *)
(* well-formed records are taken for granted; what the files hold after a  *)
(* crash is not.                                                           *)
(***************************************************************************)
EXTENDS Naturals, Sequences, SequencesExt, FiniteSets

CONSTANTS
    Key, Value, None,   \* inputs, and what they hold (None: absent or removed)
    Eval(_),            \* the meaning of the derived query
    Memo,               \* names the derived query in the log
    MaxRev, MaxLog,     \* bounds: writes by a process, entries of a log
    NoCell, NoOp, NoWriter, NoFile, NoReplay

ASSUME NamesDiffer == Memo \notin Key /\ None \notin Value
ASSUME BoundsAreNat == MaxRev \in Nat /\ MaxLog \in Nat
ASSUME KeysAreFinite == IsFiniteSet(Key)

VARIABLES
    status,  \* of the process: down, loaded, up, or failed to start
    replay,  \* the replay of the log under way: its place, the latest revision so far
    rev,     \* Runtime.current_revision
    entry,   \* the value and changed_at of each input
    cell,    \* of the derived query, if Ready
    op,      \* the save, compaction or append under way
    writer,  \* the WalWriter that the program has: its base revision, file, BufWriter
    base,    \* the base file
    log,     \* the log file
    kept     \* history: the inputs that the files were last said to hold

memory == <<rev, entry, cell>>
files == <<base, log, kept>>
vars == <<status, memory, replay, op, writer, files>>

Revision == 0..MaxRev
Stored == Value \union {None}
Entry == [val : Stored, ch : Revision]
Unset == [k \in Key |-> [val |-> None, ch |-> 0]]
Contents == [k \in Key |-> entry[k].val]

\* What reads the cell does not see while a record of it is written.
CellValue == [val : {Eval(c) : c \in [Key -> Stored]}, ver : Revision, ch : Revision]
Logged ==
    [of : Key, at : Revision, rec : Stored]
    \union [of : {Memo}, at : Revision, rec : CellValue]
LogFile == [base : Revision, entries : Seq(Logged), torn : BOOLEAN, headless : BOOLEAN]
Saved == [rev : Revision, entry : [Key -> Entry], cell : CellValue \union {NoCell}]

\* The file of a WalWriter is the log at the path; or was emptied and is being
\* written anew by another; or has no name any more.  A writer is cut when its
\* stream holds the length of an entry without the entry: what is appended
\* after that cannot be read.
Writer == [base : Revision, file : {"log", "truncated", "deleted"},
           buffer : Seq(Logged), cut : BOOLEAN, seen : [Key -> Entry]]

\* A log whose header was not written when the process died.
Headless == [base |-> 0, entries |-> <<>>, torn |-> FALSE, headless |-> TRUE]
LogFrom(r) == [base |-> r, entries |-> <<>>, torn |-> FALSE, headless |-> FALSE]

-----------------------------------------------------------------------------
(* The database *)

Working == status = "up" /\ rev < MaxRev

\* set or remove of an input; nothing if the value is the same.
Set(k, x) ==
    /\ Working
    /\ x # entry[k].val
    /\ rev' = rev + 1
    /\ entry' = [entry EXCEPT ![k] = [val |-> x, ch |-> rev + 1]]
    /\ UNCHANGED <<cell, status, op, writer, files, replay>>

\* The cell answers without the query being run: at once, or revalidated.
Answers == cell.ver = rev \/ \A k \in Key : entry[k].ch <= cell.ch

\* An access of the query brings its cell up to date; a value that is equal
\* keeps its changed_at.
Query ==
    /\ status = "up"
    /\ cell # NoCell => cell.ver # rev
    /\ cell' = IF cell # NoCell /\ (Answers \/ cell.val = Eval(Contents))
               THEN [cell EXCEPT !.ver = rev]
               ELSE [val |-> Eval(Contents), ver |-> rev, ch |-> rev]
    /\ UNCHANGED <<rev, entry, status, op, writer, files, replay>>

-----------------------------------------------------------------------------
(* What the steps of a call are, in order.  A save is followed by a new log *)
(* at the current revision (wal.rs:27-32).  A compaction makes a new log and *)
(* drops its writer, so that who goes on logging makes one more.             *)

Plan == [
    save    |-> <<"inputs", "cells", "revision", "rename", "reread", "create", "writer">>,
    compact |-> <<"inputs", "cells", "revision", "reread", "rename", "unlink", "create",
                  "header", "create", "writer">>,
    append  |-> <<"logInputs", "logCells">>]

Operation == [call : DOMAIN Plan, cellsFirst : BOOLEAN, i : Nat \ {0},
              entry : [Key -> Entry], cell : CellValue \union {NoCell},
              rev : Revision, next : Revision]
Replay == [next : Nat \ {0}, rev : Revision]

ASSUME NonesOfPersist ==
    /\ NoCell \notin CellValue
    /\ NoOp \notin Operation
    /\ NoWriter \notin Writer
    /\ NoFile \notin Saved \union LogFile
    /\ NoReplay \notin Replay

\* Mutant: the cells come before the inputs they were computed from.
Reversed(o) == IF o.i <= 2 THEN 3 - o.i ELSE o.i

\* The ingredients, here the inputs and the query, come in the order of the
\* caller's list.
Place(o) == IF o.cellsFirst /\ o.i <= 2 THEN 3 - o.i ELSE o.i

At(what) == op # NoOp /\ Plan[op.call][Place(op)] = what

\* Mutant: the last step of a call is followed by one more.
AdvanceTooFar(o) == op' = IF o.i > Len(Plan[o.call]) THEN NoOp ELSE [o EXCEPT !.i = @ + 1]

\* The call goes on with what it has collected in o, or returns.
Advance(o) == op' = IF o.i = Len(Plan[o.call]) THEN NoOp ELSE [o EXCEPT !.i = @ + 1]

\* Nothing keeps a save or a compaction from a log that a writer has open.
Begin(call, cellsFirst) ==
    /\ status = "up" /\ op = NoOp
    /\ call = "append" => writer # NoWriter
    /\ op' = [call |-> call, cellsFirst |-> cellsFirst, i |-> 1,
              entry |-> Unset, cell |-> NoCell, rev |-> 0, next |-> 0]
    /\ UNCHANGED <<status, memory, writer, files, replay>>

-----------------------------------------------------------------------------
(* Saving: the sections one after the other, then the revision, then a     *)
(* temporary file that is renamed                                          *)

CollectInputs ==
    /\ At("inputs")
    /\ Advance([op EXCEPT !.entry = entry])
    /\ UNCHANGED <<status, memory, writer, files, replay>>

CollectCells ==
    /\ At("cells")
    /\ Advance([op EXCEPT !.cell = cell])
    /\ UNCHANGED <<status, memory, writer, files, replay>>

ReadRevision ==
    /\ At("revision")
    /\ Advance([op EXCEPT !.rev = rev])
    /\ UNCHANGED <<status, memory, writer, files, replay>>

\* The revision the log is to start from is read once more.
RereadRevision ==
    /\ At("reread")
    /\ Advance([op EXCEPT !.next = rev])
    /\ UNCHANGED <<status, memory, writer, files, replay>>

InstallBase ==
    /\ At("rename")
    /\ base' = [rev |-> op.rev, entry |-> op.entry, cell |-> op.cell]
    /\ kept' = op.entry
    /\ Advance(op)
    /\ UNCHANGED <<status, memory, writer, log, replay>>

\* A writer whose file it was keeps the file, which nobody will open.
DeleteLog ==
    /\ At("unlink")
    /\ log' = NoFile
    /\ writer' = IF writer = NoWriter THEN NoWriter ELSE [writer EXCEPT !.file = "deleted"]
    /\ Advance(op)
    /\ UNCHANGED <<status, memory, base, kept, replay>>

\* WalWriter::create truncates the file, whoever has it open ...
CreateLog ==
    /\ At("create")
    /\ log' = Headless
    /\ writer' = IF writer # NoWriter /\ writer.file = "log"
                 THEN [writer EXCEPT !.file = "truncated"] ELSE writer
    /\ Advance(op)
    /\ UNCHANGED <<status, memory, base, kept, replay>>

\* ... and writes the header, all that becomes of the _new_wal of a compaction.
WriteHeader ==
    /\ At("header")
    /\ log' = LogFrom(op.next)
    /\ Advance(op)
    /\ UNCHANGED <<status, memory, writer, base, kept, replay>>

\* What may be in the file l of a writer that was not flushed: some entries of
\* its BufWriter, perhaps with a part of the next one.
Spilled(l) == UNION {
    {[l EXCEPT !.entries = @ \o SubSeq(writer.buffer, 1, n), !.torn = @ \/ torn] :
        torn \in {t \in BOOLEAN : t => n < Len(writer.buffer) \/ writer.cut}} :
    n \in 0..Len(writer.buffer)}

\* The program's own writer: the header, then the writer it had is dropped,
\* whose bytes land in the new log if they share the file.
TakeWriter ==
    /\ At("writer")
    /\ log' \in IF writer # NoWriter /\ writer.file = "truncated"
                THEN Spilled(LogFrom(op.next)) ELSE {LogFrom(op.next)}
    /\ writer' = [base |-> op.next, file |-> "log", buffer |-> <<>>, cut |-> FALSE, seen |-> kept]
    /\ Advance(op)
    /\ UNCHANGED <<status, memory, base, kept, replay>>

\* An I/O error ends the call with what it has done so far.  A save that no log
\* follows, and a compaction with create_new_wal = FALSE, end the same way.
IoError ==
    /\ \E what \in {"rename", "unlink", "create", "header", "writer"} : At(what)
    /\ op' = NoOp
    /\ UNCHANGED <<status, memory, writer, files, replay>>

-----------------------------------------------------------------------------
(* Logging *)

\* Mutant: inputs that were removed are not logged.
ChangedAndPresent(k) == entry[k].ch > writer.base /\ entry[k].val # None

Changed(k) == entry[k].ch > writer.base

Room(n) == (IF log = NoFile THEN 0 ELSE Len(log.entries)) + Len(writer.buffer) + n <= MaxLog

\* The BufWriter after WalWriter::append of the entries es.
Extended(es) == IF writer.cut THEN writer.buffer ELSE writer.buffer \o es

\* The entries for the inputs s.
Records(s) == [i \in DOMAIN s |->
    [of |-> s[i], at |-> entry[s[i]].ch, rec |-> entry[s[i]].val]]

\* append_to_wal: all inputs changed since the base, in the order of a hash
\* map, whether or not they were logged before ...
AppendInputs ==
    /\ At("logInputs")
    /\ \E s \in SetToSeqs({k \in Key : Changed(k)}) :
        /\ Room(Len(s))
        /\ writer' = [writer EXCEPT !.seen = entry, !.buffer = Extended(Records(s))]
    /\ Advance(op)
    /\ UNCHANGED <<status, memory, files, replay>>

\* ... and the cells changed since.
AppendCells ==
    /\ At("logCells")
    /\ IF cell # NoCell /\ cell.ch > writer.base
       THEN /\ Room(1)
            /\ writer' = [writer EXCEPT !.buffer =
                            Extended(<<[of |-> Memo, at |-> cell.ch, rec |-> cell]>>)]
       ELSE UNCHANGED writer
    /\ Advance(op)
    /\ UNCHANGED <<status, memory, files, replay>>

\* An error in the middle of an append: some of its entries were appended, and
\* the next one may have been cut.
AppendFails ==
    /\ At("logInputs") \/ At("logCells")
    /\ \E K \in SUBSET {k \in Key : At("logInputs") /\ Changed(k)}, cut \in BOOLEAN :
        \E s \in SetToSeqs(K) :
            /\ Room(Len(s))
            /\ writer' = [writer EXCEPT !.buffer = Extended(Records(s)), !.cut = @ \/ cut,
                            !.seen = [k \in Key |-> IF k \in K THEN entry[k] ELSE @[k]]]
    /\ op' = NoOp
    /\ UNCHANGED <<status, memory, files, replay>>

\* flush: from here on the log is to hold what was appended.  One that fails
\* leaves a part of it in the BufWriter, and nothing that a crash does not.
Flush ==
    /\ status = "up" /\ op = NoOp
    /\ writer # NoWriter
    /\ log' = IF writer.file # "log" THEN log
              ELSE [log EXCEPT !.entries = @ \o writer.buffer, !.torn = @ \/ writer.cut]
    /\ kept' = writer.seen
    /\ writer' = [writer EXCEPT !.buffer = <<>>]
    /\ UNCHANGED <<status, memory, op, base, replay>>

\* What is left of the log of a writer that goes away.
LeavesLog == IF writer # NoWriter /\ writer.file = "log" THEN log' \in Spilled(log)
                                                         ELSE UNCHANGED log

\* Drop of a WalWriter flushes it, if it can, and promises nothing.
CloseWriter ==
    /\ status = "up" /\ op = NoOp
    /\ writer # NoWriter
    /\ LeavesLog
    /\ writer' = NoWriter
    /\ UNCHANGED <<status, memory, op, base, kept, replay>>

-----------------------------------------------------------------------------
(* Crashing and starting *)

\* The process dies.
Crash ==
    /\ status # "down"
    /\ status' = "down"
    /\ rev' = 0 /\ entry' = Unset /\ cell' = NoCell
    /\ replay' = NoReplay /\ op' = NoOp /\ writer' = NoWriter
    /\ LeavesLog
    /\ UNCHANGED <<base, kept>>

\* load_cache into a fresh process.
Load ==
    /\ status = "down"
    /\ status' = "loaded"
    /\ IF base = NoFile THEN UNCHANGED memory
       ELSE rev' = base.rev /\ entry' = base.entry /\ cell' = base.cell
    /\ UNCHANGED <<replay, op, writer, files>>

LogFits == log # NoFile /\ ~log.headless /\ log.base = rev

\* replay_wal opens the log: there may be none, or one that is refused.
OpenLog ==
    /\ status = "loaded" /\ replay = NoReplay
    /\ status' = CASE log = NoFile -> "up"
                    [] log # NoFile /\ ~LogFits -> "failed"
                    [] LogFits -> "loaded"
    /\ replay' = IF LogFits THEN [next |-> 1, rev |-> rev] ELSE NoReplay
    /\ UNCHANGED <<memory, op, writer, files>>

Replaying == status = "loaded" /\ replay # NoReplay

\* apply_wal_entry of an input or of a derived query.
Apply(m, e) ==
    IF e.of \in Key THEN [m EXCEPT !.entry[e.of] = [val |-> e.rec, ch |-> e.at]]
                    ELSE [m EXCEPT !.cell = e.rec]

\* Mutant: the revision stays that of the base.
Earliest(r, e) == r

Later(r, e) == IF e.at > r THEN e.at ELSE r

\* The entries are applied one by one ...
ReplayEntry ==
    /\ Replaying /\ replay.next <= Len(log.entries)
    /\ LET e == log.entries[replay.next]
           m == Apply([entry |-> entry, cell |-> cell], e)
       IN  /\ entry' = m.entry /\ cell' = m.cell
           /\ replay' = [next |-> replay.next + 1, rev |-> Later(replay.rev, e)]
    /\ UNCHANGED <<status, rev, op, writer, files>>

\* ... and the revision is set after the last one, unless an entry is cut off,
\* which is an error.
EndReplay ==
    /\ Replaying /\ replay.next > Len(log.entries)
    /\ IF log.torn THEN status' = "failed" /\ UNCHANGED rev
                   ELSE status' = "up" /\ rev' = replay.rev
    /\ replay' = NoReplay
    /\ UNCHANGED <<entry, cell, op, writer, files>>

\* Who embeds the database gives up a log that cannot be replayed, and what
\* only it holds.
DiscardLog ==
    /\ status = "failed"
    /\ log' = NoFile
    /\ kept' = IF ~log.torn THEN kept ELSE IF base = NoFile THEN Unset ELSE base.entry
    /\ status' = "down"
    /\ rev' = 0 /\ entry' = Unset /\ cell' = NoCell
    /\ UNCHANGED <<replay, op, writer, base>>

-----------------------------------------------------------------------------
Init ==
    /\ status = "down"
    /\ rev = 0 /\ entry = Unset /\ cell = NoCell
    /\ replay = NoReplay /\ op = NoOp /\ writer = NoWriter
    /\ base = NoFile /\ log = NoFile /\ kept = Unset

Work == Query \/ \E k \in Key, x \in Stored : Set(k, x)

Steps ==
    \/ CollectInputs \/ CollectCells \/ ReadRevision \/ RereadRevision
    \/ InstallBase \/ DeleteLog \/ CreateLog \/ WriteHeader \/ TakeWriter \/ IoError
    \/ AppendInputs \/ AppendCells \/ AppendFails

Restart == Crash \/ Load \/ OpenLog \/ ReplayEntry \/ EndReplay \/ DiscardLog

Next ==
    \/ Work \/ Steps \/ Flush \/ CloseWriter \/ Restart
    \/ \E call \in DOMAIN Plan, cellsFirst \in BOOLEAN : Begin(call, cellsFirst)
Spec == Init /\ [][Next]_vars

-----------------------------------------------------------------------------
(* What the code takes for granted of the program that calls it, and does  *)
(* not check                                                               *)

\* What the writer writes is in the log that belongs to the base.
Usable == /\ writer # NoWriter /\ writer.file = "log"
          /\ base # NoFile /\ writer.base = base.rev

\* Nothing of the writer can get into the log that is made next.
Spent == writer # NoWriter /\ writer.file # "deleted" =>
            writer.buffer = <<>> /\ ~writer.cut

\* It logs with the writer of the present log, and no more after an append that
\* failed half way; it lists the inputs before the queries when it logs; and
\* before it makes a new log in the place of an old one, it is done with that.
Allowed(call, cellsFirst) ==
    /\ call = "append" => Usable /\ ~writer.cut /\ ~cellsFirst
    /\ call = "save" => Spent

Orderly ==
    \/ Steps \/ Flush \/ CloseWriter \/ Restart
    \/ \E call \in DOMAIN Plan, cellsFirst \in BOOLEAN :
        Allowed(call, cellsFirst) /\ Begin(call, cellsFirst)

BusySpec == Init /\ [][Work \/ Orderly]_vars

\* The database is left alone while it is saved or logged.
QuietNext == (Work /\ op = NoOp) \/ Orderly
QuietSpec == Init /\ [][QuietNext]_vars

-----------------------------------------------------------------------------
(* Properties *)

TypeOK ==
    /\ status \in {"down", "loaded", "up", "failed"}
    /\ rev \in Revision
    /\ entry \in [Key -> Entry]
    /\ cell \in CellValue \union {NoCell}
    /\ replay \in Replay \union {NoReplay}
    /\ op \in Operation \union {NoOp}
    /\ op # NoOp => op.i <= Len(Plan[op.call])
    /\ writer \in Writer \union {NoWriter}
    /\ base \in Saved \union {NoFile}
    /\ log \in LogFile \union {NoFile}
    /\ kept \in [Key -> Entry]

\* What a save or a flush that returned has put in the files is there after
\* any crash and restart, or has been overwritten since: a base installed next
\* to an old log, a log cut short, appends that repeat one another and an
\* interrupted compaction lose none of it, and neither does a replay that
\* ends with an error.
FlushedIsDurable ==
    status \in {"up", "failed"} =>
        \A k \in Key : entry[k] = kept[k] \/ entry[k].ch > kept[k].ch

\* A cell that answers without being computed, because it is verified at the
\* current revision or because no input is newer, has the value that the query
\* would compute, also when base, log and inputs come from different moments
\* and revisions lost in a crash were given out again.
CacheIsSound ==
    status = "up" /\ cell # NoCell /\ Answers => cell.val = Eval(Contents)

\* No stamp is ahead of the revision: a later write would otherwise reach a
\* revision at which the cell claims to be verified already.
RevisionCovers ==
    status = "up" =>
        /\ \A k \in Key : entry[k].ch <= rev
        /\ cell # NoCell => cell.ch <= cell.ver /\ cell.ver <= rev

=============================================================================
