---------------------------- MODULE DramaImport ----------------------------
(***************************************************************************)
(* Importing the day's dramas of the public sheet into the private one:    *)
(* a preview is built from both sheets and stored with the private         *)
(* sheet's revision; confirming it inserts its rows above the others and   *)
(* reads them back.  People and the delivery worker edit the same sheet.   *)
(*                                                                         *)
(* The claim is a conditional UPDATE inside the confirming request's       *)
(* transaction, so it holds the database's write lock until the request    *)
(* ends: there is one confirmation at a time, and a second click waits     *)
(* for it or gives up, without touching the sheet.  A request that fails   *)
(* or dies rolls back its claim and, with it, the FAILED mark it has       *)
(* written: a stored run is PREVIEWED or COMPLETED.                        *)
(***************************************************************************)
EXTENDS Integers, Sequences, FiniteSets, SequencesExt

CONSTANTS
    Drama,      \* drama name and platform
    TimeCell,   \* what a cell of the time column says
    Today,      \* the cells that name the business day
    Public,     \* the rows of the public sheet
    PrefixOf,   \* the group letter of each operator
    Runs,       \* ids of previews
    Person,     \* who wrote a row that no run inserted
    NoMark, NoRun,
    FirstRows,  \* the private sheet at the start
    Additions,  \* rows people may add, with a drama and a time cell each
    Retimed,    \* what people may write into a time cell
    MaxEdits, MaxClicks, MaxFaults

Operators == DOMAIN PrefixOf

VARIABLES
    sheet,     \* the private sheet's rows, from its second
    current,   \* the runs for which the private workbook's revision is still the one
               \* they began to read at or, once stored, the one they stored
    runs,      \* drama_import_run rows, as committed
    reading,   \* the previews being built
    confirm,   \* the confirmation that holds the claim
    raced,     \* history: runs whose preview or insert an edit slipped into
    edits, clicks, faults

importVars == <<sheet, current, runs, reading, confirm, raced, edits, clicks, faults>>

\* A row of the private sheet: what identifies it, the drama whose results were written
\* into it, and who inserted it (history).
Row == [drama : Drama, cell : TimeCell, mark : Drama \cup {NoMark}, by : Runs \cup {Person}]

PreviewRow == [drama : Drama, cell : TimeCell]

SourceKey(row) == [drama |-> row.drama, cell |-> row.cell]

ASSUME DramaImportAssumption ==
    /\ Today \subseteq TimeCell /\ NoMark \notin Drama
    /\ Person \notin Runs /\ NoRun \notin Runs
    /\ Len(Public) \in Nat /\ \A n \in 1 .. Len(Public) : SourceKey(Public[n]) \in PreviewRow
    /\ \A s \in FirstRows : s \in Seq(Row) /\ \A i \in 1 .. Len(s) : s[i].by = Person
    /\ Additions \subseteq PreviewRow /\ Retimed \subseteq TimeCell
    /\ MaxEdits \in Nat /\ MaxClicks \in Nat /\ MaxFaults \in Nat

\* A group cell names an operator, or begins with a group's letter.
IsOperatorRow(row, o, matchGroup) ==
    \/ o = row.name
    \/ matchGroup /\ row.prefix = PrefixOf[o]

\* Mutant of AddSource: only the rows of the preview itself are known.
AddUnseen(known, o, matchGroup, rows, source) ==
    IF /\ source.cell \in Today
       /\ IsOperatorRow(source, o, matchGroup)
       /\ source.valid
       /\ SourceKey(source) \notin ToSet(rows)
    THEN Append(rows, SourceKey(source))
    ELSE rows

\* build_import_preview, one public row.
AddSource(known, o, matchGroup, rows, source) ==
    IF /\ source.cell \in Today
       /\ IsOperatorRow(source, o, matchGroup)
       /\ source.valid
       /\ SourceKey(source) \notin known \cup ToSet(rows)
    THEN Append(rows, SourceKey(source))
    ELSE rows

BuildImportPreview(private, o, matchGroup) ==
    LET known == {SourceKey(private[i]) : i \in DOMAIN private}
        rows[n \in 0 .. Len(Public)] ==  \* ... of the first n public rows
            IF n = 0 THEN <<>> ELSE AddSource(known, o, matchGroup, rows[n - 1], Public[n])
    IN rows[Len(Public)]

NoPreview == [status |-> "NONE", rows |-> <<>>]

ImportInit ==
    /\ sheet \in FirstRows
    /\ current = {}
    /\ runs = [r \in Runs |-> NoPreview]
    /\ reading = [r \in Runs |-> [pc |-> "none", rows |-> <<>>]]
    /\ confirm = [run |-> NoRun, pc |-> "none"]
    /\ raced = {} /\ edits = 0 /\ clicks = 0 /\ faults = 0

Unclaimed == confirm.run = NoRun

-----------------------------------------------------------------------------
(* Preview: the rows are read before the revision they are checked against. *)

ReadPrivateRows(r, o, matchGroup) ==
    /\ runs[r].status = "NONE" /\ reading[r].pc = "none"
    /\ reading' = [reading EXCEPT ![r] =
           [pc |-> "read", rows |-> BuildImportPreview(sheet, o, matchGroup)]]
    /\ current' = current \cup {r}
    /\ UNCHANGED <<sheet, runs, confirm, raced, edits, clicks, faults>>

SavePreview(r) ==
    /\ reading[r].pc = "read" /\ Unclaimed
    /\ runs' = [runs EXCEPT ![r] =
           [status |-> "PREVIEWED", rows |-> reading[r].rows]]
    /\ current' = current \cup {r}
    /\ raced' = IF r \in current THEN raced ELSE raced \cup {r}
    /\ reading' = [reading EXCEPT ![r] = [pc |-> "none", rows |-> <<>>]]
    /\ UNCHANGED <<sheet, confirm, edits, clicks, faults>>

-----------------------------------------------------------------------------
(* Confirmation. *)

Claim(r) ==
    /\ Unclaimed /\ runs[r].status = "PREVIEWED" /\ clicks < MaxClicks
    /\ confirm' = [run |-> r, pc |-> "claimed"]
    /\ clicks' = clicks + 1
    /\ UNCHANGED <<sheet, current, runs, reading, raced, edits, faults>>

ConfirmedRows == runs[confirm.run].rows

\* The rows below the heading are those of the run, with nothing written into them.
TopRowsAre(rows) ==
    /\ Len(sheet) >= Len(rows)
    /\ \A i \in DOMAIN rows : SourceKey(sheet[i]) = rows[i] /\ sheet[i].mark = NoMark

Commit ==
    /\ runs' = [runs EXCEPT ![confirm.run].status = "COMPLETED"]
    /\ confirm' = [run |-> NoRun, pc |-> "none"]

Rollback ==
    /\ confirm' = [run |-> NoRun, pc |-> "none"]
    /\ UNCHANGED runs

\* Mutant of CheckRevision: the revision is not compared.
CheckNothing ==
    /\ confirm.pc = "claimed" /\ ConfirmedRows # <<>>
    /\ confirm' = [confirm EXCEPT !.pc = "checked"]
    /\ UNCHANGED <<sheet, current, runs, reading, raced, edits, clicks, faults>>

\* insert_private_rows: nothing to insert, or the revision is compared.
CheckRevision ==
    /\ confirm.pc = "claimed"
    /\ ConfirmedRows # <<>> /\ confirm.run \in current
    /\ confirm' = [confirm EXCEPT !.pc = "checked"]
    /\ UNCHANGED <<sheet, current, runs, reading, raced, edits, clicks, faults>>

NothingToInsert ==
    /\ confirm.pc = "claimed" /\ ConfirmedRows = <<>>
    /\ Commit
    /\ UNCHANGED <<sheet, current, reading, raced, edits, clicks, faults>>

\* Mutant of RevisionMoved: rows that are already there are not looked at.
TakeAsLanded ==
    /\ confirm.pc = "claimed"
    /\ ConfirmedRows # <<>> /\ confirm.run \notin current
    /\ Commit
    /\ UNCHANGED <<sheet, current, reading, raced, edits, clicks, faults>>

\* The revision has moved: success if an earlier attempt's rows are still the top ones.
RevisionMoved ==
    /\ confirm.pc = "claimed"
    /\ ConfirmedRows # <<>> /\ confirm.run \notin current
    /\ IF TopRowsAre(ConfirmedRows) THEN Commit ELSE Rollback
    /\ UNCHANGED <<sheet, current, reading, raced, edits, clicks, faults>>

Inserted == [i \in DOMAIN ConfirmedRows |->
                [drama |-> ConfirmedRows[i].drama, cell |-> ConfirmedRows[i].cell,
                 mark |-> NoMark, by |-> confirm.run]]

\* One batch of insert, cells and row heights.
InsertRows ==
    /\ confirm.pc = "checked"
    /\ sheet' = Inserted \o sheet /\ current' = {}
    /\ raced' = IF confirm.run \in current THEN raced ELSE raced \cup {confirm.run}

BatchUpdate ==
    /\ InsertRows
    /\ confirm' = [confirm EXCEPT !.pc = "inserted"]
    /\ UNCHANGED <<runs, reading, edits, clicks, faults>>

\* lark-cli fails, its batch applied or not.
BatchUpdateFails ==
    /\ confirm.pc = "checked" /\ faults < MaxFaults
    /\ InsertRows \/ UNCHANGED <<sheet, current, raced>>
    /\ Rollback
    /\ faults' = faults + 1
    /\ UNCHANGED <<reading, edits, clicks>>

\* The formulas verify and the rows are read back, and the request commits.
ReadBack ==
    /\ confirm.pc = "inserted" /\ TopRowsAre(ConfirmedRows)
    /\ Commit
    /\ UNCHANGED <<sheet, current, reading, raced, edits, clicks, faults>>

ReadBackDiffers ==
    /\ confirm.pc = "inserted" /\ ~TopRowsAre(ConfirmedRows)
    /\ Rollback
    /\ UNCHANGED <<sheet, current, reading, raced, edits, clicks, faults>>

\* A lark-cli call of the confirmation fails, or the server dies.
ConfirmDies ==
    /\ ~Unclaimed /\ faults < MaxFaults
    /\ Rollback
    /\ faults' = faults + 1
    /\ UNCHANGED <<sheet, current, reading, raced, edits, clicks>>

ConfirmStep == CheckRevision \/ NothingToInsert \/ RevisionMoved \/ BatchUpdate
               \/ BatchUpdateFails \/ ReadBack \/ ReadBackDiffers \/ ConfirmDies

-----------------------------------------------------------------------------
(* People: they add a row below, or rewrite a row's time. *)

PersonAdds(row) ==
    /\ edits < MaxEdits
    /\ sheet' = Append(sheet, [drama |-> row.drama, cell |-> row.cell,
                               mark |-> NoMark, by |-> Person])
    /\ current' = {} /\ edits' = edits + 1
    /\ UNCHANGED <<runs, reading, confirm, raced, clicks, faults>>

PersonRetimes(i, c) ==
    /\ edits < MaxEdits /\ sheet[i].cell # c
    /\ sheet' = [sheet EXCEPT ![i].cell = c, ![i].by = Person]
    /\ current' = {} /\ edits' = edits + 1
    /\ UNCHANGED <<runs, reading, confirm, raced, clicks, faults>>

PersonEdits ==
    \/ \E row \in Additions : PersonAdds(row)
    \/ \E i \in DOMAIN sheet, c \in Retimed : PersonRetimes(i, c)

\* Results are written into the link and completion columns of a row.
WriteRow(i, d) ==
    /\ Unclaimed
    /\ sheet' = [sheet EXCEPT ![i].mark = d]
    /\ current' = {}

ImportNext ==
    \/ \E r \in Runs, o \in Operators, g \in BOOLEAN : ReadPrivateRows(r, o, g)
    \/ \E r \in Runs : SavePreview(r) \/ Claim(r)
    \/ ConfirmStep
    \/ PersonEdits

\* The import on its own, with a worker that writes results into any row.
WorkerWrites ==
    /\ \E i \in DOMAIN sheet : sheet[i].mark = NoMark /\ WriteRow(i, sheet[i].drama)
    /\ UNCHANGED <<runs, reading, confirm, raced, edits, clicks, faults>>

ImportSpec == ImportInit /\ [][ImportNext \/ WorkerWrites]_importVars

-----------------------------------------------------------------------------
(* What the import promises. *)

ImportTypeOK ==
    /\ sheet \in Seq(Row) /\ current \subseteq Runs
    /\ runs \in [Runs -> [status : {"NONE", "PREVIEWED", "COMPLETED"},
                          rows : Seq(PreviewRow)]]
    /\ reading \in [Runs -> [pc : {"none", "read"}, rows : Seq(PreviewRow)]]
    /\ confirm \in [run : Runs \cup {NoRun}, pc : {"none", "claimed", "checked", "inserted"}]
    /\ raced \subseteq Runs
    /\ edits \in 0 .. MaxEdits /\ clicks \in 0 .. MaxClicks /\ faults \in 0 .. MaxFaults

\* However often a run is confirmed and its confirmation fails or dies, at whatever point,
\* each of its rows is inserted once (insert_private_rows is repeatable).
InsertedOnce ==
    \A i, j \in DOMAIN sheet :
        sheet[i].by \in Runs /\ sheet[i].by = sheet[j].by
            /\ SourceKey(sheet[i]) = SourceKey(sheet[j])
        => i = j

\* A run that reports success has its dramas in the sheet, also when it inserted nothing
\* because it took the rows on top for those of an earlier attempt.
CompletedHasLanded ==
    \A r \in Runs : runs[r].status = "COMPLETED" =>
        \A k \in DOMAIN runs[r].rows :
            \E i \in DOMAIN sheet : sheet[i].drama = runs[r].rows[k].drama

\* Two runs import one drama at one time only if the sheet changed in one of the two
\* windows the protocol leaves open: between the rows and the revision of a preview, or
\* between the check of the revision and the insert.
ImportsAreDisjoint ==
    \A i, j \in DOMAIN sheet :
        /\ i # j /\ {sheet[i].by, sheet[j].by} \subseteq Runs
        /\ SourceKey(sheet[i]) = SourceKey(sheet[j])
        => raced \cap {sheet[i].by, sheet[j].by} # {}

=============================================================================
