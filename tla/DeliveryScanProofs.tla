-------------------------- MODULE DeliveryScanProofs --------------------------
(***************************************************************************)
(* Proofs about DramaImport and DeliveryScan, for all sheets, previews,    *)
(* scanners and bounds.                                                    *)
(***************************************************************************)
EXTENDS DeliveryScan, SequenceTheorems, FiniteSetTheorems, WellFoundedInduction, TLAPS

-----------------------------------------------------------------------------
(* Recursion over a sequence                                                *)

\* What holds of 0 and of the successor of each number it holds of, holds of all.
LEMMA Induction ==
    ASSUME NEW S \in SUBSET Nat, 0 \in S, \A n \in S : n + 1 \in S PROVE S = Nat
<1> DEFINE Bad == Nat \ S
<1> SUFFICES ASSUME Bad # {} PROVE FALSE
  OBVIOUS
<1>1. PICK n \in Bad : \A m \in Bad : <<m, n>> \notin OpToRel(<, Nat)
  BY NatLessThanWellFounded, WFMin
<1>2. n - 1 \in Nat /\ n - 1 < n
  OBVIOUS
<1>3. n - 1 \notin Bad
  BY <1>1, <1>2 DEF OpToRel
<1> QED  BY <1>2, <1>3

\* The results of a fold: their recursive definition defines a function ...
LEMMA FoldExists ==
    ASSUME NEW S, NEW base \in S, NEW n \in Nat, NEW step \in [1 .. n -> [S -> S]]
    PROVE  \E f \in [0 .. n -> S] :
               f = [i \in 0 .. n |-> IF i = 0 THEN base ELSE step[i][f[i - 1]]]
<1> DEFINE Partial(m) == {g \in [0 .. m -> S] : /\ g[0] = base
                                                /\ \A i \in 1 .. m : g[i] = step[i][g[i - 1]]}
           Good == {m \in Nat : m <= n => Partial(m) # {}}
<1>1. 0 \in Good
  <2>1. [i \in 0 .. 0 |-> base] \in Partial(0)
    OBVIOUS
  <2> QED  BY <2>1
<1>2. ASSUME NEW m \in Good PROVE m + 1 \in Good
  <2>1. ASSUME m + 1 <= n PROVE Partial(m + 1) # {}
    <3>1. PICK g \in Partial(m) : TRUE
      BY <2>1
    <3> DEFINE h == [i \in 0 .. m + 1 |-> IF i = m + 1 THEN step[i][g[m]] ELSE g[i]]
    <3>2. g[m] \in S /\ step[m + 1] \in [S -> S]
      BY <2>1
    <3>3. h \in [0 .. m + 1 -> S]
      BY <2>1, <3>1, <3>2
    <3>4. h[0] = base
      BY <3>1
    <3>5. ASSUME NEW i \in 1 .. m + 1 PROVE h[i] = step[i][h[i - 1]]
      BY <3>1
    <3> QED  BY <3>3, <3>4, <3>5
  <2> HIDE DEF Partial
  <2> QED  BY <2>1
<1> HIDE DEF Good
<1>3. n \in Good
  BY <1>1, <1>2, Induction DEF Good
<1>4. PICK g \in Partial(n) : TRUE
  BY <1>3 DEF Good
<1> QED  BY <1>4

\* ... and what each step keeps holds of all.
LEMMA FoldKeeps ==
    ASSUME NEW S, NEW n \in Nat, NEW f, f[0] \in S, \A i \in 1 .. n : f[i - 1] \in S => f[i] \in S
    PROVE  \A i \in 0 .. n : f[i] \in S
<1> DEFINE Typed == {m \in Nat : m <= n => f[m] \in S}
<1>1. 0 \in Typed
  OBVIOUS
<1>2. ASSUME NEW m \in Typed PROVE m + 1 \in Typed
  <2>1. m + 1 <= n => m + 1 \in 1 .. n /\ f[(m + 1) - 1] \in S
    OBVIOUS
  <2> QED  BY <2>1
<1> HIDE DEF Typed
<1>3. Typed = Nat
  BY <1>1, <1>2, Induction DEF Typed
<1>4. ASSUME NEW i \in 0 .. n PROVE f[i] \in S
  <2>1. i \in Typed /\ i <= n
    BY <1>3
  <2> QED  BY <2>1 DEF Typed
<1> QED  BY <1>4

-----------------------------------------------------------------------------
(* Previews                                                                 *)

\* The rows of a preview are different keys, and none of them is a row of the sheet.
New(rows) ==
    /\ \A k, l \in DOMAIN rows : rows[k] = rows[l] => k = l
    /\ \A k \in DOMAIN rows, i \in DOMAIN sheet : SourceKey(sheet[i]) # rows[k]

LEMMA PreviewIsNew ==
    ASSUME NEW o, NEW matchGroup
    PROVE  LET rows == BuildImportPreview(sheet, o, matchGroup)
           IN  rows \in Seq(PreviewRow) /\ New(rows)
<1> DEFINE known == {SourceKey(sheet[i]) : i \in DOMAIN sheet}
           add(rows, n) == AddSource(known, o, matchGroup, rows, Public[n])
           N == Len(Public)
           S == {rows \in Seq(PreviewRow) : New(rows)}
           f == CHOOSE g : g = [n \in 0 .. N |-> IF n = 0 THEN <<>> ELSE add(g[n - 1], n)]
<1>1. N \in Nat /\ \A n \in 1 .. N : SourceKey(Public[n]) \in PreviewRow
  BY DramaImportAssumption
<1>2. <<>> \in S
  BY DEF New
<1>3. ASSUME NEW rows \in S, NEW n \in 1 .. N PROVE add(rows, n) \in S
  <2> DEFINE key == SourceKey(Public[n])
  <2>1. key \in PreviewRow
    BY <1>1
  <2>2. CASE key \notin known \cup ToSet(rows)
    <3>1. Append(rows, key) \in Seq(PreviewRow) /\ Len(Append(rows, key)) = Len(rows) + 1
          /\ \A k \in 1 .. Len(rows) : Append(rows, key)[k] = rows[k]
          /\ Append(rows, key)[Len(rows) + 1] = key
      BY <2>1, AppendProperties
    <3>2. DOMAIN rows = 1 .. Len(rows) /\ Len(rows) \in Nat
          /\ DOMAIN Append(rows, key) = 1 .. Len(rows) + 1
      BY <3>1, LenProperties
    <3>3. \A k \in DOMAIN rows : rows[k] # key
      BY <2>2 DEF ToSet
    <3>4. \A i \in DOMAIN sheet : SourceKey(sheet[i]) # key
      BY <2>2
    <3>5. New(Append(rows, key))
      <4> DEFINE new == Append(rows, key)
      <4>1. \A k \in DOMAIN new : k = Len(rows) + 1 \/ (k \in DOMAIN rows /\ new[k] = rows[k])
        BY <3>1, <3>2
      <4> HIDE DEF key, new
      <4> QED  BY <3>1, <3>2, <3>3, <3>4, <4>1 DEF New, new
    <3> HIDE DEF key, known
    <3> QED  BY <3>1, <3>5 DEF AddSource, key
  <2>3. CASE key \in known \cup ToSet(rows)
    BY <2>3 DEF AddSource
  <2> QED  BY <2>2, <2>3
<1> HIDE DEF S, N, add
<1>4. \E g : g = [n \in 0 .. N |-> IF n = 0 THEN <<>> ELSE add(g[n - 1], n)]
  <2> DEFINE step == [n \in 1 .. N |-> [rows \in S |-> add(rows, n)]]
  <2>1. step \in [1 .. N -> [S -> S]]
    BY <1>3
  <2> HIDE DEF step
  <2>2. PICK g \in [0 .. N -> S] :
             g = [n \in 0 .. N |-> IF n = 0 THEN <<>> ELSE step[n][g[n - 1]]]
    BY <1>1, <1>2, <2>1, FoldExists
  <2>3. \A n \in 1 .. N : n - 1 \in 0 .. N
    BY <1>1
  <2>4. \A n \in 1 .. N : step[n][g[n - 1]] = add(g[n - 1], n)
    BY <2>2, <2>3 DEF step
  <2>5. g = [n \in 0 .. N |-> IF n = 0 THEN <<>> ELSE add(g[n - 1], n)]
    BY <1>1, <2>2, <2>4
  <2> QED  BY <2>5
<1>5. f = [n \in 0 .. N |-> IF n = 0 THEN <<>> ELSE add(f[n - 1], n)]
  BY <1>4
<1> HIDE DEF f
<1>6. f[0] \in S /\ \A n \in 1 .. N : f[n - 1] \in S => f[n] \in S
  BY <1>1, <1>2, <1>3, <1>5
<1>7. f[N] \in S
  BY <1>1, <1>6, FoldKeeps
<1>8. BuildImportPreview(sheet, o, matchGroup) = f[N]
  BY DEF BuildImportPreview, f, N, add
<1> QED  BY <1>7, <1>8 DEF S

-----------------------------------------------------------------------------
(* The invariant of the import                                              *)

Distinct(rows) == \A k, l \in DOMAIN rows : rows[k] = rows[l] => k = l

RowsOf(r) == IF reading[r].pc = "read" THEN reading[r].rows ELSE runs[r].rows

\* A run is read, then stored, and has each key once.
RunsOK ==
    \A r \in Runs : /\ reading[r].pc = "read" => runs[r].status = "NONE"
                    /\ Distinct(runs[r].rows) /\ Distinct(reading[r].rows)

\* The confirmation in progress is that of a stored run.
ConfirmOK == confirm.pc # "none" => confirm.run \in Runs /\ runs[confirm.run].status = "PREVIEWED"

\* Once a run has inserted rows it cannot insert them again: its revision is not the one
\* that was stored.
LandedOK ==
    \A i \in DOMAIN sheet : sheet[i].by \in Runs =>
        /\ runs[sheet[i].by].status # "NONE" /\ sheet[i].by \notin current
        /\ ~(confirm.run = sheet[i].by /\ confirm.pc = "checked")

\* While the revision is the one its rows were read at, none of them is in the sheet.
FreshOK ==
    \A r \in current \ raced : \A k \in DOMAIN RowsOf(r), i \in DOMAIN sheet :
        SourceKey(sheet[i]) # RowsOf(r)[k]

RunInv == ImportTypeOK /\ RunsOK /\ ConfirmOK
ImportInv == RunInv /\ LandedOK /\ FreshOK /\ InsertedOnce /\ CompletedHasLanded
             /\ ImportsAreDisjoint

\* A step of the import or of the worker that writes results.
ResultWritten ==
    /\ \E i \in Nat, d \in Drama : WriteRow(i, d)
    /\ UNCHANGED <<runs, reading, confirm, raced, edits, clicks, faults>>

ImportStep == ImportNext \/ ResultWritten

\* What people and the worker do to the sheet: no drama goes, and a row that is not a
\* person's afterwards has kept its key.
Edited ==
    /\ sheet' \in Seq(Row)
    /\ \A i \in DOMAIN sheet : i \in DOMAIN sheet' /\ sheet'[i].drama = sheet[i].drama
    /\ \A i \in DOMAIN sheet' :
          \/ sheet'[i].by = Person
          \/ /\ i \in DOMAIN sheet /\ sheet'[i].by = sheet[i].by
             /\ SourceKey(sheet'[i]) = SourceKey(sheet[i])
    /\ current' = {} /\ UNCHANGED <<runs, reading, confirm, raced>>

LEMMA EditStep ==
    ASSUME ImportTypeOK, PersonEdits \/ ResultWritten PROVE Edited
<1>1. sheet \in Seq(Row) /\ DOMAIN sheet = 1 .. Len(sheet) /\ Len(sheet) \in Nat
      /\ \A i \in DOMAIN sheet : sheet[i] \in Row
  BY LenProperties, ElementOfSeq DEF ImportTypeOK
<1>2. ASSUME NEW row \in Additions, PersonAdds(row) PROVE Edited
  <2> DEFINE new == [drama |-> row.drama, cell |-> row.cell, mark |-> NoMark, by |-> Person]
  <2>1. new \in Row
    BY DramaImportAssumption DEF PreviewRow, Row
  <2>2. sheet' = Append(sheet, new) /\ current' = {} /\ UNCHANGED <<runs, reading, confirm, raced>>
    BY <1>2 DEF PersonAdds
  <2>3. new.by = Person
    OBVIOUS
  <2> HIDE DEF new
  <2>4. /\ sheet' \in Seq(Row) /\ DOMAIN sheet' = 1 .. Len(sheet) + 1
        /\ sheet'[Len(sheet) + 1] = new /\ \A i \in DOMAIN sheet : sheet'[i] = sheet[i]
    BY <1>1, <2>1, <2>2, AppendProperties, LenProperties
  <2>5. \A i \in DOMAIN sheet' : i \in DOMAIN sheet \/ i = Len(sheet) + 1
    BY <1>1, <2>4
  <2> QED  BY <1>1, <2>2, <2>3, <2>4, <2>5 DEF Edited
<1>3. ASSUME NEW i \in DOMAIN sheet, NEW c \in Retimed, PersonRetimes(i, c) PROVE Edited
  <2> DEFINE new == [sheet[i] EXCEPT !.cell = c, !.by = Person]
  <2>1. new \in Row /\ new.drama = sheet[i].drama /\ new.by = Person
    BY <1>1, DramaImportAssumption DEF Row
  <2>2. sheet' = [sheet EXCEPT ![i] = new] /\ current' = {}
        /\ UNCHANGED <<runs, reading, confirm, raced>>
    BY <1>3 DEF PersonRetimes
  <2> HIDE DEF new
  <2>3. sheet' \in Seq(Row) /\ DOMAIN sheet' = DOMAIN sheet
    BY <1>1, <2>1, <2>2, ExceptSeq
  <2> QED  BY <1>1, <2>1, <2>2, <2>3 DEF Edited
<1>4. ASSUME NEW i \in Nat, NEW d \in Drama, WriteRow(i, d), ResultWritten PROVE Edited
  <2>1. current' = {} /\ UNCHANGED <<runs, reading, confirm, raced>>
    BY <1>4 DEF ResultWritten, WriteRow
  <2>2. sheet' = [sheet EXCEPT ![i].mark = d]
    BY <1>4 DEF WriteRow
  <2>3. CASE i \notin DOMAIN sheet
    <3>1. sheet' = sheet
      BY <1>1, <2>2, <2>3
    <3> QED  BY <1>1, <2>1, <3>1 DEF Edited
  <2>4. CASE i \in DOMAIN sheet
    <3> DEFINE new == [sheet[i] EXCEPT !.mark = d]
    <3>1. new \in Row /\ SourceKey(new) = SourceKey(sheet[i]) /\ new.by = sheet[i].by
          /\ new.drama = sheet[i].drama
      BY <1>1, <2>4 DEF Row, SourceKey
    <3>2. sheet' = [sheet EXCEPT ![i] = new]
      BY <2>2
    <3> HIDE DEF new
    <3>3. sheet' \in Seq(Row) /\ DOMAIN sheet' = DOMAIN sheet
      BY <1>1, <2>4, <3>1, <3>2, ExceptSeq
    <3> QED  BY <1>1, <2>1, <2>4, <3>1, <3>2, <3>3 DEF Edited
  <2> QED  BY <2>3, <2>4
<1> QED  BY <1>2, <1>3, <1>4 DEF PersonEdits, ResultWritten

\* What an insertion does to the sheet.
Landed ==
    LET rows == ConfirmedRows  n == Len(rows) IN
    /\ rows \in Seq(PreviewRow) /\ sheet' \in Seq(Row)
    /\ n \in Nat /\ DOMAIN rows = 1 .. n /\ DOMAIN sheet' = 1 .. n + Len(sheet)
    /\ \A i \in 1 .. n : /\ SourceKey(sheet'[i]) = rows[i] /\ sheet'[i].by = confirm.run
                         /\ sheet'[i].drama = rows[i].drama
    /\ \A i \in n + 1 .. n + Len(sheet) : sheet'[i] = sheet[i - n] /\ i - n \in DOMAIN sheet
    /\ \A i \in DOMAIN sheet : i + n \in DOMAIN sheet' /\ sheet'[i + n] = sheet[i]
    /\ current' = {} /\ raced \subseteq raced'
    /\ raced' = IF confirm.run \in current THEN raced ELSE raced \cup {confirm.run}

LEMMA InsertStep ==
    ASSUME RunInv, InsertRows PROVE Landed
<1> DEFINE rows == ConfirmedRows  n == Len(rows)
<1>1. sheet \in Seq(Row) /\ DOMAIN sheet = 1 .. Len(sheet) /\ Len(sheet) \in Nat
  BY LenProperties DEF RunInv, ImportTypeOK
<1>2. confirm.run \in Runs
  BY DEF RunInv, ConfirmOK, InsertRows
<1>3. rows \in Seq(PreviewRow)
  BY <1>2 DEF RunInv, ImportTypeOK, ConfirmedRows
<1>4. n \in Nat /\ DOMAIN rows = 1 .. n /\ \A i \in 1 .. n : rows[i] \in PreviewRow
  BY <1>3, LenProperties, ElementOfSeq
<1>5. Inserted = [i \in 1 .. n |-> [drama |-> rows[i].drama, cell |-> rows[i].cell,
                                    mark |-> NoMark, by |-> confirm.run]]
  BY <1>4 DEF Inserted
<1> HIDE DEF rows, n
<1>6. \A i \in 1 .. n : /\ Inserted[i] \in Row /\ SourceKey(Inserted[i]) = rows[i]
                        /\ Inserted[i].by = confirm.run /\ Inserted[i].drama = rows[i].drama
  BY <1>2, <1>4, <1>5 DEF Row, PreviewRow, SourceKey
<1>7. Inserted \in [1 .. n -> Row]
  BY <1>5, <1>6
<1>8. Inserted \in Seq(Row) /\ Len(Inserted) = n
  BY <1>4, <1>7
<1>9. sheet' = Inserted \o sheet
  BY DEF InsertRows
<1>10. sheet' \in Seq(Row) /\ Len(sheet') = n + Len(sheet)
       /\ \A i \in 1 .. n + Len(sheet) :
             sheet'[i] = IF i <= n THEN Inserted[i] ELSE sheet[i - n]
  BY <1>1, <1>8, <1>9, ConcatProperties
<1>11. DOMAIN sheet' = 1 .. n + Len(sheet)
  BY <1>10, LenProperties
<1>12. \A i \in 1 .. n : /\ SourceKey(sheet'[i]) = rows[i] /\ sheet'[i].by = confirm.run
                         /\ sheet'[i].drama = rows[i].drama
  BY <1>1, <1>4, <1>6, <1>10
<1>13. \A i \in n + 1 .. n + Len(sheet) : sheet'[i] = sheet[i - n] /\ i - n \in DOMAIN sheet
  BY <1>1, <1>4, <1>10
<1>14. \A i \in DOMAIN sheet : i + n \in DOMAIN sheet' /\ sheet'[i + n] = sheet[i]
  <2>1. ASSUME NEW i \in DOMAIN sheet
        PROVE  i + n \in 1 .. n + Len(sheet) /\ ~(i + n <= n) /\ (i + n) - n = i
    BY <1>1, <1>4
  <2> QED  BY <1>10, <1>11, <2>1
<1> QED
  BY <1>3, <1>4, <1>10, <1>11, <1>12, <1>13, <1>14 DEF Landed, InsertRows, rows, n

\* The steps that leave the sheet and its revisions alone.
ClaimSteps ==
    \/ \E r \in Runs : Claim(r)
    \/ CheckRevision \/ NothingToInsert \/ RevisionMoved \/ ReadBack \/ ReadBackDiffers
    \/ ConfirmDies \/ (BatchUpdateFails /\ UNCHANGED <<sheet, current, raced>>)

LEMMA StepCases ==
    ASSUME ImportStep
    PROVE  \/ \E r \in Runs, o \in Operators, g \in BOOLEAN : ReadPrivateRows(r, o, g)
           \/ \E r \in Runs : SavePreview(r)
           \/ ClaimSteps
           \/ BatchUpdate \/ (BatchUpdateFails /\ InsertRows)
           \/ PersonEdits \/ ResultWritten
BY DEF ImportStep, ImportNext, ConfirmStep, ClaimSteps, BatchUpdateFails

\* What a step of a confirmation does to the runs: at most its own is completed.
LEMMA ConfirmEffect ==
    ASSUME RunInv, ClaimSteps
    PROVE  /\ UNCHANGED <<sheet, current, reading, raced>>
           /\ \/ UNCHANGED runs
              \/ runs' = [runs EXCEPT ![confirm.run].status = "COMPLETED"] /\ confirm.run \in Runs
                 /\ runs[confirm.run].status = "PREVIEWED"
           /\ \/ confirm'.pc = "none" /\ confirm'.run = NoRun
              \/ /\ confirm'.run \in Runs /\ confirm'.pc \in {"claimed", "checked"}
                 /\ runs[confirm'.run].status = "PREVIEWED" /\ UNCHANGED runs
                 /\ confirm'.pc = "checked" => confirm'.run \in current
           /\ confirm' \in [run : Runs \cup {NoRun}, pc : {"none", "claimed", "checked", "inserted"}]
           /\ edits' \in 0 .. MaxEdits /\ clicks' \in 0 .. MaxClicks /\ faults' \in 0 .. MaxFaults
<1> USE DramaImportAssumption
<1>0. /\ confirm \in [run : Runs \cup {NoRun}, pc : {"none", "claimed", "checked", "inserted"}]
      /\ edits \in 0 .. MaxEdits /\ clicks \in 0 .. MaxClicks /\ faults \in 0 .. MaxFaults
      /\ ConfirmOK
  BY DEF RunInv, ImportTypeOK
<1>1. ASSUME NEW r \in Runs, Claim(r)
      PROVE  /\ UNCHANGED <<sheet, current, reading, raced, runs, edits, faults>>
             /\ confirm' = [run |-> r, pc |-> "claimed"] /\ runs[r].status = "PREVIEWED"
             /\ clicks' \in 0 .. MaxClicks
  BY <1>0, <1>1 DEF Claim
<1>2. CASE CheckRevision
  <2>1. /\ UNCHANGED <<sheet, current, reading, raced, runs, edits, clicks, faults>>
        /\ confirm' = [confirm EXCEPT !.pc = "checked"] /\ confirm.run \in current
        /\ confirm.pc = "claimed"
    BY <1>2 DEF CheckRevision
  <2>2. confirm'.run = confirm.run /\ confirm'.pc = "checked"
        /\ confirm' \in [run : Runs \cup {NoRun}, pc : {"none", "claimed", "checked", "inserted"}]
    BY <1>0, <2>1
  <2> QED  BY <1>0, <2>1, <2>2 DEF ConfirmOK
<1>3. CASE NothingToInsert \/ RevisionMoved \/ ReadBack \/ ReadBackDiffers \/ ConfirmDies
           \/ (BatchUpdateFails /\ UNCHANGED <<sheet, current, raced>>)
  <2>1. UNCHANGED <<sheet, current, reading, raced, edits, clicks>>
        /\ faults' \in 0 .. MaxFaults /\ ((Commit /\ confirm.pc # "none") \/ Rollback)
    <3>1. CASE NothingToInsert \/ RevisionMoved
      BY <1>0, <3>1 DEF NothingToInsert, RevisionMoved
    <3>2. CASE ReadBack \/ ReadBackDiffers
      BY <1>0, <3>2 DEF ReadBack, ReadBackDiffers
    <3>3. CASE ConfirmDies
      <4>1. faults' \in 0 .. MaxFaults
        BY <1>0, <3>3 DEF ConfirmDies
      <4> QED  BY <3>3, <4>1 DEF ConfirmDies
    <3>4. CASE BatchUpdateFails /\ UNCHANGED <<sheet, current, raced>>
      <4>1. faults' \in 0 .. MaxFaults
        BY <1>0, <3>4 DEF BatchUpdateFails
      <4> QED  BY <3>4, <4>1 DEF BatchUpdateFails
    <3> QED  BY <1>3, <3>1, <3>2, <3>3, <3>4
  <2> QED  BY <1>0, <2>1 DEF Commit, Rollback, ConfirmOK
<1> QED  BY <1>0, <1>1, <1>2, <1>3 DEF ClaimSteps

LEMMA RunStep ==
    ASSUME RunInv, ImportStep PROVE RunInv'
<1> USE DramaImportAssumption
<1>0. ImportTypeOK /\ RunsOK /\ ConfirmOK
  BY DEF RunInv
<1>1. ASSUME NEW r \in Runs, NEW o, NEW g, ReadPrivateRows(r, o, g) PROVE RunInv'
  <2> DEFINE rows == BuildImportPreview(sheet, o, g)
  <2>1. rows \in Seq(PreviewRow) /\ Distinct(rows)
    BY PreviewIsNew DEF New, Distinct
  <2>2. runs[r].status = "NONE" /\ reading' = [reading EXCEPT ![r] = [pc |-> "read", rows |-> rows]]
        /\ current' = current \cup {r} /\ UNCHANGED <<sheet, runs, confirm, raced, edits, clicks, faults>>
    BY <1>1 DEF ReadPrivateRows
  <2> HIDE DEF rows
  <2>3. ImportTypeOK'
    BY <1>0, <2>1, <2>2 DEF ImportTypeOK
  <2>4. RunsOK'
    BY <1>0, <2>1, <2>2 DEF RunsOK, ImportTypeOK
  <2> QED  BY <1>0, <2>2, <2>3, <2>4 DEF RunInv, ConfirmOK
<1>2. ASSUME NEW r \in Runs, SavePreview(r) PROVE RunInv'
  <2>1. /\ reading[r].pc = "read" /\ Unclaimed
        /\ runs' = [runs EXCEPT ![r] = [status |-> "PREVIEWED", rows |-> reading[r].rows]]
        /\ reading' = [reading EXCEPT ![r] = [pc |-> "none", rows |-> <<>>]]
        /\ current' = current \cup {r} /\ raced' \subseteq raced \cup {r}
        /\ UNCHANGED <<sheet, confirm, edits, clicks, faults>>
    BY <1>2 DEF SavePreview
  <2>2. reading[r].rows \in Seq(PreviewRow) /\ Distinct(reading[r].rows)
        /\ <<>> \in Seq(PreviewRow) /\ Distinct(<<>>)
    BY <1>0 DEF RunsOK, ImportTypeOK, Distinct
  <2>3. ImportTypeOK'
    BY <1>0, <2>1, <2>2 DEF ImportTypeOK
  <2>4. RunsOK'
    BY <1>0, <2>1, <2>2 DEF RunsOK, ImportTypeOK
  <2> QED  BY <1>0, <2>1, <2>3, <2>4 DEF RunInv, ConfirmOK, Unclaimed, ImportTypeOK
<1>3. CASE ClaimSteps
  <2>1. UNCHANGED <<sheet, current, reading, raced>>
        /\ edits' \in 0 .. MaxEdits /\ clicks' \in 0 .. MaxClicks /\ faults' \in 0 .. MaxFaults
        /\ confirm' \in [run : Runs \cup {NoRun}, pc : {"none", "claimed", "checked", "inserted"}]
    BY <1>3, ConfirmEffect
  <2>2. CASE UNCHANGED runs
    <3>1. confirm'.pc # "none" => confirm'.run \in Runs /\ runs[confirm'.run].status = "PREVIEWED"
      BY <1>3, ConfirmEffect
    <3> QED  BY <1>0, <2>1, <2>2, <3>1 DEF RunInv, ImportTypeOK, RunsOK, ConfirmOK
  <2>3. CASE ~UNCHANGED runs
    <3>1. runs' = [runs EXCEPT ![confirm.run].status = "COMPLETED"] /\ confirm.run \in Runs
          /\ confirm'.pc = "none" /\ runs[confirm.run].status = "PREVIEWED"
      BY <1>3, <2>3, ConfirmEffect
    <3>2. \A r \in Runs : /\ runs'[r].rows = runs[r].rows
                          /\ runs'[r].status = IF r = confirm.run THEN "COMPLETED" ELSE runs[r].status
      BY <1>0, <3>1 DEF ImportTypeOK
    <3>3. runs' \in [Runs -> [status : {"NONE", "PREVIEWED", "COMPLETED"}, rows : Seq(PreviewRow)]]
      BY <1>0, <3>1, ZenonT(60) DEF ImportTypeOK
    <3>4. ImportTypeOK'
      BY <1>0, <2>1, <3>3 DEF ImportTypeOK
    <3>5. RunsOK'
      BY <1>0, <2>1, <3>2, <3>1 DEF RunsOK
    <3> QED  BY <3>1, <3>4, <3>5 DEF RunInv, ConfirmOK
  <2> QED  BY <2>2, <2>3
<1>4. CASE BatchUpdate \/ (BatchUpdateFails /\ InsertRows)
  <2>1. InsertRows /\ UNCHANGED <<runs, reading, edits, clicks>> /\ faults' \in 0 .. MaxFaults
        /\ (confirm' = [confirm EXCEPT !.pc = "inserted"]
            \/ confirm' = [run |-> NoRun, pc |-> "none"])
    BY <1>0, <1>4 DEF BatchUpdate, BatchUpdateFails, Rollback, ImportTypeOK
  <2>2. sheet' \in Seq(Row) /\ current' = {} /\ raced' \subseteq raced \cup {confirm.run}
        /\ confirm.run \in Runs /\ runs[confirm.run].status = "PREVIEWED"
    BY <1>0, <2>1, InsertStep DEF Landed, InsertRows, ConfirmOK
  <2>3. confirm' \in [run : Runs \cup {NoRun}, pc : {"none", "claimed", "checked", "inserted"}]
        /\ (confirm'.pc # "none" => confirm'.run = confirm.run)
    BY <1>0, <2>1 DEF ImportTypeOK
  <2>4. ImportTypeOK'
    BY <1>0, <2>1, <2>2, <2>3 DEF ImportTypeOK
  <2> QED  BY <1>0, <2>1, <2>2, <2>3, <2>4 DEF RunInv, RunsOK, ConfirmOK
<1>5. CASE PersonEdits \/ ResultWritten
  <2>1. Edited
    BY <1>0, <1>5, EditStep
  <2>2. edits' \in 0 .. MaxEdits /\ UNCHANGED <<clicks, faults>>
    <3>1. edits \in 0 .. MaxEdits
      BY <1>0 DEF ImportTypeOK
    <3>2. ASSUME NEW row, PersonAdds(row) PROVE edits' \in 0 .. MaxEdits /\ UNCHANGED <<clicks, faults>>
      BY <3>1, <3>2 DEF PersonAdds
    <3>3. ASSUME NEW i, NEW c, PersonRetimes(i, c)
          PROVE  edits' \in 0 .. MaxEdits /\ UNCHANGED <<clicks, faults>>
      BY <3>1, <3>3 DEF PersonRetimes
    <3> QED  BY <1>5, <3>1, <3>2, <3>3 DEF PersonEdits, ResultWritten
  <2> QED  BY <1>0, <2>1, <2>2 DEF Edited, RunInv, ImportTypeOK, RunsOK, ConfirmOK
<1> QED  BY <1>1, <1>2, <1>3, <1>4, <1>5, StepCases

\* A run whose rows are in the sheet has used its revision up.
LEMMA LandedStep ==
    ASSUME RunInv, LandedOK, ImportStep PROVE LandedOK'
<1>0. ImportTypeOK /\ RunsOK /\ ConfirmOK
  BY DEF RunInv
<1>1. ASSUME NEW r \in Runs, NEW o, NEW g, ReadPrivateRows(r, o, g) PROVE LandedOK'
  BY <1>1 DEF ReadPrivateRows, LandedOK
<1>2. ASSUME NEW r \in Runs, SavePreview(r) PROVE LandedOK'
  <2>1. runs[r].status = "NONE"
    BY <1>0, <1>2 DEF SavePreview, RunsOK
  <2>2. \A q \in Runs : q # r => runs'[q] = runs[q]
    BY <1>0, <1>2 DEF SavePreview, ImportTypeOK
  <2>3. sheet' = sheet /\ confirm' = confirm /\ current' = current \cup {r}
    BY <1>2 DEF SavePreview
  <2> QED  BY <2>1, <2>2, <2>3 DEF LandedOK
<1>3. CASE ClaimSteps
  <2>1. \A r \in Runs : runs'[r].status = "NONE" => runs[r].status = "NONE"
    BY <1>0, <1>3, ConfirmEffect DEF ImportTypeOK
  <2>2. UNCHANGED <<sheet, current>> /\ (confirm'.pc = "checked" => confirm'.run \in current)
    BY <1>3, ConfirmEffect
  <2> QED  BY <2>1, <2>2 DEF LandedOK
<1>4. CASE BatchUpdate \/ (BatchUpdateFails /\ InsertRows)
  <2>1. InsertRows /\ runs' = runs /\ confirm'.pc # "checked"
    BY <1>0, <1>4 DEF BatchUpdate, BatchUpdateFails, Rollback, ImportTypeOK
  <2>2. Landed /\ confirm.run \in Runs /\ runs[confirm.run].status = "PREVIEWED"
    BY <1>0, <2>1, InsertStep DEF InsertRows, ConfirmOK
  <2> DEFINE n == Len(ConfirmedRows)
  <2>3. \A i \in DOMAIN sheet' : \/ sheet'[i].by = confirm.run
                                 \/ i - n \in DOMAIN sheet /\ sheet'[i] = sheet[i - n]
    <3>1. Len(sheet) \in Nat /\ n \in Nat /\ DOMAIN sheet' = 1 .. n + Len(sheet)
      BY <1>0, <2>2, LenProperties DEF Landed, ImportTypeOK
    <3>2. \A i \in DOMAIN sheet' : i \in 1 .. n \/ i \in n + 1 .. n + Len(sheet)
      BY <3>1
    <3> QED  BY <2>2, <3>2 DEF Landed
  <2>4. current' = {}
    BY <2>2 DEF Landed
  <2> HIDE DEF n
  <2> QED  BY <2>1, <2>2, <2>3, <2>4 DEF LandedOK
<1>5. CASE PersonEdits \/ ResultWritten
  <2>1. Edited
    BY <1>0, <1>5, EditStep
  <2> QED  BY <2>1, DramaImportAssumption DEF Edited, LandedOK
<1> QED  BY <1>1, <1>2, <1>3, <1>4, <1>5, StepCases

\* A revision that still holds says that the rows it was read with are new.
LEMMA FreshStep ==
    ASSUME RunInv, FreshOK, ImportStep PROVE FreshOK'
<1>0. ImportTypeOK /\ RunsOK /\ ConfirmOK
  BY DEF RunInv
<1>1. ASSUME NEW r \in Runs, NEW o, NEW g, ReadPrivateRows(r, o, g) PROVE FreshOK'
  <2> DEFINE rows == BuildImportPreview(sheet, o, g)
  <2>1. \A k \in DOMAIN rows, i \in DOMAIN sheet : SourceKey(sheet[i]) # rows[k]
    BY PreviewIsNew DEF New
  <2>2. reading' = [reading EXCEPT ![r] = [pc |-> "read", rows |-> rows]]
        /\ current' = current \cup {r} /\ UNCHANGED <<sheet, runs, raced>>
    BY <1>1 DEF ReadPrivateRows
  <2> HIDE DEF rows
  <2>3. RowsOf(r)' = rows /\ \A q \in Runs : q # r => RowsOf(q)' = RowsOf(q)
    BY <1>0, <2>2 DEF RowsOf, ImportTypeOK
  <2>4. current \subseteq Runs
    BY <1>0 DEF ImportTypeOK
  <2> QED  BY <2>1, <2>2, <2>3, <2>4 DEF FreshOK
<1>2. ASSUME NEW r \in Runs, SavePreview(r) PROVE FreshOK'
  <2>1. /\ reading[r].pc = "read" /\ current' = current \cup {r} /\ sheet' = sheet
        /\ runs' = [runs EXCEPT ![r] = [status |-> "PREVIEWED", rows |-> reading[r].rows]]
        /\ reading' = [reading EXCEPT ![r] = [pc |-> "none", rows |-> <<>>]]
        /\ raced' = IF r \in current THEN raced ELSE raced \cup {r}
    BY <1>2 DEF SavePreview
  <2>2. \A q \in Runs : RowsOf(q)' = RowsOf(q)
    BY <1>0, <2>1 DEF RowsOf, ImportTypeOK
  <2>3. current \subseteq Runs /\ current' \ raced' \subseteq current \ raced
    BY <1>0, <2>1 DEF ImportTypeOK
  <2> QED  BY <2>1, <2>2, <2>3 DEF FreshOK
<1>3. CASE ClaimSteps
  <2>1. \A r \in Runs : runs'[r].rows = runs[r].rows
    <3>1. CASE runs' = runs
      BY <3>1
    <3>2. CASE runs' # runs
      <4>1. runs' = [runs EXCEPT ![confirm.run].status = "COMPLETED"] /\ confirm.run \in Runs
        BY <1>3, <3>2, ConfirmEffect
      <4> QED  BY <1>0, <4>1 DEF ImportTypeOK
    <3> QED  BY <3>1, <3>2
  <2>2. UNCHANGED <<sheet, current, reading, raced>> /\ current \subseteq Runs
    BY <1>0, <1>3, ConfirmEffect DEF ImportTypeOK
  <2>3. \A r \in Runs : RowsOf(r)' = RowsOf(r)
    BY <2>1, <2>2 DEF RowsOf
  <2> QED  BY <2>2, <2>3 DEF FreshOK
<1>4. CASE BatchUpdate \/ (BatchUpdateFails /\ InsertRows) \/ PersonEdits \/ ResultWritten
  <2>1. current' = {}
    BY <1>0, <1>4, EditStep DEF Edited, BatchUpdate, InsertRows
  <2> QED  BY <2>1 DEF FreshOK
<1> QED  BY <1>1, <1>2, <1>3, <1>4, StepCases

LEMMA OnceStep ==
    ASSUME RunInv, LandedOK, InsertedOnce, ImportStep PROVE InsertedOnce'
<1>0. ImportTypeOK /\ RunsOK /\ ConfirmOK
  BY DEF RunInv
<1>1. CASE UNCHANGED sheet
  BY <1>1 DEF InsertedOnce
<1>2. ASSUME NEW r \in Runs, NEW o, NEW g, ReadPrivateRows(r, o, g) \/ SavePreview(r)
      PROVE  InsertedOnce'
  BY <1>1, <1>2 DEF ReadPrivateRows, SavePreview
<1>3. CASE ClaimSteps
  BY <1>1, <1>3, ConfirmEffect
<1>4. CASE BatchUpdate \/ (BatchUpdateFails /\ InsertRows)
  <2>1. InsertRows
    BY <1>4 DEF BatchUpdate
  <2>2. Landed /\ confirm.run \in Runs /\ confirm.pc = "checked"
    BY <1>0, <2>1, InsertStep DEF InsertRows, ConfirmOK
  <2> DEFINE rows == ConfirmedRows  n == Len(rows)  Old(i) == i - n \in DOMAIN sheet /\ sheet'[i] = sheet[i - n]
  <2>3. \A i \in DOMAIN sheet' : i \in 1 .. n \/ (Old(i) /\ i \in Int)
    <3>1. Len(sheet) \in Nat /\ n \in Nat /\ DOMAIN sheet' = 1 .. n + Len(sheet)
      BY <1>0, <2>2, LenProperties DEF Landed, ImportTypeOK
    <3>2. \A i \in DOMAIN sheet' : i \in Int /\ (i \in 1 .. n \/ i \in n + 1 .. n + Len(sheet))
      BY <3>1
    <3> QED  BY <2>2, <3>2 DEF Landed
  <2>4. \A i \in DOMAIN sheet : sheet[i].by # confirm.run
    BY <2>2 DEF LandedOK
  <2>5. \A i \in 1 .. n : sheet'[i].by = confirm.run /\ SourceKey(sheet'[i]) = rows[i]
    BY <2>2 DEF Landed
  <2>6. Distinct(rows) /\ DOMAIN rows = 1 .. n /\ n \in Nat
    BY <1>0, <2>2 DEF RunsOK, Landed, ConfirmedRows
  <2> HIDE DEF rows, n
  <2>7. ASSUME NEW i \in DOMAIN sheet', NEW j \in DOMAIN sheet', sheet'[i].by \in Runs,
               sheet'[i].by = sheet'[j].by, SourceKey(sheet'[i]) = SourceKey(sheet'[j])
        PROVE  i = j
    <3>1. CASE i \in 1 .. n /\ j \in 1 .. n
      BY <2>5, <2>6, <2>7, <3>1 DEF Distinct
    <3>2. CASE Old(i) /\ Old(j) /\ i \in Int /\ j \in Int
      <4>1. i - n = j - n
        BY <2>7, <3>2 DEF InsertedOnce
      <4> QED  BY <2>6, <3>2, <4>1
    <3> QED  BY <2>3, <2>4, <2>5, <2>7, <3>1, <3>2
  <2> QED  BY <2>7 DEF InsertedOnce
<1>5. CASE PersonEdits \/ ResultWritten
  <2>1. Edited
    BY <1>0, <1>5, EditStep
  <2> QED  BY <2>1, DramaImportAssumption DEF Edited, InsertedOnce
<1> QED  BY <1>2, <1>3, <1>4, <1>5, StepCases

\* A run is completed only when its dramas are seen in the sheet, which none leaves.
LEMMA LandingStep ==
    ASSUME RunInv, CompletedHasLanded, ImportStep PROVE CompletedHasLanded'
<1> DEFINE Has(s, d) == \E i \in DOMAIN s : s[i].drama = d
<1>0. ImportTypeOK /\ RunsOK /\ ConfirmOK
  BY DEF RunInv
<1>1. ASSUME \A d : Has(sheet, d) => Has(sheet', d),
             \A r \in Runs : runs'[r].status = "COMPLETED" =>
                /\ runs'[r].rows = runs[r].rows
                /\ runs[r].status = "COMPLETED" \/ \A k \in DOMAIN runs[r].rows : Has(sheet, runs[r].rows[k].drama)
      PROVE  CompletedHasLanded'
  BY <1>1 DEF CompletedHasLanded
<1>2. ASSUME NEW r \in Runs, NEW o, NEW g, ReadPrivateRows(r, o, g) PROVE CompletedHasLanded'
  BY <1>1, <1>2 DEF ReadPrivateRows
<1>3. ASSUME NEW r \in Runs, SavePreview(r) PROVE CompletedHasLanded'
  <2>1. \A q \in Runs : runs'[q].status = "COMPLETED" => runs'[q] = runs[q]
    BY <1>0, <1>3 DEF SavePreview, ImportTypeOK
  <2>2. sheet' = sheet
    BY <1>3 DEF SavePreview
  <2> QED  BY <1>1, <2>1, <2>2
<1>4. CASE ClaimSteps
  <2>1. sheet' = sheet
    BY <1>4, ConfirmEffect
  <2>2. CASE runs' = runs
    BY <1>1, <2>1, <2>2
  <2>3. CASE runs' # runs
    <3> DEFINE rows == runs[confirm.run].rows
    <3>1. runs' = [runs EXCEPT ![confirm.run].status = "COMPLETED"] /\ confirm.run \in Runs
      BY <1>4, <2>3, ConfirmEffect
    <3>2. ConfirmedRows = <<>> \/ TopRowsAre(ConfirmedRows)
      BY <1>4, <2>3 DEF ClaimSteps, Claim, CheckRevision, NothingToInsert, RevisionMoved, ReadBack,
                        ReadBackDiffers, ConfirmDies, BatchUpdateFails, Rollback
    <3>3. \A k \in DOMAIN rows : Has(sheet, rows[k].drama)
      <4>1. rows = ConfirmedRows /\ rows \in Seq(PreviewRow)
        BY <1>0, <3>1 DEF ConfirmedRows, ImportTypeOK
      <4>2. DOMAIN rows = 1 .. Len(rows) /\ Len(rows) \in Nat
            /\ DOMAIN sheet = 1 .. Len(sheet) /\ Len(sheet) \in Nat
        BY <1>0, <4>1, LenProperties DEF ImportTypeOK
      <4>3. CASE rows = <<>>
        BY <4>3
      <4>4. CASE TopRowsAre(rows)
        <5>1. \A k \in DOMAIN rows : k \in DOMAIN sheet /\ SourceKey(sheet[k]) = rows[k]
          BY <4>2, <4>4 DEF TopRowsAre
        <5>2. \A row : SourceKey(row).drama = row.drama
          BY DEF SourceKey
        <5> HIDE DEF rows
        <5>3. \A k \in DOMAIN rows : sheet[k].drama = rows[k].drama
          BY <5>1, <5>2
        <5> QED  BY <5>1, <5>3
      <4> QED  BY <3>2, <4>1, <4>3, <4>4
    <3>4. \A r \in Runs : /\ runs'[r].rows = runs[r].rows
                          /\ r # confirm.run => runs'[r].status = runs[r].status
      BY <1>0, <3>1 DEF ImportTypeOK
    <3> HIDE DEF Has
    <3> QED  BY <1>1, <2>1, <3>3, <3>4
  <2> QED  BY <2>2, <2>3
<1>5. CASE BatchUpdate \/ (BatchUpdateFails /\ InsertRows)
  <2>1. InsertRows /\ runs' = runs
    BY <1>5 DEF BatchUpdate, BatchUpdateFails, Rollback
  <2>2. Landed
    BY <2>1, InsertStep
  <2> DEFINE n == Len(ConfirmedRows)
  <2>3. \A i \in DOMAIN sheet : i + n \in DOMAIN sheet' /\ sheet'[i + n] = sheet[i]
    BY <2>2 DEF Landed
  <2> HIDE DEF n
  <2>4. \A d : Has(sheet, d) => Has(sheet', d)
    BY <2>3
  <2> QED  BY <1>1, <2>1, <2>4
<1>6. CASE PersonEdits \/ ResultWritten
  <2>1. Edited
    BY <1>0, <1>6, EditStep
  <2>2. (\A d : Has(sheet, d) => Has(sheet', d)) /\ runs' = runs
    BY <2>1 DEF Edited
  <2> QED  BY <1>1, <2>2
<1> QED  BY <1>2, <1>3, <1>4, <1>5, <1>6, StepCases

\* Two runs bring the same key only through one of the windows.
LEMMA DisjointStep ==
    ASSUME RunInv, FreshOK, InsertedOnce, ImportsAreDisjoint, InsertedOnce', ImportStep
    PROVE  ImportsAreDisjoint'
<1>0. ImportTypeOK /\ RunsOK /\ ConfirmOK
  BY DEF RunInv
<1>1. CASE UNCHANGED sheet /\ raced \subseteq raced'
  BY <1>1 DEF ImportsAreDisjoint
<1>2. ASSUME NEW r \in Runs, NEW o, NEW g, ReadPrivateRows(r, o, g) \/ SavePreview(r)
      PROVE  ImportsAreDisjoint'
  BY <1>1, <1>2 DEF ReadPrivateRows, SavePreview
<1>3. CASE ClaimSteps
  BY <1>1, <1>3, ConfirmEffect
<1>4. CASE BatchUpdate \/ (BatchUpdateFails /\ InsertRows)
  <2>1. InsertRows
    BY <1>4 DEF BatchUpdate
  <2>2. Landed /\ confirm.run \in Runs /\ runs[confirm.run].status = "PREVIEWED"
    BY <1>0, <2>1, InsertStep DEF InsertRows, ConfirmOK
  <2> DEFINE rows == ConfirmedRows  n == Len(rows)  Old(i) == i - n \in DOMAIN sheet /\ sheet'[i] = sheet[i - n]
  <2>3. \A i \in DOMAIN sheet' : i \in 1 .. n \/ (Old(i) /\ i \in Int)
    <3>1. Len(sheet) \in Nat /\ n \in Nat /\ DOMAIN sheet' = 1 .. n + Len(sheet)
      BY <1>0, <2>2, LenProperties DEF Landed, ImportTypeOK
    <3>2. \A i \in DOMAIN sheet' : i \in Int /\ (i \in 1 .. n \/ i \in n + 1 .. n + Len(sheet))
      BY <3>1
    <3> QED  BY <2>2, <3>2 DEF Landed
  <2>4. \A i \in 1 .. n : sheet'[i].by = confirm.run /\ SourceKey(sheet'[i]) = rows[i]
                          /\ i \in DOMAIN rows
    BY <2>2 DEF Landed
  <2>5. n \in Nat /\ raced \subseteq raced'
        /\ (confirm.run \notin raced' => confirm.run \in current \ raced)
    BY <2>2 DEF Landed
  <2>6. RowsOf(confirm.run) = rows
    BY <1>0, <2>2 DEF RowsOf, RunsOK, ConfirmedRows
  <2> HIDE DEF rows, n
  <2>7. ASSUME NEW i \in 1 .. n, NEW j \in DOMAIN sheet', Old(j), confirm.run \notin raced'
        PROVE  SourceKey(sheet'[i]) # SourceKey(sheet'[j])
    BY <2>4, <2>5, <2>6, <2>7 DEF FreshOK
  <2>8. ASSUME NEW i \in DOMAIN sheet', NEW j \in DOMAIN sheet', i # j,
               {sheet'[i].by, sheet'[j].by} \subseteq Runs,
               SourceKey(sheet'[i]) = SourceKey(sheet'[j])
        PROVE  raced' \cap {sheet'[i].by, sheet'[j].by} # {}
    <3>1. CASE i \in 1 .. n /\ j \in 1 .. n
      BY <2>4, <2>8, <3>1 DEF InsertedOnce
    <3>2. CASE Old(i) /\ Old(j) /\ i \in Int /\ j \in Int
      <4>1. i - n # j - n
        BY <2>5, <2>8, <3>2
      <4> QED  BY <2>5, <2>8, <3>2, <4>1 DEF ImportsAreDisjoint
    <3>3. CASE i \in 1 .. n /\ Old(j)
      BY <2>4, <2>7, <2>8, <3>3
    <3>4. CASE j \in 1 .. n /\ Old(i)
      BY <2>4, <2>7, <2>8, <3>4
    <3> QED  BY <2>3, <3>1, <3>2, <3>3, <3>4
  <2> QED  BY <2>8 DEF ImportsAreDisjoint
<1>5. CASE PersonEdits \/ ResultWritten
  <2>1. Edited
    BY <1>0, <1>5, EditStep
  <2> QED  BY <2>1, DramaImportAssumption DEF Edited, ImportsAreDisjoint
<1> QED  BY <1>2, <1>3, <1>4, <1>5, StepCases

LEMMA ImportInvInit == ImportInit => ImportInv
<1> SUFFICES ASSUME ImportInit PROVE ImportInv
  OBVIOUS
<1>1. sheet \in Seq(Row) /\ \A i \in DOMAIN sheet : sheet[i].by = Person
  BY DramaImportAssumption, LenProperties DEF ImportInit
<1>2. RunInv
  <2>1. ImportTypeOK
    BY <1>1, DramaImportAssumption DEF ImportInit, ImportTypeOK, NoPreview
  <2>2. RunsOK /\ ConfirmOK
    BY DEF ImportInit, RunsOK, ConfirmOK, NoPreview, Distinct
  <2> QED  BY <2>1, <2>2 DEF RunInv
<1>3. LandedOK /\ InsertedOnce /\ ImportsAreDisjoint
  BY <1>1, DramaImportAssumption DEF LandedOK, InsertedOnce, ImportsAreDisjoint
<1>4. FreshOK /\ CompletedHasLanded
  BY DEF ImportInit, FreshOK, CompletedHasLanded, NoPreview
<1> QED  BY <1>2, <1>3, <1>4 DEF ImportInv

LEMMA ImportInvStep == ImportInv /\ [ImportStep]_importVars => ImportInv'
<1> SUFFICES ASSUME ImportInv, [ImportStep]_importVars PROVE ImportInv'
  OBVIOUS
<1>1. CASE ImportStep
  BY <1>1, RunStep, LandedStep, FreshStep, OnceStep, LandingStep, DisjointStep DEF ImportInv
<1>2. CASE UNCHANGED importVars
  BY <1>2 DEF importVars, ImportInv, RunInv, ImportTypeOK, RunsOK, ConfirmOK, LandedOK, FreshOK,
              RowsOf, InsertedOnce, CompletedHasLanded, ImportsAreDisjoint
<1> QED  BY <1>1, <1>2

\* The rows and scans of the tasks.
ScanTypeOK ==
    /\ tasks \in Seq(Task)
    /\ scan \in [Scanners -> [pc : {"idle", "look", "write"}, rows : Seq(Source),
                              found : SUBSET DOMAIN tasks]]

-----------------------------------------------------------------------------
(* Scans                                                                    *)

LEMMA FetchedType == sheet \in Seq(Row) => Fetched \in Seq(Source)
<1>0. SUFFICES ASSUME sheet \in Seq(Row) PROVE Fetched \in Seq(Source)
  OBVIOUS
<1> DEFINE N == IF Len(sheet) < ScanRows THEN Len(sheet) ELSE ScanRows
           source(n) == [row |-> n, drama |-> sheet[n].drama, cell |-> sheet[n].cell]
           add(rows, n) == IF sheet[n].cell \notin Today THEN rows ELSE Append(rows, source(n))
           S == Seq(Source)
           f == CHOOSE g : g = [n \in 0 .. N |-> IF n = 0 THEN <<>> ELSE add(g[n - 1], n)]
<1>1. N \in Nat /\ N <= Len(sheet) /\ Len(sheet) \in Nat
  BY <1>0, LenProperties, DeliveryScanAssumption
<1>2. <<>> \in S
  OBVIOUS
<1>3. ASSUME NEW rows \in S, NEW n \in 1 .. N PROVE add(rows, n) \in S
  <2>1. sheet[n] \in Row /\ n \in Nat
    BY <1>0, <1>1, ElementOfSeq
  <2>2. source(n) \in Source
    BY <2>1 DEF Source, Row
  <2> HIDE DEF source
  <2> QED  BY <2>2, AppendProperties
<1>9. N \in Nat
  BY <1>1
<1> HIDE DEF S, N, add
<1>4. \E g : g = [n \in 0 .. N |-> IF n = 0 THEN <<>> ELSE add(g[n - 1], n)]
  <2> DEFINE step == [n \in 1 .. N |-> [rows \in S |-> add(rows, n)]]
  <2>1. step \in [1 .. N -> [S -> S]]
    BY <1>3
  <2> HIDE DEF step
  <2>2. PICK g \in [0 .. N -> S] :
             g = [n \in 0 .. N |-> IF n = 0 THEN <<>> ELSE step[n][g[n - 1]]]
    BY <1>2, <1>9, <2>1, FoldExists
  <2>3. \A n \in 1 .. N : n - 1 \in 0 .. N
    BY <1>1
  <2>4. \A n \in 1 .. N : step[n][g[n - 1]] = add(g[n - 1], n)
    BY <2>2, <2>3 DEF step
  <2>5. g = [n \in 0 .. N |-> IF n = 0 THEN <<>> ELSE add(g[n - 1], n)]
    BY <1>1, <2>2, <2>4
  <2> QED  BY <2>5
<1>5. f = [n \in 0 .. N |-> IF n = 0 THEN <<>> ELSE add(f[n - 1], n)]
  BY <1>4
<1> HIDE DEF f
<1>6. f[0] \in S /\ \A n \in 1 .. N : f[n - 1] \in S => f[n] \in S
  BY <1>1, <1>2, <1>3, <1>5
<1>7. f[N] \in S
  BY <1>6, <1>9, FoldKeeps
<1>8. Fetched = f[N]
  BY DEF Fetched, f, N, add
<1> QED  BY <1>7, <1>8 DEF S

\* What an upsert changes: it adds a task, or gives a found one the row's key.
LEMMA Upserting ==
    ASSUME NEW ts \in Seq(Task), NEW source \in Source, NEW found \in SUBSET DOMAIN ts,
           \A t \in found : ts[t].drama = source.drama
    PROVE  LET new == Upsert(ts, source, found) IN
           /\ new \in Seq(Task) /\ DOMAIN ts \subseteq DOMAIN new
           /\ \A t \in DOMAIN ts : new[t].drama = ts[t].drama
           /\ \E x \in DOMAIN new :
                 /\ SourceKey(new[x]) = SourceKey(source)
                 /\ IF found = {} THEN x \notin DOMAIN ts ELSE x \in found
                 /\ \A t \in DOMAIN new \ {x} : t \in DOMAIN ts /\ new[t] = ts[t]
<1> DEFINE new == Upsert(ts, source, found)
<1>1. DOMAIN ts = 1 .. Len(ts) /\ Len(ts) \in Nat /\ \A t \in DOMAIN ts : ts[t] \in Task
  BY LenProperties, ElementOfSeq
<1>2. CASE found = {}
  <2> DEFINE task == [row |-> source.row, drama |-> source.drama, cell |-> source.cell,
                      item |-> "WAITING_TIME"]
  <2>1. task \in Task /\ SourceKey(task) = SourceKey(source)
    BY DEF Task, Source, SourceKey
  <2>2. new = Append(ts, task)
    BY <1>2 DEF Upsert
  <2> HIDE DEF task, new
  <2>3. /\ new \in Seq(Task) /\ DOMAIN new = 1 .. Len(ts) + 1 /\ new[Len(ts) + 1] = task
        /\ \A t \in 1 .. Len(ts) : new[t] = ts[t]
    BY <2>1, <2>2, AppendProperties, LenProperties
  <2>4. Len(ts) + 1 \in DOMAIN new /\ Len(ts) + 1 \notin DOMAIN ts
        /\ \A t \in DOMAIN new \ {Len(ts) + 1} : t \in DOMAIN ts
        /\ DOMAIN ts \subseteq DOMAIN new
    BY <1>1, <2>3
  <2> QED  BY <1>1, <1>2, <2>1, <2>3, <2>4 DEF new
<1>3. CASE found # {}
  <2> DEFINE x == CHOOSE t \in found : TRUE
             task == [ts[x] EXCEPT !.row = source.row, !.cell = source.cell]
  <2>1. x \in found /\ x \in DOMAIN ts
    BY <1>3
  <2>2. new = [ts EXCEPT ![x] = task]
    BY <1>3 DEF Upsert
  <2> HIDE DEF x
  <2>3. task \in Task /\ SourceKey(task) = SourceKey(source) /\ task.drama = ts[x].drama
    BY <1>1, <2>1 DEF Task, Source, SourceKey
  <2> HIDE DEF task, new
  <2>4. new \in Seq(Task) /\ DOMAIN new = DOMAIN ts
    BY <1>1, <2>1, <2>2, <2>3, ExceptSeq
  <2> QED  BY <1>1, <1>3, <2>1, <2>2, <2>3, <2>4 DEF new
<1> QED  BY <1>2, <1>3

-----------------------------------------------------------------------------
(* Who has brought the tasks of a key                                       *)

\* The tasks of a key; the scanners about to write a row of it, and the tasks they found.
Holders(ts, k) == {t \in DOMAIN ts : SourceKey(ts[t]) = k}
Writing(sc, k) == {s \in Scanners : sc[s].pc = "write" /\ SourceKey(Head(sc[s].rows)) = k}
Sought(sc, k)  == UNION {sc[s].found : s \in Writing(sc, k)}
Reach(ts, sc, k) == Holders(ts, k) \cup Sought(sc, k)

\* Each task that has the key or is about to get it stands for one scanner, other than
\* those about to add a task of the key.
Owners(ts, sc, k) ==
    {f \in [Reach(ts, sc, k) -> Scanners] :
        /\ \A t, u \in Reach(ts, sc, k) : f[t] = f[u] => t = u
        /\ \A s \in Writing(sc, k) : sc[s].found = {} => \A t \in Reach(ts, sc, k) : f[t] # s}

OwnedOK(ts, sc) == \A k \in PreviewRow : Owners(ts, sc, k) # {}

\* A scanner about to write has found one task of the row's drama, or none.
FoundOK(ts, sc) ==
    \A s \in Scanners : sc[s].pc = "write" =>
        /\ sc[s].rows # <<>> /\ \A t, u \in sc[s].found : t = u
        /\ \A t \in sc[s].found : t \in DOMAIN ts /\ ts[t].drama = Head(sc[s].rows).drama

ScanInv == ImportInv /\ ScanTypeOK /\ FoundOK(tasks, scan) /\ OwnedOK(tasks, scan)

\* Owners of what can be reached stay when less can be reached.
LEMMA Shrinking ==
    ASSUME NEW ts, NEW sc, NEW ts2, NEW sc2, NEW k, Owners(ts, sc, k) # {},
           Reach(ts2, sc2, k) \subseteq Reach(ts, sc, k),
           \A s \in Writing(sc2, k) : sc2[s].found = {} => s \in Writing(sc, k) /\ sc[s].found = {}
    PROVE  Owners(ts2, sc2, k) # {}
<1>1. PICK f \in Owners(ts, sc, k) : TRUE
  OBVIOUS
<1> DEFINE g == [t \in Reach(ts2, sc2, k) |-> f[t]]
<1>2. g \in Owners(ts2, sc2, k)
  BY <1>1 DEF Owners
<1> QED  BY <1>2

\* A task added by a scanner that was about to is its own.
LEMMA Adding ==
    ASSUME NEW ts, NEW sc, NEW ts2, NEW sc2, NEW k, Owners(ts, sc, k) # {},
           NEW s \in Writing(sc, k), sc[s].found = {}, NEW x,
           Reach(ts2, sc2, k) \subseteq Reach(ts, sc, k) \cup {x}, s \notin Writing(sc2, k),
           \A u \in Writing(sc2, k) : sc2[u].found = {} => u \in Writing(sc, k) /\ sc[u].found = {}
    PROVE  Owners(ts2, sc2, k) # {}
<1>1. PICK f \in Owners(ts, sc, k) : TRUE
  OBVIOUS
<1> DEFINE g == [t \in Reach(ts2, sc2, k) |-> IF t = x THEN s ELSE f[t]]
<1>2. s \in Scanners /\ \A t \in Reach(ts, sc, k) : f[t] \in Scanners /\ f[t] # s
  BY <1>1 DEF Owners, Writing
<1>3. g \in [Reach(ts2, sc2, k) -> Scanners]
  BY <1>2
<1>4. \A t, u \in Reach(ts2, sc2, k) : g[t] = g[u] => t = u
  BY <1>1, <1>2 DEF Owners
<1>5. \A u \in Writing(sc2, k) : sc2[u].found = {} => \A t \in Reach(ts2, sc2, k) : g[t] # u
  BY <1>1 DEF Owners
<1> QED  BY <1>3, <1>4, <1>5 DEF Owners

\* When no task has the key, each that is sought stands for a scanner that seeks it.
LEMMA Rebuilding ==
    ASSUME NEW ts, NEW sc, NEW k, NEW s \in Scanners, NEW x, Holders(ts, k) \subseteq {x},
           Holders(ts, k) = {} \/ s \notin Writing(sc, k),
           \A u \in Writing(sc, k) : \A t, v \in sc[u].found : t = v
    PROVE  Owners(ts, sc, k) # {}
<1> DEFINE by(t) == CHOOSE u \in Writing(sc, k) : t \in sc[u].found
           g == [t \in Reach(ts, sc, k) |-> IF t \in Sought(sc, k) THEN by(t) ELSE s]
<1>1. \A t \in Sought(sc, k) : by(t) \in Writing(sc, k) /\ t \in sc[by(t)].found
  BY DEF Sought
<1> HIDE DEF by
<1>2. \A t \in Reach(ts, sc, k) : t \notin Sought(sc, k) => t = x /\ s \notin Writing(sc, k)
  BY DEF Reach
<1>3. Writing(sc, k) \subseteq Scanners
  BY DEF Writing
<1>4. g \in [Reach(ts, sc, k) -> Scanners]
  BY <1>1, <1>3
<1>5. ASSUME NEW t \in Reach(ts, sc, k), NEW u \in Reach(ts, sc, k), g[t] = g[u] PROVE t = u
  <2>1. CASE t \in Sought(sc, k) /\ u \in Sought(sc, k)
    BY <1>1, <1>5, <2>1
  <2>2. CASE t \notin Sought(sc, k) \/ u \notin Sought(sc, k)
    BY <1>1, <1>2, <1>5, <2>2
  <2> QED  BY <2>1, <2>2
<1>6. ASSUME NEW u \in Writing(sc, k), sc[u].found = {}, NEW t \in Reach(ts, sc, k)
      PROVE  g[t] # u
  BY <1>1, <1>2, <1>6
<1> QED  BY <1>4, <1>5, <1>6 DEF Owners

\* An upsert gives one task the key of its row and changes no other.
LEMMA Rekeying ==
    ASSUME NEW ts \in Seq(Task), NEW source \in Source, NEW found \in SUBSET DOMAIN ts,
           \A t \in found : ts[t].drama = source.drama
    PROVE  LET new == Upsert(ts, source, found)  key == SourceKey(source) IN
           /\ new \in Seq(Task) /\ DOMAIN ts \subseteq DOMAIN new
           /\ \A t \in DOMAIN ts : new[t].drama = ts[t].drama
           /\ \A k : k # key => Holders(new, k) \subseteq Holders(ts, k)
           /\ \E x : /\ Holders(new, key) \subseteq Holders(ts, key) \cup {x}
                     /\ found # {} => x \in found
<1> DEFINE new == Upsert(ts, source, found)
<1>1. new \in Seq(Task) /\ DOMAIN ts \subseteq DOMAIN new
      /\ \A t \in DOMAIN ts : new[t].drama = ts[t].drama
  BY Upserting
<1>2. PICK x \in DOMAIN new :
           /\ SourceKey(new[x]) = SourceKey(source)
           /\ IF found = {} THEN x \notin DOMAIN ts ELSE x \in found
           /\ \A t \in DOMAIN new \ {x} : t \in DOMAIN ts /\ new[t] = ts[t]
  BY Upserting
<1> HIDE DEF new
<1>3. \A k : k # SourceKey(source) => Holders(new, k) \subseteq Holders(ts, k)
  BY <1>2 DEF Holders
<1>4. Holders(new, SourceKey(source)) \subseteq Holders(ts, SourceKey(source)) \cup {x}
      /\ (found # {} => x \in found)
  BY <1>2 DEF Holders
<1> QED  BY <1>1, <1>3, <1>4 DEF new

LEMMA KeyTypes ==
    /\ \A source \in Source : SourceKey(source) \in PreviewRow
    /\ \A task \in Task : SourceKey(task) \in PreviewRow
BY DEF Source, Task, SourceKey, PreviewRow

LEMMA SameKey == \A a, b : SourceKey(a) = SourceKey(b) <=> a.drama = b.drama /\ a.cell = b.cell
BY DEF SourceKey

\* What a lookup finds is of the row's drama; it finds the tasks of the key if there are any.
LEMMA Finding ==
    ASSUME NEW ts \in Seq(Task), NEW source
    PROVE  LET found == FindExisting(ts, source) IN
           /\ found \in SUBSET DOMAIN ts /\ IsFiniteSet(found)
           /\ \A t \in found : ts[t].drama = source.drama
           /\ IF Holders(ts, SourceKey(source)) # {} THEN found = Holders(ts, SourceKey(source))
              ELSE TRUE
           /\ ~(Cardinality(found) > 1) => \A t, u \in found : t = u
<1> DEFINE found == FindExisting(ts, source)
<1>1. found \in SUBSET DOMAIN ts
  BY DEF FindExisting
<1>2. IsFiniteSet(found)
  <2>1. DOMAIN ts = 1 .. Len(ts) /\ Len(ts) \in Nat
    BY LenProperties
  <2>2. IsFiniteSet(DOMAIN ts)
    BY <2>1, FS_Interval
  <2> QED  BY <1>1, <2>2, FS_Subset
<1>3. \A t \in found : ts[t].drama = source.drama
  BY SameKey DEF FindExisting, SameMoment
<1>4. Holders(ts, SourceKey(source)) # {} => found = Holders(ts, SourceKey(source))
  BY DEF FindExisting, Holders
<1>5. ASSUME ~(Cardinality(found) > 1), NEW t \in found, NEW u \in found PROVE t = u
  <2> HIDE DEF found
  <2>1. Cardinality(found) \in Nat
    BY <1>2, FS_CardinalityType
  <2>2. Cardinality(found) # 0
    BY <1>2, FS_EmptySet
  <2>3. Cardinality(found) = 1
    BY <1>5, <2>1, <2>2
  <2>4. \E x : found = {x}
    BY <1>2, <2>3, FS_Singleton
  <2> QED  BY <2>4
<1> QED  BY <1>1, <1>2, <1>3, <1>4, <1>5

\* The tasks that a tick of s leads to, which then waits for nothing.
After(ts, s) ==
    LET sc == [scan EXCEPT ![s] = NoScan] IN
    /\ ts \in Seq(Task) /\ DOMAIN tasks \subseteq DOMAIN ts
    /\ FoundOK(ts, sc) /\ OwnedOK(ts, sc)

LEMMA Stopped ==
    ASSUME ScanTypeOK, NEW s \in Scanners
    PROVE  LET sc == [scan EXCEPT ![s] = NoScan] IN
           /\ sc[s].pc = "idle" /\ \A u \in Scanners : u # s => sc[u] = scan[u]
           /\ \A k : /\ Writing(sc, k) = Writing(scan, k) \ {s}
                     /\ Sought(sc, k) \subseteq Sought(scan, k)
                     /\ \A u \in Writing(sc, k) : sc[u].found = scan[u].found
<1> DEFINE sc == [scan EXCEPT ![s] = NoScan]
<1>1. sc[s].pc = "idle" /\ \A u \in Scanners : u # s => sc[u] = scan[u]
  BY DEF ScanTypeOK, NoScan
<1> HIDE DEF sc
<1>2. ASSUME NEW k PROVE Writing(sc, k) = Writing(scan, k) \ {s}
  BY <1>1 DEF Writing
<1>3. ASSUME NEW k PROVE /\ Sought(sc, k) \subseteq Sought(scan, k)
                         /\ \A u \in Writing(sc, k) : sc[u].found = scan[u].found
  <2>1. \A u \in Writing(sc, k) : u \in Writing(scan, k) /\ sc[u].found = scan[u].found
    BY <1>1, <1>2 DEF Writing
  <2> QED  BY <2>1 DEF Sought
<1> QED  BY <1>1, <1>2, <1>3 DEF sc

LEMMA FirstUpsert ==
    ASSUME ScanTypeOK, FoundOK(tasks, scan), OwnedOK(tasks, scan),
           NEW s \in Scanners, scan[s].pc = "write"
    PROVE  After(Upsert(tasks, Head(scan[s].rows), scan[s].found), s)
<1> DEFINE sc == [scan EXCEPT ![s] = NoScan]  source == Head(scan[s].rows)
           found == scan[s].found  new == Upsert(tasks, source, found)  key == SourceKey(source)
<1>1. source \in Source /\ key \in PreviewRow
  BY HeadTailProperties, KeyTypes DEF ScanTypeOK, FoundOK
<1>2. tasks \in Seq(Task) /\ found \in SUBSET DOMAIN tasks /\ \A t \in found : tasks[t].drama = source.drama
  BY DEF ScanTypeOK, FoundOK
<1>3. /\ sc[s].pc = "idle" /\ \A u \in Scanners : u # s => sc[u] = scan[u]
      /\ \A k : /\ Writing(sc, k) = Writing(scan, k) \ {s}
                /\ Sought(sc, k) \subseteq Sought(scan, k)
                /\ \A u \in Writing(sc, k) : sc[u].found = scan[u].found
  BY Stopped
<1>4. s \in Writing(scan, key)
  BY DEF Writing
<1>5. found \subseteq Sought(scan, key)
  BY <1>4 DEF Sought
<1> HIDE DEF sc, source, found, new, key
<1>6. /\ new \in Seq(Task) /\ DOMAIN tasks \subseteq DOMAIN new
      /\ \A t \in DOMAIN tasks : new[t].drama = tasks[t].drama
      /\ \A k : k # key => Holders(new, k) \subseteq Holders(tasks, k)
      /\ \E x : /\ Holders(new, key) \subseteq Holders(tasks, key) \cup {x}
                /\ found # {} => x \in found
  BY <1>1, <1>2, Rekeying DEF new, key
<1>7. FoundOK(new, sc)
  BY <1>3, <1>6 DEF FoundOK
<1>8. ASSUME NEW k \in PreviewRow PROVE Owners(new, sc, k) # {}
  <2>0. Owners(tasks, scan, k) # {}
    BY DEF OwnedOK
  <2>1. CASE k # key \/ found # {}
    <3>1. Reach(new, sc, k) \subseteq Reach(tasks, scan, k)
      BY <1>3, <1>5, <1>6, <2>1 DEF Reach
    <3> QED  BY <1>3, <2>0, <3>1, Shrinking
  <2>2. CASE k = key /\ found = {}
    <3>1. PICK x : Holders(new, key) \subseteq Holders(tasks, key) \cup {x}
      BY <1>6
    <3>2. Reach(new, sc, k) \subseteq Reach(tasks, scan, k) \cup {x}
      BY <1>3, <2>2, <3>1 DEF Reach
    <3>3. s \in Writing(scan, k) /\ scan[s].found = {}
      BY <1>4, <2>2 DEF found
    <3> QED  BY <1>3, <2>0, <3>2, <3>3, Adding
  <2> QED  BY <2>1, <2>2
<1> QED  BY <1>6, <1>7, <1>8 DEF After, OwnedOK, sc, new, source, found

LEMMA NextUpsert ==
    ASSUME ScanTypeOK, NEW s \in Scanners, NEW ts, After(ts, s), NEW source \in Source,
           ~(Cardinality(FindExisting(ts, source)) > 1)
    PROVE  After(Upsert(ts, source, FindExisting(ts, source)), s)
<1> DEFINE sc == [scan EXCEPT ![s] = NoScan]  found == FindExisting(ts, source)
           new == Upsert(ts, source, found)  key == SourceKey(source)
<1>1. ts \in Seq(Task) /\ DOMAIN tasks \subseteq DOMAIN ts /\ FoundOK(ts, sc) /\ OwnedOK(ts, sc)
  BY DEF After
<1>2. sc[s].pc = "idle"
  BY Stopped
<1>3. /\ found \in SUBSET DOMAIN ts /\ \A t \in found : ts[t].drama = source.drama
      /\ Holders(ts, key) # {} => found = Holders(ts, key)
  BY <1>1, Finding
<1> HIDE DEF sc, found, new, key
<1>4. /\ new \in Seq(Task) /\ DOMAIN ts \subseteq DOMAIN new
      /\ \A t \in DOMAIN ts : new[t].drama = ts[t].drama
      /\ \A k : k # key => Holders(new, k) \subseteq Holders(ts, k)
      /\ \E x : /\ Holders(new, key) \subseteq Holders(ts, key) \cup {x}
                /\ found # {} => x \in found
  BY <1>1, <1>3, Rekeying DEF new, key
<1>5. FoundOK(new, sc)
  BY <1>1, <1>4 DEF FoundOK
<1>6. ASSUME NEW k \in PreviewRow PROVE Owners(new, sc, k) # {}
  <2>0. Owners(ts, sc, k) # {}
    BY <1>1 DEF OwnedOK
  <2>1. CASE k # key \/ Holders(ts, key) # {}
    <3>1. Holders(new, k) \subseteq Holders(ts, k)
      BY <1>3, <1>4, <2>1
    <3>2. Reach(new, sc, k) \subseteq Reach(ts, sc, k)
      BY <3>1 DEF Reach
    <3> QED  BY <2>0, <3>2, Shrinking
  <2>2. CASE k = key /\ Holders(ts, key) = {}
    <3>1. PICK x : Holders(new, k) \subseteq {x}
      BY <1>4, <2>2
    <3>2. s \notin Writing(sc, k)
      BY <1>2 DEF Writing
    <3>3. \A u \in Writing(sc, k) : \A t, v \in sc[u].found : t = v
      BY <1>1 DEF FoundOK, Writing
    <3> QED  BY <3>1, <3>2, <3>3, Rebuilding
  <2> QED  BY <2>1, <2>2
<1>7. DOMAIN tasks \subseteq DOMAIN new
  BY <1>1, <1>4
<1> QED  BY <1>4, <1>5, <1>6, <1>7 DEF After, OwnedOK, sc, new, found

LEMMA WrittenAfter ==
    ASSUME ScanTypeOK, FoundOK(tasks, scan), OwnedOK(tasks, scan),
           NEW s \in Scanners, scan[s].pc = "write"
    PROVE  After(Written(s).tasks, s)
<1> DEFINE rows == Tail(scan[s].rows)
           base == [tasks |-> Upsert(tasks, Head(scan[s].rows), scan[s].found), raised |-> FALSE]
           N == Len(rows)
           add(st, n) == UpsertNext(st, rows[n])
           S == {st \in [tasks : Seq(Task), raised : BOOLEAN] : After(st.tasks, s)}
           f == CHOOSE g : g = [n \in 0 .. N |-> IF n = 0 THEN base ELSE add(g[n - 1], n)]
<1>1. N \in Nat /\ \A n \in 1 .. N : rows[n] \in Source
  <2>1. scan[s].rows \in Seq(Source) /\ scan[s].rows # <<>>
    BY DEF ScanTypeOK, FoundOK
  <2>2. rows \in Seq(Source)
    BY <2>1, HeadTailProperties
  <2> HIDE DEF rows
  <2> QED  BY <2>2, LenProperties, ElementOfSeq
<1>2. base \in S
  <2>1. After(Upsert(tasks, Head(scan[s].rows), scan[s].found), s)
    BY FirstUpsert
  <2> QED  BY <2>1 DEF After
<1> HIDE DEF rows, base, N
<1>3. ASSUME NEW st \in S, NEW n \in 1 .. N PROVE add(st, n) \in S
  <2> DEFINE found == FindExisting(st.tasks, rows[n])
  <2>1. rows[n] \in Source /\ After(st.tasks, s)
    BY <1>1
  <2>2. CASE Cardinality(found) > 1
    <3>1. add(st, n) = [st EXCEPT !.raised = TRUE]
      BY <2>2 DEF UpsertNext
    <3>2. [st EXCEPT !.raised = TRUE].tasks = st.tasks
      OBVIOUS
    <3> QED  BY <2>1, <3>1, <3>2
  <2>3. CASE ~(Cardinality(found) > 1)
    <3> DEFINE new == Upsert(st.tasks, rows[n], found)
    <3>1. After(new, s)
      BY <2>1, <2>3, NextUpsert
    <3>2. add(st, n) = [st EXCEPT !.tasks = new]
      BY <2>3 DEF UpsertNext
    <3> HIDE DEF new, add
    <3>3. new \in Seq(Task)
      BY <3>1 DEF After
    <3> QED  BY <3>1, <3>2, <3>3
  <2> QED  BY <2>2, <2>3
<1>9. N \in Nat
  BY <1>1
<1> HIDE DEF S, add
<1>4. \E g : g = [n \in 0 .. N |-> IF n = 0 THEN base ELSE add(g[n - 1], n)]
  <2> DEFINE step == [n \in 1 .. N |-> [st \in S |-> add(st, n)]]
  <2>1. step \in [1 .. N -> [S -> S]]
    BY <1>3
  <2> HIDE DEF step
  <2>2. PICK g \in [0 .. N -> S] :
             g = [n \in 0 .. N |-> IF n = 0 THEN base ELSE step[n][g[n - 1]]]
    BY <1>2, <1>9, <2>1, FoldExists
  <2>3. \A n \in 1 .. N : n - 1 \in 0 .. N
    BY <1>1
  <2>4. \A n \in 1 .. N : step[n][g[n - 1]] = add(g[n - 1], n)
    BY <2>2, <2>3 DEF step
  <2>5. g = [n \in 0 .. N |-> IF n = 0 THEN base ELSE add(g[n - 1], n)]
    BY <1>9, <2>2, <2>4
  <2> QED  BY <2>5
<1>5. f = [n \in 0 .. N |-> IF n = 0 THEN base ELSE add(f[n - 1], n)]
  BY <1>4
<1> HIDE DEF f
<1>6. f[0] \in S /\ \A n \in 1 .. N : f[n - 1] \in S => f[n] \in S
  BY <1>1, <1>2, <1>3, <1>5
<1>7. f[N] \in S
  BY <1>6, <1>9, FoldKeeps
<1>8. Written(s) = f[N]
  BY DEF Written, f, N, add, rows, base
<1> QED  BY <1>7, <1>8 DEF S

\* A scanner that does not go on to write keeps nothing.
LEMMA NotWriting ==
    ASSUME ScanTypeOK, FoundOK(tasks, scan), OwnedOK(tasks, scan), NEW s \in Scanners, NEW sc,
           sc[s].pc # "write", \A u \in Scanners : u # s => sc[u] = scan[u]
    PROVE  FoundOK(tasks, sc) /\ OwnedOK(tasks, sc)
<1>1. FoundOK(tasks, sc)
  BY DEF FoundOK
<1>2. ASSUME NEW k \in PreviewRow PROVE Owners(tasks, sc, k) # {}
  <2>1. \A u \in Writing(sc, k) : u \in Writing(scan, k) /\ sc[u].found = scan[u].found
    BY DEF Writing
  <2>2. Reach(tasks, sc, k) \subseteq Reach(tasks, scan, k)
    BY <2>1 DEF Reach, Sought
  <2>3. Owners(tasks, scan, k) # {}
    BY DEF OwnedOK
  <2> QED  BY <2>1, <2>2, <2>3, Shrinking
<1> QED  BY <1>1, <1>2 DEF OwnedOK

LEMMA LookingUp ==
    ASSUME ScanTypeOK, FoundOK(tasks, scan), OwnedOK(tasks, scan), NEW s \in Scanners,
           LookUp(s)
    PROVE  ScanTypeOK' /\ FoundOK(tasks, scan') /\ OwnedOK(tasks, scan')
<1> DEFINE source == Head(scan[s].rows)  found == FindExisting(tasks, source)
           key == SourceKey(source)
<1>0. scan[s] \in [pc : {"idle", "look", "write"}, rows : Seq(Source), found : SUBSET DOMAIN tasks]
      /\ tasks \in Seq(Task)
  BY DEF ScanTypeOK
<1>1. scan[s].rows \in Seq(Source) /\ scan[s].rows # <<>> /\ scan[s].pc = "look"
      /\ ~(Cardinality(found) > 1) /\ tasks' = tasks
  <2>1. found \in SUBSET DOMAIN tasks /\ IsFiniteSet(found)
    BY <1>0, Finding
  <2>2. Cardinality(found) \in Nat
    BY <2>1, FS_CardinalityType
  <2>3. Cardinality(found) <= 1 /\ scan[s].pc = "look" /\ scan[s].rows # <<>> /\ tasks' = tasks
    BY DEF LookUp
  <2> HIDE DEF found
  <2> QED  BY <1>0, <2>2, <2>3
<1>2. source \in Source /\ key \in PreviewRow /\ Tail(scan[s].rows) \in Seq(Source)
  BY <1>1, HeadTailProperties, KeyTypes
<1>3. /\ found \in SUBSET DOMAIN tasks /\ \A t \in found : tasks[t].drama = source.drama
      /\ Holders(tasks, key) # {} => found = Holders(tasks, key)
      /\ \A t, u \in found : t = u
  BY <1>0, <1>1, Finding
<1>4. \/ scan' = [scan EXCEPT ![s].rows = Tail(@)]
      \/ scan' = [scan EXCEPT ![s].pc = "write", ![s].found = found]
  BY DEF LookUp
<1> HIDE DEF found, source, key
<1>5. CASE scan' = [scan EXCEPT ![s].rows = Tail(@)]
  <2> DEFINE r == [scan[s] EXCEPT !.rows = Tail(@)]
  <2>1. scan' = [scan EXCEPT ![s] = r]
    BY <1>5
  <2>2. r \in [pc : {"idle", "look", "write"}, rows : Seq(Source), found : SUBSET DOMAIN tasks]
        /\ r.pc = "look"
    BY <1>0, <1>1, <1>2
  <2> HIDE DEF r
  <2>3. ScanTypeOK'
    BY <1>1, <2>1, <2>2 DEF ScanTypeOK
  <2>4. scan'[s].pc # "write" /\ \A u \in Scanners : u # s => scan'[u] = scan[u]
    BY <2>1, <2>2 DEF ScanTypeOK
  <2> QED  BY <2>3, <2>4, NotWriting
<1>6. CASE scan' = [scan EXCEPT ![s].pc = "write", ![s].found = found]
  <2> DEFINE r == [scan[s] EXCEPT !.pc = "write", !.found = found]
  <2>1. scan' = [scan EXCEPT ![s] = r]
    BY <1>6 DEF ScanTypeOK
  <2>2. r \in [pc : {"idle", "look", "write"}, rows : Seq(Source), found : SUBSET DOMAIN tasks]
        /\ r.pc = "write" /\ r.found = found /\ r.rows = scan[s].rows
    BY <1>0, <1>1, <1>3
  <2> HIDE DEF r
  <2>3. ScanTypeOK'
    BY <1>1, <2>1, <2>2 DEF ScanTypeOK
  <2>4. scan'[s] = r /\ \A u \in Scanners : u # s => scan'[u] = scan[u]
    BY <2>1 DEF ScanTypeOK
  <2>5. FoundOK(tasks, scan')
    BY <1>1, <1>3, <2>2, <2>4 DEF FoundOK, source
  <2>6. ASSUME NEW k \in PreviewRow PROVE Owners(tasks, scan', k) # {}
    <3>0. Owners(tasks, scan, k) # {} /\ s \notin Writing(scan, k)
      BY <1>1 DEF OwnedOK, Writing
    <3>1. CASE k # key
      <4>1. s \notin Writing(scan', k)
        BY <2>2, <2>4, <3>1 DEF Writing, key, source
      <4>2. \A u \in Writing(scan', k) : u \in Writing(scan, k) /\ scan'[u].found = scan[u].found
        BY <2>4, <4>1 DEF Writing
      <4>3. Reach(tasks, scan', k) \subseteq Reach(tasks, scan, k)
        BY <4>2 DEF Reach, Sought
      <4> QED  BY <3>0, <4>2, <4>3, Shrinking
    <3>2. CASE k = key /\ Holders(tasks, key) # {}
      <4>1. \A u \in Writing(scan', k) :
               \/ u = s /\ scan'[u].found = Holders(tasks, k)
               \/ u \in Writing(scan, k) /\ scan'[u].found = scan[u].found
        BY <1>3, <2>2, <2>4, <3>2 DEF Writing
      <4>2. Reach(tasks, scan', k) \subseteq Reach(tasks, scan, k)
        BY <4>1 DEF Reach, Sought
      <4>3. \A u \in Writing(scan', k) : scan'[u].found = {} =>
               u \in Writing(scan, k) /\ scan[u].found = {}
        BY <3>2, <4>1
      <4> QED  BY <3>0, <4>2, <4>3, Shrinking
    <3>3. CASE k = key /\ Holders(tasks, key) = {}
      <4>1. \A u \in Writing(scan', k) : \A t, v \in scan'[u].found : t = v
        BY <2>5 DEF FoundOK, Writing
      <4> QED  BY <3>3, <4>1, Rebuilding
    <3> QED  BY <3>1, <3>2, <3>3
  <2> QED  BY <2>3, <2>5, <2>6 DEF OwnedOK
<1> QED  BY <1>4, <1>5, <1>6

\* A step of the deployed system is one of the import, for the import's variables.
LEMMA StepImports == ScanTypeOK /\ ImportTypeOK /\ [Next]_vars => [ImportStep]_importVars
<1> SUFFICES ASSUME ScanTypeOK, ImportTypeOK, [Next]_vars PROVE [ImportStep]_importVars
  OBVIOUS
<1>1. CASE ImportNext
  BY <1>1 DEF ImportStep
<1>2. ASSUME NEW s \in Scanners, ScanStep(s) \/ CommitTick(s) PROVE UNCHANGED importVars
  BY <1>2 DEF ScanStep, Fetch, LookUp, TickFails, NothingWritten, LockTimeout, CommitTick
<1>3. ASSUME NEW t \in DOMAIN tasks, WriteResults(t) PROVE ImportStep
  <2>1. tasks[t] \in Task
    BY LenProperties, ElementOfSeq DEF ScanTypeOK
  <2>2. tasks[t].drama \in Drama /\ tasks[t].row \in Nat
    BY <2>1 DEF Task
  <2> QED  BY <1>3, <2>2 DEF WriteResults, ImportStep, ResultWritten
<1> QED  BY <1>1, <1>2, <1>3 DEF Next, vars

LEMMA ScanStepKeeps ==
    ASSUME ScanTypeOK, ImportTypeOK, FoundOK(tasks, scan), OwnedOK(tasks, scan), Next
    PROVE  ScanTypeOK' /\ FoundOK(tasks', scan') /\ OwnedOK(tasks', scan')
<1> DEFINE Scan == [pc : {"idle", "look", "write"}, rows : Seq(Source), found : SUBSET DOMAIN tasks]
<1>1. CASE UNCHANGED <<tasks, scan>>
  BY <1>1 DEF ScanTypeOK
\* The scanner goes on to something else than a write.
<1>2. ASSUME NEW s \in Scanners, NEW r \in Scan, r.pc # "write", tasks' = tasks,
             scan' = [scan EXCEPT ![s] = r]
      PROVE  ScanTypeOK' /\ FoundOK(tasks', scan') /\ OwnedOK(tasks', scan')
  <2>1. ScanTypeOK'
    BY <1>2 DEF ScanTypeOK
  <2>2. scan'[s].pc # "write" /\ \A u \in Scanners : u # s => scan'[u] = scan[u]
    BY <1>2 DEF ScanTypeOK
  <2>3. FoundOK(tasks, scan') /\ OwnedOK(tasks, scan')
    BY <2>2, NotWriting
  <2> QED  BY <1>2, <2>1, <2>3
<1>3. ASSUME NEW s \in Scanners, Fetch(s)
      PROVE  ScanTypeOK' /\ FoundOK(tasks', scan') /\ OwnedOK(tasks', scan')
  <2> DEFINE r == [pc |-> "look", rows |-> Fetched, found |-> {}]
  <2>1. Fetched \in Seq(Source)
    BY FetchedType DEF ImportTypeOK
  <2>2. r \in Scan /\ r.pc # "write"
    BY <2>1
  <2>3. tasks' = tasks /\ scan' = [scan EXCEPT ![s] = r]
    BY <1>3 DEF Fetch
  <2> HIDE DEF r
  <2> QED  BY <1>2, <2>2, <2>3
<1>4. ASSUME NEW s \in Scanners, TickFails(s) \/ NothingWritten(s) \/ LockTimeout(s)
      PROVE  ScanTypeOK' /\ FoundOK(tasks', scan') /\ OwnedOK(tasks', scan')
  <2>1. NoScan \in Scan /\ NoScan.pc # "write"
    BY DEF NoScan
  <2>2. tasks' = tasks /\ scan' = [scan EXCEPT ![s] = NoScan]
    BY <1>4 DEF TickFails, NothingWritten, LockTimeout
  <2> QED  BY <1>2, <2>1, <2>2
<1>5. ASSUME NEW s \in Scanners, LookUp(s)
      PROVE  ScanTypeOK' /\ FoundOK(tasks', scan') /\ OwnedOK(tasks', scan')
  <2>1. tasks' = tasks
    BY <1>5 DEF LookUp
  <2> QED  BY <1>5, <2>1, LookingUp
<1>6. ASSUME NEW s \in Scanners, CommitTick(s)
      PROVE  ScanTypeOK' /\ FoundOK(tasks', scan') /\ OwnedOK(tasks', scan')
  <2>1. scan[s].pc = "write" /\ scan' = [scan EXCEPT ![s] = NoScan]
        /\ tasks' \in {tasks, Written(s).tasks}
    BY <1>6 DEF CommitTick
  <2>2. CASE tasks' = tasks
    <3>1. NoScan \in Scan /\ NoScan.pc # "write"
      BY DEF NoScan
    <3> QED  BY <1>2, <2>1, <2>2, <3>1
  <2>3. CASE tasks' = Written(s).tasks
    <3>1. After(tasks', s)
      BY <2>1, <2>3, WrittenAfter
    <3>2. tasks' \in Seq(Task) /\ DOMAIN tasks \subseteq DOMAIN tasks'
          /\ FoundOK(tasks', scan') /\ OwnedOK(tasks', scan')
      BY <2>1, <3>1 DEF After
    <3>3. scan' \in [Scanners -> Scan]
      BY <2>1 DEF ScanTypeOK, NoScan
    <3>4. \A u \in Scanners : scan'[u] \in [pc : {"idle", "look", "write"}, rows : Seq(Source),
                                            found : SUBSET DOMAIN tasks']
      BY <3>2, <3>3
    <3>5. ScanTypeOK'
      BY <3>2, <3>3, <3>4 DEF ScanTypeOK
    <3> QED  BY <3>2, <3>5
  <2> QED  BY <2>1, <2>2, <2>3
<1>7. ASSUME NEW t \in DOMAIN tasks, WriteResults(t)
      PROVE  ScanTypeOK' /\ FoundOK(tasks', scan') /\ OwnedOK(tasks', scan')
  <2> DEFINE task == [tasks[t] EXCEPT !.item = "COMPLETED"]
  <2>0. DOMAIN tasks = 1 .. Len(tasks) /\ tasks[t] \in Task /\ tasks \in Seq(Task)
    BY LenProperties, ElementOfSeq DEF ScanTypeOK
  <2>1. tasks' = [tasks EXCEPT ![t] = task] /\ scan' = scan
    BY <1>7 DEF WriteResults
  <2>2. task \in Task /\ SourceKey(task) = SourceKey(tasks[t]) /\ task.drama = tasks[t].drama
    BY <2>0 DEF Task, SourceKey
  <2> HIDE DEF task
  <2>3. tasks' \in Seq(Task) /\ DOMAIN tasks' = DOMAIN tasks
    BY <2>0, <2>1, <2>2, ExceptSeq
  <2>4. \A u \in DOMAIN tasks : SourceKey(tasks'[u]) = SourceKey(tasks[u])
                                /\ tasks'[u].drama = tasks[u].drama
    BY <2>1, <2>2
  <2>5. ScanTypeOK'
    BY <2>1, <2>3 DEF ScanTypeOK
  <2>6. FoundOK(tasks', scan')
    BY <2>1, <2>3, <2>4 DEF FoundOK
  <2>7. ASSUME NEW k \in PreviewRow PROVE Owners(tasks', scan', k) # {}
    <3>1. Reach(tasks', scan, k) \subseteq Reach(tasks, scan, k)
      BY <2>3, <2>4 DEF Reach, Holders
    <3>2. Owners(tasks, scan, k) # {}
      BY DEF OwnedOK
    <3>3. Owners(tasks', scan, k) # {}
      BY <3>1, <3>2, Shrinking
    <3> QED  BY <2>1, <3>3
  <2> QED  BY <2>5, <2>6, <2>7 DEF OwnedOK
<1>8. CASE ImportNext /\ UNCHANGED scanVars
  BY <1>1, <1>8 DEF scanVars
<1> QED  BY <1>3, <1>4, <1>5, <1>6, <1>7, <1>8 DEF Next, ScanStep

LEMMA ScanInvInit == Init => ScanInv
<1> SUFFICES ASSUME Init PROVE ScanInv
  OBVIOUS
<1>1. ScanTypeOK
  BY DEF Init, NoScan, ScanTypeOK
<1>2. FoundOK(tasks, scan)
  BY DEF Init, NoScan, FoundOK
<1>3. ASSUME NEW k \in PreviewRow PROVE Owners(tasks, scan, k) # {}
  <2>1. Writing(scan, k) = {}
    BY DEF Init, NoScan, Writing
  <2>2. Holders(tasks, k) = {}
    BY DEF Init, Holders
  <2> QED  BY <2>1, <2>2, DeliveryScanAssumption, Rebuilding
<1> QED  BY <1>1, <1>2, <1>3, ImportInvInit DEF Init, OwnedOK, ScanInv

LEMMA ScanInvStep == ScanInv /\ [Next]_vars => ScanInv'
<1> SUFFICES ASSUME ScanInv, [Next]_vars PROVE ScanInv'
  OBVIOUS
<1>1. ImportInv'
  BY StepImports, ImportInvStep DEF ScanInv, ImportInv, RunInv
<1>2. ScanTypeOK' /\ FoundOK(tasks', scan') /\ OwnedOK(tasks', scan')
  <2>1. CASE Next
    BY <2>1, ScanStepKeeps DEF ScanInv, ImportInv, RunInv
  <2>2. CASE UNCHANGED vars
    BY <2>2 DEF vars, scanVars, ScanInv, ScanTypeOK
  <2> QED  BY <2>1, <2>2
<1> QED  BY <1>1, <1>2 DEF ScanInv

-----------------------------------------------------------------------------
(* The theorems                                                             *)

LEMMA ImportInvariance == ImportSpec => []ImportInv
<1>1. ImportInv /\ [ImportNext \/ WorkerWrites]_importVars => [ImportStep]_importVars
  <2> SUFFICES ASSUME ImportInv, WorkerWrites PROVE ImportStep
    BY DEF ImportStep
  <2>1. \A i \in DOMAIN sheet : sheet[i].drama \in Drama
    <3>1. \A i \in DOMAIN sheet : sheet[i] \in Row
      BY LenProperties, ElementOfSeq DEF ImportInv, RunInv, ImportTypeOK
    <3> QED  BY <3>1 DEF Row
  <2>2. DOMAIN sheet \subseteq Nat
    BY LenProperties DEF ImportInv, RunInv, ImportTypeOK
  <2> QED  BY <2>1, <2>2 DEF WorkerWrites, ImportStep, ResultWritten
<1> QED  BY <1>1, ImportInvInit, ImportInvStep, PTL DEF ImportSpec

LEMMA ScanInvariance == Spec => []ScanInv
<1> QED  BY ScanInvInit, ScanInvStep, PTL DEF Spec

LEMMA BothInvariance == (ImportSpec => []ImportInv) /\ (Spec => []ImportInv)
<1>1. ScanInv => ImportInv
  BY DEF ScanInv
<1> QED  BY <1>1, ImportInvariance, ScanInvariance, PTL

\* The shapes of the sheet, the previews and the tasks.
THEOREM TypeCorrect == (ImportSpec => []ImportTypeOK) /\ (Spec => []TypeOK)
<1>1. ImportInv => ImportTypeOK
  BY DEF ImportInv, RunInv
<1>2. ScanInv => TypeOK
  BY <1>1 DEF ScanInv, ScanTypeOK, TypeOK
<1> QED  BY <1>1, <1>2, BothInvariance, ScanInvariance, PTL

\* However often a run is confirmed, and at whatever point a confirmation fails or dies,
\* each of its rows is inserted once (insert_private_rows): the revision it was stored with
\* never comes back.
THEOREM InsertsOnce == (ImportSpec => []InsertedOnce) /\ (Spec => []InsertedOnce)
<1>1. ImportInv => InsertedOnce
  BY DEF ImportInv
<1> QED  BY <1>1, BothInvariance, PTL

\* A run is marked COMPLETED only when its dramas are in the sheet, and they stay in it.
THEOREM CompletedLanded == (ImportSpec => []CompletedHasLanded) /\ (Spec => []CompletedHasLanded)
<1>1. ImportInv => CompletedHasLanded
  BY DEF ImportInv
<1> QED  BY <1>1, BothInvariance, PTL

\* Two runs insert one drama at one time only through the windows between the rows and the
\* revision of a preview and between the check of the revision and the insert.
THEOREM DisjointImports == (ImportSpec => []ImportsAreDisjoint) /\ (Spec => []ImportsAreDisjoint)
<1>1. ImportInv => ImportsAreDisjoint
  BY DEF ImportInv
<1> QED  BY <1>1, BothInvariance, PTL

\* Scans that run at once add at most one task of a source key for each scanner, whatever
\* rows are added, moved and retimed meanwhile.
THEOREM TasksPerKey == Spec => []TasksPerKeyBounded
<1>1. ASSUME ScanInv PROVE TasksPerKeyBounded
  <2> SUFFICES ASSUME NEW t \in DOMAIN tasks
               PROVE  Cardinality(Holders(tasks, SourceKey(tasks[t]))) <= Cardinality(Scanners)
    BY DEF TasksPerKeyBounded, Holders
  <2> DEFINE k == SourceKey(tasks[t])
  <2>1. k \in PreviewRow
    <3>1. tasks[t] \in Task
      BY <1>1, LenProperties, ElementOfSeq DEF ScanInv, ScanTypeOK
    <3> QED  BY <3>1, KeyTypes
  <2>2. PICK f \in Owners(tasks, scan, k) : TRUE
    BY <1>1, <2>1 DEF ScanInv, OwnedOK
  <2> HIDE DEF k
  <2> DEFINE g == [u \in Holders(tasks, k) |-> f[u]]
  <2>3. g \in Injection(Holders(tasks, k), Scanners)
    BY <2>2 DEF Injection, IsInjective, Owners, Reach
  <2>4. Cardinality(Holders(tasks, k)) <= Cardinality(Scanners)
    BY <2>3, DeliveryScanAssumption, FS_Injection
  <2> QED  BY <2>4 DEF k
<1> QED  BY <1>1, ScanInvariance, PTL
=============================================================================
