---------------------------- MODULE DeliveryScan ----------------------------
(***************************************************************************)
(* The scan that turns rows of the private sheet into tasks, run by the    *)
(* scheduler thread and by POST /tasks/scan, next to the imports that      *)
(* insert rows above and the worker that writes results into the row the   *)
(* last scan saw.                                                          *)
(*                                                                         *)
(* A task is found by its source key, which holds the text of the time     *)
(* cell, or by drama and moment.  So the time of a known task never        *)
(* changes: a moved row is another task.  A task keeps the one queue item  *)
(* it was created with (module WorkQueue has the others).                  *)
(***************************************************************************)
EXTENDS DramaImport

CONSTANTS
    Scanners, Scheduler,
    When,      \* the moment a time cell names
    NoTime,    \* of a cell that is not a time
    ScanRows   \* rows of the sheet a scan fetches (A1:N200)

ASSUME DeliveryScanAssumption ==
    /\ Scheduler \in Scanners /\ IsFiniteSet(Scanners) /\ ScanRows \in Nat \ {0}
    /\ \A c \in Today : When[c] # NoTime

VARIABLES
    tasks,   \* drama_task rows, in the order they were added
    scan     \* the tick of each scanner

scanVars == <<tasks, scan>>
vars == <<importVars, scanVars>>

Source == [row : Nat, drama : Drama, cell : TimeCell]
Task == [row : Nat, drama : Drama, cell : TimeCell, item : {"WAITING_TIME", "COMPLETED"}]

NoScan == [pc |-> "idle", rows |-> <<>>, found |-> {}]

Init == ImportInit /\ tasks = <<>> /\ scan = [s \in Scanners |-> NoScan]

\* Rows without a drama or a time are skipped, and those of another day.
Fetched ==
    LET last  == IF Len(sheet) < ScanRows THEN Len(sheet) ELSE ScanRows
        read[n \in 0 .. last] ==  \* ... of the first n rows
            IF n = 0 THEN <<>>
            ELSE IF sheet[n].cell \notin Today THEN read[n - 1]
            ELSE Append(read[n - 1], [row |-> n, drama |-> sheet[n].drama, cell |-> sheet[n].cell])
    IN read[last]

SameMoment(task, source) ==
    task.drama = source.drama /\ When[task.cell] = When[source.cell]

\* Mutant of FindExisting: a row nothing answers for is taken for the task of its number.
FindByRow(ts, source) ==
    LET byKey == {t \in DOMAIN ts : SourceKey(ts[t]) = SourceKey(source)}
    IN IF byKey # {} THEN byKey ELSE {source.row}

\* The tasks a lookup returns; it raises if they are more than one.
FindExisting(ts, source) ==
    LET byKey == {t \in DOMAIN ts : SourceKey(ts[t]) = SourceKey(source)}
    IN IF byKey # {} THEN byKey
       ELSE {t \in DOMAIN ts : SameMoment(ts[t], source) /\ ts[t].item # "COMPLETED"}

\* A found task gets the row's number and key; otherwise a task is added, with its item.
Upsert(ts, source, found) ==
    IF found = {}
    THEN Append(ts, [row |-> source.row, drama |-> source.drama, cell |-> source.cell,
                     item |-> "WAITING_TIME"])
    ELSE [ts EXCEPT ![CHOOSE t \in found : TRUE].row = source.row,
                    ![CHOOSE t \in found : TRUE].cell = source.cell]

-----------------------------------------------------------------------------
(* One tick.  Nothing is locked until a row has something to write: the     *)
(* other rows are looked up and written under the database's write lock.    *)

Fetch(s) ==
    /\ scan[s].pc = "idle"
    /\ scan' = [scan EXCEPT ![s] = [pc |-> "look", rows |-> Fetched, found |-> {}]]
    /\ UNCHANGED <<importVars, tasks>>

\* Mutant of LookUp: the source key is not asked for.
LookUpNothing(s) ==
    /\ scan[s].pc = "look" /\ scan[s].rows # <<>>
    /\ scan' = [scan EXCEPT ![s].pc = "write", ![s].found = {}]
    /\ UNCHANGED <<importVars, tasks>>

LookUp(s) ==
    /\ scan[s].pc = "look" /\ scan[s].rows # <<>>
    /\ LET source == Head(scan[s].rows)
           found  == FindExisting(tasks, source)
       IN /\ Cardinality(found) <= 1
          /\ scan' = IF Upsert(tasks, source, found) = tasks
                     THEN [scan EXCEPT ![s].rows = Tail(@)]
                     ELSE [scan EXCEPT ![s].pc = "write", ![s].found = found]
    /\ UNCHANGED <<importVars, tasks>>

\* Two tasks answer for one row: the tick is rolled back.
TickFails(s) ==
    /\ scan[s].pc = "look" /\ scan[s].rows # <<>>
    /\ Cardinality(FindExisting(tasks, Head(scan[s].rows))) > 1
    /\ scan' = [scan EXCEPT ![s] = NoScan]
    /\ UNCHANGED <<importVars, tasks>>

NothingWritten(s) ==
    /\ scan[s].pc = "look" /\ scan[s].rows = <<>>
    /\ scan' = [scan EXCEPT ![s] = NoScan]
    /\ UNCHANGED <<importVars, tasks>>

\* The rows below the first written one.
UpsertNext(state, source) ==
    LET found == FindExisting(state.tasks, source)
    IN IF Cardinality(found) > 1 THEN [state EXCEPT !.raised = TRUE]
       ELSE [state EXCEPT !.tasks = Upsert(@, source, found)]

Written(s) ==
    LET rows  == Tail(scan[s].rows)
        first == Upsert(tasks, Head(scan[s].rows), scan[s].found)
        after[n \in 0 .. Len(rows)] ==  \* ... n of the other rows
            IF n = 0 THEN [tasks |-> first, raised |-> FALSE] ELSE UpsertNext(after[n - 1], rows[n])
    IN after[Len(rows)]

CommitTick(s) ==
    /\ scan[s].pc = "write" /\ Unclaimed
    /\ LET result == Written(s)
       IN tasks' = IF result.raised THEN tasks ELSE result.tasks
    /\ scan' = [scan EXCEPT ![s] = NoScan]
    /\ UNCHANGED importVars

\* The lock is not free within busy_timeout: the tick is rolled back.
LockTimeout(s) ==
    /\ scan[s].pc = "write" /\ ~Unclaimed
    /\ scan' = [scan EXCEPT ![s] = NoScan]
    /\ UNCHANGED <<importVars, tasks>>

ScanStep(s) ==
    Fetch(s) \/ LookUp(s) \/ TickFails(s) \/ NothingWritten(s) \/ LockTimeout(s)

\* The worker writes a task's results into the row its last scan saw.  It holds the write
\* lock meanwhile.
WriteResults(t) ==
    /\ tasks[t].item = "WAITING_TIME"
    /\ WriteRow(tasks[t].row, tasks[t].drama)
    /\ tasks' = [tasks EXCEPT ![t].item = "COMPLETED"]
    /\ UNCHANGED <<runs, reading, confirm, raced, edits, clicks, faults, scan>>

Next ==
    \/ ImportNext /\ UNCHANGED scanVars
    \/ \E s \in Scanners : ScanStep(s) \/ CommitTick(s)
    \/ \E t \in DOMAIN tasks : WriteResults(t)

Spec == Init /\ [][Next]_vars

\* The scheduler's loop survives whatever a tick raises, and a confirmation is a running
\* request.  People stop confirming (MaxClicks).
FairSpec ==
    /\ Spec
    /\ WF_vars(ScanStep(Scheduler) \/ CommitTick(Scheduler))
    /\ WF_vars(ConfirmStep /\ UNCHANGED scanVars)

-----------------------------------------------------------------------------
(* Properties. *)

TypeOK ==
    /\ ImportTypeOK
    /\ tasks \in Seq(Task)
    /\ scan \in [Scanners -> [pc : {"idle", "look", "write"}, rows : Seq(Source),
                              found : SUBSET DOMAIN tasks]]

\* source_key has no unique index, so two scans at once can both add a row's task.  There
\* are never more of one key than scanners: once there are two, every lookup raises.
TasksPerKeyBounded ==
    \A t \in DOMAIN tasks :
        Cardinality({u \in DOMAIN tasks : SourceKey(tasks[u]) = SourceKey(tasks[t])})
            <= Cardinality(Scanners)

TwoOfOne ==
    \E t, u \in DOMAIN tasks : t # u /\ SameMoment(tasks[t], tasks[u])

InWindow(d, c) ==
    \E i \in DOMAIN Fetched : Fetched[i].drama = d /\ Fetched[i].cell = c

\* A row of the day gets its task although ticks fail and imports hold the lock, unless
\* it leaves the rows a scan fetches, or two tasks of one drama and moment make every
\* tick raise.
RowsGetTasks ==
    \A d \in Drama, c \in Today :
        InWindow(d, c) ~> \/ \E t \in DOMAIN tasks : SameMoment(tasks[t], [drama |-> d, cell |-> c])
                          \/ ~InWindow(d, c) \/ TwoOfOne

\* Contradicted by the code: results are written into the row of their own drama.
ResultsLandOnOwnRow ==
    \A i \in DOMAIN sheet : sheet[i].mark \in {NoMark, sheet[i].drama}
=============================================================================
