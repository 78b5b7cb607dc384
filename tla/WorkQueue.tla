----------------------------- MODULE WorkQueue -----------------------------
(***************************************************************************)
(* The task queue of the short-drama workbench.  A Control Server (request *)
(* handlers and a scheduler thread) and Automation Worker processes share  *)
(* one SQLite database.                                                    *)
(*                                                                         *)
(* Transactions.  A session reads committed rows without a lock; its first *)
(* INSERT / UPDATE / DELETE takes the single SQLite write lock and keeps   *)
(* it until the commit or rollback (engine.py: WAL, 30 s busy timeout;     *)
(* session.py: autoflush off).  A repository's update() reads the row back *)
(* and assigns every column from the caller's copy; the UPDATE it flushes  *)
(* names the columns in which the two differ.  So a handler whose first    *)
(* write comes after its read is two steps here: a read step that computes *)
(* the row it will store and, whenever the lock is free, a write step.  If *)
(* the handler writes something else first, it reads the item back under   *)
(* the lock and the whole copy replaces what the row has become; if not,   *)
(* it was read back before the wait for the lock, and columns the copy     *)
(* does not change keep what others have stored meanwhile (Stored).        *)
(* A handler that writes something before it reads the item has the lock   *)
(* by then and is one step.  The worker holds the lock from its RUNNING    *)
(* write until the executor has returned and the cycle commits, so the     *)
(* RUNNING row itself is visible to nobody else.                           *)
(***************************************************************************)
EXTENDS Integers, FiniteSets, QueueStates

CONSTANTS
    Workers,      \* worker processes
    Tasks,        \* ids of drama_task rows
    Movable,      \* tasks a scan still finds when their time in the sheet moves
    Items,        \* ids of queue_item rows
    Requests,     \* API handlers / scans that can be in progress at once
    NoWorker, NoTask, NoItem, Free,
    Reports,      \* the outcomes the wired executor can report
    MaxTime,      \* bound on the clock
    LeaseLen,     \* lease_seconds, in clock ticks
    MaxAttempts,  \* max_attempts of recover_expired
    MaxOps        \* bound on what people do: commands, edits of the source sheet

ASSUME WorkQueueAssumption ==
    /\ MaxTime \in Nat /\ LeaseLen \in Nat \ {0}
    /\ MaxAttempts \in Nat /\ MaxOps \in Nat
    /\ NoWorker \notin Workers /\ NoTask \notin Tasks /\ NoItem \notin Items
    /\ Free \notin Workers /\ Movable \subseteq Tasks
    /\ Reports \subseteq {"LINK_EXTRACTED", "LINK_READY", "COMPLETED",
                          "DRY_RUN", "MANUAL_REVIEW", "FAILED"}

VARIABLES
    now,      \* the clock
    task,     \* drama_task: status, available_time, and its task_ledger row
    queue,    \* queue_item, as committed
    lock,     \* who holds the SQLite write lock across steps
    worker,   \* the worker processes' memory
    request,  \* the handlers' memory between their read and their write
    ops       \* commands and sheet edits so far

vars == <<now, task, queue, lock, worker, request, ops>>

Time == 0 .. MaxTime

\* One queue_item row.  uncertain abbreviates failure_code = RESULT_UNCERTAIN
\* without retry_safe, the only test the code makes on these two columns.
\* A lease of 0 is NULL.
Row == [task : Tasks \cup {NoTask}, state : QueueState \cup NoRowState,
        avail : Time, owner : Workers \cup {NoWorker}, lease : Nat,
        attempts : Nat, uncertain : BOOLEAN]

NoRow == [task |-> NoTask, state |-> "ABSENT", avail |-> 0, owner |-> NoWorker,
          lease |-> 0, attempts |-> 0, uncertain |-> FALSE]

NewItem(t, a) == [NoRow EXCEPT !.task = t, !.state = "WAITING_TIME", !.avail = a]

TaskRow == [status : TaskStatus \cup NoRowState, avail : Time, ledger : BOOLEAN]

NoTaskRow == [status |-> "ABSENT", avail |-> 0, ledger |-> FALSE]

\* What a worker process remembers: the item it claimed, its copy of the row,
\* and the due rows it has read but not yet moved to QUEUED.
WorkerMemory == [pc : {"down", "idle", "advancing", "claimed", "running"},
                 item : Items \cup {NoItem}, copy : Row, due : [Items -> Row]]

NothingDue == [i \in Items |-> NoRow]
Memory(pc) == [pc |-> pc, item |-> NoItem, copy |-> NoRow, due |-> NothingDue]

\* What a handler remembers: the command, the row it is about to store, and the
\* row it has read back (NoRow if it will do so under the lock).
Command == {"none", "pause", "resume", "cancel", "retry", "manual", "rearm", "insert"}
RequestMemory == [op : Command, item : Items \cup {NoItem}, row : Row, base : Row]
NoRequest == [op |-> "none", item |-> NoItem, row |-> NoRow, base |-> NoRow]

\* What an UPDATE leaves in a row that now reads current: the columns in which
\* copy differs from base, the row as it was read back, are copy's.
Stored(copy, base, current) ==
    LET Column(c) == IF copy[c] = base[c] THEN current[c] ELSE copy[c] IN
    [task |-> Column("task"), state |-> Column("state"), avail |-> Column("avail"),
     owner |-> Column("owner"), lease |-> Column("lease"),
     attempts |-> Column("attempts"), uncertain |-> Column("uncertain")]

ItemExists(i) == queue[i].state \in QueueState
TaskExists(t) == t \in Tasks /\ task[t].status \in TaskStatus
ItemsOf(t)    == {i \in Items : queue[i].task = t /\ ItemExists(i)}
ActiveOf(t)   == {i \in ItemsOf(t) : queue[i].state \in Active}

Init ==
    /\ now = 0
    /\ task = [t \in Tasks |-> NoTaskRow]
    /\ queue = [i \in Items |-> NoRow]
    /\ lock = Free
    /\ worker = [w \in Workers |-> Memory("down")]
    /\ request = [r \in Requests |-> NoRequest]
    /\ ops = 0

-----------------------------------------------------------------------------
(* Request handlers: task_control_service, and the enqueue of routes/tasks. *)

\* Write a status to the item's task, if the task is still there.
SyncTaskStatus(t, status) ==
    task' = IF TaskExists(t) THEN [task EXCEPT ![t].status = status] ELSE task

Cleared(row) == [row EXCEPT !.owner = NoWorker, !.lease = 0]

\* pause and cancel name the worker they think owns the item.
OwnerNamed(row, w) == row.state \in Taken => row.owner = w

\* Mutant: the claim is cleared but the state stays.
ClaimClearedOnly(row) == Cleared(row)

Paused(row)    == [Cleared(row) EXCEPT !.state = "PAUSED"]
Resumed(row)   == [row EXCEPT !.state = "QUEUED"]
Cancelled(row) == [Cleared(row) EXCEPT !.state = "CANCELLED"]
Requeued(row)  == [Cleared(row) EXCEPT !.state = "QUEUED", !.attempts = 0,
                                       !.uncertain = FALSE]

\* The enqueue of a task whose items are all finished reuses one of them; its
\* failure columns stay as they are.
Rearmed(row, a) == [Cleared(row) EXCEPT !.state = "WAITING_TIME", !.avail = a,
                                        !.attempts = 0]

\* The status each command writes to the task before it stores the item.
StatusOf == [pause |-> "RUNNING", resume |-> "READY", cancel |-> "CANCELLED",
             retry |-> "READY", manual |-> "MANUAL_REVIEW"]

\* The command's first UPDATE is that of the task: its status does change.
WritesTask(op, t) ==
    op \in DOMAIN StatusOf /\ TaskExists(t) /\ task[t].status # StatusOf[op]

\* A handler with a read copy in hand: it will store row over item i.
Prepare(r, op, i, row) ==
    /\ request[r].op = "none"
    /\ request' = [request EXCEPT ![r] =
          [op |-> op, item |-> i, row |-> row,
           base |-> IF i = NoItem \/ WritesTask(op, row.task) THEN NoRow ELSE queue[i]]]
    /\ UNCHANGED <<now, task, queue, lock, worker>>

OperatorCommand == ops < MaxOps /\ ops' = ops + 1

PauseRead(r, i, w) ==
    /\ OperatorCommand
    /\ ItemExists(i) /\ OwnerNamed(queue[i], w)
    /\ CanTransition(queue[i].state, "PAUSED")
    /\ Prepare(r, "pause", i, Paused(queue[i]))

ResumeRead(r, i) ==
    /\ OperatorCommand
    /\ queue[i].state = "PAUSED"
    /\ Prepare(r, "resume", i, Resumed(queue[i]))

CancelRead(r, i, w) ==
    /\ OperatorCommand
    /\ ItemExists(i) /\ OwnerNamed(queue[i], w)
    /\ CanTransition(queue[i].state, "CANCELLED")
    /\ Prepare(r, "cancel", i, Cancelled(queue[i]))

\* An outcome that is uncertain and not reconciled may not be retried.
MayRetry(row) == row.state \in Retryable /\ ~row.uncertain

RetryRead(r, i) ==
    /\ OperatorCommand
    /\ MayRetry(queue[i])
    /\ Prepare(r, "retry", i, Requeued(queue[i]))

\* The statuses from which an enqueue restarts the task.
Restartable == {"DRY_RUN", "COMPLETED", "CANCELLED"}

\* Enqueue of a task whose own row needs no change: the items are read before
\* any lock is held.  No active item: reuse a finished one or insert a row.
EnqueueRead(r, t) ==
    /\ OperatorCommand
    /\ TaskExists(t) /\ task[t].status \notin Restartable
    /\ \/ \E i \in ActiveOf(t) :
             MayRetry(queue[i]) /\ Prepare(r, "retry", i, Requeued(queue[i]))
       \/ /\ ActiveOf(t) = {}
          /\ \E i \in ItemsOf(t) :
                Prepare(r, "rearm", i, Rearmed(queue[i], task[t].avail))
       \/ /\ ItemsOf(t) = {}
          /\ Prepare(r, "insert", NoItem, NewItem(t, task[t].avail))

\* Enqueue of a task whose status or target stage changes: the UPDATE of the
\* task takes the lock first, so the items are read under it.
EnqueueLocked(t) ==
    /\ OperatorCommand
    /\ lock = Free /\ TaskExists(t)
    /\ LET restarted == IF task[t].status \in Restartable
                        THEN "WAITING_TIME" ELSE task[t].status
       IN \/ \E i \in ActiveOf(t) :
                /\ MayRetry(queue[i])
                /\ queue' = [queue EXCEPT ![i] = Requeued(queue[i])]
                /\ task' = [task EXCEPT ![t].status = "READY"]
          \/ /\ ActiveOf(t) = {}
             /\ task' = [task EXCEPT ![t].status = restarted]
             /\ \/ \E i \in ItemsOf(t) :
                      queue' = [queue EXCEPT ![i] = Rearmed(queue[i], task[t].avail)]
                \/ /\ ItemsOf(t) = {}
                   /\ \E i \in Items :
                        /\ queue[i].state = "ABSENT"
                        /\ queue' = [queue EXCEPT ![i] = NewItem(t, task[t].avail)]
    /\ UNCHANGED <<now, lock, worker, request>>

\* The operator confirms a drama candidate: the task row is written first.
ConfirmDramaMatch(t) ==
    /\ OperatorCommand
    /\ lock = Free /\ TaskExists(t)
    /\ \E i \in ItemsOf(t) :
          /\ queue[i].state = "MANUAL_REVIEW" /\ MayRetry(queue[i])
          /\ queue' = [queue EXCEPT ![i] = Requeued(queue[i])]
    /\ task' = [task EXCEPT ![t].status = "READY"]
    /\ UNCHANGED <<now, lock, worker, request>>

\* The handler's write step with the task's status first: the whole row.
StoreBoth(r) ==
    LET q == request[r] IN
    /\ q.op \in DOMAIN StatusOf /\ q.base = NoRow
    /\ lock = Free /\ ItemExists(q.item)
    /\ queue' = [queue EXCEPT ![q.item] = q.row]
    /\ SyncTaskStatus(q.row.task, StatusOf[q.op])
    /\ request' = [request EXCEPT ![r] = NoRequest]
    /\ UNCHANGED <<now, lock, worker, ops>>

\* With the item first: what others committed came before or after it was read
\* back.  A re-armed row names its time in any case: the stored one has no zone,
\* so the two never compare equal.
StoreItem(r) ==
    LET q == request[r] IN
    /\ q.op \notin {"none", "insert"} /\ q.base # NoRow
    /\ lock = Free /\ ItemExists(q.item)
    /\ \E base \in {q.base, queue[q.item]} :
          LET row == Stored(q.row, base, queue[q.item]) IN
          queue' = [queue EXCEPT ![q.item] =
                      IF q.op = "rearm" THEN [row EXCEPT !.avail = q.row.avail] ELSE row]
    /\ request' = [request EXCEPT ![r] = NoRequest]
    /\ UNCHANGED <<now, task, lock, worker, ops>>

\* The INSERT needs its task (foreign_keys=ON).
InsertItem(r) ==
    /\ request[r].op = "insert"
    /\ lock = Free /\ TaskExists(request[r].row.task)
    /\ \E i \in Items : /\ queue[i].state = "ABSENT"
                        /\ queue' = [queue EXCEPT ![i] = request[r].row]
    /\ request' = [request EXCEPT ![r] = NoRequest]
    /\ UNCHANGED <<now, task, lock, worker, ops>>

\* "database is locked" after 30 s, the row is gone, or the client gave up.
RequestFails(r) ==
    /\ request[r].op # "none"
    /\ request' = [request EXCEPT ![r] = NoRequest]
    /\ UNCHANGED <<now, task, queue, lock, worker, ops>>

-----------------------------------------------------------------------------
(* Task creation, deletion, and the scheduler's scan of one source row.    *)

CreateTask(t, a) ==
    /\ OperatorCommand
    /\ lock = Free /\ task[t].status = "ABSENT"
    /\ task' = [task EXCEPT ![t].status = "WAITING_TIME", ![t].avail = a]
    /\ UNCHANGED <<now, queue, lock, worker, request>>

DeleteTask(t) ==
    /\ OperatorCommand
    /\ lock = Free /\ TaskExists(t)
    /\ task' = [task EXCEPT ![t] = [NoTaskRow EXCEPT !.status = "GONE"]]
    /\ queue' = [i \in Items |-> IF queue[i].task = t /\ ItemExists(i)
                                 THEN [NoRow EXCEPT !.state = "GONE"] ELSE queue[i]]
    /\ UNCHANGED <<now, lock, worker, request>>

\* A source row that has no task yet: the task and its item in one transaction.
ScanNew(t, a) ==
    /\ lock = Free /\ task[t].status = "ABSENT"
    /\ task' = [task EXCEPT ![t].status = "WAITING_TIME", ![t].avail = a]
    /\ \E i \in Items : /\ queue[i].state = "ABSENT"
                        /\ queue' = [queue EXCEPT ![i] = NewItem(t, a)]
    /\ UNCHANGED <<now, lock, worker, request, ops>>

\* A source row that has a task: the UPDATE of the task comes first and is never
\* empty (available_time is stored without a zone, so it never compares equal).
\* source_key holds the time cell, so a row whose time moved has a new key and
\* gets a new task (ScanNew); only a task whose id is the sheet row, or that was
\* created by hand under the same key, is found again with another time.
ScanKnown(t, a) ==
    /\ IF task[t].avail = a THEN UNCHANGED ops ELSE t \in Movable /\ OperatorCommand
    /\ lock = Free /\ TaskExists(t)
    /\ task' = [task EXCEPT ![t].avail = a]
    /\ \/ /\ task[t].status # "DRY_RUN"
          /\ \E i \in ActiveOf(t) :
                /\ queue[i].state = "WAITING_TIME"
                /\ queue' = [queue EXCEPT ![i].avail = a]
       \/ /\ task[t].status # "DRY_RUN" /\ ItemsOf(t) = {}
          /\ \E i \in Items : /\ queue[i].state = "ABSENT"
                              /\ queue' = [queue EXCEPT ![i] = NewItem(t, a)]
       \/ /\ \/ task[t].status = "DRY_RUN"
             \/ ActiveOf(t) = {} /\ ItemsOf(t) # {}
             \/ \E i \in ActiveOf(t) : queue[i].state # "WAITING_TIME"
          /\ UNCHANGED queue
    /\ UNCHANGED <<now, lock, worker, request>>

-----------------------------------------------------------------------------
(* The worker: one cycle is read due, advance and claim, execute, commit.  *)

StartWorker(w) ==
    /\ worker[w].pc = "down"
    /\ worker' = [worker EXCEPT ![w] = Memory("idle")]
    /\ UNCHANGED <<now, task, queue, lock, request, ops>>

\* Mutant: every waiting row counts as due.
ReadAllWaiting(w) ==
    /\ worker[w].pc = "idle"
    /\ worker' = [worker EXCEPT ![w] =
         [Memory("advancing") EXCEPT
            !.due = [i \in Items |-> IF queue[i].state = "WAITING_TIME"
                                     THEN queue[i] ELSE NoRow]]]
    /\ UNCHANGED <<now, task, queue, lock, request, ops>>

ReadDue(w) ==
    /\ worker[w].pc = "idle"
    /\ worker' = [worker EXCEPT ![w] =
         [Memory("advancing") EXCEPT
            !.due = [i \in Items |->
                       IF queue[i].state = "WAITING_TIME" /\ queue[i].avail <= now
                       THEN queue[i] ELSE NoRow]]]
    /\ UNCHANGED <<now, task, queue, lock, request, ops>>

\* Mutant: the due copies are changed but never stored.
AdvancedInMemory(w, first, base) == queue

\* The rows after every due copy was written back as QUEUED.  The first of them is
\* read back, as base, before the lock is held.
Advanced(w, first, base) ==
    [i \in Items |->
       LET due    == worker[w].due[i]
           queued == [due EXCEPT !.state = "QUEUED"]
       IN  IF due.state # "WAITING_TIME" THEN queue[i]
           ELSE IF i = first THEN Stored(queued, base, queue[i]) ELSE queued]

DueStillThere(w) ==
    \A i \in Items : worker[w].due[i].state = "WAITING_TIME" => ItemExists(i)

\* Mutant: takes a row only the first time it is tried.
NextFreshInLine(q, i) ==
    /\ q[i].state = "QUEUED" /\ task[q[i].task].status = "WAITING_TIME"
    /\ \A j \in Items : q[j].state = "QUEUED" => q[i].avail <= q[j].avail

\* priority is 0 everywhere, so the order is available_at and then the uuid.
NextInLine(q, i) ==
    /\ q[i].state = "QUEUED"
    /\ \A j \in Items : q[j].state = "QUEUED" => q[i].avail <= q[j].avail

Claimed(row, w) == [row EXCEPT !.state = "CLAIMED", !.owner = w,
                               !.lease = now + LeaseLen]

AdvanceAndClaim(w) ==
    /\ worker[w].pc = "advancing" /\ lock = Free /\ DueStillThere(w)
    /\ \E first \in Items : \E base \in {worker[w].due[first], queue[first]} :
       LET q == Advanced(w, first, base) IN
       \/ \E i \in Items :
             /\ NextInLine(q, i)
             /\ queue' = [q EXCEPT ![i] = Claimed(q[i], w)]
             /\ worker' = [worker EXCEPT ![w] =
                  [Memory("claimed") EXCEPT !.item = i, !.copy = Claimed(q[i], w)]]
       \/ /\ \A i \in Items : q[i].state # "QUEUED"
          /\ queue' = q
          /\ worker' = [worker EXCEPT ![w] = Memory("idle")]
    /\ UNCHANGED <<now, task, lock, request, ops>>

\* Any exception in the cycle rolls it back: what was committed stays.
CycleFails(w) ==
    /\ worker[w].pc \in {"advancing", "claimed", "running"}
    /\ worker' = [worker EXCEPT ![w] = Memory("idle")]
    /\ lock' = IF lock = w THEN Free ELSE lock
    /\ UNCHANGED <<now, task, queue, request, ops>>

\* Mutant: the RUNNING row gets a transaction of its own, so the lock is free
\* again while the executor works.
CommitRunningFirst(w) ==
    /\ worker[w].pc = "claimed" /\ lock = Free
    /\ ItemExists(worker[w].item) /\ TaskExists(worker[w].copy.task)
    /\ worker' = [worker EXCEPT ![w].pc = "running", ![w].copy.state = "RUNNING"]
    /\ queue' = [queue EXCEPT ![worker[w].item] =
                    [worker[w].copy EXCEPT !.state = "RUNNING"]]
    /\ UNCHANGED <<now, task, lock, request, ops>>

\* process_claimed trusts the copy taken at the claim: it stores it as RUNNING
\* over the row and calls the executor inside the same transaction.
BeginExecution(w) ==
    /\ worker[w].pc = "claimed" /\ lock = Free
    /\ ItemExists(worker[w].item) /\ TaskExists(worker[w].copy.task)
    /\ lock' = w
    /\ worker' = [worker EXCEPT ![w].pc = "running", ![w].copy.state = "RUNNING"]
    /\ UNCHANGED <<now, task, queue, request, ops>>

\* The item state a reported outcome leads to; the task takes the report itself.
ItemStateFor(report) ==
    IF report \in {"LINK_EXTRACTED", "LINK_READY"} THEN "COMPLETED" ELSE report

\* Mutant: the task's status is not written.
FinishLeavesTask(w, report, uncertain) ==
    /\ worker[w].pc = "running"
    /\ uncertain => report \in {"MANUAL_REVIEW", "FAILED"}
    /\ queue' = [queue EXCEPT ![worker[w].item] =
          [worker[w].copy EXCEPT !.state = ItemStateFor(report), !.uncertain = uncertain]]
    /\ lock' = Free
    /\ worker' = [worker EXCEPT ![w] = Memory("idle")]
    /\ UNCHANGED <<now, task, request, ops>>

\* Mutant: completion updates both rows but writes no ledger.
FinishWithoutLedger(w, report, uncertain) ==
    LET mine == worker[w] IN
    /\ mine.pc = "running"
    /\ uncertain => report \in {"MANUAL_REVIEW", "FAILED"}
    /\ queue' = [queue EXCEPT ![mine.item] =
          [mine.copy EXCEPT !.state = ItemStateFor(report), !.uncertain = uncertain]]
    /\ task' = [task EXCEPT ![mine.copy.task].status = report]
    /\ lock' = Free
    /\ worker' = [worker EXCEPT ![w] = Memory("idle")]
    /\ UNCHANGED <<now, request, ops>>

\* The executor has returned (an exception in it is a MANUAL_REVIEW report): the
\* final rows and the commit.  Completion leaves the failure columns alone, the
\* other outcomes overwrite them; the owner and the lease stay in the row.
FinishExecution(w, report, uncertain) ==
    LET mine == worker[w] IN
    /\ mine.pc = "running"
    /\ uncertain => report \in {"MANUAL_REVIEW", "FAILED"}
    /\ queue' = [queue EXCEPT ![mine.item] =
          [mine.copy EXCEPT
             !.state = ItemStateFor(report),
             !.uncertain = IF report = "COMPLETED" THEN @ ELSE uncertain]]
    /\ task' = [task EXCEPT ![mine.copy.task].status = report,
                            ![mine.copy.task].ledger = @ \/ report = "COMPLETED"]
    /\ lock' = Free
    /\ worker' = [worker EXCEPT ![w] = Memory("idle")]
    /\ UNCHANGED <<now, request, ops>>

\* The process dies (kill -9, or the restart endpoint): SQLite rolls back.
Crash(w) ==
    /\ worker[w].pc # "down"
    /\ worker' = [worker EXCEPT ![w] = Memory("down")]
    /\ lock' = IF lock = w THEN Free ELSE lock
    /\ UNCHANGED <<now, task, queue, request, ops>>

Tick ==
    /\ now < MaxTime
    /\ now' = now + 1
    /\ UNCHANGED <<task, queue, lock, worker, request, ops>>

-----------------------------------------------------------------------------
(* Services that exist and are tested but that no process calls.            *)

\* Mutant: only RUNNING rows, which are never committed, count as expired.
ExpiredRunning(i) ==
    queue[i].state = "RUNNING" /\ queue[i].lease # 0 /\ queue[i].lease < now

Expired(i) == queue[i].state \in Taken /\ queue[i].lease # 0 /\ queue[i].lease < now

RecoverExpired ==
    /\ lock = Free /\ \E i \in Items : Expired(i)
    /\ queue' = [i \in Items |->
         IF ~Expired(i) THEN queue[i]
         ELSE [Cleared(queue[i]) EXCEPT
                 !.attempts = @ + 1,
                 !.state = IF queue[i].attempts + 1 <= MaxAttempts
                           THEN "QUEUED" ELSE "MANUAL_REVIEW"]]
    /\ UNCHANGED <<now, task, lock, worker, request, ops>>

ReleaseClaimed(i, w) ==
    /\ OperatorCommand
    /\ lock = Free /\ queue[i].state \in Taken /\ queue[i].owner = w
    /\ queue' = [queue EXCEPT ![i] = [Cleared(queue[i]) EXCEPT !.state = "QUEUED"]]
    /\ UNCHANGED <<now, task, lock, worker, request>>

ManualReviewRead(r, i, w) ==
    /\ OperatorCommand
    /\ queue[i].state \in Taken /\ OwnerNamed(queue[i], w)
    /\ CanTransition(queue[i].state, "MANUAL_REVIEW")
    /\ Prepare(r, "manual", i, [Cleared(queue[i]) EXCEPT !.state = "MANUAL_REVIEW"])

-----------------------------------------------------------------------------
OperatorNext ==
    \/ \E r \in Requests, i \in Items :
          \/ ResumeRead(r, i)
          \/ RetryRead(r, i)
          \/ \E w \in Workers : PauseRead(r, i, w) \/ CancelRead(r, i, w)
    \/ \E r \in Requests, t \in Tasks : EnqueueRead(r, t)
    \/ \E t \in Tasks :
          \/ EnqueueLocked(t)
          \/ ConfirmDramaMatch(t)
          \/ DeleteTask(t)
          \/ \E a \in Time : CreateTask(t, a)

HandlerNext ==
    \E r \in Requests : StoreBoth(r) \/ StoreItem(r) \/ InsertItem(r) \/ RequestFails(r)

SchedulerNext ==
    \E t \in Tasks, a \in Time : ScanNew(t, a) \/ ScanKnown(t, a)

Finish(w) == \E report \in Reports, u \in BOOLEAN : FinishExecution(w, report, u)

WorkerNext ==
    \E w \in Workers :
       \/ StartWorker(w) \/ ReadDue(w) \/ AdvanceAndClaim(w)
       \/ BeginExecution(w) \/ Finish(w) \/ CycleFails(w) \/ Crash(w)

Next == OperatorNext \/ HandlerNext \/ SchedulerNext \/ WorkerNext \/ Tick

\* The services as their docstrings and the workflow document describe them.
ServiceNext ==
    \/ RecoverExpired
    \/ \E i \in Items, w \in Workers :
          \/ ReleaseClaimed(i, w)
          \/ \E r \in Requests : ManualReviewRead(r, i, w)

Spec == Init /\ [][Next]_vars

\* The system with the unused services running as well.
ServiceSpec == Init /\ [][Next \/ ServiceNext]_vars

\* The worker loop keeps polling and its process is started again; a handler
\* that read its row goes on to write it; time passes.  A cycle may fail and a
\* process may crash again and again, but not every time its claim could have
\* gone through.  Nothing is assumed of operators or of the scheduler.
CycleFairness ==
    /\ WF_vars(Tick)
    /\ \A w \in Workers :
          /\ WF_vars(StartWorker(w)) /\ SF_vars(ReadDue(w))
          /\ SF_vars(AdvanceAndClaim(w))
          /\ WF_vars(BeginExecution(w)) /\ WF_vars(Finish(w))
    /\ \A r \in Requests : WF_vars(StoreBoth(r) \/ StoreItem(r) \/ InsertItem(r))

FairSpec == Spec /\ CycleFairness
FairServiceSpec == ServiceSpec /\ CycleFairness

-----------------------------------------------------------------------------
(* Properties.                                                              *)

\* Every variable holds a value of its kind.
TypeOK ==
    /\ now \in Time
    /\ task \in [Tasks -> TaskRow]
    /\ queue \in [Items -> Row]
    /\ lock \in Workers \cup {Free}
    /\ worker \in [Workers -> WorkerMemory]
    /\ request \in [Requests -> RequestMemory]
    /\ ops \in 0 .. MaxOps

\* Browser work is serial: however many worker processes run, at most one is
\* inside an executor, because process_claimed has written the RUNNING row and
\* so holds the write lock (worker_execution.py:82-90).
PlatformWritesSerial ==
    \A v, w \in Workers :
        worker[v].pc = "running" /\ worker[w].pc = "running" => v = w

\* RUNNING is never a committed queue state: no handler, scan or other worker
\* can read a row in it, and a crash leaves the row as it was before.
RunningNeverCommitted == \A i \in Items : queue[i].state # "RUNNING"

\* A claimed row names its worker and its lease, whichever stale copies and
\* columns were stored on the way.
ClaimsAreOwned ==
    \A i \in Items :
        queue[i].state = "CLAIMED" => queue[i].owner \in Workers /\ queue[i].lease # 0

AgreesWithTask(i) == task[queue[i].task].status \in StatusFor[queue[i].state]

\* An execution's result is never seen in one of the two rows only: as long as a
\* task has a single item, an item that carries a result sits next to a task with
\* the matching status, across crashes, rollbacks and stale writes.
ResultMatchesTask ==
    \A i \in Items :
        queue[i].state \in Result /\ ItemsOf(queue[i].task) = {i} => AgreesWithTask(i)

\* A task that reads COMPLETED has its ledger row, the lasting record the
\* completion service writes in the same transaction (completion_service.py).
CompletedHasLedger ==
    \A t \in Tasks : task[t].status = "COMPLETED" => task[t].ledger

Started == QueueState \ {"WAITING_TIME"}

\* Nothing is queued, claimed or finished before its available time, as long as
\* that time cannot move: source_key holds the time cell (source_key.py:18-33).
NothingEarly ==
    \A i \in Items :
        queue[i].state \in Started /\ queue[i].task \notin Movable => queue[i].avail <= now

\* The abandoned-item rule of full-workflow.md:60: a row that was claimed by a
\* worker that then died, or rolled its cycle back, leaves that claim again.
AbandonedClaimReturns ==
    \A i \in Items, l \in 1 .. (MaxTime - 1) :
        (queue[i].state = "CLAIMED" /\ queue[i].lease = l)
            ~> ~(queue[i].state = "CLAIMED" /\ queue[i].lease = l)

\* It does if recover_expired is run again and again (recovery_service.py), in
\* spite of workers that go on with a claim that was taken away from them.
ExpiredClaimRecovered == WF_vars(RecoverExpired) => AbandonedClaimReturns

\* The worker keeps up: what is queued does not stay queued, in spite of
\* failing cycles, crashes and restarts (automation_worker.py:101-197).
QueuedIsServed ==
    \A i \in Items : queue[i].state = "QUEUED" ~> queue[i].state # "QUEUED"

\* An item leaves WAITING_TIME once the time it waits for has come, even if the
\* scheduler moves that time meanwhile (queue_cycle.py:18-36).
WaitingIsAdvanced ==
    \A i \in Items : queue[i].state = "WAITING_TIME" ~> queue[i].state # "WAITING_TIME"

-----------------------------------------------------------------------------
(* What the repository says and the deployed code does not keep; see README. *)

\* A worker executes only an item that is still its own: a pause or cancel the
\* API accepted before the execution began is not overruled (pause_task and
\* cancel_task accept CLAIMED items; process_claimed, "only CLAIMED runs").
WorkerHonoursCommands ==
    \A w \in Workers :
        worker[w].pc = "running" =>
            LET row == queue[worker[w].item]
            IN  row.state = "CLAIMED" /\ row.owner = w

\* A finished item moves only when it is enqueued again or deleted.
TerminalIsFinal ==
    [][\A i \in Items :
          queue[i].state \in Terminal =>
              queue'[i].state \in {queue[i].state, "WAITING_TIME", "GONE"}]_vars

\* An item marked RESULT_UNCERTAIN and not reconciled is not executed again.
UncertainNotResubmitted ==
    \A w \in Workers :
        worker[w].pc = "running" => ~worker[w].copy.uncertain

\* Two live workers never hold the same item.
NoDoubleClaim ==
    \A v, w \in Workers :
        v # w /\ worker[v].pc = "claimed" => worker[v].item # worker[w].item
=============================================================================
