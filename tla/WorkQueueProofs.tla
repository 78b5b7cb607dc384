-------------------------- MODULE WorkQueueProofs --------------------------
(***************************************************************************)
(* Theorems about WorkQueue, for any sets of workers, tasks, items and     *)
(* requests and any bounds.  The steps considered are those of             *)
(* Next \/ ServiceNext, so they hold of the deployed system and of the one *)
(* in which the unused services run as well.                               *)
(***************************************************************************)
EXTENDS WorkQueue, TLAPS

-----------------------------------------------------------------------------
(* What the row operators return.                                           *)

LEMMA Numbers ==
  /\ 0 \in Time /\ MaxOps \in Nat
  /\ \A x \in Time : x + LeaseLen \in Nat /\ x + LeaseLen # 0
  /\ \A x \in Time : x < MaxTime => x + 1 \in Time
  BY WorkQueueAssumption DEF Time

LEMMA CommandRowsType ==
  ASSUME NEW row \in Row, NEW a \in Time
  PROVE  /\ Cleared(row) \in Row
         /\ Paused(row) \in Row /\ Resumed(row) \in Row
         /\ Cancelled(row) \in Row /\ Requeued(row) \in Row
         /\ Rearmed(row, a) \in Row
         /\ [Cleared(row) EXCEPT !.state = "MANUAL_REVIEW"] \in Row
         /\ [Cleared(row) EXCEPT !.state = "QUEUED"] \in Row
         /\ [row EXCEPT !.avail = a] \in Row
         /\ [row EXCEPT !.state = "QUEUED"] \in Row
  BY DEF Cleared, Row, Paused, Resumed, Cancelled, Requeued, Rearmed, QueueState

\* An UPDATE never leaves a column with a value that neither copy had.
LEMMA StoredType ==
  ASSUME NEW copy \in Row, NEW base, NEW current \in Row
  PROVE  Stored(copy, base, current) \in Row
  BY DEF Stored, Row

LEMMA NoRowType == NoRow \in Row /\ NoTaskRow \in TaskRow
  BY Numbers DEF NoRow, Row, NoRowState, NoTaskRow, TaskRow

LEMMA GoneType == [NoRow EXCEPT !.state = "GONE"] \in Row /\ [NoTaskRow EXCEPT !.status = "GONE"] \in TaskRow
  BY NoRowType DEF Row, NoRowState, TaskRow

LEMMA NewItemType ==
  ASSUME NEW t \in Tasks, NEW a \in Time PROVE NewItem(t, a) \in Row
  BY NoRowType DEF NewItem, Row, QueueState

LEMMA ClaimedRowType ==
  ASSUME NEW row \in Row, NEW w \in Workers, now + LeaseLen \in Nat
  PROVE  Claimed(row, w) \in Row
  BY DEF Claimed, Row, QueueState

LEMMA ClaimedType ==
  ASSUME NEW row \in Row, NEW w \in Workers, now \in Time
  PROVE  Claimed(row, w) \in Row
<1>1. now + LeaseLen \in Nat
  BY Numbers
<1> QED
  BY <1>1, ClaimedRowType

LEMMA RecoveredType ==
  ASSUME NEW row \in Row, NEW s \in QueueState
  PROVE  [Cleared(row) EXCEPT !.attempts = @ + 1, !.state = s] \in Row
<1>1. Cleared(row) \in Row
  BY CommandRowsType, Numbers
<1>2. Cleared(row).attempts + 1 \in Nat
  BY <1>1 DEF Row
<1>3. ASSUME NEW c \in Row, NEW n \in Nat
      PROVE  [c EXCEPT !.attempts = n, !.state = s] \in Row
  BY DEF Row
<1> QED
  BY <1>1, <1>2, <1>3

LEMMA MemoryType ==
  ASSUME NEW pc \in {"down", "idle", "advancing", "claimed", "running"}
  PROVE  Memory(pc) \in WorkerMemory
  BY NoRowType DEF Memory, WorkerMemory, NothingDue

LEMMA NoRequestType == NoRequest \in RequestMemory
  BY NoRowType DEF NoRequest, RequestMemory, Command

LEMMA PrepareType ==
  ASSUME TypeOK, NEW r \in Requests, NEW op \in Command,
         NEW i \in Items \cup {NoItem}, NEW row \in Row, Prepare(r, op, i, row),
         ops' \in 0 .. MaxOps
  PROVE  TypeOK'
<1> DEFINE base == IF i = NoItem \/ WritesTask(op, row.task) THEN NoRow ELSE queue[i]
<1>1. base \in Row
  BY NoRowType DEF TypeOK
<1>2. request' = [request EXCEPT ![r] = [op |-> op, item |-> i, row |-> row, base |-> base]]
  BY DEF Prepare
<1> HIDE DEF base
<1> QED
  BY <1>1, <1>2 DEF TypeOK, Prepare, RequestMemory

LEMMA OperatorCommandType ==
  ASSUME TypeOK, OperatorCommand PROVE ops' \in 0 .. MaxOps
  BY Numbers DEF TypeOK, OperatorCommand

LEMMA StatusType ==
  ASSUME task \in [Tasks -> TaskRow], NEW t, NEW s \in TaskStatus,
         SyncTaskStatus(t, s)
  PROVE  task' \in [Tasks -> TaskRow]
  BY DEF SyncTaskStatus, TaskExists, TaskRow
-----------------------------------------------------------------------------
(* Each kind of step keeps the types.                                       *)

LEMMA OperatorKeepsTypes ==
  ASSUME TypeOK, OperatorNext PROVE TypeOK'
<1> USE DEF TypeOK
<1>1. ASSUME NEW r \in Requests, NEW i \in Items, ResumeRead(r, i) PROVE TypeOK'
  <2>1. queue[i] \in Row /\ ops' \in 0 .. MaxOps
    BY <1>1, OperatorCommandType DEF ResumeRead
  <2> QED
    BY <1>1, <2>1, CommandRowsType, Numbers, PrepareType DEF ResumeRead, Command
<1>2. ASSUME NEW r \in Requests, NEW i \in Items, RetryRead(r, i) PROVE TypeOK'
  <2>1. queue[i] \in Row /\ ops' \in 0 .. MaxOps
    BY <1>2, OperatorCommandType DEF RetryRead
  <2> QED
    BY <1>2, <2>1, CommandRowsType, Numbers, PrepareType DEF RetryRead, Command
<1>3. ASSUME NEW r \in Requests, NEW i \in Items, NEW w \in Workers,
             PauseRead(r, i, w) \/ CancelRead(r, i, w)
      PROVE  TypeOK'
  <2>1. queue[i] \in Row /\ ops' \in 0 .. MaxOps
    BY <1>3, OperatorCommandType DEF PauseRead, CancelRead
  <2> QED
    BY <1>3, <2>1, CommandRowsType, Numbers, PrepareType
       DEF PauseRead, CancelRead, Command
<1>4. ASSUME NEW r \in Requests, NEW t \in Tasks, EnqueueRead(r, t) PROVE TypeOK'
  <2>1. ops' \in 0 .. MaxOps /\ task[t].avail \in Time
    BY <1>4, OperatorCommandType DEF EnqueueRead, TaskRow
  <2>2. NewItem(t, task[t].avail) \in Row
    BY <2>1, NewItemType
  <2>3. \A i \in Items : Requeued(queue[i]) \in Row /\ Rearmed(queue[i], task[t].avail) \in Row
    BY <2>1, CommandRowsType
  <2> QED
    BY <1>4, <2>1, <2>2, <2>3, PrepareType DEF EnqueueRead, Command, ActiveOf, ItemsOf
<1>5. ASSUME NEW t \in Tasks, EnqueueLocked(t) PROVE TypeOK'
  <2>1. ops' \in 0 .. MaxOps /\ task[t].avail \in Time
    BY <1>5, OperatorCommandType DEF EnqueueLocked, TaskRow
  <2>2. NewItem(t, task[t].avail) \in Row
    BY <2>1, NewItemType
  <2>3. \A i \in Items : Requeued(queue[i]) \in Row /\ Rearmed(queue[i], task[t].avail) \in Row
    BY <2>1, CommandRowsType
  <2>4. queue' \in [Items -> Row]
    BY <1>5, <2>2, <2>3 DEF EnqueueLocked, ActiveOf, ItemsOf
  <2>5. task' \in [Tasks -> TaskRow]
    BY <1>5 DEF EnqueueLocked, TaskRow, TaskStatus
  <2> QED
    BY <1>5, <2>1, <2>4, <2>5 DEF EnqueueLocked
<1>6. ASSUME NEW t \in Tasks, ConfirmDramaMatch(t) PROVE TypeOK'
  <2>1. ops' \in 0 .. MaxOps
    BY <1>6, OperatorCommandType DEF ConfirmDramaMatch
  <2>2. \A i \in Items : Requeued(queue[i]) \in Row
    BY Numbers, CommandRowsType
  <2>3. task' \in [Tasks -> TaskRow]
    BY <1>6 DEF ConfirmDramaMatch, TaskRow, TaskStatus
  <2> QED
    BY <1>6, <2>1, <2>2, <2>3 DEF ConfirmDramaMatch, ItemsOf
<1>7. ASSUME NEW t \in Tasks, DeleteTask(t) PROVE TypeOK'
  <2>1. ops' \in 0 .. MaxOps
    BY <1>7, OperatorCommandType DEF DeleteTask
  <2> QED
    BY <1>7, <2>1, GoneType DEF DeleteTask
<1>8. ASSUME NEW t \in Tasks, NEW a \in Time, CreateTask(t, a) PROVE TypeOK'
  <2>1. ops' \in 0 .. MaxOps
    BY <1>8, OperatorCommandType DEF CreateTask
  <2> QED
    BY <1>8, <2>1 DEF CreateTask, TaskRow, TaskStatus
<1> QED
  BY <1>1, <1>2, <1>3, <1>4, <1>5, <1>6, <1>7, <1>8 DEF OperatorNext

LEMMA HandlerKeepsTypes ==
  ASSUME TypeOK, HandlerNext PROVE TypeOK'
<1> USE DEF TypeOK
<1> PICK r \in Requests : StoreBoth(r) \/ StoreItem(r) \/ InsertItem(r) \/ RequestFails(r)
  BY DEF HandlerNext
<1> DEFINE q == request[r]
<1>1. q.row \in Row /\ q.item \in Items \cup {NoItem} /\ q.base \in Row
  BY DEF RequestMemory
<1>2. CASE StoreBoth(r)
  <2>1. task' \in [Tasks -> TaskRow]
    BY <1>2, StatusType DEF StoreBoth, StatusOf, TaskStatus
  <2> QED
    BY <1>1, <1>2, <2>1, NoRequestType DEF StoreBoth
<1>3. CASE StoreItem(r)
  <2> PICK base \in {q.base, queue[q.item]} :
        LET row == Stored(q.row, base, queue[q.item]) IN
        queue' = [queue EXCEPT ![q.item] =
                    IF q.op = "rearm" THEN [row EXCEPT !.avail = q.row.avail] ELSE row]
    BY <1>3 DEF StoreItem
  <2> DEFINE row == Stored(q.row, base, queue[q.item])
  <2>1. q.item \in Items => row \in Row
    BY <1>1, StoredType
  <2>2. q.item \in Items => [row EXCEPT !.avail = q.row.avail] \in Row
    BY <1>1, <2>1, CommandRowsType DEF Row
  <2> HIDE DEF row
  <2>3. queue' \in [Items -> Row]
    BY <2>1, <2>2 DEF row
  <2> QED
    BY <1>3, <2>3, NoRequestType DEF StoreItem
<1>4. CASE InsertItem(r)
  BY <1>1, <1>4, NoRequestType DEF InsertItem
<1>5. CASE RequestFails(r)
  BY <1>5, NoRequestType DEF RequestFails
<1> QED
  BY <1>2, <1>3, <1>4, <1>5

LEMMA SchedulerKeepsTypes ==
  ASSUME TypeOK, SchedulerNext PROVE TypeOK'
<1> USE DEF TypeOK
<1>1. ASSUME NEW t \in Tasks, NEW a \in Time, ScanNew(t, a) PROVE TypeOK'
  BY <1>1, NewItemType, ZenonT(60) DEF ScanNew, TaskRow, TaskStatus
<1>2. ASSUME NEW t \in Tasks, NEW a \in Time, ScanKnown(t, a) PROVE TypeOK'
  <2>1. ops' \in 0 .. MaxOps
    BY <1>2, OperatorCommandType DEF ScanKnown
  <2>2. NewItem(t, a) \in Row /\ \A i \in Items : [queue[i] EXCEPT !.avail = a] \in Row
    BY NewItemType, CommandRowsType
  <2>3. queue' \in [Items -> Row]
    BY <1>2, <2>2 DEF ScanKnown, ActiveOf, ItemsOf
  <2> QED
    BY <1>2, <2>1, <2>3 DEF ScanKnown, TaskRow
<1> QED
  BY <1>1, <1>2 DEF SchedulerNext

LEMMA WorkerKeepsTypes ==
  ASSUME TypeOK, WorkerNext PROVE TypeOK'
<1> USE DEF TypeOK
<1> PICK w \in Workers :
         \/ StartWorker(w) \/ ReadDue(w) \/ AdvanceAndClaim(w)
         \/ BeginExecution(w) \/ Finish(w) \/ CycleFails(w) \/ Crash(w)
  BY DEF WorkerNext
<1>1. /\ worker[w] \in WorkerMemory
      /\ worker[w].copy \in Row
      /\ \A i \in Items : worker[w].due[i] \in Row
  BY DEF WorkerMemory
<1>2. CASE StartWorker(w)
  BY <1>2, MemoryType DEF StartWorker
<1>3. CASE ReadDue(w)
  <2> DEFINE due == [i \in Items |->
                       IF queue[i].state = "WAITING_TIME" /\ queue[i].avail <= now
                       THEN queue[i] ELSE NoRow]
  <2>1. due \in [Items -> Row]
    BY NoRowType
  <2>2. [Memory("advancing") EXCEPT !.due = due] \in WorkerMemory
    BY <2>1, MemoryType DEF WorkerMemory
  <2> QED
    BY <1>3, <2>2 DEF ReadDue
<1>4. CASE AdvanceAndClaim(w)
  <2> PICK first \in Items : \E base \in {worker[w].due[first], queue[first]} :
        LET q == Advanced(w, first, base) IN
        \/ \E i \in Items :
              /\ queue' = [q EXCEPT ![i] = Claimed(q[i], w)]
              /\ worker' = [worker EXCEPT ![w] =
                   [Memory("claimed") EXCEPT !.item = i, !.copy = Claimed(q[i], w)]]
        \/ queue' = q /\ worker' = [worker EXCEPT ![w] = Memory("idle")]
    BY <1>4, ZenonT(60) DEF AdvanceAndClaim
  <2> PICK base \in {worker[w].due[first], queue[first]} :
        LET q == Advanced(w, first, base) IN
        \/ \E i \in Items :
              /\ queue' = [q EXCEPT ![i] = Claimed(q[i], w)]
              /\ worker' = [worker EXCEPT ![w] =
                   [Memory("claimed") EXCEPT !.item = i, !.copy = Claimed(q[i], w)]]
        \/ queue' = q /\ worker' = [worker EXCEPT ![w] = Memory("idle")]
    OBVIOUS
  <2> DEFINE q == Advanced(w, first, base)
  <2>1. q \in [Items -> Row]
    <3>1. \A i \in Items : [worker[w].due[i] EXCEPT !.state = "QUEUED"] \in Row
      BY <1>1, CommandRowsType, Numbers
    <3>2. \A i \in Items :
            Stored([worker[w].due[i] EXCEPT !.state = "QUEUED"], base, queue[i]) \in Row
      BY <3>1, StoredType
    <3> QED
      BY <3>1, <3>2 DEF Advanced
  <2> HIDE DEF q
  <2>2. ASSUME NEW i \in Items
        PROVE  /\ [q EXCEPT ![i] = Claimed(q[i], w)] \in [Items -> Row]
               /\ [Memory("claimed") EXCEPT !.item = i, !.copy = Claimed(q[i], w)]
                     \in WorkerMemory
    <3>1. Claimed(q[i], w) \in Row
      BY <2>1, ClaimedType
    <3> QED
      BY <2>1, <3>1, MemoryType DEF WorkerMemory
  <2>3. queue' \in [Items -> Row] /\ worker' \in [Workers -> WorkerMemory]
    BY <2>1, <2>2, MemoryType, ZenonT(60) DEF q
  <2> QED
    BY <1>4, <2>3 DEF AdvanceAndClaim
<1>5. CASE BeginExecution(w)
  BY <1>1, <1>5, ZenonT(60) DEF BeginExecution, WorkerMemory, Row, QueueState
<1>6. CASE Finish(w)
  <2> PICK report \in Reports, u \in BOOLEAN : FinishExecution(w, report, u)
    BY <1>6 DEF Finish
  <2>1. ItemStateFor(report) \in QueueState /\ report \in TaskStatus
    BY WorkQueueAssumption DEF ItemStateFor, QueueState, TaskStatus
  <2>2. queue' \in [Items -> Row]
    BY <1>1, <2>1 DEF FinishExecution, Row
  <2>3. task' \in [Tasks -> TaskRow]
    BY <1>1, <2>1 DEF FinishExecution, TaskRow
  <2> QED
    BY <2>2, <2>3, MemoryType DEF FinishExecution
<1>7. CASE CycleFails(w)
  BY <1>7, MemoryType DEF CycleFails
<1>8. CASE Crash(w)
  BY <1>8, MemoryType DEF Crash
<1> QED
  BY <1>2, <1>3, <1>4, <1>5, <1>6, <1>7, <1>8

LEMMA ServicesKeepTypes ==
  ASSUME TypeOK, ServiceNext PROVE TypeOK'
<1> USE DEF TypeOK
<1>1. CASE RecoverExpired
  <2>1. queue' \in [Items -> Row]
    BY <1>1, RecoveredType DEF RecoverExpired, QueueState
  <2> QED
    BY <1>1, <2>1 DEF RecoverExpired
<1>2. ASSUME NEW i \in Items, NEW w \in Workers, ReleaseClaimed(i, w) PROVE TypeOK'
  <2>1. [Cleared(queue[i]) EXCEPT !.state = "QUEUED"] \in Row /\ ops' \in 0 .. MaxOps
    BY <1>2, CommandRowsType, Numbers, OperatorCommandType DEF ReleaseClaimed
  <2> QED
    BY <1>2, <2>1 DEF ReleaseClaimed
<1>3. ASSUME NEW i \in Items, NEW w \in Workers, NEW r \in Requests, ManualReviewRead(r, i, w)
      PROVE  TypeOK'
  <2>1. /\ [Cleared(queue[i]) EXCEPT !.state = "MANUAL_REVIEW"] \in Row
        /\ ops' \in 0 .. MaxOps
    BY <1>3, CommandRowsType, Numbers, OperatorCommandType DEF ManualReviewRead
  <2> QED
    BY <1>3, <2>1, PrepareType DEF ManualReviewRead, Command
<1> QED
  BY <1>1, <1>2, <1>3 DEF ServiceNext

LEMMA TypeStep ==
  ASSUME TypeOK, [Next \/ ServiceNext]_vars PROVE TypeOK'
<1>1. CASE Tick
  BY <1>1, Numbers DEF Tick, TypeOK
<1>2. CASE UNCHANGED vars
  BY <1>2 DEF TypeOK, vars
<1> QED
  BY <1>1, <1>2, OperatorKeepsTypes, HandlerKeepsTypes, SchedulerKeepsTypes,
     WorkerKeepsTypes, ServicesKeepTypes DEF Next

-----------------------------------------------------------------------------
(* The inductive invariant.                                                 *)

\* Whoever is inside an executor holds the write lock.
LockHeldWhileRunning ==
    \A w \in Workers : worker[w].pc = "running" => lock = w

\* What is true of a committed row.
RowSound(row) ==
    /\ row.state # "RUNNING"
    /\ row.state = "CLAIMED" => row.owner \in Workers /\ row.lease # 0

\* What is true of a row a handler is about to store: it is neither claimed nor
\* running, and the UPDATE will name the state.
RequestSound(q) ==
    /\ q.row.state \notin Taken
    /\ q.base = NoRow \/ q.base.state # q.row.state

RowsSound ==
    /\ \A i \in Items : RowSound(queue[i])
    /\ \A r \in Requests : RequestSound(request[r])

IInv == TypeOK /\ LockHeldWhileRunning /\ RowsSound /\ CompletedHasLedger

-----------------------------------------------------------------------------
(* Rows that handlers and workers compute are sound.                        *)

\* A row that is not taken is sound whatever its other columns are.
LEMMA UntakenSound ==
  ASSUME NEW row, row.state \notin Taken PROVE RowSound(row)
  BY DEF RowSound, Taken

LEMMA CommandRowStates ==
  ASSUME NEW row \in Row, NEW a
  PROVE  /\ Paused(row).state = "PAUSED" /\ Cancelled(row).state = "CANCELLED"
         /\ Resumed(row).state = "QUEUED" /\ Requeued(row).state = "QUEUED"
         /\ Rearmed(row, a).state = "WAITING_TIME"
         /\ [Cleared(row) EXCEPT !.state = "MANUAL_REVIEW"].state = "MANUAL_REVIEW"
         /\ [Cleared(row) EXCEPT !.state = "QUEUED"].state = "QUEUED"
  BY DEF Cleared, Row, Paused, Resumed, Cancelled, Requeued, Rearmed

LEMMA FreshStates ==
  ASSUME NEW t, NEW a
  PROVE  /\ NoRow.state = "ABSENT" /\ NewItem(t, a).state = "WAITING_TIME"
         /\ [NoRow EXCEPT !.state = "GONE"].state = "GONE"
  BY DEF NoRow, NewItem

\* What a handler stores over item i: the UPDATE names the state, so whatever
\* became of the row the stored state is the handler's.
LEMMA StoredState ==
  ASSUME NEW copy, NEW base, NEW current,
         base = current \/ base.state # copy.state
  PROVE  Stored(copy, base, current).state = copy.state
  BY DEF Stored

\* A command is never aimed at a row already in the state it sets.
LEMMA CommandStates ==
  ASSUME NEW s \in QueueState
  PROVE  \A target \in {"PAUSED", "CANCELLED", "MANUAL_REVIEW"} :
            CanTransition(s, target) => s # target
  BY DEF CanTransition, Successors, QueueState

LEMMA PrepareKeepsSound ==
  ASSUME TypeOK, RowsSound, NEW r \in Requests, NEW op, NEW i, NEW row,
         Prepare(r, op, i, row), row.state \notin Taken,
         i = NoItem \/ row.state # queue[i].state
  PROVE  RowsSound'
<1> DEFINE base == IF i = NoItem \/ WritesTask(op, row.task) THEN NoRow ELSE queue[i]
<1> DEFINE q == [op |-> op, item |-> i, row |-> row, base |-> base]
<1>1. RequestSound(q)
  BY DEF RequestSound
<1>2. request' = [request EXCEPT ![r] = q] /\ UNCHANGED queue
  BY DEF Prepare
<1> HIDE DEF q
<1> QED
  BY <1>1, <1>2 DEF TypeOK, RowsSound

LEMMA QueueKeepsSound ==
  ASSUME RowsSound, UNCHANGED request, \A i \in Items : RowSound(queue'[i])
  PROVE  RowsSound'
  BY DEF RowsSound

-----------------------------------------------------------------------------
(* Each kind of step keeps the rows sound.                                  *)

LEMMA OperatorKeepsSound ==
  ASSUME TypeOK, RowsSound, OperatorNext PROVE RowsSound'
<1>1. \A i \in Items : queue[i] \in Row /\ RowSound(queue[i])
  BY DEF TypeOK, RowsSound
<1>2. ASSUME NEW i \in Items, NEW a
      PROVE  /\ RowSound(Requeued(queue[i])) /\ RowSound(Rearmed(queue[i], a))
  BY <1>1, CommandRowStates, UntakenSound DEF Taken
<1>3. ASSUME NEW t, NEW a PROVE RowSound(NewItem(t, a))
  BY FreshStates, UntakenSound DEF Taken
<1>4. ASSUME NEW r \in Requests, NEW i \in Items, ResumeRead(r, i) PROVE RowsSound'
  <2>1. Resumed(queue[i]).state = "QUEUED"
    BY <1>1, CommandRowStates
  <2> QED
    BY <1>4, <2>1, PrepareKeepsSound DEF ResumeRead, Taken
<1>5. ASSUME NEW r \in Requests, NEW i \in Items, MayRetry(queue[i]),
             Prepare(r, "retry", i, Requeued(queue[i]))
      PROVE  RowsSound'
  <2>1. Requeued(queue[i]).state = "QUEUED"
    BY <1>1, CommandRowStates
  <2> QED
    BY <1>5, <2>1, PrepareKeepsSound DEF MayRetry, Retryable, Taken
<1>6. ASSUME NEW r \in Requests, NEW i \in Items, NEW w \in Workers,
             PauseRead(r, i, w) \/ CancelRead(r, i, w)
      PROVE  RowsSound'
  <2>1. queue[i].state \in QueueState
    BY <1>6 DEF PauseRead, CancelRead, ItemExists
  <2>2. Paused(queue[i]).state = "PAUSED" /\ Cancelled(queue[i]).state = "CANCELLED"
    BY <1>1, CommandRowStates
  <2> QED
    BY <1>6, <2>1, <2>2, CommandStates, PrepareKeepsSound DEF PauseRead, CancelRead, Taken
<1>7. ASSUME NEW r \in Requests, NEW t \in Tasks, EnqueueRead(r, t) PROVE RowsSound'
  <2>1. CASE \E i \in ActiveOf(t) :
               MayRetry(queue[i]) /\ Prepare(r, "retry", i, Requeued(queue[i]))
    BY <1>5, <2>1 DEF ActiveOf, ItemsOf
  <2>2. ASSUME NEW i \in ItemsOf(t), ActiveOf(t) = {},
               Prepare(r, "rearm", i, Rearmed(queue[i], task[t].avail))
        PROVE  RowsSound'
    <3>1. i \in Items /\ queue[i].state # "WAITING_TIME"
      BY <2>2 DEF ActiveOf, ItemsOf, Active, Terminal, QueueState
    <3>2. Rearmed(queue[i], task[t].avail).state = "WAITING_TIME"
      BY <1>1, <3>1, CommandRowStates
    <3> QED
      BY <2>2, <3>1, <3>2, PrepareKeepsSound DEF Taken
  <2>3. CASE Prepare(r, "insert", NoItem, NewItem(t, task[t].avail))
    BY <2>3, FreshStates, PrepareKeepsSound DEF Taken
  <2> QED
    BY <1>7, <2>1, <2>2, <2>3 DEF EnqueueRead
<1>8. ASSUME NEW t \in Tasks, EnqueueLocked(t) PROVE RowsSound'
  <2>1. \A i \in Items : RowSound(queue'[i])
    BY <1>1, <1>2, <1>3, <1>8 DEF EnqueueLocked, ActiveOf, ItemsOf, TypeOK
  <2> QED
    BY <1>8, <2>1, QueueKeepsSound DEF EnqueueLocked
<1>9. ASSUME NEW t \in Tasks, ConfirmDramaMatch(t) PROVE RowsSound'
  <2>1. \A i \in Items : RowSound(queue'[i])
    BY <1>1, <1>2, <1>9 DEF ConfirmDramaMatch, ItemsOf, TypeOK
  <2> QED
    BY <1>9, <2>1, QueueKeepsSound DEF ConfirmDramaMatch
<1>10. ASSUME NEW t \in Tasks, DeleteTask(t) PROVE RowsSound'
  <2>1. RowSound([NoRow EXCEPT !.state = "GONE"])
    BY FreshStates, UntakenSound DEF Taken
  <2>2. \A i \in Items : RowSound(queue'[i])
    BY <1>1, <1>10, <2>1 DEF DeleteTask
  <2> QED
    BY <1>10, <2>2, QueueKeepsSound DEF DeleteTask
<1>11. ASSUME NEW t \in Tasks, NEW a \in Time, CreateTask(t, a) PROVE RowsSound'
  BY <1>1, <1>11, QueueKeepsSound DEF CreateTask
<1> QED
  BY <1>4, <1>5, <1>6, <1>7, <1>8, <1>9, <1>10, <1>11 DEF OperatorNext, RetryRead

LEMMA HandlerKeepsSound ==
  ASSUME TypeOK, RowsSound, HandlerNext PROVE RowsSound'
<1> PICK r \in Requests : StoreBoth(r) \/ StoreItem(r) \/ InsertItem(r) \/ RequestFails(r)
  BY DEF HandlerNext
<1> DEFINE q == request[r]
<1>1. RequestSound(q) /\ q.row \in Row
  BY DEF RowsSound, TypeOK, RequestMemory
<1>2. RowSound(q.row)
  BY <1>1, UntakenSound DEF RequestSound
<1>3. RequestSound(NoRequest)
  BY FreshStates DEF RequestSound, NoRequest, Taken
<1>4. request' = [request EXCEPT ![r] = NoRequest]
  BY DEF StoreBoth, StoreItem, InsertItem, RequestFails
<1>5. \A i \in Items : RowSound(queue'[i])
  <2>1. CASE StoreItem(r)
    <3> PICK base \in {q.base, queue[q.item]} :
          LET row == Stored(q.row, base, queue[q.item]) IN
          queue' = [queue EXCEPT ![q.item] =
                      IF q.op = "rearm" THEN [row EXCEPT !.avail = q.row.avail] ELSE row]
      BY <2>1 DEF StoreItem
    <3> DEFINE row == Stored(q.row, base, queue[q.item])
    <3>1. row.state = q.row.state
      <4>1. q.base # NoRow /\ base \in {q.base, queue[q.item]}
        BY <2>1 DEF StoreItem
      <4>2. base = queue[q.item] \/ base.state # q.row.state
        BY <1>1, <4>1, Zenon DEF RequestSound
      <4> QED
        BY <4>2, StoredState, Zenon
    <3>2. row.state \notin Taken
      BY <1>1, <3>1 DEF RequestSound
    <3>3. [row EXCEPT !.avail = q.row.avail].state = row.state
      BY DEF Stored
    <3>4. RowSound(row) /\ RowSound([row EXCEPT !.avail = q.row.avail])
      BY <3>2, <3>3, UntakenSound
    <3> HIDE DEF row
    <3> QED
      BY <3>4 DEF RowsSound, TypeOK, row
  <2>2. CASE StoreBoth(r) \/ InsertItem(r) \/ RequestFails(r)
    BY <1>2, <2>2 DEF StoreBoth, InsertItem, RequestFails, RowsSound, TypeOK
  <2> QED
    BY <2>1, <2>2
<1> QED
  BY <1>3, <1>4, <1>5 DEF RowsSound, TypeOK

LEMMA SchedulerKeepsSound ==
  ASSUME TypeOK, RowsSound, SchedulerNext PROVE RowsSound'
<1>1. \A i \in Items : queue[i] \in Row /\ RowSound(queue[i])
  BY DEF TypeOK, RowsSound
<1> PICK t \in Tasks, a \in Time : ScanNew(t, a) \/ ScanKnown(t, a)
  BY DEF SchedulerNext
<1>2. RowSound(NewItem(t, a))
  BY FreshStates, UntakenSound DEF Taken
<1>3. \A i \in Items : RowSound([queue[i] EXCEPT !.avail = a])
  BY <1>1 DEF RowSound, Row
<1>4. \A i \in Items : RowSound(queue'[i])
  BY <1>1, <1>2, <1>3 DEF ScanNew, ScanKnown, ActiveOf, ItemsOf, TypeOK
<1> QED
  BY <1>4, QueueKeepsSound DEF ScanNew, ScanKnown

\* The due rows are QUEUED afterwards, the other ones as they were.
LEMMA AdvancedSound ==
  ASSUME TypeOK, RowsSound, NEW w \in Workers, NEW first \in Items,
         NEW base \in {worker[w].due[first], queue[first]}
  PROVE  /\ Advanced(w, first, base) \in [Items -> Row]
         /\ \A i \in Items : RowSound(Advanced(w, first, base)[i])
<1>1. ASSUME NEW i \in Items
      PROVE  Advanced(w, first, base)[i] \in Row /\ RowSound(Advanced(w, first, base)[i])
  <2> DEFINE due    == worker[w].due[i]
             queued == [due EXCEPT !.state = "QUEUED"]
  <2>1. queue[i] \in Row /\ RowSound(queue[i]) /\ due \in Row /\ base \in Row
    BY DEF TypeOK, RowsSound, WorkerMemory
  <2>2. queued \in Row /\ queued.state = "QUEUED"
    BY <2>1 DEF Row, QueueState
  <2>3. Stored(queued, base, queue[i]) \in Row
    BY <2>1, <2>2, StoredType
  <2>4. CASE due.state # "WAITING_TIME"
    BY <2>1, <2>4 DEF Advanced
  <2>5. CASE due.state = "WAITING_TIME" /\ i = first
    <3>1. Advanced(w, first, base)[i] = Stored(queued, base, queue[i])
      BY <2>5 DEF Advanced
    <3>2. base = queue[i] \/ base.state # queued.state
      BY <2>2, <2>5
    <3> HIDE DEF queued
    <3>3. Stored(queued, base, queue[i]).state = "QUEUED"
      BY <2>2, <3>2, StoredState
    <3> QED
      BY <2>3, <3>1, <3>3, UntakenSound DEF Taken
  <2>6. CASE due.state = "WAITING_TIME" /\ i # first
    <3>1. Advanced(w, first, base)[i] = queued
      BY <2>6 DEF Advanced
    <3> QED
      BY <2>2, <3>1, UntakenSound DEF Taken
  <2> QED
    BY <2>4, <2>5, <2>6
<1> QED
  BY <1>1 DEF Advanced

LEMMA ClaimedSound ==
  ASSUME NEW row \in Row, NEW w \in Workers, now \in Time
  PROVE  RowSound(Claimed(row, w))
<1>1. now + LeaseLen # 0
  BY Numbers
<1>2. ASSUME NEW l, l # 0
      PROVE  RowSound([row EXCEPT !.state = "CLAIMED", !.owner = w, !.lease = l])
  BY <1>2 DEF RowSound, Row
<1> QED
  BY <1>1, <1>2 DEF Claimed

LEMMA WorkerNextKeepsSound ==
  ASSUME TypeOK, RowsSound, WorkerNext PROVE RowsSound'
<1> PICK w \in Workers :
         \/ StartWorker(w) \/ ReadDue(w) \/ AdvanceAndClaim(w)
         \/ BeginExecution(w) \/ Finish(w) \/ CycleFails(w) \/ Crash(w)
  BY DEF WorkerNext
<1>1. now \in Time /\ \A i \in Items : queue[i] \in Row /\ RowSound(queue[i])
  BY DEF TypeOK, RowsSound
<1>2. CASE StartWorker(w) \/ ReadDue(w) \/ BeginExecution(w) \/ CycleFails(w) \/ Crash(w)
  BY <1>1, <1>2, QueueKeepsSound DEF StartWorker, ReadDue, BeginExecution, CycleFails, Crash
<1>3. CASE AdvanceAndClaim(w)
  <2> PICK first \in Items : \E base \in {worker[w].due[first], queue[first]} :
        LET q == Advanced(w, first, base) IN
        queue' = q \/ \E i \in Items : queue' = [q EXCEPT ![i] = Claimed(q[i], w)]
    BY <1>3 DEF AdvanceAndClaim
  <2> PICK base \in {worker[w].due[first], queue[first]} :
        LET q == Advanced(w, first, base) IN
        queue' = q \/ \E i \in Items : queue' = [q EXCEPT ![i] = Claimed(q[i], w)]
    OBVIOUS
  <2> DEFINE q == Advanced(w, first, base)
  <2>1. q \in [Items -> Row] /\ \A i \in Items : RowSound(q[i])
    BY AdvancedSound
  <2> HIDE DEF q
  <2>2. \A i \in Items : RowSound(Claimed(q[i], w))
    BY <1>1, <2>1, ClaimedSound
  <2>3. queue' = q \/ \E i \in Items : queue' = [q EXCEPT ![i] = Claimed(q[i], w)]
    BY DEF q
  <2>4. \A i \in Items : RowSound(queue'[i])
    BY <2>1, <2>2, <2>3
  <2> QED
    BY <1>3, <2>4, QueueKeepsSound DEF AdvanceAndClaim
<1>4. CASE Finish(w)
  <2> PICK report \in Reports, u \in BOOLEAN : FinishExecution(w, report, u)
    BY <1>4 DEF Finish
  <2>1. ItemStateFor(report) \notin Taken
    BY WorkQueueAssumption DEF ItemStateFor, Taken
  <2>2. worker[w].copy \in Row
    BY DEF TypeOK, WorkerMemory
  <2>3. PICK b \in BOOLEAN :
          queue' = [queue EXCEPT ![worker[w].item] =
             [worker[w].copy EXCEPT !.state = ItemStateFor(report), !.uncertain = b]]
    BY <2>2 DEF FinishExecution, Row
  <2>4. [worker[w].copy EXCEPT !.state = ItemStateFor(report), !.uncertain = b].state
          = ItemStateFor(report)
    BY <2>2 DEF Row
  <2>5. \A i \in Items : RowSound(queue'[i])
    BY <1>1, <2>1, <2>3, <2>4, UntakenSound DEF TypeOK
  <2> QED
    BY <2>5, QueueKeepsSound DEF FinishExecution
<1> QED
  BY <1>2, <1>3, <1>4

LEMMA ServicesKeepSound ==
  ASSUME TypeOK, RowsSound, ServiceNext PROVE RowsSound'
<1>1. \A i \in Items : queue[i] \in Row /\ RowSound(queue[i])
  BY DEF TypeOK, RowsSound
<1>2. CASE RecoverExpired
  <2>1. ASSUME NEW i \in Items, NEW n, NEW s \in {"QUEUED", "MANUAL_REVIEW"}
        PROVE  RowSound([Cleared(queue[i]) EXCEPT !.attempts = n, !.state = s])
    BY <1>1 DEF RowSound, Cleared, Row
  <2>2. \A i \in Items : RowSound(queue'[i])
    BY <1>1, <1>2, <2>1 DEF RecoverExpired
  <2> QED
    BY <1>2, <2>2, QueueKeepsSound DEF RecoverExpired
<1>3. ASSUME NEW i \in Items, NEW w \in Workers, ReleaseClaimed(i, w) PROVE RowsSound'
  <2>1. RowSound([Cleared(queue[i]) EXCEPT !.state = "QUEUED"])
    BY <1>1, CommandRowStates, UntakenSound DEF Taken
  <2>2. \A j \in Items : RowSound(queue'[j])
    BY <1>1, <1>3, <2>1 DEF ReleaseClaimed, TypeOK
  <2> QED
    BY <1>3, <2>2, QueueKeepsSound DEF ReleaseClaimed
<1>4. ASSUME NEW i \in Items, NEW w \in Workers, NEW r \in Requests, ManualReviewRead(r, i, w)
      PROVE  RowsSound'
  <2>1. [Cleared(queue[i]) EXCEPT !.state = "MANUAL_REVIEW"].state = "MANUAL_REVIEW"
    BY <1>1, CommandRowStates
  <2> QED
    BY <1>4, <2>1, PrepareKeepsSound DEF ManualReviewRead, Taken
<1> QED
  BY <1>2, <1>3, <1>4 DEF ServiceNext

-----------------------------------------------------------------------------
(* The lock and the ledger.                                                 *)

\* Whatever a worker does but begin an execution, it ends outside the executor.
LEMMA OutsideKeepsLock ==
  ASSUME TypeOK, LockHeldWhileRunning, NEW w \in Workers, NEW m, m.pc # "running",
         worker' = [worker EXCEPT ![w] = m],
         lock' = lock \/ lock = w \/ worker[w].pc = "running"
  PROVE  LockHeldWhileRunning'
  BY DEF LockHeldWhileRunning, TypeOK

LEMMA LockStep ==
  ASSUME TypeOK, LockHeldWhileRunning, [Next \/ ServiceNext]_vars
  PROVE  LockHeldWhileRunning'
<1>1. CASE WorkerNext
  <2> PICK w \in Workers :
           \/ StartWorker(w) \/ ReadDue(w) \/ AdvanceAndClaim(w)
           \/ BeginExecution(w) \/ Finish(w) \/ CycleFails(w) \/ Crash(w)
    BY <1>1 DEF WorkerNext
  <2>1. \A pc : Memory(pc).pc = pc
    BY DEF Memory
  <2>2. CASE StartWorker(w) \/ CycleFails(w) \/ Crash(w)
    BY <2>1, <2>2, OutsideKeepsLock DEF StartWorker, CycleFails, Crash
  <2>3. CASE ReadDue(w)
    <3>1. \A d : [Memory("advancing") EXCEPT !.due = d].pc # "running"
      BY DEF Memory
    <3> QED
      BY <2>3, <3>1, OutsideKeepsLock DEF ReadDue
  <2>4. CASE AdvanceAndClaim(w)
    <3>1. \A i, c : [Memory("claimed") EXCEPT !.item = i, !.copy = c].pc # "running"
      BY DEF Memory
    <3>2. \E m : m.pc # "running" /\ worker' = [worker EXCEPT ![w] = m]
      <4>1. \/ \E i, c : worker' = [worker EXCEPT ![w] =
                                    [Memory("claimed") EXCEPT !.item = i, !.copy = c]]
            \/ worker' = [worker EXCEPT ![w] = Memory("idle")]
        BY <2>4 DEF AdvanceAndClaim
      <4> QED
        BY <2>1, <3>1, <4>1
    <3>3. lock' = lock
      BY <2>4 DEF AdvanceAndClaim
    <3> QED
      BY <3>2, <3>3, OutsideKeepsLock
  <2>5. CASE BeginExecution(w)
    <3>1. Free \notin Workers
      BY WorkQueueAssumption
    <3> QED
      BY <2>5, <3>1 DEF BeginExecution, LockHeldWhileRunning, TypeOK, WorkerMemory
  <2>6. CASE Finish(w)
    <3>1. worker[w].pc = "running" /\ worker' = [worker EXCEPT ![w] = Memory("idle")]
      BY <2>6 DEF Finish, FinishExecution
    <3> QED
      BY <2>1, <3>1, OutsideKeepsLock
  <2> QED
    BY <2>2, <2>3, <2>4, <2>5, <2>6
<1>2. CASE UNCHANGED <<worker, lock>>
  BY <1>2 DEF LockHeldWhileRunning
<1>3. OperatorNext => UNCHANGED <<worker, lock>>
  BY ZenonT(60) DEF OperatorNext, ResumeRead, RetryRead, PauseRead, CancelRead, EnqueueRead,
         EnqueueLocked, ConfirmDramaMatch, DeleteTask, CreateTask, Prepare
<1>4. HandlerNext \/ SchedulerNext \/ ServiceNext \/ Tick => UNCHANGED <<worker, lock>>
  BY DEF HandlerNext, StoreBoth, StoreItem, InsertItem, RequestFails, SchedulerNext,
         ScanNew, ScanKnown, ServiceNext, RecoverExpired, ReleaseClaimed,
         ManualReviewRead, Prepare, Tick
<1> QED
  BY <1>1, <1>2, <1>3, <1>4 DEF Next, vars

LEMMA LedgerStep ==
  ASSUME TypeOK, CompletedHasLedger, [Next \/ ServiceNext]_vars
  PROVE  CompletedHasLedger'
<1>1. CASE UNCHANGED task
  BY <1>1 DEF CompletedHasLedger
<1>2. CASE OperatorNext
  <2>1. ASSUME NEW t \in Tasks, EnqueueLocked(t) \/ ConfirmDramaMatch(t)
        PROVE  CompletedHasLedger'
    <3>1. PICK s : s # "COMPLETED" /\ task' = [task EXCEPT ![t].status = s]
      BY <2>1 DEF EnqueueLocked, ConfirmDramaMatch, Restartable
    <3> QED
      BY <3>1 DEF CompletedHasLedger, TypeOK, TaskRow
  <2>2. ASSUME NEW t \in Tasks, DeleteTask(t) PROVE CompletedHasLedger'
    BY <2>2 DEF DeleteTask, NoTaskRow, CompletedHasLedger, TypeOK
  <2>3. ASSUME NEW t \in Tasks, NEW a \in Time, CreateTask(t, a)
        PROVE  CompletedHasLedger'
    BY <2>3 DEF CreateTask, CompletedHasLedger, TypeOK, TaskRow
  <2>4. ASSUME NEW r \in Requests, NEW i \in Items, NEW w \in Workers,
               ResumeRead(r, i) \/ RetryRead(r, i) \/ PauseRead(r, i, w) \/ CancelRead(r, i, w)
        PROVE  UNCHANGED task
    BY <2>4 DEF ResumeRead, RetryRead, PauseRead, CancelRead, Prepare
  <2>5. ASSUME NEW r \in Requests, NEW i \in Items, ResumeRead(r, i) \/ RetryRead(r, i)
        PROVE  UNCHANGED task
    BY <2>5 DEF ResumeRead, RetryRead, Prepare
  <2>6. ASSUME NEW r \in Requests, NEW t \in Tasks, EnqueueRead(r, t)
        PROVE  UNCHANGED task
    BY <2>6 DEF EnqueueRead, Prepare
  <2> QED
    BY <1>1, <1>2, <2>1, <2>2, <2>3, <2>4, <2>5, <2>6 DEF OperatorNext
<1>3. CASE HandlerNext
  BY <1>3 DEF HandlerNext, StoreBoth, StoreItem, InsertItem, RequestFails, SyncTaskStatus,
         StatusOf, TaskExists, TypeOK, TaskRow, CompletedHasLedger
<1>4. CASE SchedulerNext
  BY <1>4 DEF SchedulerNext, ScanNew, ScanKnown, TypeOK, TaskRow,
         CompletedHasLedger
<1>5. CASE WorkerNext
  <2> PICK w \in Workers :
           \/ StartWorker(w) \/ ReadDue(w) \/ AdvanceAndClaim(w)
           \/ BeginExecution(w) \/ Finish(w) \/ CycleFails(w) \/ Crash(w)
    BY <1>5 DEF WorkerNext
  <2>1. CASE Finish(w)
    <3> PICK report \in Reports, u \in BOOLEAN : FinishExecution(w, report, u)
      BY <2>1 DEF Finish
    <3> DEFINE t == worker[w].copy.task
    <3>1. task' = [task EXCEPT ![t].status = report,
                               ![t].ledger = @ \/ report = "COMPLETED"]
      BY DEF FinishExecution
    <3> QED
      BY <3>1 DEF CompletedHasLedger, TypeOK, TaskRow
  <2>2. ~Finish(w) => UNCHANGED task
    BY DEF StartWorker, ReadDue, AdvanceAndClaim, BeginExecution, CycleFails, Crash
  <2> QED
    BY <1>1, <2>1, <2>2
<1>6. ServiceNext \/ Tick \/ UNCHANGED vars => UNCHANGED task
  BY DEF ServiceNext, RecoverExpired, ReleaseClaimed, ManualReviewRead, Prepare,
         Tick, vars
<1> QED
  BY <1>1, <1>2, <1>3, <1>4, <1>5, <1>6 DEF Next

-----------------------------------------------------------------------------
(* The inductive invariant and what follows from it.                        *)

LEMMA InitIInv == Init => IInv
<1> SUFFICES ASSUME Init PROVE IInv
  OBVIOUS
<1>1. TypeOK
  BY NoRowType, MemoryType, NoRequestType, Numbers, WorkQueueAssumption
     DEF Init, TypeOK, Time
<1>2. LockHeldWhileRunning
  BY DEF Init, LockHeldWhileRunning, Memory
<1>3. RowsSound
  <2>1. NoRow.state \notin Taken
    BY FreshStates DEF Taken
  <2> QED
    BY <2>1, UntakenSound DEF Init, RowsSound, RequestSound, NoRequest
<1>4. CompletedHasLedger
  BY DEF Init, CompletedHasLedger, NoTaskRow
<1> QED
  BY <1>1, <1>2, <1>3, <1>4 DEF IInv

LEMMA StepIInv == IInv /\ [Next \/ ServiceNext]_vars => IInv'
<1> SUFFICES ASSUME TypeOK, LockHeldWhileRunning, RowsSound, CompletedHasLedger,
                    [Next \/ ServiceNext]_vars
             PROVE  IInv'
  BY DEF IInv
<1>1. TypeOK'
  BY TypeStep
<1>2. RowsSound'
  <2>1. CASE Tick
    BY <2>1 DEF Tick, RowsSound
  <2>2. CASE UNCHANGED vars
    BY <2>2 DEF vars, RowsSound
  <2> QED
    BY <2>1, <2>2, OperatorKeepsSound, HandlerKeepsSound, SchedulerKeepsSound,
       WorkerNextKeepsSound, ServicesKeepSound DEF Next
<1> QED
  BY <1>1, <1>2, LockStep, LedgerStep DEF IInv

LEMMA Invariant == ServiceSpec => []IInv
  BY InitIInv, StepIInv, PTL DEF ServiceSpec

\* Every step of the deployed system is one of the system with the services.
LEMMA DeployedIsService == Spec => ServiceSpec
<1>1. [Next]_vars => [Next \/ ServiceNext]_vars
  OBVIOUS
<1> QED
  BY <1>1, PTL DEF Spec, ServiceSpec

\* Type correctness, of the deployed system and of the one with the services.
THEOREM TypeCorrect == (Spec => []TypeOK) /\ (ServiceSpec => []TypeOK)
<1>1. IInv => TypeOK
  BY DEF IInv
<1> QED
  BY <1>1, Invariant, DeployedIsService, PTL

\* For any number of worker processes, tasks and requests at most one executor
\* runs at a time: process_claimed holds the write lock until it commits.
THEOREM SerialPlatformWrites ==
  (Spec => []PlatformWritesSerial) /\ (ServiceSpec => []PlatformWritesSerial)
<1>1. IInv => PlatformWritesSerial
  BY DEF IInv, LockHeldWhileRunning, PlatformWritesSerial
<1> QED
  BY <1>1, Invariant, DeployedIsService, PTL

\* No transaction ever commits a RUNNING row.
THEOREM RunningIsInvisible ==
  (Spec => []RunningNeverCommitted) /\ (ServiceSpec => []RunningNeverCommitted)
<1>1. IInv => RunningNeverCommitted
  BY DEF IInv, RowsSound, RowSound, RunningNeverCommitted
<1> QED
  BY <1>1, Invariant, DeployedIsService, PTL

\* A claimed row names its worker and its lease under every interleaving of stale
\* and partial row writes, whatever the number of handlers and workers.
THEOREM ClaimsOwned ==
  (Spec => []ClaimsAreOwned) /\ (ServiceSpec => []ClaimsAreOwned)
<1>1. IInv => ClaimsAreOwned
  BY DEF IInv, RowsSound, RowSound, ClaimsAreOwned
<1> QED
  BY <1>1, Invariant, DeployedIsService, PTL

\* A task that reads COMPLETED has its ledger row.
THEOREM LedgerBeforeCompleted ==
  (Spec => []CompletedHasLedger) /\ (ServiceSpec => []CompletedHasLedger)
<1>1. IInv => CompletedHasLedger
  BY DEF IInv
<1> QED
  BY <1>1, Invariant, DeployedIsService, PTL

-----------------------------------------------------------------------------
(* Copies and times: a copy is of the row it will be stored over, and the   *)
(* time of a task that cannot be moved is the same in all of its rows and   *)
(* copies.                                                                  *)

StartedInTime(row) ==
    row.state \in Started /\ row.task \notin Movable => row.avail <= now

TimedAs(row, a) == row.task \notin Movable => row.avail = a

CopyOf(row, i) ==
    /\ queue[i].state # "ABSENT"
    /\ ItemExists(i) => row.task = queue[i].task /\ TimedAs(row, queue[i].avail)

ItemSound(i) ==
    /\ ItemExists(i) => /\ TaskExists(queue[i].task)
                        /\ TimedAs(queue[i], task[queue[i].task].avail)
    /\ StartedInTime(queue[i])

RequestCopySound(q) ==
    /\ q.op \notin {"none", "insert"} =>
          /\ q.item \in Items /\ CopyOf(q.row, q.item) /\ StartedInTime(q.row)
          /\ q.row.state \in QueueState
    /\ q.op = "insert" =>
          /\ q.row.state = "WAITING_TIME" /\ q.row.task \in Tasks
          /\ task[q.row.task].status # "ABSENT"
          /\ TaskExists(q.row.task) => TimedAs(q.row, task[q.row.task].avail)

WorkerCopiesSound(m) ==
    /\ m.pc \in {"claimed", "running"} =>
          /\ m.item \in Items /\ CopyOf(m.copy, m.item)
          /\ m.copy.task \notin Movable => m.copy.avail <= now
    /\ m.pc = "running" => ItemExists(m.item)
    /\ m.pc = "advancing" =>
          \A i \in Items : m.due[i].state = "WAITING_TIME" =>
              CopyOf(m.due[i], i) /\ m.due[i].avail <= now

CopiesSound ==
    /\ \A i \in Items : ItemSound(i)
    /\ \A r \in Requests : RequestCopySound(request[r])
    /\ \A w \in Workers : WorkerCopiesSound(worker[w])

\* What is stored over row i: a copy of it, in time.
StoresCopy(i, row) ==
    /\ ItemExists(i) /\ row.state \in QueueState /\ row.task = queue[i].task
    /\ TimedAs(row, queue[i].avail) /\ StartedInTime(row)

\* What a step may do to a row: nothing, delete it, store a copy of it, insert it.
ItemStep(i) ==
    \/ queue'[i] = queue[i]
    \/ ItemExists(i) /\ queue'[i].state = "GONE"
    \/ StoresCopy(i, queue'[i])
    \/ /\ queue[i].state = "ABSENT" /\ queue'[i].state = "WAITING_TIME"
       /\ \E t \in Tasks : /\ queue'[i].task = t /\ TaskExists(t)'
                           /\ TimedAs(queue'[i], task'[t].avail)

\* What a step may do to a task: nothing, add it, change what is no time, or delete it with
\* its items.
TaskStep(t) ==
    \/ task'[t] = task[t] \/ task[t].status = "ABSENT"
    \/ /\ TaskExists(t) /\ TaskExists(t)'
       /\ t \notin Movable => task'[t].avail = task[t].avail
    \/ /\ TaskExists(t) /\ task'[t].status = "GONE"
       /\ \A i \in Items : queue[i].task = t /\ ItemExists(i) => ~ItemExists(i)'

RowsStep ==
    /\ \A i \in Items : ItemStep(i)
    /\ \A t \in Tasks : TaskStep(t)
    /\ now' \in Time /\ now <= now'
    /\ \A i \in Items : ItemExists(i) /\ ~ItemExists(i)' =>
          \A w \in Workers : worker[w].pc # "running"

LEMMA NoRowStates ==
  /\ "ABSENT" \notin QueueState /\ "GONE" \notin QueueState /\ "WAITING_TIME" \in QueueState
  /\ "ABSENT" \notin TaskStatus /\ "GONE" \notin TaskStatus
  /\ Started \subseteq QueueState /\ "WAITING_TIME" \notin Started
  BY DEF QueueState, TaskStatus, Started

\* Times do not run back.
LEMMA TimeGoesOn ==
  ASSUME NEW row \in Row, now \in Time, now' \in Time, now <= now'
  PROVE  /\ row.avail <= now => row.avail <= now'
         /\ StartedInTime(row) => StartedInTime(row)'
<1>1. row.avail \in Nat /\ now \in Nat /\ now' \in Nat
  BY WorkQueueAssumption DEF Row, Time
<1>2. row.avail <= now => row.avail <= now'
  BY <1>1
<1> QED
  BY <1>2 DEF StartedInTime

LEMMA CopiesStay ==
  ASSUME NEW row, NEW i \in Items, ItemStep(i), CopyOf(row, i)
  PROVE  CopyOf(row, i)'
<1>1. queue[i].state # "ABSENT"
  BY DEF CopyOf
<1>2. CASE queue'[i] = queue[i]
  BY <1>2 DEF CopyOf, ItemExists, TimedAs
<1>3. CASE ItemExists(i) /\ queue'[i].state = "GONE"
  BY <1>3, NoRowStates DEF CopyOf, ItemExists
<1>4. CASE StoresCopy(i, queue'[i])
  BY <1>4, NoRowStates DEF CopyOf, ItemExists, TimedAs, StoresCopy
<1> QED
  BY <1>1, <1>2, <1>3, <1>4 DEF ItemStep

LEMMA ItemsStaySound ==
  ASSUME TypeOK, TypeOK', CopiesSound, RowsStep, NEW i \in Items
  PROVE  ItemSound(i)'
<1>1. ItemStep(i) /\ ItemSound(i)
  BY DEF RowsStep, CopiesSound
<1>2. /\ now \in Time /\ now' \in Time /\ now <= now'
      /\ queue[i] \in Row /\ queue'[i] \in Row
  BY DEF TypeOK, RowsStep
<1>3. ASSUME ItemExists(i), ItemExists(i)', queue'[i].task = queue[i].task,
             TimedAs(queue'[i], queue[i].avail)
      PROVE  \E t \in Tasks : /\ queue'[i].task = t /\ TaskExists(t)'
                              /\ TimedAs(queue'[i], task'[t].avail)
  <2> DEFINE t == queue[i].task
  <2>1. TaskExists(t) /\ TimedAs(queue[i], task[t].avail)
    BY <1>1, <1>3 DEF ItemSound
  <2>2. t \in Tasks /\ task[t].status \in TaskStatus
    BY <2>1 DEF TaskExists
  <2>3. TaskStep(t)
    BY <2>2 DEF RowsStep
  <2>4. task'[t].status \in TaskStatus /\ (t \notin Movable => task'[t].avail = task[t].avail)
    BY <1>3, <2>2, <2>3, NoRowStates DEF TaskStep, TaskExists
  <2>5. TimedAs(queue'[i], task'[t].avail)
    BY <1>3, <2>1, <2>4 DEF TimedAs
  <2> QED
    BY <1>3, <2>2, <2>4, <2>5 DEF TaskExists
<1>4. StartedInTime(queue'[i]) => StartedInTime(queue[i])'
  BY <1>2, TimeGoesOn DEF StartedInTime
<1>5. ASSUME StartedInTime(queue'[i]),
             \E t \in Tasks : /\ queue'[i].task = t /\ TaskExists(t)'
                              /\ TimedAs(queue'[i], task'[t].avail)
      PROVE  ItemSound(i)'
  BY <1>4, <1>5 DEF ItemSound, TaskExists, TimedAs
<1>6. CASE queue'[i] = queue[i]
  <2>1. ItemExists(i)' => ItemExists(i)
    BY <1>6 DEF ItemExists
  <2>2. TimedAs(queue'[i], queue[i].avail) /\ StartedInTime(queue'[i])
    BY <1>1, <1>6 DEF TimedAs, ItemSound, StartedInTime
  <2>3. CASE ItemExists(i)'
    BY <1>3, <1>5, <1>6, <2>1, <2>2, <2>3
  <2>4. CASE ~ItemExists(i)'
    BY <1>4, <2>2, <2>4 DEF ItemSound
  <2> QED
    BY <2>3, <2>4
<1>7. CASE ItemExists(i) /\ queue'[i].state = "GONE"
  BY <1>7, NoRowStates DEF ItemSound, StartedInTime, ItemExists
<1>8. CASE StoresCopy(i, queue'[i])
  <2>1. ItemExists(i)'
    BY <1>8 DEF ItemExists, StoresCopy
  <2> QED
    BY <1>3, <1>5, <1>8, <2>1 DEF StoresCopy
<1>9. CASE /\ queue[i].state = "ABSENT" /\ queue'[i].state = "WAITING_TIME"
           /\ \E t \in Tasks : /\ queue'[i].task = t /\ TaskExists(t)'
                               /\ TimedAs(queue'[i], task'[t].avail)
  BY <1>5, <1>9, NoRowStates DEF StartedInTime
<1> QED
  BY <1>1, <1>6, <1>7, <1>8, <1>9 DEF ItemStep

LEMMA RequestsStaySound ==
  ASSUME TypeOK, TypeOK', CopiesSound, RowsStep, NEW q \in RequestMemory, RequestCopySound(q)
  PROVE  RequestCopySound(q)'
<1>1. q.row \in Row /\ now \in Time /\ now' \in Time /\ now <= now'
  BY DEF TypeOK, RowsStep, RequestMemory
<1>2. ASSUME q.op \notin {"none", "insert"}
      PROVE  /\ q.item \in Items /\ CopyOf(q.row, q.item)' /\ StartedInTime(q.row)'
             /\ q.row.state \in QueueState
  <2>1. /\ q.item \in Items /\ CopyOf(q.row, q.item) /\ StartedInTime(q.row)
        /\ q.row.state \in QueueState
    BY <1>2 DEF RequestCopySound
  <2>2. ItemStep(q.item)
    BY <2>1 DEF RowsStep
  <2> QED
    BY <1>1, <2>1, <2>2, CopiesStay, TimeGoesOn
<1>3. ASSUME q.op = "insert"
      PROVE  /\ q.row.state = "WAITING_TIME" /\ q.row.task \in Tasks
             /\ task'[q.row.task].status # "ABSENT"
             /\ TaskExists(q.row.task)' => TimedAs(q.row, task'[q.row.task].avail)
  <2> DEFINE t == q.row.task
  <2>1. /\ q.row.state = "WAITING_TIME" /\ t \in Tasks /\ task[t].status # "ABSENT"
        /\ TaskExists(t) => TimedAs(q.row, task[t].avail)
    BY <1>3 DEF RequestCopySound
  <2>2. TaskStep(t)
    BY <2>1 DEF RowsStep
  <2> QED
    BY <2>1, <2>2, NoRowStates DEF TaskStep, TaskExists, TimedAs
<1> QED
  BY <1>2, <1>3 DEF RequestCopySound, TimedAs, CopyOf, StartedInTime

LEMMA WorkersStaySound ==
  ASSUME TypeOK, TypeOK', CopiesSound, RowsStep, NEW m \in WorkerMemory, WorkerCopiesSound(m),
         m.pc = "running" => \E w \in Workers : worker[w].pc = "running"
  PROVE  WorkerCopiesSound(m)'
<1>1. /\ m.copy \in Row /\ \A i \in Items : m.due[i] \in Row
      /\ now \in Time /\ now' \in Time /\ now <= now'
  BY DEF TypeOK, RowsStep, WorkerMemory
<1>2. ASSUME m.pc \in {"claimed", "running"}
      PROVE  /\ m.item \in Items /\ CopyOf(m.copy, m.item)'
             /\ m.copy.task \notin Movable => m.copy.avail <= now'
  <2>1. /\ m.item \in Items /\ CopyOf(m.copy, m.item)
        /\ m.copy.task \notin Movable => m.copy.avail <= now
    BY <1>2 DEF WorkerCopiesSound
  <2>2. ItemStep(m.item)
    BY <2>1 DEF RowsStep
  <2> QED
    BY <1>1, <2>1, <2>2, CopiesStay, TimeGoesOn
<1>3. ASSUME m.pc = "running" PROVE ItemExists(m.item)'
  <2>1. m.item \in Items /\ ItemExists(m.item)
    BY <1>3 DEF WorkerCopiesSound
  <2> QED
    BY <1>3, <2>1 DEF RowsStep
<1>4. ASSUME m.pc = "advancing", NEW i \in Items, m.due[i].state = "WAITING_TIME"
      PROVE  CopyOf(m.due[i], i)' /\ m.due[i].avail <= now'
  <2>1. CopyOf(m.due[i], i) /\ m.due[i].avail <= now
    BY <1>4 DEF WorkerCopiesSound
  <2>2. ItemStep(i) /\ m.due[i] \in Row
    BY <1>1 DEF RowsStep
  <2> QED
    BY <1>1, <2>1, <2>2, CopiesStay, TimeGoesOn
<1> QED
  BY <1>2, <1>3, <1>4 DEF WorkerCopiesSound, CopyOf, ItemExists

\* What was sound stays so under such a step, and what is new has to be shown sound.
LEMMA SoundnessIsKept ==
  ASSUME TypeOK, TypeOK', CopiesSound, RowsStep,
         \A r \in Requests : request'[r] = request[r] \/ RequestCopySound(request[r])',
         \A w \in Workers : worker'[w] = worker[w] \/ WorkerCopiesSound(worker[w])'
  PROVE  CopiesSound'
<1>1. ASSUME NEW r \in Requests, request'[r] = request[r] PROVE RequestCopySound(request[r])'
  <2> PICK q \in RequestMemory : q = request[r] /\ q = request'[r]
    BY <1>1 DEF TypeOK
  <2>1. RequestCopySound(q)
    BY DEF CopiesSound
  <2>2. RequestCopySound(q)'
    BY <2>1, RequestsStaySound
  <2> QED
    BY <2>2 DEF RequestCopySound, CopyOf, TimedAs, StartedInTime, ItemExists, TaskExists
<1>2. ASSUME NEW w \in Workers, worker'[w] = worker[w] PROVE WorkerCopiesSound(worker[w])'
  <2> PICK m \in WorkerMemory : m = worker[w] /\ m = worker'[w]
    BY <1>2 DEF TypeOK
  <2>1. WorkerCopiesSound(m)
    BY DEF CopiesSound
  <2>2. WorkerCopiesSound(m)'
    BY <2>1, WorkersStaySound
  <2> QED
    BY <2>2 DEF WorkerCopiesSound, CopyOf, TimedAs, StartedInTime, ItemExists
<1> QED
  BY <1>1, <1>2, ItemsStaySound DEF CopiesSound

LEMMA NothingToRemember ==
  /\ RequestCopySound(NoRequest)
  /\ \A pc \in {"down", "idle"} : WorkerCopiesSound(Memory(pc))
  BY DEF RequestCopySound, NoRequest, WorkerCopiesSound, Memory

-----------------------------------------------------------------------------
(* The kinds of change.                                                     *)

LEMMA NothingMoves ==
  ASSUME TypeOK, UNCHANGED <<now, task, queue>> PROVE RowsStep
<1>1. now \in Time /\ now <= now'
  BY WorkQueueAssumption DEF TypeOK, Time
<1> QED
  BY <1>1 DEF RowsStep, ItemStep, TaskStep, ItemExists

\* The status of one task, and its ledger.
LEMMA StatusStep ==
  ASSUME TypeOK, NEW t \in Tasks, TaskExists(t), NEW row,
         task' = [task EXCEPT ![t] = row], row.status \in TaskStatus, row.avail = task[t].avail
  PROVE  \A u \in Tasks : TaskStep(u) /\ (TaskExists(u) => TaskExists(u)')
  BY DEF TaskStep, TaskExists, TypeOK

\* One row takes a copy of it.
LEMMA StoreStep ==
  ASSUME TypeOK, NEW i \in Items, NEW row, StoresCopy(i, row),
         queue' = [queue EXCEPT ![i] = row], now' = now, \A t \in Tasks : TaskStep(t)
  PROVE  RowsStep
<1>1. now \in Time /\ now <= now'
  BY WorkQueueAssumption DEF TypeOK, Time
<1>2. \A j \in Items : queue'[j] = IF j = i THEN row ELSE queue[j]
  BY DEF TypeOK
<1>3. row.state \in QueueState
  BY DEF StoresCopy
<1>4. ASSUME NEW j \in Items PROVE ItemStep(j) /\ (ItemExists(j) => ItemExists(j)')
  <2>1. CASE j = i
    BY <1>2, <1>3, <2>1 DEF ItemStep, ItemExists
  <2>2. CASE j # i
    BY <1>2, <2>2 DEF ItemStep, ItemExists
  <2> QED
    BY <2>1, <2>2
<1> QED
  BY <1>1, <1>4 DEF RowsStep

\* A row is inserted.
LEMMA InsertStep ==
  ASSUME TypeOK, NEW i \in Items, NEW row, NEW t \in Tasks,
         queue[i].state = "ABSENT", row.state = "WAITING_TIME", row.task = t,
         TaskExists(t)', TimedAs(row, task'[t].avail),
         queue' = [queue EXCEPT ![i] = row], now' = now, \A u \in Tasks : TaskStep(u)
  PROVE  RowsStep
<1>1. now \in Time /\ now <= now'
  BY WorkQueueAssumption DEF TypeOK, Time
<1>2. \A j \in Items : queue'[j] = IF j = i THEN row ELSE queue[j]
  BY DEF TypeOK
<1>3. ASSUME NEW j \in Items PROVE ItemStep(j) /\ (ItemExists(j) => ItemExists(j)')
  <2>1. CASE j = i
    BY <1>2, <2>1, NoRowStates DEF ItemStep, ItemExists
  <2>2. CASE j # i
    BY <1>2, <2>2 DEF ItemStep, ItemExists
  <2> QED
    BY <2>1, <2>2
<1> QED
  BY <1>1, <1>3 DEF RowsStep

\* Only rows that wait may be early: what is computed from the row at hand is in time.
LEMMA CommandsAreCopies ==
  ASSUME TypeOK, NEW i \in Items, ItemExists(i), ItemSound(i)
  PROVE  /\ queue[i].state # "WAITING_TIME" =>
              /\ StoresCopy(i, Paused(queue[i])) /\ StoresCopy(i, Resumed(queue[i]))
              /\ StoresCopy(i, Cancelled(queue[i])) /\ StoresCopy(i, Requeued(queue[i]))
              /\ StoresCopy(i, [Cleared(queue[i]) EXCEPT !.state = "MANUAL_REVIEW"])
              /\ StoresCopy(i, [Cleared(queue[i]) EXCEPT !.state = "QUEUED"])
         /\ \A a : TimedAs(queue[i], a) => StoresCopy(i, Rearmed(queue[i], a))
<1>1. queue[i] \in Row
  BY DEF TypeOK
<1>2. ASSUME NEW row, row.task = queue[i].task, row.avail = queue[i].avail,
             row.state \in QueueState, queue[i].state # "WAITING_TIME"
      PROVE  StoresCopy(i, row)
  BY <1>2 DEF StoresCopy, TimedAs, StartedInTime, ItemSound, Started, ItemExists
<1>3. ASSUME NEW a
      PROVE  /\ Rearmed(queue[i], a).task = queue[i].task /\ Rearmed(queue[i], a).avail = a
             /\ Rearmed(queue[i], a).state = "WAITING_TIME"
  BY <1>1 DEF Rearmed, Cleared, Row
<1>4. \A a : TimedAs(queue[i], a) => StoresCopy(i, Rearmed(queue[i], a))
  BY <1>3, NoRowStates DEF StoresCopy, TimedAs, StartedInTime
<1>5. ASSUME NEW s \in QueueState
      PROVE  /\ [Cleared(queue[i]) EXCEPT !.state = s].task = queue[i].task
             /\ [Cleared(queue[i]) EXCEPT !.state = s].avail = queue[i].avail
             /\ [Cleared(queue[i]) EXCEPT !.state = s].state = s
  BY <1>1 DEF Cleared, Row
<1>6. /\ Requeued(queue[i]).task = queue[i].task /\ Resumed(queue[i]).task = queue[i].task
      /\ Requeued(queue[i]).avail = queue[i].avail /\ Resumed(queue[i]).avail = queue[i].avail
      /\ Requeued(queue[i]).state = "QUEUED" /\ Resumed(queue[i]).state = "QUEUED"
  BY <1>1 DEF Requeued, Resumed, Cleared, Row
<1>7. {"PAUSED", "QUEUED", "CANCELLED", "MANUAL_REVIEW"} \subseteq QueueState
  BY DEF QueueState
<1>8. ASSUME queue[i].state # "WAITING_TIME"
      PROVE  /\ StoresCopy(i, Resumed(queue[i])) /\ StoresCopy(i, Requeued(queue[i]))
             /\ \A s \in QueueState : StoresCopy(i, [Cleared(queue[i]) EXCEPT !.state = s])
  <2>1. StoresCopy(i, Resumed(queue[i])) /\ StoresCopy(i, Requeued(queue[i]))
    BY <1>2, <1>6, <1>7, <1>8
  <2>2. ASSUME NEW s \in QueueState
        PROVE  StoresCopy(i, [Cleared(queue[i]) EXCEPT !.state = s])
    <3>1. /\ [Cleared(queue[i]) EXCEPT !.state = s].task = queue[i].task
          /\ [Cleared(queue[i]) EXCEPT !.state = s].avail = queue[i].avail
          /\ [Cleared(queue[i]) EXCEPT !.state = s].state \in QueueState
      BY <1>5
    <3> QED
      BY <1>2, <1>8, <3>1
  <2> QED
    BY <2>1, <2>2
<1> QED
  BY <1>4, <1>7, <1>8 DEF Paused, Cancelled

\* A handler that has read item i will store a copy of it.
LEMMA PrepareKeepsCopies ==
  ASSUME TypeOK, TypeOK', CopiesSound, NEW r \in Requests, NEW op, NEW i \in Items, NEW row,
         op # "insert", Prepare(r, op, i, row), StoresCopy(i, row)
  PROVE  CopiesSound'
<1> PICK base : request' = [request EXCEPT ![r] =
                   [op |-> op, item |-> i, row |-> row, base |-> base]]
  BY DEF Prepare
<1>1. UNCHANGED <<now, task, queue, worker>>
  BY DEF Prepare
<1>2. /\ \A s \in Requests : s # r => request'[s] = request[s]
      /\ request'[r] = [op |-> op, item |-> i, row |-> row, base |-> base]
  BY DEF TypeOK
<1>3. CopyOf(row, i)' /\ StartedInTime(row)' /\ row.state \in QueueState
  BY <1>1, NoRowStates DEF StoresCopy, CopyOf, StartedInTime, ItemExists, TimedAs
<1>4. RequestCopySound(request[r])'
  BY <1>2, <1>3 DEF RequestCopySound, CopyOf, StartedInTime, ItemExists, TimedAs
<1> QED
  BY <1>1, <1>2, <1>4, NothingMoves, SoundnessIsKept

-----------------------------------------------------------------------------
(* Each kind of step keeps the copies sound.                                *)

LEMMA CommandStarts ==
  ASSUME NEW s \in QueueState
  PROVE  \A target \in {"PAUSED", "CANCELLED", "MANUAL_REVIEW"} :
            CanTransition(s, target) => s # "WAITING_TIME"
  BY DEF CanTransition, Successors, QueueState

LEMMA MayRetryStarted ==
  ASSUME NEW row, MayRetry(row)
  PROVE  row.state \in QueueState /\ row.state # "WAITING_TIME"
  BY DEF MayRetry, Retryable, QueueState

\* A row inserted for a task that exists has the task's time.
LEMMA NewItemFits ==
  ASSUME NEW t, NEW a
  PROVE  /\ NewItem(t, a).task = t /\ NewItem(t, a).state = "WAITING_TIME"
         /\ TimedAs(NewItem(t, a), a)
  BY DEF NewItem, NoRow, TimedAs

\* The enqueue's choice between sending back, reusing and inserting.
LEMMA EnqueueCopies ==
  ASSUME TypeOK, CopiesSound, NEW t \in Tasks, NEW i \in ItemsOf(t)
  PROVE  /\ i \in Items /\ ItemExists(i) /\ queue[i].task = t
         /\ MayRetry(queue[i]) => StoresCopy(i, Requeued(queue[i]))
         /\ StoresCopy(i, Rearmed(queue[i], task[t].avail))
<1>1. i \in Items /\ ItemExists(i) /\ queue[i].task = t /\ ItemSound(i)
  BY DEF ItemsOf, CopiesSound
<1>2. TimedAs(queue[i], task[t].avail)
  BY <1>1 DEF ItemSound
<1> QED
  BY <1>1, <1>2, CommandsAreCopies, MayRetryStarted

LEMMA ReadsKeepCopies ==
  ASSUME TypeOK, TypeOK', CopiesSound, NEW r \in Requests, NEW i \in Items,
         \/ ResumeRead(r, i) \/ RetryRead(r, i)
         \/ \E w \in Workers :
               PauseRead(r, i, w) \/ CancelRead(r, i, w) \/ ManualReviewRead(r, i, w)
  PROVE  CopiesSound'
<1>1. ItemSound(i)
  BY DEF CopiesSound
<1>2. CASE ResumeRead(r, i)
  <2>1. ItemExists(i) /\ queue[i].state # "WAITING_TIME"
    BY <1>2 DEF ResumeRead, ItemExists, QueueState
  <2>2. StoresCopy(i, Resumed(queue[i])) /\ Prepare(r, "resume", i, Resumed(queue[i]))
    BY <1>1, <1>2, <2>1, CommandsAreCopies DEF ResumeRead
  <2> QED
    BY <2>2, PrepareKeepsCopies
<1>3. CASE RetryRead(r, i)
  <2>1. ItemExists(i) /\ queue[i].state # "WAITING_TIME"
    BY <1>3, MayRetryStarted DEF RetryRead, ItemExists
  <2>2. StoresCopy(i, Requeued(queue[i])) /\ Prepare(r, "retry", i, Requeued(queue[i]))
    BY <1>1, <1>3, <2>1, CommandsAreCopies DEF RetryRead
  <2> QED
    BY <2>2, PrepareKeepsCopies
<1>4. CASE \E w \in Workers : PauseRead(r, i, w)
  <2>1. ItemExists(i) /\ queue[i].state # "WAITING_TIME"
    BY <1>4, CommandStarts DEF PauseRead, ItemExists
  <2>2. StoresCopy(i, Paused(queue[i])) /\ Prepare(r, "pause", i, Paused(queue[i]))
    BY <1>1, <1>4, <2>1, CommandsAreCopies DEF PauseRead
  <2> QED
    BY <2>2, PrepareKeepsCopies
<1>5. CASE \E w \in Workers : CancelRead(r, i, w)
  <2>1. ItemExists(i) /\ queue[i].state # "WAITING_TIME"
    BY <1>5, CommandStarts DEF CancelRead, ItemExists
  <2>2. StoresCopy(i, Cancelled(queue[i])) /\ Prepare(r, "cancel", i, Cancelled(queue[i]))
    BY <1>1, <1>5, <2>1, CommandsAreCopies DEF CancelRead
  <2> QED
    BY <2>2, PrepareKeepsCopies
<1>6. CASE \E w \in Workers : ManualReviewRead(r, i, w)
  <2> DEFINE row == [Cleared(queue[i]) EXCEPT !.state = "MANUAL_REVIEW"]
  <2>1. ItemExists(i) /\ queue[i].state # "WAITING_TIME"
    BY <1>6 DEF ManualReviewRead, Taken, ItemExists, QueueState
  <2>2. StoresCopy(i, row) /\ Prepare(r, "manual", i, row)
    BY <1>1, <1>6, <2>1, CommandsAreCopies DEF ManualReviewRead
  <2> HIDE DEF row
  <2> QED
    BY <2>2, PrepareKeepsCopies
<1> QED
  BY <1>2, <1>3, <1>4, <1>5, <1>6

LEMMA EnqueueReadKeepsCopies ==
  ASSUME TypeOK, TypeOK', CopiesSound, NEW r \in Requests, NEW t \in Tasks, EnqueueRead(r, t)
  PROVE  CopiesSound'
<1>1. CASE \E i \in ActiveOf(t) :
             MayRetry(queue[i]) /\ Prepare(r, "retry", i, Requeued(queue[i]))
  <2> PICK i \in ActiveOf(t) :
             MayRetry(queue[i]) /\ Prepare(r, "retry", i, Requeued(queue[i]))
    BY <1>1
  <2>1. i \in Items /\ StoresCopy(i, Requeued(queue[i]))
    BY EnqueueCopies DEF ActiveOf
  <2> QED
    BY <2>1, PrepareKeepsCopies
<1>2. CASE \E i \in ItemsOf(t) : Prepare(r, "rearm", i, Rearmed(queue[i], task[t].avail))
  <2> PICK i \in ItemsOf(t) : Prepare(r, "rearm", i, Rearmed(queue[i], task[t].avail))
    BY <1>2
  <2>1. i \in Items /\ StoresCopy(i, Rearmed(queue[i], task[t].avail))
    BY EnqueueCopies
  <2> QED
    BY <2>1, PrepareKeepsCopies
<1>3. CASE Prepare(r, "insert", NoItem, NewItem(t, task[t].avail))
  <2> DEFINE row == NewItem(t, task[t].avail)
  <2> PICK base : request' = [request EXCEPT ![r] =
                     [op |-> "insert", item |-> NoItem, row |-> row, base |-> base]]
    BY <1>3 DEF Prepare
  <2>1. UNCHANGED <<now, task, queue, worker>>
    BY <1>3 DEF Prepare
  <2>2. /\ \A s \in Requests : s # r => request'[s] = request[s]
        /\ request'[r].op = "insert" /\ request'[r].row = row
    BY DEF TypeOK
  <2>3. row.task = t /\ row.state = "WAITING_TIME" /\ TimedAs(row, task[t].avail)
    BY NewItemFits
  <2>4. TaskExists(t) /\ task[t].status # "ABSENT"
    BY <1>3, NoRowStates DEF EnqueueRead, TaskExists
  <2> HIDE DEF row
  <2>5. RequestCopySound(request[r])'
    BY <2>1, <2>2, <2>3, <2>4 DEF RequestCopySound, TaskExists, TimedAs
  <2> QED
    BY <2>1, <2>2, <2>5, NothingMoves, SoundnessIsKept
<1> QED
  BY <1>1, <1>2, <1>3 DEF EnqueueRead

LEMMA EnqueueLockedKeepsCopies ==
  ASSUME TypeOK, TypeOK', CopiesSound, NEW t \in Tasks, EnqueueLocked(t) \/ ConfirmDramaMatch(t)
  PROVE  CopiesSound'
<1>1. TaskExists(t) /\ UNCHANGED <<now, worker, request>>
  BY DEF EnqueueLocked, ConfirmDramaMatch
<1> PICK s : s \in TaskStatus /\ task' = [task EXCEPT ![t].status = s]
  BY DEF EnqueueLocked, ConfirmDramaMatch, Restartable, TaskExists, TaskStatus
<1>2. /\ \A u \in Tasks : TaskStep(u) /\ (TaskExists(u) => TaskExists(u)')
      /\ task'[t].avail = task[t].avail
  <2> DEFINE row == [task[t] EXCEPT !.status = s]
  <2>1. /\ row.status \in TaskStatus /\ row.avail = task[t].avail
        /\ task' = [task EXCEPT ![t] = row] /\ task'[t] = row
    BY DEF TypeOK, TaskRow
  <2> HIDE DEF row
  <2> QED
    BY <1>1, <2>1, StatusStep
<1>3. TaskExists(t)'
  BY <1>1, <1>2
<1>4. CASE \E i \in ItemsOf(t) : \E row : StoresCopy(i, row) /\ queue' = [queue EXCEPT ![i] = row]
  <2> PICK i \in ItemsOf(t) : \E row : StoresCopy(i, row) /\ queue' = [queue EXCEPT ![i] = row]
    BY <1>4
  <2> PICK row : StoresCopy(i, row) /\ queue' = [queue EXCEPT ![i] = row]
    OBVIOUS
  <2>1. i \in Items
    BY DEF ItemsOf
  <2>2. RowsStep
    BY <1>1, <1>2, <2>1, StoreStep
  <2> QED
    BY <1>1, <2>2, SoundnessIsKept
<1>5. CASE \E i \in Items : /\ queue[i].state = "ABSENT"
                            /\ queue' = [queue EXCEPT ![i] = NewItem(t, task[t].avail)]
  <2> PICK i \in Items : /\ queue[i].state = "ABSENT"
                         /\ queue' = [queue EXCEPT ![i] = NewItem(t, task[t].avail)]
    BY <1>5
  <2> DEFINE row == NewItem(t, task[t].avail)
  <2>1. row.task = t /\ row.state = "WAITING_TIME" /\ TimedAs(row, task'[t].avail)
    BY <1>2, NewItemFits
  <2>2. queue' = [queue EXCEPT ![i] = row] /\ now' = now
    BY <1>1
  <2> HIDE DEF row
  <2>3. RowsStep
    BY <1>2, <1>3, <2>1, <2>2, InsertStep
  <2> QED
    BY <1>1, <2>3, SoundnessIsKept
<1>6. CASE \E i \in ItemsOf(t) : \/ /\ MayRetry(queue[i])
                                    /\ queue' = [queue EXCEPT ![i] = Requeued(queue[i])]
                                 \/ queue' = [queue EXCEPT ![i] = Rearmed(queue[i], task[t].avail)]
  BY <1>4, <1>6, EnqueueCopies
<1>7. CASE EnqueueLocked(t)
  BY <1>5, <1>6, <1>7 DEF EnqueueLocked, ActiveOf
<1>8. CASE ConfirmDramaMatch(t)
  BY <1>6, <1>8 DEF ConfirmDramaMatch
<1> QED
  BY <1>7, <1>8

LEMMA DeleteKeepsCopies ==
  ASSUME TypeOK, TypeOK', LockHeldWhileRunning, CopiesSound, NEW t \in Tasks, DeleteTask(t)
  PROVE  CopiesSound'
<1>1. TaskExists(t) /\ UNCHANGED <<now, worker, request>> /\ lock = Free
  BY DEF DeleteTask
<1>2. \A w \in Workers : worker[w].pc # "running"
  BY <1>1, WorkQueueAssumption DEF LockHeldWhileRunning
<1>3. /\ [NoRow EXCEPT !.state = "GONE"].state = "GONE"
      /\ [NoTaskRow EXCEPT !.status = "GONE"].status = "GONE"
  BY DEF NoRow, NoTaskRow
<1>4. \A i \in Items : IF queue[i].task = t /\ ItemExists(i)
                       THEN queue'[i].state = "GONE" ELSE queue'[i] = queue[i]
  BY <1>3 DEF DeleteTask, TypeOK
<1>5. \A u \in Tasks : IF u = t THEN task'[u].status = "GONE" ELSE task'[u] = task[u]
  BY <1>3 DEF DeleteTask, TypeOK
<1>6. \A i \in Items : ItemStep(i)
  BY <1>4 DEF ItemStep
<1>7. \A i \in Items : queue[i].task = t /\ ItemExists(i) => ~ItemExists(i)'
  BY <1>4, NoRowStates DEF ItemExists
<1>8. \A u \in Tasks : TaskStep(u)
  BY <1>1, <1>5, <1>7 DEF TaskStep
<1>9. now' \in Time /\ now <= now'
  BY <1>1, WorkQueueAssumption DEF TypeOK, Time
<1>10. RowsStep
  BY <1>2, <1>6, <1>8, <1>9 DEF RowsStep
<1> QED
  BY <1>1, <1>10, SoundnessIsKept

LEMMA CreateAndScanKeepCopies ==
  ASSUME TypeOK, TypeOK', CopiesSound, NEW t \in Tasks, NEW a \in Time,
         CreateTask(t, a) \/ ScanNew(t, a)
  PROVE  CopiesSound'
<1>1. task[t].status = "ABSENT" /\ UNCHANGED <<now, worker, request>>
  BY DEF CreateTask, ScanNew
<1>2. /\ task'[t].status = "WAITING_TIME" /\ task'[t].avail = a
      /\ \A u \in Tasks : u # t => task'[u] = task[u]
  BY DEF CreateTask, ScanNew, TypeOK, TaskRow
<1>3. (\A u \in Tasks : TaskStep(u)) /\ TaskExists(t)'
  BY <1>1, <1>2 DEF TaskStep, TaskExists, TaskStatus
<1>4. CASE CreateTask(t, a)
  <2>1. now' \in Time /\ now <= now' /\ queue' = queue
    BY <1>1, <1>4, WorkQueueAssumption DEF TypeOK, Time, CreateTask
  <2>2. RowsStep
    BY <1>3, <2>1 DEF RowsStep, ItemStep, ItemExists
  <2> QED
    BY <1>1, <2>2, SoundnessIsKept
<1>5. CASE ScanNew(t, a)
  <2> PICK i \in Items : /\ queue[i].state = "ABSENT"
                         /\ queue' = [queue EXCEPT ![i] = NewItem(t, a)]
    BY <1>5 DEF ScanNew
  <2> DEFINE row == NewItem(t, a)
  <2>1. row.task = t /\ row.state = "WAITING_TIME" /\ TimedAs(row, task'[t].avail)
    BY <1>2, NewItemFits
  <2>2. queue' = [queue EXCEPT ![i] = row] /\ now' = now
    BY <1>1
  <2> HIDE DEF row
  <2>3. RowsStep
    BY <1>3, <2>1, <2>2, InsertStep
  <2> QED
    BY <1>1, <2>3, SoundnessIsKept
<1> QED
  BY <1>4, <1>5

\* A time found again in the sheet is the one the task has, or the task is movable.
LEMMA ScanKeepsCopies ==
  ASSUME TypeOK, TypeOK', CopiesSound, NEW t \in Tasks, NEW a \in Time, ScanKnown(t, a)
  PROVE  CopiesSound'
<1>1. /\ TaskExists(t) /\ UNCHANGED <<now, worker, request>>
      /\ task[t].avail = a \/ t \in Movable
      /\ task' = [task EXCEPT ![t].avail = a]
  BY DEF ScanKnown
<1>2. /\ task'[t].status = task[t].status /\ task'[t].avail = a
      /\ \A u \in Tasks : u # t => task'[u] = task[u]
  BY <1>1 DEF TypeOK, TaskRow
<1>3. (\A u \in Tasks : TaskStep(u)) /\ TaskExists(t)'
  BY <1>1, <1>2 DEF TaskStep, TaskExists
<1>4. ASSUME NEW i \in ActiveOf(t), queue[i].state = "WAITING_TIME",
             queue' = [queue EXCEPT ![i].avail = a]
      PROVE  CopiesSound'
  <2> DEFINE row == [queue[i] EXCEPT !.avail = a]
  <2>1. i \in Items /\ ItemExists(i) /\ queue[i].task = t /\ ItemSound(i) /\ queue[i] \in Row
    BY DEF ActiveOf, ItemsOf, CopiesSound, TypeOK
  <2>2. row.task = t /\ row.state = "WAITING_TIME" /\ row.avail = a
    BY <1>4, <2>1 DEF Row
  <2>3. queue' = [queue EXCEPT ![i] = row] /\ now' = now
    BY <1>1, <1>4
  <2>4. t \notin Movable => queue[i].avail = a
    BY <1>1, <2>1 DEF ItemSound, TimedAs
  <2> HIDE DEF row
  <2>5. StoresCopy(i, row)
    BY <2>1, <2>2, <2>4, NoRowStates DEF StoresCopy, TimedAs, StartedInTime
  <2>6. RowsStep
    BY <1>3, <2>1, <2>3, <2>5, StoreStep
  <2> QED
    BY <1>1, <2>6, SoundnessIsKept
<1>5. ASSUME NEW i \in Items, queue[i].state = "ABSENT",
             queue' = [queue EXCEPT ![i] = NewItem(t, a)]
      PROVE  CopiesSound'
  <2> DEFINE row == NewItem(t, a)
  <2>1. row.task = t /\ row.state = "WAITING_TIME" /\ TimedAs(row, task'[t].avail)
    BY <1>2, NewItemFits
  <2>2. queue' = [queue EXCEPT ![i] = row] /\ now' = now
    BY <1>1, <1>5
  <2> HIDE DEF row
  <2>3. RowsStep
    BY <1>3, <1>5, <2>1, <2>2, InsertStep
  <2> QED
    BY <1>1, <2>3, SoundnessIsKept
<1>6. CASE UNCHANGED queue
  <2>1. now' \in Time /\ now <= now'
    BY <1>1, WorkQueueAssumption DEF TypeOK, Time
  <2>2. RowsStep
    BY <1>3, <1>6, <2>1 DEF RowsStep, ItemStep, ItemExists
  <2> QED
    BY <1>1, <2>2, SoundnessIsKept
<1> QED
  BY <1>4, <1>5, <1>6 DEF ScanKnown

\* What an UPDATE leaves in a row is as much a copy of it as the copy was.
LEMMA StoredIsCopy ==
  ASSUME NEW i, NEW copy, NEW base, ItemExists(i), CopyOf(copy, i), copy.state \in QueueState,
         base = queue[i] \/ base.state # copy.state,
         StartedInTime(copy) \/ (copy.task \notin Movable => copy.avail <= now)
  PROVE  /\ StoresCopy(i, Stored(copy, base, queue[i]))
         /\ StoresCopy(i, copy)
<1>1. copy.task = queue[i].task /\ TimedAs(copy, queue[i].avail)
  BY DEF CopyOf
<1>2. Stored(copy, base, queue[i]).state = copy.state
  BY StoredState
<1>3. /\ Stored(copy, base, queue[i]).task = queue[i].task
      /\ Stored(copy, base, queue[i]).avail \in {copy.avail, queue[i].avail}
  BY <1>1 DEF Stored
<1>4. StoresCopy(i, copy)
  BY <1>1 DEF StoresCopy, StartedInTime
<1> HIDE DEF Stored
<1>5. StoresCopy(i, Stored(copy, base, queue[i]))
  BY <1>1, <1>2, <1>3, <1>4 DEF StoresCopy, StartedInTime, TimedAs
<1> QED
  BY <1>4, <1>5

LEMMA HandlerKeepsCopies ==
  ASSUME TypeOK, TypeOK', RowsSound, CopiesSound, NEW r \in Requests,
         StoreBoth(r) \/ StoreItem(r) \/ InsertItem(r) \/ RequestFails(r)
  PROVE  CopiesSound'
<1> DEFINE q == request[r]
<1>1. RequestCopySound(q) /\ RequestSound(q) /\ q \in RequestMemory
  BY DEF CopiesSound, RowsSound, TypeOK
<1>2. request' = [request EXCEPT ![r] = NoRequest] /\ UNCHANGED <<now, worker>>
  BY DEF StoreBoth, StoreItem, InsertItem, RequestFails
<1>3. ASSUME RowsStep PROVE CopiesSound'
  <2>1. request'[r] = NoRequest /\ \A s \in Requests : s # r => request'[s] = request[s]
    BY <1>2 DEF TypeOK
  <2>2. RequestCopySound(request[r])'
    BY <2>1 DEF RequestCopySound, NoRequest
  <2> QED
    BY <1>2, <1>3, <2>1, <2>2, SoundnessIsKept
<1>4. ASSUME q.op \notin {"none", "insert"}, ItemExists(q.item)
      PROVE  /\ q.item \in Items /\ CopyOf(q.row, q.item) /\ StartedInTime(q.row)
             /\ q.row.state \in QueueState
  BY <1>1, <1>4 DEF RequestCopySound
<1>5. CASE RequestFails(r)
  BY <1>3, <1>5, NothingMoves DEF RequestFails
<1>6. CASE InsertItem(r)
  <2> PICK i \in Items : queue[i].state = "ABSENT" /\ queue' = [queue EXCEPT ![i] = q.row]
    BY <1>6 DEF InsertItem
  <2>1. TaskExists(q.row.task) /\ UNCHANGED <<now, task>> /\ q.op = "insert"
    BY <1>6 DEF InsertItem
  <2>2. /\ q.row.task \in Tasks /\ q.row.state = "WAITING_TIME"
        /\ TimedAs(q.row, task[q.row.task].avail)
    BY <1>1, <2>1 DEF RequestCopySound
  <2> PICK t \in Tasks : t = q.row.task
    BY <2>2
  <2>3. TaskExists(t)' /\ TimedAs(q.row, task'[t].avail) /\ \A u \in Tasks : TaskStep(u)
    BY <2>1, <2>2 DEF TaskExists, TimedAs, TaskStep
  <2>4. RowsStep
    BY <2>1, <2>2, <2>3, InsertStep
  <2> QED
    BY <1>3, <2>4
<1>7. CASE StoreBoth(r)
  <2>1. /\ ItemExists(q.item) /\ q.op \notin {"none", "insert"}
        /\ queue' = [queue EXCEPT ![q.item] = q.row]
    BY <1>7 DEF StoreBoth, StatusOf
  <2>2. StoresCopy(q.item, q.row) /\ q.item \in Items
    BY <1>4, <2>1 DEF StoresCopy, CopyOf
  <2>3. \A u \in Tasks : TaskStep(u)
    <3>1. StatusOf[q.op] \in TaskStatus /\ SyncTaskStatus(q.row.task, StatusOf[q.op])
      BY <1>7 DEF StoreBoth, StatusOf, TaskStatus
    <3>2. CASE TaskExists(q.row.task)
      <4> DEFINE t == q.row.task
                 row == [task[t] EXCEPT !.status = StatusOf[q.op]]
      <4>1. t \in Tasks /\ row.status \in TaskStatus /\ row.avail = task[t].avail
        BY <3>1, <3>2 DEF TaskExists, TypeOK, TaskRow
      <4>2. task' = [task EXCEPT ![t] = row]
        BY <3>1, <3>2 DEF SyncTaskStatus
      <4> HIDE DEF row
      <4> QED
        BY <3>2, <4>1, <4>2, StatusStep
    <3>3. CASE ~TaskExists(q.row.task)
      BY <3>1, <3>3 DEF SyncTaskStatus, TaskStep
    <3> QED
      BY <3>2, <3>3
  <2>4. RowsStep
    BY <1>2, <2>1, <2>2, <2>3, StoreStep
  <2> QED
    BY <1>3, <2>4
<1>8. CASE StoreItem(r)
  <2>1. ItemExists(q.item) /\ q.op \notin {"none", "insert"} /\ q.base # NoRow /\ task' = task
    BY <1>8 DEF StoreItem
  <2> PICK base \in {q.base, queue[q.item]} :
        LET row == Stored(q.row, base, queue[q.item]) IN
        queue' = [queue EXCEPT ![q.item] =
                    IF q.op = "rearm" THEN [row EXCEPT !.avail = q.row.avail] ELSE row]
    BY <1>8 DEF StoreItem
  <2> DEFINE row == Stored(q.row, base, queue[q.item])
  <2>2. base = queue[q.item] \/ base.state # q.row.state
    BY <1>1, <2>1 DEF RequestSound
  <2>3. StoresCopy(q.item, row) /\ StoresCopy(q.item, q.row)
    BY <1>4, <2>1, <2>2, StoredIsCopy
  <2>4. /\ row.state = q.row.state
        /\ [row EXCEPT !.avail = q.row.avail].state = row.state
        /\ [row EXCEPT !.avail = q.row.avail].task = row.task
        /\ [row EXCEPT !.avail = q.row.avail].avail = q.row.avail
    BY <2>2, StoredState DEF Stored
  <2> HIDE DEF row
  <2>5. StoresCopy(q.item, [row EXCEPT !.avail = q.row.avail])
    BY <2>3, <2>4 DEF StoresCopy, TimedAs, StartedInTime
  <2>6. PICK stored : StoresCopy(q.item, stored) /\ queue' = [queue EXCEPT ![q.item] = stored]
    BY <2>3, <2>5 DEF row
  <2>7. \A u \in Tasks : TaskStep(u)
    BY <2>1 DEF TaskStep
  <2>8. q.item \in Items
    BY <1>4, <2>1
  <2>9. RowsStep
    BY <1>2, <2>6, <2>7, <2>8, StoreStep
  <2> QED
    BY <1>3, <2>9
<1> QED
  BY <1>5, <1>6, <1>7, <1>8

\* What the cycle makes of the due copies: rows as they were, and copies in time.
LEMMA AdvancedCopies ==
  ASSUME TypeOK, CopiesSound, NEW w \in Workers, worker[w].pc = "advancing", DueStillThere(w),
         NEW first \in Items, NEW base \in {worker[w].due[first], queue[first]}, NEW i \in Items
  PROVE  \/ Advanced(w, first, base)[i] = queue[i]
         \/ StoresCopy(i, Advanced(w, first, base)[i])
<1> DEFINE due    == worker[w].due[i]
           queued == [due EXCEPT !.state = "QUEUED"]
<1>1. CASE due.state # "WAITING_TIME"
  BY <1>1 DEF Advanced
<1>2. CASE due.state = "WAITING_TIME"
  <2>1. ItemExists(i) /\ CopyOf(due, i) /\ due.avail <= now /\ due \in Row
    BY <1>2 DEF DueStillThere, CopiesSound, WorkerCopiesSound, TypeOK, WorkerMemory
  <2>2. /\ queued.task = due.task /\ queued.avail = due.avail /\ queued.state = "QUEUED"
        /\ queued.state \in QueueState
    BY <2>1 DEF Row, QueueState
  <2>3. i = first => base = queue[i] \/ base.state # queued.state
    BY <1>2, <2>2
  <2>4. Advanced(w, first, base)[i] = IF i = first THEN Stored(queued, base, queue[i]) ELSE queued
    BY <1>2 DEF Advanced
  <2> HIDE DEF queued
  <2>5. CopyOf(queued, i) /\ queued.avail <= now
    BY <2>1, <2>2 DEF CopyOf, TimedAs
  <2>6. StoresCopy(i, queued)
    BY <2>1, <2>2, <2>5 DEF StoresCopy, CopyOf, StartedInTime
  <2>7. i = first => StoresCopy(i, Stored(queued, base, queue[i]))
    BY <2>1, <2>2, <2>3, <2>5, StoredIsCopy
  <2> QED
    BY <2>4, <2>6, <2>7
<1> QED
  BY <1>1, <1>2

\* Rows that are as they were or take copies of themselves, and nothing else moves.
LEMMA StoresStep ==
  ASSUME TypeOK, UNCHANGED <<now, task>>,
         \A i \in Items : queue'[i] = queue[i] \/ StoresCopy(i, queue'[i])
  PROVE  RowsStep
<1>1. now' \in Time /\ now <= now'
  BY WorkQueueAssumption DEF TypeOK, Time
<1>2. \A i \in Items : ItemStep(i) /\ (ItemExists(i) => ItemExists(i)')
  BY DEF ItemStep, StoresCopy, ItemExists
<1>3. \A t \in Tasks : TaskStep(t)
  BY DEF TaskStep
<1> QED
  BY <1>1, <1>2, <1>3 DEF RowsStep

LEMMA ClaimedColumns ==
  ASSUME NEW row \in Row, NEW w
  PROVE  /\ Claimed(row, w).state = "CLAIMED" /\ Claimed(row, w).task = row.task
         /\ Claimed(row, w).avail = row.avail
  BY DEF Claimed, Row

LEMMA ClaimKeepsCopies ==
  ASSUME TypeOK, TypeOK', CopiesSound, NEW w \in Workers, AdvanceAndClaim(w)
  PROVE  CopiesSound'
<1>1. worker[w].pc = "advancing" /\ DueStillThere(w) /\ UNCHANGED <<now, task, request>>
  BY DEF AdvanceAndClaim
<1> PICK first \in Items : \E base \in {worker[w].due[first], queue[first]} :
      LET q == Advanced(w, first, base) IN
      \/ \E i \in Items :
            /\ NextInLine(q, i)
            /\ queue' = [q EXCEPT ![i] = Claimed(q[i], w)]
            /\ worker' = [worker EXCEPT ![w] =
                 [Memory("claimed") EXCEPT !.item = i, !.copy = Claimed(q[i], w)]]
      \/ queue' = q /\ worker' = [worker EXCEPT ![w] = Memory("idle")]
  BY DEF AdvanceAndClaim
<1> PICK base \in {worker[w].due[first], queue[first]} :
      LET q == Advanced(w, first, base) IN
      \/ \E i \in Items :
            /\ NextInLine(q, i)
            /\ queue' = [q EXCEPT ![i] = Claimed(q[i], w)]
            /\ worker' = [worker EXCEPT ![w] =
                 [Memory("claimed") EXCEPT !.item = i, !.copy = Claimed(q[i], w)]]
      \/ queue' = q /\ worker' = [worker EXCEPT ![w] = Memory("idle")]
  OBVIOUS
<1> DEFINE q == Advanced(w, first, base)
<1>2. \A i \in Items : q[i] = queue[i] \/ StoresCopy(i, q[i])
  BY <1>1, AdvancedCopies
<1>3. q \in [Items -> Row]
  <2>1. \A i \in Items : [worker[w].due[i] EXCEPT !.state = "QUEUED"] \in Row
    <3>1. \A i \in Items : worker[w].due[i] \in Row
      BY ZenonT(60) DEF TypeOK, WorkerMemory
    <3> QED
      BY <3>1, CommandRowsType, Numbers
  <2>2. \A i \in Items :
          Stored([worker[w].due[i] EXCEPT !.state = "QUEUED"], base, queue[i]) \in Row
    BY <2>1, StoredType DEF TypeOK
  <2> QED
    BY <2>1, <2>2 DEF Advanced, TypeOK
<1> HIDE DEF q
<1>4. CASE queue' = q /\ worker' = [worker EXCEPT ![w] = Memory("idle")]
  <2>1. RowsStep
    BY <1>1, <1>2, <1>4, StoresStep
  <2>2. /\ worker'[w].pc = "idle"
        /\ \A v \in Workers : v # w => worker'[v] = worker[v]
    BY <1>4 DEF TypeOK, Memory
  <2>3. WorkerCopiesSound(worker[w])'
    BY <2>2 DEF WorkerCopiesSound
  <2> QED
    BY <1>1, <2>1, <2>2, <2>3, SoundnessIsKept
<1>5. ASSUME NEW i \in Items, NextInLine(q, i),
             queue' = [q EXCEPT ![i] = Claimed(q[i], w)],
             worker' = [worker EXCEPT ![w] =
                 [Memory("claimed") EXCEPT !.item = i, !.copy = Claimed(q[i], w)]]
      PROVE  CopiesSound'
  <2> PICK copy : copy = Claimed(q[i], w)
    OBVIOUS
  <2>1. /\ q[i].state = "QUEUED" /\ copy.state = "CLAIMED"
        /\ copy.task = q[i].task /\ copy.avail = q[i].avail
    <3>1. q[i].state = "QUEUED" /\ q[i] \in Row
      BY <1>3, <1>5 DEF NextInLine
    <3> QED
      BY <3>1, ClaimedColumns
  <2>2. StoresCopy(i, q[i])
    <3>1. CASE q[i] = queue[i]
      BY <2>1, <3>1 DEF StoresCopy, ItemExists, TimedAs, CopiesSound, ItemSound, QueueState
    <3> QED
      BY <1>2, <3>1
  <2>3. StoresCopy(i, copy) /\ (copy.task \notin Movable => copy.avail <= now)
    BY <2>1, <2>2 DEF StoresCopy, TimedAs, StartedInTime, Started, QueueState
  <2>4. \A j \in Items : queue'[j] = IF j = i THEN copy ELSE q[j]
    BY <1>3, <1>5
  <2>5. \A j \in Items : queue'[j] = queue[j] \/ StoresCopy(j, queue'[j])
    BY <1>2, <2>3, <2>4
  <2>6. RowsStep
    BY <1>1, <2>5, StoresStep
  <2>7. /\ worker'[w].pc = "claimed" /\ worker'[w].item = i /\ worker'[w].copy = copy
        /\ \A v \in Workers : v # w => worker'[v] = worker[v]
    BY <1>5 DEF TypeOK, Memory
  <2>8. WorkerCopiesSound(worker[w])'
    BY <1>1, <2>1, <2>3, <2>4, <2>7 DEF WorkerCopiesSound, CopyOf, TimedAs
  <2> QED
    BY <1>1, <2>6, <2>7, <2>8, SoundnessIsKept
<1> QED
  BY <1>4, <1>5 DEF q

LEMMA WorkerKeepsCopies ==
  ASSUME TypeOK, TypeOK', CopiesSound, NEW w \in Workers,
         \/ StartWorker(w) \/ ReadDue(w) \/ BeginExecution(w) \/ Finish(w)
         \/ CycleFails(w) \/ Crash(w)
  PROVE  CopiesSound'
<1>1. now' = now /\ request' = request
  BY DEF StartWorker, ReadDue, BeginExecution, Finish, FinishExecution, CycleFails, Crash
<1>2. WorkerCopiesSound(worker[w]) /\ worker[w] \in WorkerMemory
  BY DEF CopiesSound, TypeOK
<1>3. CASE StartWorker(w) \/ CycleFails(w) \/ Crash(w)
  <2>1. PICK pc \in {"down", "idle"} : worker' = [worker EXCEPT ![w] = Memory(pc)]
    BY <1>3 DEF StartWorker, CycleFails, Crash
  <2>2. UNCHANGED <<task, queue>>
    BY <1>3 DEF StartWorker, CycleFails, Crash
  <2>3. /\ worker'[w].pc \in {"down", "idle"}
        /\ \A v \in Workers : v # w => worker'[v] = worker[v]
    BY <2>1 DEF TypeOK, Memory
  <2>4. WorkerCopiesSound(worker[w])'
    BY <2>3 DEF WorkerCopiesSound
  <2> QED
    BY <1>1, <2>2, <2>3, <2>4, NothingMoves, SoundnessIsKept
<1>4. CASE ReadDue(w)
  <2> DEFINE due == [i \in Items |-> IF queue[i].state = "WAITING_TIME" /\ queue[i].avail <= now
                                     THEN queue[i] ELSE NoRow]
  <2>1. UNCHANGED <<task, queue>>
    BY <1>4 DEF ReadDue
  <2>2. /\ worker'[w].pc = "advancing" /\ worker'[w].due = due
        /\ \A v \in Workers : v # w => worker'[v] = worker[v]
    BY <1>4 DEF ReadDue, TypeOK, Memory
  <2>3. ASSUME NEW i \in Items, due[i].state = "WAITING_TIME"
        PROVE  due[i] = queue[i] /\ queue[i].state = "WAITING_TIME" /\ due[i].avail <= now
    BY <2>3, FreshStates
  <2> HIDE DEF due
  <2>4. ASSUME NEW i \in Items, due[i].state = "WAITING_TIME"
        PROVE  CopyOf(due[i], i) /\ due[i].avail <= now
    BY <2>3, <2>4, NoRowStates DEF CopyOf, TimedAs, ItemExists
  <2>5. WorkerCopiesSound(worker[w])'
    BY <1>1, <2>1, <2>2, <2>4 DEF WorkerCopiesSound, CopyOf, TimedAs, ItemExists
  <2> QED
    BY <1>1, <2>1, <2>2, <2>5, NothingMoves, SoundnessIsKept
<1>5. CASE BeginExecution(w)
  <2>1. /\ UNCHANGED <<task, queue>> /\ worker[w].pc = "claimed" /\ ItemExists(worker[w].item)
        /\ worker' = [worker EXCEPT ![w].pc = "running", ![w].copy.state = "RUNNING"]
    BY <1>5 DEF BeginExecution
  <2>2. /\ worker'[w].pc = "running" /\ worker'[w].item = worker[w].item
        /\ worker'[w].copy.task = worker[w].copy.task
        /\ worker'[w].copy.avail = worker[w].copy.avail
        /\ \A v \in Workers : v # w => worker'[v] = worker[v]
    BY <2>1 DEF TypeOK, WorkerMemory, Row
  <2>3. WorkerCopiesSound(worker[w])'
    BY <1>1, <1>2, <2>1, <2>2 DEF WorkerCopiesSound, CopyOf, TimedAs, ItemExists
  <2> QED
    BY <1>1, <2>1, <2>2, <2>3, NothingMoves, SoundnessIsKept
<1>6. CASE Finish(w)
  <2> PICK report \in Reports, u \in BOOLEAN : FinishExecution(w, report, u)
    BY <1>6 DEF Finish
  <2> DEFINE m == worker[w]
             i == m.item
             t == m.copy.task
             row == [m.copy EXCEPT !.state = ItemStateFor(report),
                                   !.uncertain = IF report = "COMPLETED" THEN @ ELSE u]
             drama == [task[t] EXCEPT !.status = report, !.ledger = @ \/ report = "COMPLETED"]
  <2>1. /\ i \in Items /\ ItemExists(i) /\ CopyOf(m.copy, i) /\ m.copy \in Row
        /\ m.copy.task \notin Movable => m.copy.avail <= now
    BY <1>2 DEF FinishExecution, WorkerCopiesSound, WorkerMemory
  <2>2. ItemStateFor(report) \in QueueState /\ report \in TaskStatus
    BY WorkQueueAssumption DEF ItemStateFor, QueueState, TaskStatus
  <2>3. row.task = t /\ row.avail = m.copy.avail /\ row.state = ItemStateFor(report)
    BY <2>1 DEF Row
  <2>4. queue' = [queue EXCEPT ![i] = row]
    BY DEF FinishExecution
  <2>5. t = queue[i].task /\ TaskExists(t) /\ t \in Tasks
    BY <2>1 DEF CopyOf, CopiesSound, ItemSound, TaskExists
  <2>6. drama.status = report /\ drama.avail = task[t].avail
    BY <2>5 DEF TypeOK, TaskRow
  <2>7. task' = [task EXCEPT ![t] = drama]
    BY <2>5 DEF FinishExecution, TypeOK, TaskRow
  <2> HIDE DEF row, drama
  <2>8. \A x \in Tasks : TaskStep(x)
    BY <2>2, <2>5, <2>6, <2>7, StatusStep
  <2>9. StoresCopy(i, row)
    BY <2>1, <2>2, <2>3, <2>5 DEF StoresCopy, CopyOf, TimedAs, StartedInTime
  <2>10. RowsStep
    BY <1>1, <2>1, <2>4, <2>8, <2>9, StoreStep
  <2>11. /\ worker'[w].pc = "idle"
         /\ \A v \in Workers : v # w => worker'[v] = worker[v]
    BY DEF FinishExecution, TypeOK, Memory
  <2>12. WorkerCopiesSound(worker[w])'
    BY <2>11 DEF WorkerCopiesSound
  <2> QED
    BY <1>1, <2>10, <2>11, <2>12, SoundnessIsKept
<1> QED
  BY <1>3, <1>4, <1>5, <1>6

LEMMA ServicesKeepCopies ==
  ASSUME TypeOK, TypeOK', CopiesSound,
         RecoverExpired \/ \E i \in Items, w \in Workers : ReleaseClaimed(i, w)
  PROVE  CopiesSound'
<1>1. UNCHANGED <<now, task, worker, request>>
  BY DEF RecoverExpired, ReleaseClaimed
<1>2. ASSUME NEW i \in Items, queue[i].state \in Taken, NEW n, NEW s \in {"QUEUED", "MANUAL_REVIEW"}
      PROVE  /\ StoresCopy(i, [Cleared(queue[i]) EXCEPT !.attempts = n, !.state = s])
             /\ StoresCopy(i, [Cleared(queue[i]) EXCEPT !.state = "QUEUED"])
  <2>1. ItemExists(i) /\ queue[i].state # "WAITING_TIME" /\ ItemSound(i) /\ queue[i] \in Row
    BY <1>2 DEF Taken, ItemExists, QueueState, CopiesSound, TypeOK
  <2> DEFINE row == [Cleared(queue[i]) EXCEPT !.attempts = n, !.state = s]
  <2>2. row.task = queue[i].task /\ row.avail = queue[i].avail /\ row.state \in QueueState
    BY <2>1 DEF Cleared, Row, QueueState
  <2> HIDE DEF row
  <2>3. StoresCopy(i, row)
    BY <2>1, <2>2 DEF StoresCopy, TimedAs, StartedInTime, ItemSound, Started, ItemExists
  <2> QED
    BY <2>1, <2>3, CommandsAreCopies DEF row
<1>3. \A i \in Items : queue'[i] = queue[i] \/ StoresCopy(i, queue'[i])
  <2>1. CASE RecoverExpired
    BY <1>2, <2>1 DEF RecoverExpired, Expired
  <2>2. CASE \E i \in Items, w \in Workers : ReleaseClaimed(i, w)
    BY <1>2, <2>2 DEF ReleaseClaimed, TypeOK
  <2> QED
    BY <2>1, <2>2
<1> QED
  BY <1>1, <1>3, StoresStep, SoundnessIsKept

LEMMA CopiesStep ==
  ASSUME IInv, CopiesSound, [Next \/ ServiceNext]_vars PROVE CopiesSound'
<1>1. TypeOK /\ TypeOK' /\ LockHeldWhileRunning /\ RowsSound
  BY StepIInv DEF IInv
<1>2. CASE OperatorNext
  BY <1>1, <1>2, ReadsKeepCopies, EnqueueReadKeepsCopies, EnqueueLockedKeepsCopies,
     DeleteKeepsCopies, CreateAndScanKeepCopies DEF OperatorNext
<1>3. CASE HandlerNext
  BY <1>1, <1>3, HandlerKeepsCopies DEF HandlerNext
<1>4. CASE SchedulerNext
  BY <1>1, <1>4, CreateAndScanKeepCopies, ScanKeepsCopies DEF SchedulerNext
<1>5. CASE WorkerNext
  BY <1>1, <1>5, WorkerKeepsCopies, ClaimKeepsCopies DEF WorkerNext
<1>6. CASE Tick
  <2>1. now' \in Time /\ now <= now' /\ UNCHANGED <<task, queue, worker, request>>
    BY <1>1, <1>6, WorkQueueAssumption DEF Tick, TypeOK, Time
  <2>2. RowsStep
    BY <2>1 DEF RowsStep, ItemStep, TaskStep, ItemExists
  <2> QED
    BY <1>1, <2>1, <2>2, SoundnessIsKept
<1>7. CASE ServiceNext
  BY <1>1, <1>7, ServicesKeepCopies, ReadsKeepCopies DEF ServiceNext
<1>8. CASE UNCHANGED vars
  BY <1>1, <1>8, NothingMoves, SoundnessIsKept DEF vars
<1> QED
  BY <1>2, <1>3, <1>4, <1>5, <1>6, <1>7, <1>8 DEF Next

LEMMA InitCopies == Init => CopiesSound
<1> SUFFICES ASSUME Init PROVE CopiesSound
  OBVIOUS
<1>1. NoRow.state = "ABSENT"
  BY FreshStates
<1>2. \A i \in Items : ItemSound(i)
  BY <1>1, NoRowStates DEF Init, ItemSound, ItemExists, StartedInTime
<1> QED
  BY <1>2, NothingToRemember DEF Init, CopiesSound

LEMMA CopiesInvariant == ServiceSpec => [](IInv /\ CopiesSound)
<1>1. IInv /\ CopiesSound /\ [Next \/ ServiceNext]_vars => (IInv /\ CopiesSound)'
  BY StepIInv, CopiesStep
<1> QED
  BY InitIInv, InitCopies, <1>1, PTL DEF ServiceSpec

\* Nothing is queued, claimed or finished before its time: no stale copy, of a handler or
\* of a worker's cycle, brings an old time back into the row of a task whose time cannot
\* move, for any number of handlers, workers and items.
THEOREM NothingStartsEarly ==
  (Spec => []NothingEarly) /\ (ServiceSpec => []NothingEarly)
<1>1. CopiesSound => NothingEarly
  BY DEF CopiesSound, ItemSound, StartedInTime, NothingEarly
<1> QED
  BY <1>1, CopiesInvariant, DeployedIsService, PTL

-----------------------------------------------------------------------------
(* Results.  Only an execution writes one, into both rows at once; a task's  *)
(* status changes otherwise only next to an item of it that is no result.    *)

NoVerdict == \A r \in Requests : request[r].row.state \notin Result

\* A step after which every result was there before, with the same task: the task has
\* lost no item, and if its status is another one it has another item as well.
VerdictStep ==
    \A i \in Items : queue'[i].state \in Result =>
        /\ queue'[i].state = queue[i].state /\ queue'[i].task = queue[i].task
        /\ \A j \in Items : ItemExists(j) /\ queue[j].task = queue[i].task =>
              queue'[j].state \in QueueState /\ queue'[j].task = queue[j].task
        /\ \/ task'[queue[i].task].status = task[queue[i].task].status
           \/ \E j \in Items \ {i} : /\ queue'[j].task = queue[i].task
                                     /\ queue'[j].state \in QueueState

LEMMA ResultStates ==
  /\ Result = {"MANUAL_REVIEW", "FAILED", "DRY_RUN", "COMPLETED"}
  /\ Result \subseteq QueueState
  BY DEF Result, StatusFor, QueueState

LEMMA ResultsStay ==
  ASSUME ResultMatchesTask, VerdictStep PROVE ResultMatchesTask'
<1> SUFFICES ASSUME NEW i \in Items, queue'[i].state \in Result,
                    ItemsOf(queue[i].task)' = {i}
             PROVE  AgreesWithTask(i)'
  BY DEF ResultMatchesTask
<1> PICK t : t = queue'[i].task
  OBVIOUS
<1>1. /\ queue'[i].state = queue[i].state /\ t = queue[i].task
      /\ \A j \in Items : ItemExists(j) /\ queue[j].task = t =>
            queue'[j].state \in QueueState /\ queue'[j].task = t
      /\ \/ task'[t].status = task[t].status
         \/ \E j \in Items \ {i} : queue'[j].task = t /\ queue'[j].state \in QueueState
  BY DEF VerdictStep
<1>2. \A j \in Items : queue'[j].task = t /\ queue'[j].state \in QueueState => j = i
  BY DEF ItemsOf, ItemExists
<1>3. task'[t].status = task[t].status
  BY <1>1, <1>2
<1>4. ItemsOf(t) = {i}
  BY <1>1, <1>2, ResultStates DEF ItemsOf, ItemExists
<1>5. AgreesWithTask(i)
  BY <1>1, <1>4 DEF ResultMatchesTask
<1> QED
  BY <1>1, <1>3, <1>5 DEF AgreesWithTask

\* One row is stored or inserted that is no result; no other task's status changes.
LEMMA OneRowVerdict ==
  ASSUME TypeOK, CopiesSound, NEW j \in Items, NEW row, queue' = [queue EXCEPT ![j] = row],
         row.state \in QueueState \ Result,
         queue[j].state = "ABSENT" \/ row.task = queue[j].task,
         \A t \in Tasks : t # row.task => task'[t].status = task[t].status
  PROVE  VerdictStep
<1>1. \A i \in Items : queue'[i] = IF i = j THEN row ELSE queue[i]
  BY DEF TypeOK
<1> SUFFICES ASSUME NEW i \in Items, queue'[i].state \in Result
             PROVE  /\ queue'[i].state = queue[i].state /\ queue'[i].task = queue[i].task
                    /\ \A k \in Items : ItemExists(k) /\ queue[k].task = queue[i].task =>
                          queue'[k].state \in QueueState /\ queue'[k].task = queue[k].task
                    /\ \/ task'[queue[i].task].status = task[queue[i].task].status
                       \/ \E k \in Items \ {i} : /\ queue'[k].task = queue[i].task
                                                 /\ queue'[k].state \in QueueState
  BY DEF VerdictStep
<1>2. i # j /\ queue'[i] = queue[i] /\ queue'[j] = row
  BY <1>1
<1>3. \A k \in Items : ItemExists(k) =>
         queue'[k].state \in QueueState /\ queue'[k].task = queue[k].task
  BY <1>1, NoRowStates DEF ItemExists
<1>4. CASE queue[i].task = row.task
  BY <1>2, <1>3, <1>4
<1>5. CASE queue[i].task # row.task
  <2>1. queue[i].task \in Tasks
    BY <1>2, ResultStates DEF CopiesSound, ItemSound, ItemExists, TaskExists
  <2> QED
    BY <1>2, <1>3, <1>5, <2>1
<1> QED
  BY <1>4, <1>5

\* Rows are as they were or take copies that are no results; statuses of tasks that have
\* items stay.
LEMMA RowsVerdict ==
  ASSUME \A i \in Items : \/ queue'[i] = queue[i]
                          \/ StoresCopy(i, queue'[i]) /\ queue'[i].state \notin Result,
         \A i \in Items : ItemExists(i) =>
            task'[queue[i].task].status = task[queue[i].task].status
  PROVE  VerdictStep
<1>1. \A k \in Items : ItemExists(k) =>
         queue'[k].state \in QueueState /\ queue'[k].task = queue[k].task
  BY DEF ItemExists, StoresCopy
<1>2. ASSUME NEW i \in Items, queue'[i].state \in Result
      PROVE  queue'[i] = queue[i] /\ ItemExists(i)
  BY <1>2, ResultStates DEF ItemExists
<1> QED
  BY <1>1, <1>2 DEF VerdictStep

LEMMA CommandsAreNoVerdicts ==
  ASSUME NEW row \in Row, NEW a
  PROVE  /\ Paused(row).state \notin Result /\ Cancelled(row).state \notin Result
         /\ Resumed(row).state \notin Result /\ Requeued(row).state \notin Result
         /\ Rearmed(row, a).state \notin Result
  BY CommandRowStates, ResultStates

LEMMA FreshIsNoVerdict ==
  ASSUME NEW t, NEW a
  PROVE  /\ NewItem(t, a).state \in QueueState \ Result /\ NoRow.state \notin Result
  BY FreshStates, ResultStates, NoRowStates

LEMMA PrepareIsNoVerdict ==
  ASSUME TypeOK, NoVerdict, NEW r, NEW op, NEW i, NEW row,
         Prepare(r, op, i, row), row.state \notin Result
  PROVE  NoVerdict' /\ UNCHANGED <<task, queue>>
<1> PICK base : request' = [request EXCEPT ![r] =
                   [op |-> op, item |-> i, row |-> row, base |-> base]]
  BY DEF Prepare
<1>1. NoVerdict'
  BY DEF NoVerdict, TypeOK
<1> QED
  BY <1>1 DEF Prepare

LEMMA ReadsAreNoVerdicts ==
  ASSUME TypeOK, NoVerdict, OperatorNext
  PROVE  /\ NoVerdict'
         /\ \/ UNCHANGED <<task, queue>>
            \/ \E t \in Tasks : EnqueueLocked(t) \/ ConfirmDramaMatch(t) \/ DeleteTask(t)
            \/ \E t \in Tasks, a \in Time : CreateTask(t, a)
<1>1. \A i \in Items : queue[i] \in Row
  BY DEF TypeOK
<1>2. ASSUME NEW r \in Requests, NEW i \in Items,
             \/ ResumeRead(r, i) \/ RetryRead(r, i)
             \/ \E w \in Workers : PauseRead(r, i, w) \/ CancelRead(r, i, w)
      PROVE  NoVerdict' /\ UNCHANGED <<task, queue>>
  <2>1. PICK op, row : Prepare(r, op, i, row) /\ row.state \notin Result
    BY <1>1, <1>2, CommandsAreNoVerdicts DEF ResumeRead, RetryRead, PauseRead, CancelRead
  <2> QED
    BY <2>1, PrepareIsNoVerdict
<1>3. ASSUME NEW r \in Requests, NEW t \in Tasks, EnqueueRead(r, t)
      PROVE  NoVerdict' /\ UNCHANGED <<task, queue>>
  <2>1. \A i \in ItemsOf(t) : queue[i] \in Row
    BY <1>1 DEF ItemsOf
  <2>2. PICK op, i, row : Prepare(r, op, i, row) /\ row.state \notin Result
    BY <1>3, <2>1, CommandsAreNoVerdicts, FreshIsNoVerdict DEF EnqueueRead, ActiveOf
  <2> QED
    BY <2>2, PrepareIsNoVerdict
<1>4. UNCHANGED request => NoVerdict'
  BY DEF NoVerdict
<1>5. \A t \in Tasks, a \in Time :
         EnqueueLocked(t) \/ ConfirmDramaMatch(t) \/ DeleteTask(t) \/ CreateTask(t, a) =>
            UNCHANGED request
  BY DEF EnqueueLocked, ConfirmDramaMatch, DeleteTask, CreateTask
<1>6. \A t \in Tasks : EnqueueLocked(t) \/ ConfirmDramaMatch(t) \/ DeleteTask(t) =>
         UNCHANGED request
  BY DEF EnqueueLocked, ConfirmDramaMatch, DeleteTask
<1> QED
  BY <1>2, <1>3, <1>4, <1>5, <1>6 DEF OperatorNext

LEMMA OperatorVerdict ==
  ASSUME TypeOK, CopiesSound, NEW t \in Tasks,
         \/ EnqueueLocked(t) \/ ConfirmDramaMatch(t) \/ DeleteTask(t)
         \/ \E a \in Time : CreateTask(t, a)
  PROVE  VerdictStep
<1>1. \A i \in ItemsOf(t) : i \in Items /\ queue[i] \in Row /\ queue[i].task = t
  BY DEF ItemsOf, TypeOK
<1>2. CASE EnqueueLocked(t) \/ ConfirmDramaMatch(t)
  <2>1. \A u \in Tasks : u # t => task'[u].status = task[u].status
    BY <1>2 DEF EnqueueLocked, ConfirmDramaMatch, TypeOK
  <2>2. ASSUME NEW i \in Items, NEW row, queue' = [queue EXCEPT ![i] = row], row.task = t,
               row.state \in QueueState \ Result,
               queue[i].state = "ABSENT" \/ queue[i].task = t
        PROVE  VerdictStep
    BY <2>1, <2>2, OneRowVerdict
  <2>3. ASSUME NEW i \in ItemsOf(t), NEW a
        PROVE  /\ Requeued(queue[i]).state \in QueueState \ Result
               /\ Rearmed(queue[i], a).state \in QueueState \ Result
               /\ Requeued(queue[i]).task = t /\ Rearmed(queue[i], a).task = t
    <3>1. /\ Requeued(queue[i]).state = "QUEUED"
          /\ Rearmed(queue[i], a).state = "WAITING_TIME"
      BY <1>1, CommandRowStates
    <3>2. Requeued(queue[i]).task = t /\ Rearmed(queue[i], a).task = t
      BY <1>1 DEF Requeued, Rearmed, Cleared, Row
    <3> QED
      BY <3>1, <3>2, ResultStates DEF QueueState
  <2>4. ASSUME NEW i \in ItemsOf(t), NEW a,
               \/ queue' = [queue EXCEPT ![i] = Requeued(queue[i])]
               \/ queue' = [queue EXCEPT ![i] = Rearmed(queue[i], a)]
        PROVE  VerdictStep
    BY <1>1, <2>2, <2>3, <2>4
  <2>5. ASSUME NEW i \in Items, NEW a, queue[i].state = "ABSENT",
               queue' = [queue EXCEPT ![i] = NewItem(t, a)]
        PROVE  VerdictStep
    <3>1. NewItem(t, a).task = t /\ NewItem(t, a).state \in QueueState \ Result
      BY FreshIsNoVerdict, NewItemFits
    <3> QED
      BY <2>2, <2>5, <3>1
  <2> QED
    BY <1>2, <2>4, <2>5 DEF EnqueueLocked, ConfirmDramaMatch, ActiveOf
<1>3. CASE DeleteTask(t)
  <2>1. [NoRow EXCEPT !.state = "GONE"].state \notin Result
    BY ResultStates, FreshStates
  <2>2. \A i \in Items : IF queue[i].task = t /\ ItemExists(i)
                         THEN queue'[i].state \notin Result ELSE queue'[i] = queue[i]
    BY <1>3, <2>1 DEF DeleteTask, TypeOK
  <2>3. \A u \in Tasks : u # t => task'[u].status = task[u].status
    BY <1>3 DEF DeleteTask, TypeOK
  <2>4. ASSUME NEW i \in Items, queue'[i].state \in Result
        PROVE  /\ queue'[i] = queue[i] /\ queue[i].task # t
               /\ task'[queue[i].task].status = task[queue[i].task].status
    <3>1. queue'[i] = queue[i] /\ ItemExists(i) /\ queue[i].task # t
      BY <2>2, <2>4, ResultStates DEF ItemExists
    <3>2. queue[i].task \in Tasks
      BY <3>1 DEF CopiesSound, ItemSound, TaskExists
    <3> QED
      BY <2>3, <3>1, <3>2
  <2>5. \A i, j \in Items : queue[i].task # t /\ ItemExists(j) /\ queue[j].task = queue[i].task =>
           queue'[j].state \in QueueState /\ queue'[j].task = queue[j].task
    BY <2>2 DEF ItemExists
  <2> QED
    BY <2>4, <2>5 DEF VerdictStep
<1>4. CASE \E a \in Time : CreateTask(t, a)
  <2>1. /\ queue' = queue /\ ~TaskExists(t)
        /\ \A u \in Tasks : u # t => task'[u].status = task[u].status
    BY <1>4, NoRowStates DEF CreateTask, TypeOK, TaskExists
  <2>2. \A i \in Items : ItemExists(i) =>
           task'[queue[i].task].status = task[queue[i].task].status
    BY <2>1 DEF CopiesSound, ItemSound, TaskExists
  <2> QED
    BY <2>1, <2>2, RowsVerdict
<1> QED
  BY <1>2, <1>3, <1>4

LEMMA HandlerVerdict ==
  ASSUME TypeOK, RowsSound, CopiesSound, NoVerdict, NEW r \in Requests,
         StoreBoth(r) \/ StoreItem(r) \/ InsertItem(r) \/ RequestFails(r)
  PROVE  NoVerdict' /\ VerdictStep
<1> DEFINE q == request[r]
<1>1. RequestCopySound(q) /\ RequestSound(q) /\ q \in RequestMemory /\ q.row.state \notin Result
  BY DEF CopiesSound, RowsSound, TypeOK, NoVerdict
<1>2. NoVerdict'
  <2>1. request' = [request EXCEPT ![r] = NoRequest]
    BY DEF StoreBoth, StoreItem, InsertItem, RequestFails
  <2>2. NoRequest.row.state \notin Result
    BY FreshIsNoVerdict DEF NoRequest
  <2> QED
    BY <2>1, <2>2 DEF NoVerdict, TypeOK
<1>3. ASSUME q.op \notin {"none", "insert"}, ItemExists(q.item)
      PROVE  /\ q.item \in Items /\ q.row.task = queue[q.item].task
             /\ q.row.state \in QueueState
  BY <1>1, <1>3 DEF RequestCopySound, CopyOf
<1>4. CASE RequestFails(r)
  BY <1>2, <1>4, RowsVerdict DEF RequestFails
<1>5. CASE InsertItem(r)
  <2> PICK i \in Items : queue[i].state = "ABSENT" /\ queue' = [queue EXCEPT ![i] = q.row]
    BY <1>5 DEF InsertItem
  <2>1. task' = task /\ q.row.state \in QueueState
    BY <1>1, <1>5, NoRowStates DEF InsertItem, RequestCopySound
  <2> QED
    BY <1>1, <1>2, <2>1, OneRowVerdict
<1>6. CASE StoreBoth(r)
  <2>1. /\ ItemExists(q.item) /\ q.op \notin {"none", "insert"}
        /\ queue' = [queue EXCEPT ![q.item] = q.row]
        /\ SyncTaskStatus(q.row.task, StatusOf[q.op])
    BY <1>6 DEF StoreBoth, StatusOf
  <2>2. \A u \in Tasks : u # q.row.task => task'[u].status = task[u].status
    BY <2>1 DEF SyncTaskStatus, TypeOK
  <2> QED
    BY <1>1, <1>2, <1>3, <2>1, <2>2, OneRowVerdict
<1>7. CASE StoreItem(r)
  <2>1. ItemExists(q.item) /\ q.op \notin {"none", "insert"} /\ q.base # NoRow /\ task' = task
    BY <1>7 DEF StoreItem
  <2> PICK base \in {q.base, queue[q.item]} :
        LET row == Stored(q.row, base, queue[q.item]) IN
        queue' = [queue EXCEPT ![q.item] =
                    IF q.op = "rearm" THEN [row EXCEPT !.avail = q.row.avail] ELSE row]
    BY <1>7 DEF StoreItem
  <2> DEFINE row == Stored(q.row, base, queue[q.item])
  <2>2. base = queue[q.item] \/ base.state # q.row.state
    BY <1>1, <2>1 DEF RequestSound
  <2>3. /\ row.state = q.row.state /\ [row EXCEPT !.avail = q.row.avail].state = row.state
        /\ [row EXCEPT !.avail = q.row.avail].task = row.task
    BY <2>2, StoredState DEF Stored
  <2>4. row.task = queue[q.item].task
    BY <1>3, <2>1 DEF Stored
  <2> HIDE DEF row
  <2>5. PICK stored : /\ stored.state = q.row.state /\ stored.task = queue[q.item].task
                      /\ queue' = [queue EXCEPT ![q.item] = stored]
    BY <2>3, <2>4 DEF row
  <2> QED
    BY <1>1, <1>2, <1>3, <2>1, <2>5, OneRowVerdict
<1> QED
  BY <1>4, <1>5, <1>6, <1>7

LEMMA SchedulerVerdict ==
  ASSUME TypeOK, CopiesSound, NEW t \in Tasks, NEW a \in Time, ScanNew(t, a) \/ ScanKnown(t, a)
  PROVE  VerdictStep
<1>1. \A u \in Tasks : u # t => task'[u].status = task[u].status
  BY DEF ScanNew, ScanKnown, TypeOK
<1>2. ASSUME NEW i \in Items, queue[i].state = "ABSENT",
             queue' = [queue EXCEPT ![i] = NewItem(t, a)]
      PROVE  VerdictStep
  <2>1. NewItem(t, a).task = t /\ NewItem(t, a).state \in QueueState \ Result
    BY FreshIsNoVerdict, NewItemFits
  <2> QED
    BY <1>1, <1>2, <2>1, OneRowVerdict
<1>3. ASSUME NEW i \in ActiveOf(t), queue[i].state = "WAITING_TIME",
             queue' = [queue EXCEPT ![i].avail = a]
      PROVE  VerdictStep
  <2> DEFINE row == [queue[i] EXCEPT !.avail = a]
  <2>1. i \in Items /\ queue[i].task = t /\ queue[i] \in Row
    BY DEF ActiveOf, ItemsOf, TypeOK
  <2>2. row.task = t /\ row.state = "WAITING_TIME" /\ queue' = [queue EXCEPT ![i] = row]
    BY <1>3, <2>1 DEF Row
  <2> HIDE DEF row
  <2>3. row.state \in QueueState \ Result
    BY <2>2, ResultStates, NoRowStates
  <2> QED
    BY <1>1, <2>1, <2>2, <2>3, OneRowVerdict
<1>4. CASE ScanKnown(t, a) /\ UNCHANGED queue
  <2>1. \A u \in Tasks : task'[u].status = task[u].status
    BY <1>4 DEF ScanKnown, TypeOK, TaskRow
  <2>2. \A i \in Items : ItemExists(i) =>
           task'[queue[i].task].status = task[queue[i].task].status
    BY <2>1 DEF CopiesSound, ItemSound, TaskExists
  <2> QED
    BY <1>4, <2>2, RowsVerdict
<1> QED
  BY <1>2, <1>3, <1>4 DEF ScanNew, ScanKnown

\* The cycle's own writes are no results.
LEMMA ClaimVerdict ==
  ASSUME TypeOK, CopiesSound, NEW w \in Workers, AdvanceAndClaim(w)
  PROVE  VerdictStep
<1>1. worker[w].pc = "advancing" /\ DueStillThere(w) /\ task' = task
  BY DEF AdvanceAndClaim
<1> PICK first \in Items : \E base \in {worker[w].due[first], queue[first]} :
      LET q == Advanced(w, first, base) IN
      \/ \E i \in Items : NextInLine(q, i) /\ queue' = [q EXCEPT ![i] = Claimed(q[i], w)]
      \/ queue' = q
  BY DEF AdvanceAndClaim
<1> PICK base \in {worker[w].due[first], queue[first]} :
      LET q == Advanced(w, first, base) IN
      \/ \E i \in Items : NextInLine(q, i) /\ queue' = [q EXCEPT ![i] = Claimed(q[i], w)]
      \/ queue' = q
  OBVIOUS
<1> DEFINE q == Advanced(w, first, base)
<1>2. \A i \in Items : q[i] = queue[i] \/ (StoresCopy(i, q[i]) /\ q[i].state = "QUEUED")
  <2> TAKE i \in Items
  <2> DEFINE due    == worker[w].due[i]
             queued == [due EXCEPT !.state = "QUEUED"]
  <2>1. q[i] = queue[i] \/ StoresCopy(i, q[i])
    BY <1>1, AdvancedCopies
  <2>2. due \in Row
    BY DEF TypeOK, WorkerMemory
  <2>3. queued.state = "QUEUED"
    BY <2>2 DEF Row
  <2>4. CASE due.state # "WAITING_TIME"
    BY <2>4 DEF Advanced
  <2>5. CASE due.state = "WAITING_TIME" /\ i = first
    <3>1. q[i] = Stored(queued, base, queue[i]) /\ (base = queue[i] \/ base.state # "QUEUED")
      BY <2>5 DEF Advanced
    <3> HIDE DEF q, queued
    <3>2. q[i].state = "QUEUED"
      BY <2>3, <3>1, StoredState
    <3> QED
      BY <2>1, <3>2
  <2>6. CASE due.state = "WAITING_TIME" /\ i # first
    <3>1. q[i] = queued
      BY <2>6 DEF Advanced
    <3> QED
      BY <2>1, <2>3, <3>1
  <2> QED
    BY <2>4, <2>5, <2>6
<1>3. q \in [Items -> Row]
  <2>1. \A i \in Items : StoresCopy(i, q[i]) \/ q[i] = queue[i]
    BY <1>2
  <2>2. \A i \in Items : worker[w].due[i] \in Row
    BY DEF TypeOK, WorkerMemory
  <2>3. \A i \in Items : [worker[w].due[i] EXCEPT !.state = "QUEUED"] \in Row
    BY <2>2, CommandRowsType, Numbers
  <2>4. \A i \in Items :
          Stored([worker[w].due[i] EXCEPT !.state = "QUEUED"], base, queue[i]) \in Row
    BY <2>3, StoredType DEF TypeOK
  <2> QED
    BY <2>3, <2>4 DEF Advanced, TypeOK
<1> HIDE DEF q
<1>4. "QUEUED" \notin Result /\ "CLAIMED" \notin Result /\ "CLAIMED" \in QueueState
  BY ResultStates DEF QueueState
<1>5. CASE queue' = q
  BY <1>1, <1>2, <1>4, <1>5, RowsVerdict
<1>6. ASSUME NEW i \in Items, NextInLine(q, i), queue' = [q EXCEPT ![i] = Claimed(q[i], w)]
      PROVE  VerdictStep
  <2>1. q[i].state = "QUEUED" /\ q[i] \in Row
    BY <1>3, <1>6 DEF NextInLine
  <2> PICK copy : copy = Claimed(q[i], w)
    OBVIOUS
  <2>2. copy.state = "CLAIMED" /\ copy.task = q[i].task /\ copy.avail = q[i].avail
    BY <2>1, ClaimedColumns
  <2>3. StoresCopy(i, q[i])
    <3>1. CASE q[i] = queue[i]
      BY <2>1, <3>1 DEF StoresCopy, ItemExists, TimedAs, CopiesSound, ItemSound, QueueState
    <3> QED
      BY <1>2, <3>1
  <2>4. StoresCopy(i, copy)
    BY <2>1, <2>2, <2>3 DEF StoresCopy, TimedAs, StartedInTime, Started, QueueState
  <2>5. \A j \in Items : queue'[j] = IF j = i THEN copy ELSE q[j]
    BY <1>3, <1>6
  <2>6. \A j \in Items : \/ queue'[j] = queue[j]
                         \/ StoresCopy(j, queue'[j]) /\ queue'[j].state \notin Result
    BY <1>2, <1>4, <2>2, <2>4, <2>5
  <2> QED
    BY <1>1, <2>6, RowsVerdict
<1> QED
  BY <1>5, <1>6 DEF q

\* An execution writes its result into the item and the task.
LEMMA FinishMatches ==
  ASSUME TypeOK, TypeOK', CopiesSound, ResultMatchesTask, NEW w \in Workers, Finish(w)
  PROVE  ResultMatchesTask'
<1> PICK report \in Reports, u \in BOOLEAN : FinishExecution(w, report, u)
  BY DEF Finish
<1> PICK m \in WorkerMemory : m = worker[w]
  BY DEF TypeOK
<1> DEFINE i == m.item
           t == m.copy.task
           row == [m.copy EXCEPT !.state = ItemStateFor(report),
                                 !.uncertain = IF report = "COMPLETED" THEN @ ELSE u]
           drama == [task[t] EXCEPT !.status = report, !.ledger = @ \/ report = "COMPLETED"]
<1>1. WorkerCopiesSound(m) /\ m.pc = "running"
  BY DEF FinishExecution, CopiesSound
<1>2. i \in Items /\ ItemExists(i) /\ CopyOf(m.copy, i) /\ m.copy \in Row
  BY <1>1 DEF WorkerCopiesSound, WorkerMemory
<1>3. /\ ItemStateFor(report) \in QueueState /\ report \in TaskStatus
      /\ ItemStateFor(report) \in Result => report \in StatusFor[ItemStateFor(report)]
  BY WorkQueueAssumption DEF ItemStateFor, QueueState, TaskStatus, StatusFor
<1>4. row.task = t /\ row.state = ItemStateFor(report)
  BY <1>2 DEF Row
<1>5. t = queue[i].task /\ t \in Tasks
  BY <1>2 DEF CopyOf, CopiesSound, ItemSound, TaskExists
<1>6. drama.status = report
  BY <1>5 DEF TypeOK, TaskRow
<1>7. queue' = [queue EXCEPT ![i] = row]
  BY DEF FinishExecution
<1>8. task' = [task EXCEPT ![t] = drama]
  BY <1>5 DEF FinishExecution, TypeOK, TaskRow
<1> HIDE DEF row, drama
<1>9. \A j \in Items : queue'[j] = IF j = i THEN row ELSE queue[j]
  BY <1>7 DEF TypeOK
<1>10. \A x \in Tasks : task'[x] = IF x = t THEN drama ELSE task[x]
  BY <1>8 DEF TypeOK
<1> SUFFICES ASSUME NEW j \in Items, queue'[j].state \in Result,
                    ItemsOf(queue[j].task)' = {j}
             PROVE  AgreesWithTask(j)'
  BY DEF ResultMatchesTask
<1>11. \A k \in Items : queue'[k].task = queue'[j].task /\ queue'[k].state \in QueueState => k = j
  BY DEF ItemsOf, ItemExists
<1>12. CASE j = i
  <2>1. task'[t].status = report /\ queue'[j] = row
    BY <1>2, <1>5, <1>6, <1>9, <1>10, <1>12
  <2> QED
    BY <1>3, <1>4, <2>1 DEF AgreesWithTask
<1>13. CASE j # i
  <2>1. queue'[i] = row /\ queue'[j] = queue[j]
    BY <1>2, <1>9, <1>13
  <2>2. queue[j].task # t
    BY <1>2, <1>3, <1>4, <1>11, <1>13, <2>1
  <2>3. ItemsOf(queue[j].task) = {j}
    BY <1>5, <1>9, <1>11, <2>1, <2>2, ResultStates DEF ItemsOf, ItemExists
  <2>4. AgreesWithTask(j)
    BY <2>1, <2>3 DEF ResultMatchesTask
  <2>5. queue[j].task \in Tasks
    BY <2>1, ResultStates DEF CopiesSound, ItemSound, ItemExists, TaskExists
  <2>6. task'[queue[j].task] = task[queue[j].task]
    BY <1>10, <2>2, <2>5
  <2> QED
    BY <2>1, <2>4, <2>6 DEF AgreesWithTask
<1> QED
  BY <1>12, <1>13

LEMMA VerdictInvariantStep ==
  ASSUME IInv, CopiesSound, NoVerdict, ResultMatchesTask, [Next]_vars
  PROVE  NoVerdict' /\ ResultMatchesTask'
<1>1. TypeOK /\ TypeOK' /\ RowsSound
  <2>1. [Next \/ ServiceNext]_vars
    OBVIOUS
  <2> QED
    BY <2>1, StepIInv DEF IInv
<1>2. UNCHANGED request => NoVerdict'
  BY DEF NoVerdict
<1>3. UNCHANGED <<task, queue>> => ResultMatchesTask'
  BY DEF ResultMatchesTask, ItemsOf, ItemExists, AgreesWithTask
<1>4. CASE OperatorNext
  BY <1>1, <1>3, <1>4, ReadsAreNoVerdicts, OperatorVerdict, ResultsStay
<1>5. CASE HandlerNext
  BY <1>1, <1>5, HandlerVerdict, ResultsStay DEF HandlerNext
<1>6. CASE SchedulerNext
  <2>1. UNCHANGED request
    BY <1>6 DEF SchedulerNext, ScanNew, ScanKnown
  <2> QED
    BY <1>1, <1>2, <1>6, <2>1, SchedulerVerdict, ResultsStay DEF SchedulerNext
<1>7. CASE WorkerNext
  <2> PICK w \in Workers :
           \/ StartWorker(w) \/ ReadDue(w) \/ AdvanceAndClaim(w)
           \/ BeginExecution(w) \/ Finish(w) \/ CycleFails(w) \/ Crash(w)
    BY <1>7 DEF WorkerNext
  <2>1. UNCHANGED request
    BY DEF StartWorker, ReadDue, AdvanceAndClaim, BeginExecution, Finish, FinishExecution,
           CycleFails, Crash
  <2>2. CASE AdvanceAndClaim(w)
    BY <1>1, <1>2, <2>1, <2>2, ClaimVerdict, ResultsStay
  <2>3. CASE Finish(w)
    BY <1>1, <1>2, <2>1, <2>3, FinishMatches
  <2>4. CASE StartWorker(w) \/ ReadDue(w) \/ BeginExecution(w) \/ CycleFails(w) \/ Crash(w)
    <3>1. UNCHANGED <<task, queue>>
      BY <2>4 DEF StartWorker, ReadDue, BeginExecution, CycleFails, Crash
    <3> QED
      BY <1>2, <1>3, <2>1, <3>1
  <2> QED
    BY <2>2, <2>3, <2>4
<1>8. CASE Tick \/ UNCHANGED vars
  BY <1>2, <1>3, <1>8 DEF Tick, vars
<1> QED
  BY <1>4, <1>5, <1>6, <1>7, <1>8 DEF Next

\* An item with a result, the only one of its task, sits next to a task with the matching
\* status: the executor's two writes are one transaction, and no handler or scan changes
\* the status without taking the result away from the item or deleting both.
THEOREM ResultsMatch == Spec => []ResultMatchesTask
<1>1. Init => NoVerdict /\ ResultMatchesTask
  BY FreshStates, ResultStates DEF Init, NoVerdict, NoRequest, ResultMatchesTask
<1>2. /\ IInv /\ CopiesSound /\ NoVerdict /\ ResultMatchesTask
      /\ [Next]_vars
      => NoVerdict' /\ ResultMatchesTask'
  BY VerdictInvariantStep
<1>3. Spec => [](IInv /\ CopiesSound)
  BY CopiesInvariant, DeployedIsService
<1> QED
  BY <1>1, <1>2, <1>3, PTL DEF Spec

=============================================================================
