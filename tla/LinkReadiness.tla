---------------------------- MODULE LinkReadiness ----------------------------
(***************************************************************************)
(* What the deployed executor does with one claimed task                   *)
(* (build_link_readiness_executor): extract the promotion links and freeze *)
(* them, write them to the source sheet, find or create the drama on the   *)
(* delivery system and the promotion config of every link.                 *)
(*                                                                         *)
(* The worker holds the database's write lock for the whole execution      *)
(* (module WorkQueue), so executions are serial and nobody else stores     *)
(* anything meanwhile.  What is written to the sheet and to the delivery   *)
(* system stays when the execution is rolled back.                         *)
(***************************************************************************)
EXTENDS Integers, FiniteSets

CONSTANTS
    Tasks,     \* tasks of one drama: they share its asset, and its config
               \* names if they are of one platform
    KindOf,    \* the platform a task's links come from
    Types, IAA,
    Urls, BadUrls, NoUrl,
    AssetIds, NoId,
    NoTask,
    MaxOps     \* bound on what people do

Kind == {"TOMATO", "JUBIAN", "MINIPROGRAM", "OTHER"}

ASSUME LinkReadinessAssumption ==
    /\ KindOf \in [Tasks -> Kind] /\ NoTask \notin Tasks
    /\ IAA \in Types /\ NoUrl \notin Urls /\ BadUrls \subseteq Urls
    /\ NoId \notin AssetIds /\ MaxOps \in Nat

VARIABLES
    task,      \* drama_task rows, as committed
    item,      \* the state of each task's queue item
    evidence,  \* tasks with a mismatch event that lists candidates
    sheet,     \* the link columns of each task's row in the source sheet
    assets,    \* ids of the drama's assets on the delivery system
    configs,   \* per platform and type, the links of the configs of that name
    run,       \* the execution in progress
    ops

vars == <<task, item, evidence, sheet, assets, configs, run, ops>>

Target == {"LINK_EXTRACTION", "LINK_READY"}
Status == {"WAITING_TIME", "READY", "RUNNING", "MANUAL_REVIEW", "DRY_RUN",
           "LINK_EXTRACTED", "LINK_READY"}
Links == [Types -> Urls \cup {NoUrl}]

NoLinks     == [y \in Types |-> NoUrl]
TypesOf(ls) == {y \in Types : ls[y] # NoUrl}

TaskRow == [status : Status, target : Target, due : BOOLEAN,
            linkStatus : {"NOT_STARTED", "VALIDATED", "DRAMA_MISMATCH"},
            links : Links, drama : AssetIds \cup {NoId},
            configs : SUBSET Types, confirmed : BOOLEAN]

NewTask == [status |-> "WAITING_TIME", target |-> "LINK_READY", due |-> TRUE,
            linkStatus |-> "NOT_STARTED", links |-> NoLinks, drama |-> NoId,
            configs |-> {}, confirmed |-> FALSE]

ItemState == {"QUEUED", "CLAIMED", "MANUAL_REVIEW", "FINISHED"}

\* mine is the executor's copy of the task, found the links it has extracted.
Run == [task : Tasks \cup {NoTask}, mine : TaskRow, found : Links,
        pc : {"none", "links", "write", "bad", "drama", "config", "report"},
        mismatch : BOOLEAN]

NoRun == [task |-> NoTask, mine |-> NewTask, found |-> NoLinks, pc |-> "none",
          mismatch |-> FALSE]

Init ==
    /\ task = [t \in Tasks |-> NewTask]
    /\ item = [t \in Tasks |-> "QUEUED"]
    /\ evidence = {}
    /\ sheet = [t \in Tasks |-> NoLinks]
    /\ assets = {}
    /\ configs = [k \in Kind |-> [y \in Types |-> {}]]
    /\ run = NoRun
    /\ ops = 0

-----------------------------------------------------------------------------
(* Operators.                                                               *)

Step == run = NoRun /\ ops < MaxOps /\ ops' = ops + 1
        /\ UNCHANGED <<assets, configs, run, evidence>>

OperatorStep == Step /\ UNCHANGED sheet

\* Mutant: the links are cleared but the configs stay on record.
UnpreparedLinks(row) == [row EXCEPT !.links = NoLinks, !.linkStatus = "NOT_STARTED"]

\* What a rehearsal left behind is not carried into a real execution.
Unprepared(row) == [row EXCEPT !.links = NoLinks, !.linkStatus = "NOT_STARTED",
                               !.drama = NoId, !.configs = {}]

Enqueued(row, target) ==
    [(IF row.status = "DRY_RUN" THEN Unprepared(row) ELSE row) EXCEPT !.target = target]

Frozen(row) == row.linkStatus = "VALIDATED" /\ row.links # NoLinks

MayEnqueue(row) == row.linkStatus = "DRAMA_MISMATCH" => row.confirmed

Enqueue(t, target) ==
    /\ OperatorStep
    /\ MayEnqueue(task[t])
    /\ LET row == Enqueued(task[t], target) IN
       \/ /\ item[t] = "MANUAL_REVIEW"
          /\ task' = [task EXCEPT ![t] = [row EXCEPT !.status = "READY"]]
       \/ /\ item[t] = "FINISHED"
          /\ task' = [task EXCEPT ![t] =
                        IF row.status = "DRY_RUN" THEN [row EXCEPT !.status = "WAITING_TIME"]
                        ELSE row]
    /\ item' = [item EXCEPT ![t] = "QUEUED"]

\* No outcome of this executor is both uncertain and unsafe to retry.
Retry(t) ==
    /\ OperatorStep
    /\ item[t] = "MANUAL_REVIEW"
    /\ item' = [item EXCEPT ![t] = "QUEUED"]
    /\ task' = [task EXCEPT ![t].status = "READY"]

\* Confirming a candidate of the last mismatch retries the item as well.
ConfirmDramaMatch(t) ==
    /\ OperatorStep
    /\ KindOf[t] = "TOMATO" /\ t \in evidence /\ item[t] = "MANUAL_REVIEW"
    /\ item' = [item EXCEPT ![t] = "QUEUED"]
    /\ task' = [task EXCEPT ![t].status = "READY", ![t].confirmed = TRUE]

\* An abandoned claim goes back to the queue only if somebody pauses and
\* resumes it.
Release(t) ==
    /\ OperatorStep
    /\ item[t] = "CLAIMED"
    /\ item' = [item EXCEPT ![t] = "QUEUED"]
    /\ task' = [task EXCEPT ![t].status = "READY"]

\* A row that people have marked as done brings its links along, unchecked.
Scanned(row, ls, due, marked) ==
    IF marked /\ ls # NoLinks
    THEN [row EXCEPT !.due = due, !.links = ls, !.linkStatus = "VALIDATED"]
    ELSE [row EXCEPT !.due = due]

\* People fill in the links of a JUBIAN row, but not of one already taken.
RowLinks(t) ==
    IF KindOf[t] = "JUBIAN" /\ ~Frozen(task[t]) THEN Links ELSE {sheet[t]}

\* A scan finds the source row: its time may have moved.
Scan(t) ==
    /\ Step
    /\ KindOf[t] # "MINIPROGRAM"
    /\ \E ls \in RowLinks(t), due, marked \in BOOLEAN :
          /\ sheet' = [sheet EXCEPT ![t] = ls]
          /\ task' = [task EXCEPT ![t] = Scanned(@, ls, due, marked)]
    /\ UNCHANGED item

-----------------------------------------------------------------------------
(* The execution.                                                           *)

Claim(t) ==
    /\ run = NoRun /\ item[t] = "QUEUED"
    /\ item' = [item EXCEPT ![t] = "CLAIMED"]
    /\ run' = [NoRun EXCEPT !.task = t, !.pc = "links",
                            !.mine = [task[t] EXCEPT !.status = "RUNNING"]]
    /\ UNCHANGED <<task, evidence, sheet, assets, configs, ops>>

At(pc) == run.pc = pc

Go(pc, mine) == run' = [run EXCEPT !.pc = pc, !.mine = mine]

Report(status) == Go("report", [run.mine EXCEPT !.status = status])

\* In the MOCK mode the executor reports a rehearsal and does nothing.
Rehearse ==
    /\ At("links")
    /\ Report("DRY_RUN")
    /\ UNCHANGED <<task, item, evidence, sheet, assets, configs, ops>>

\* The time moved after the item was queued.
NotYet ==
    /\ At("links") /\ ~run.mine.due
    /\ Report("MANUAL_REVIEW")
    /\ UNCHANGED <<task, item, evidence, sheet, assets, configs, ops>>

\* Mutant: only the app's own platform goes on to the delivery system.
AfterLinksOfApp(mine) ==
    IF mine.target = "LINK_EXTRACTION"
    THEN [pc |-> "report", status |-> "LINK_EXTRACTED"]
    ELSE IF KindOf[run.task] # "TOMATO"
         THEN [pc |-> "report", status |-> "LINK_READY"]
         ELSE [pc |-> "drama", status |-> mine.status]

AfterLinks(mine) ==
    IF mine.target = "LINK_EXTRACTION"
    THEN [pc |-> "report", status |-> "LINK_EXTRACTED"]
    ELSE IF KindOf[run.task] = "MINIPROGRAM"
         THEN [pc |-> "report", status |-> "LINK_READY"]
         ELSE [pc |-> "drama", status |-> mine.status]

\* Links that are frozen are not extracted again.
ReuseLinks ==
    /\ At("links") /\ run.mine.due /\ Frozen(run.mine)
    /\ LET next == AfterLinks(run.mine) IN
       Go(next.pc, [run.mine EXCEPT !.status = next.status])
    /\ UNCHANGED <<task, item, evidence, sheet, assets, configs, ops>>

\* Each source's links: a JUBIAN row has its own, the others are acquired.  A
\* TOMATO task needs its IAA link; a paid type that fails is left out.
Acquirable(t) ==
    {ls \in Links : /\ ls # NoLinks
                    /\ KindOf[t] = "TOMATO" => ls[IAA] # NoUrl
                    /\ KindOf[t] = "JUBIAN" => ls = sheet[t]
                    /\ KindOf[t] # "OTHER"}

BadLinks(ls) == \E y \in Types : ls[y] \in BadUrls

Acquire ==
    /\ At("links") /\ run.mine.due /\ ~Frozen(run.mine)
    /\ \E ls \in Acquirable(run.task) :
          run' = [run EXCEPT !.found = ls, !.pc = IF BadLinks(ls) THEN "bad" ELSE "write"]
    /\ UNCHANGED <<task, item, evidence, sheet, assets, configs, ops>>

\* No links, an error of the platform, or no unique drama.  prepare_task stores
\* the new link status, but the executor's copy then replaces the row.
AcquireFails ==
    /\ At("links") /\ run.mine.due /\ ~Frozen(run.mine)
    /\ \E mismatch \in BOOLEAN :
          /\ mismatch => KindOf[run.task] = "TOMATO"
          /\ run' = [run EXCEPT !.pc = "report", !.mismatch = mismatch,
                                !.mine = [@ EXCEPT !.status = "MANUAL_REVIEW"]]
    /\ UNCHANGED <<task, item, evidence, sheet, assets, configs, ops>>

WritesSheet == KindOf[run.task] = "TOMATO"

\* Mutant: links that the sheet already shows are left alone.
SheetFilledIn ==
    IF WritesSheet /\ sheet[run.task] = NoLinks
    THEN [sheet EXCEPT ![run.task] = run.found] ELSE sheet

SheetWritten ==
    IF WritesSheet THEN [sheet EXCEPT ![run.task] = run.found] ELSE sheet

\* Links with a bad URL are shown in the sheet and rejected.
RejectLinks ==
    /\ At("bad")
    /\ sheet' = SheetWritten
    /\ Report("MANUAL_REVIEW")
    /\ UNCHANGED <<task, item, evidence, assets, configs, ops>>

\* The sheet is written first.  A confirmation that was used is cleared in the
\* stored row and restored from the executor's copy.
FreezeLinks ==
    /\ At("write")
    /\ sheet' = SheetWritten
    /\ LET mine == [run.mine EXCEPT !.links = run.found, !.linkStatus = "VALIDATED",
                                    !.status = "READY"]
           next == AfterLinks(mine)
       IN Go(next.pc, [mine EXCEPT !.status = next.status])
    /\ UNCHANGED <<task, item, evidence, assets, configs, ops>>

\* The sheet refuses the write, before or after some of it went through.
WriteFails ==
    /\ At("write") /\ WritesSheet
    /\ \E some \in SUBSET Types :
          sheet' = [sheet EXCEPT ![run.task] =
                      [y \in Types |-> IF y \in some THEN run.found[y] ELSE @[y]]]
    /\ Report("MANUAL_REVIEW")
    /\ UNCHANGED <<task, item, evidence, assets, configs, ops>>

SkipDrama ==
    /\ At("drama") /\ run.mine.drama # NoId
    /\ Go("config", run.mine)
    /\ UNCHANGED <<task, item, evidence, sheet, assets, configs, ops>>

\* Found by name; its id may not be readable from the row.
FindAsset ==
    /\ At("drama") /\ run.mine.drama = NoId /\ assets # {}
    /\ \E id \in assets \cup {NoId} :
          Go("config", [run.mine EXCEPT !.drama = id])
    /\ UNCHANGED <<task, item, evidence, sheet, assets, configs, ops>>

\* Not found, or overlooked: the search waits two seconds.
CreateAsset ==
    /\ At("drama") /\ run.mine.drama = NoId
    /\ \E id \in AssetIds \ assets :
          /\ assets' = assets \cup {id}
          /\ Go("config", [run.mine EXCEPT !.drama = id])
    /\ UNCHANGED <<task, item, evidence, sheet, configs, ops>>

\* Saved, but no album id was shown: RESULT_UNCERTAIN.  Or nothing was saved.
CreateAssetFails ==
    /\ At("drama") /\ run.mine.drama = NoId
    /\ \E new \in {assets} \cup {assets \cup {id} : id \in AssetIds} : assets' = new
    /\ Report("MANUAL_REVIEW")
    /\ UNCHANGED <<task, item, evidence, sheet, configs, ops>>

MissingConfigs(row) == TypesOf(row.links) \ row.configs

\* The links of the configs with the name that a task's type y gives.
Named(t, y) == configs[KindOf[t]][y]

SaveConfig(y) ==
    configs' = [configs EXCEPT ![KindOf[run.task]][y] = @ \cup {run.mine.links[y]}]

\* A config that carries the name is taken as it is.
FindConfig(y) ==
    /\ At("config") /\ y \in MissingConfigs(run.mine) /\ Named(run.task, y) # {}
    /\ Go("config", [run.mine EXCEPT !.configs = @ \cup {y}])
    /\ UNCHANGED <<task, item, evidence, sheet, assets, configs, ops>>

\* Mutant: a dialog that closed counts as a config that was created.
CreateConfigUnverified(y) ==
    /\ At("config") /\ y \in MissingConfigs(run.mine)
    /\ SaveConfig(y) \/ UNCHANGED configs
    /\ Go("config", [run.mine EXCEPT !.configs = @ \cup {y}])
    /\ UNCHANGED <<task, item, evidence, sheet, assets, ops>>

\* Not found, or overlooked three times: created, and then found by its name.
CreateConfig(y) ==
    /\ At("config") /\ y \in MissingConfigs(run.mine)
    /\ SaveConfig(y)
    /\ Go("config", [run.mine EXCEPT !.configs = @ \cup {y}])
    /\ UNCHANGED <<task, item, evidence, sheet, assets, ops>>

\* The dialog stays open, the saved config is not found, the session is gone.
\* The configs recorded so far are kept.
CreateConfigFails(y) ==
    /\ At("config") /\ y \in MissingConfigs(run.mine)
    /\ SaveConfig(y) \/ UNCHANGED configs
    /\ Report("MANUAL_REVIEW")
    /\ UNCHANGED <<task, item, evidence, sheet, assets, ops>>

ConfigsReady ==
    /\ At("config") /\ MissingConfigs(run.mine) = {}
    /\ Report("LINK_READY")
    /\ UNCHANGED <<task, item, evidence, sheet, assets, configs, ops>>

\* process_claimed stores the copy and the outcome, and the cycle commits.
Commit ==
    /\ At("report")
    /\ task' = [task EXCEPT ![run.task] = run.mine]
    /\ item' = [item EXCEPT ![run.task] =
                  IF run.mine.status = "MANUAL_REVIEW" THEN "MANUAL_REVIEW" ELSE "FINISHED"]
    /\ evidence' = IF run.mismatch THEN evidence \cup {run.task} ELSE evidence
    /\ run' = NoRun
    /\ UNCHANGED <<sheet, assets, configs, ops>>

\* The process dies or the cycle fails: the database forgets the execution.
RollBack ==
    /\ run # NoRun
    /\ run' = NoRun
    /\ UNCHANGED <<task, item, evidence, sheet, assets, configs, ops>>

-----------------------------------------------------------------------------
OperatorNext ==
    \E t \in Tasks :
       \/ Retry(t) \/ ConfirmDramaMatch(t) \/ Release(t) \/ Scan(t)
       \/ \E target \in Target : Enqueue(t, target)

LinkNext ==
    \/ \E t \in Tasks : Claim(t)
    \/ Rehearse \/ NotYet \/ ReuseLinks \/ Acquire \/ AcquireFails
    \/ RejectLinks \/ FreezeLinks \/ WriteFails

DeliveryNext ==
    \/ SkipDrama \/ FindAsset \/ CreateAsset \/ CreateAssetFails
    \/ \E y \in Types : FindConfig(y) \/ CreateConfig(y) \/ CreateConfigFails(y)
    \/ ConfigsReady

Next == OperatorNext \/ LinkNext \/ DeliveryNext \/ Commit \/ RollBack

Spec == Init /\ [][Next]_vars

-----------------------------------------------------------------------------
(* Properties.                                                              *)

\* Every variable holds a value of its kind.
TypeOK ==
    /\ task \in [Tasks -> TaskRow]
    /\ item \in [Tasks -> ItemState]
    /\ evidence \subseteq Tasks
    /\ sheet \in [Tasks -> Links]
    /\ assets \subseteq AssetIds
    /\ configs \in [Kind -> [Types -> SUBSET Urls]]
    /\ run \in Run
    /\ ops \in 0 .. MaxOps

\* A task reads LINK_READY only when its links are frozen and the promotion
\* config of every one is on record, whatever mixture of failed, rolled back,
\* rehearsed and repeated executions led there (link_readiness_service.py:40-86).
ReadyIsBuilt ==
    \A t \in Tasks :
        task[t].status = "LINK_READY" /\ KindOf[t] # "MINIPROGRAM" =>
            Frozen(task[t]) /\ MissingConfigs(task[t]) = {}

\* A config that is on record exists on the delivery system: an uncertain save
\* is never taken for a created config (promotion_config_page.py:172-246).
RecordedConfigsExist ==
    \A t \in Tasks : \A y \in task[t].configs : Named(t, y) # {}

\* The sheet shows the links that are frozen.  The sheet is written before the
\* database and is not rolled back with it, so a lost execution leaves links
\* there that the next one replaces or a scan adopts
\* (task_preparation_service.py:188-193, delivery_scheduler.py:144-155).
SheetShowsFrozenLinks ==
    \A t \in Tasks :
        KindOf[t] # "MINIPROGRAM" /\ Frozen(task[t]) => sheet[t] = task[t].links

\* The pipeline implements LinkStages: links are frozen once and what was built is
\* never forgotten, across failures, crashes and repeated executions.
Stages == INSTANCE LinkStages WITH
    frozen <- [t \in Tasks |-> task[t].links],
    built  <- [t \in Tasks |-> task[t].configs],
    ready  <- {t \in Tasks : task[t].status = "LINK_READY"}

KeepsStages == Stages!Spec

\* What promotion_config_page.py:22 claims ("创建并校验主剧与链接匹配"): the
\* config a task relies on carries the task's own link.
ConfigServesLink ==
    \A t \in Tasks : \A y \in task[t].configs : task[t].links[y] \in Named(t, y)
=============================================================================
