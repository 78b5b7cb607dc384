-------------------------- MODULE StandardDelivery --------------------------
(***************************************************************************)
(* The standard delivery of a drama (build_worker_executor's execute and   *)
(* StandardDeliveryService.execute): take the frozen links, assign the     *)
(* accounts, build and validate the plan, submit it to the delivery system,*)
(* poll it, and write the sheet's M=1 and the ledger.                      *)
(*                                                                         *)
(* One execution runs at a time (WorkQueue.PlatformWritesSerial); it        *)
(* commits with its report, or it is lost in a crash, unlike what it wrote *)
(* to the sheets and the platform.                                         *)
(***************************************************************************)
EXTENDS AccountAssignment

CONSTANTS
    MaxRuns,        \* bound on executions
    MaxPolls        \* polls before the deadline

ASSUME DeliveryAssumption == MaxRuns \in Nat /\ MaxPolls \in Nat \ {0}

VARIABLES
    platform,   \* the delivery system's tasks, in the order of submission
    marks,      \* column M: 0, or the platform task whose completion wrote the 1
    ledger,     \* the platform task in each drama's ledger row, 0 without one
    result,     \* the last report on each drama
    run,        \* the execution in progress
    runs

deliveryVars == <<platform, marks, ledger, result, run, runs>>
vars == <<accountVars, deliveryVars>>

NoRun == [pc |-> "idle", drama |-> Nobody, task |-> 0, polls |-> 0]

Init ==
    /\ AccountInit
    /\ platform = <<>>
    /\ marks = [d \in Drama |-> 0] /\ ledger = [d \in Drama |-> 0]
    /\ result = [d \in Drama |-> "none"]
    /\ run = NoRun /\ runs = 0

-----------------------------------------------------------------------------
(* Reports.                                                                 *)

\* The executor returns and the transaction commits.
Report(report, task) ==
    /\ result' = [result EXCEPT ![run.drama] = report]
    /\ ledger' = [ledger EXCEPT ![run.drama] = IF report = "COMPLETED" THEN task ELSE @]
    /\ usage' = usage \cup pending /\ pending' = {}
    /\ run' = NoRun /\ assign' = NoAssign
    /\ UNCHANGED <<sheet, edits, platform, runs>>

ManualReview == Report("MANUAL_REVIEW", 0) /\ UNCHANGED marks

\* Any drama may be enqueued again: one in review is retried, a rehearsed or completed one
\* starts anew, and one that was left uncertain does once it has been cancelled.
Start(d) ==
    /\ run.pc = "idle" /\ runs < MaxRuns
    /\ runs' = runs + 1
    /\ run' = [NoRun EXCEPT !.pc = "prepare", !.drama = d]
    /\ UNCHANGED <<accountVars, platform, marks, ledger, result>>

\* A task with frozen links needs no preparation; the real configuration is read.
Prepare(real) ==
    /\ run.pc = "prepare" /\ Links[run.drama] # {}
    /\ BeginAssign(run.drama, real)
    /\ run' = [run EXCEPT !.pc = "assign"]
    /\ UNCHANGED <<sheet, usage, pending, edits, platform, marks, ledger, result, runs>>

\* There are no links, or the configuration or the drama's resources are missing.
PrepareFails ==
    /\ run.pc = "prepare"
    /\ ManualReview

\* Reading the sheet fails outside the assignment's own error handling.
AssignRaises ==
    /\ run.pc = "assign" /\ assign.pc \in {"IAA", "IAP", "check"}
    /\ ManualReview

AccountAssignmentFailure ==
    /\ run.pc = "assign" /\ assign.pc = "done"
    /\ assign.status \notin {"CONFIRMED", "DRY_RUN"}
    /\ ManualReview

AssignStep == run.pc = "assign" /\ AssignNext /\ UNCHANGED deliveryVars

-----------------------------------------------------------------------------
(* The plan.                                                                *)

DeliveryType(role) == IF role \in ToSet(IaaGroups) THEN "IAA" ELSE role

LinkOfType(type) == IF type = "IAA" THEN "IAA" ELSE IF type = "B1-9.9" THEN "9.9" ELSE "2.9"

RolesOf(link) == IF link = "IAA" THEN ToSet(IaaGroups)
                 ELSE IF link = "9.9" THEN {"B1-9.9"} ELSE {"B2-2.9"}

Given == assign.accounts

Routing(link) == {Given[n].cid : n \in {m \in DOMAIN Given : Given[m].role \in RolesOf(link)}}

AccountCids == UNION {Routing(l) : l \in Links[run.drama]}

\* One configuration per CID, of the role it has first.
ConfigType(cid) ==
    DeliveryType(Given[Min({n \in DOMAIN Given : Given[n].cid = cid})].role)

CoveredLinks == {LinkOfType(ConfigType(c)) : c \in AccountCids}

\* The CIDs have configurations, and the paid links have accounts.
ReportPasses ==
    /\ AccountCids \subseteq Configured
    /\ Links[run.drama] \cap {"9.9", "2.9"} \subseteq CoveredLinks

FormBuilds ==
    AccountCids # {} /\ CoveredLinks \subseteq Links[run.drama]

BuildPlan ==
    /\ run.pc = "assign" /\ assign.pc = "done" /\ assign.status \in {"CONFIRMED", "DRY_RUN"}
    /\ run' = [run EXCEPT !.pc = "validate"]
    /\ UNCHANGED <<accountVars, platform, marks, ledger, result, runs>>

Validate ==
    /\ run.pc = "validate" /\ assign.real
    /\ ReportPasses /\ FormBuilds
    /\ run' = [run EXCEPT !.pc = "asset"]
    /\ UNCHANGED <<accountVars, platform, marks, ledger, result, runs>>

\* A manual review without a code.  Materials that are repeated have passed the
\* first look at the drama's resources.
ValidationFails ==
    /\ run.pc = "validate"
    /\ ReportPasses => assign.real
    /\ ManualReview

\* The submit guard: no real adapters, or the final submission is switched off.
GuardBlocks ==
    /\ run.pc = "validate" /\ ReportPasses
    /\ Report("DRY_RUN", 0) /\ UNCHANGED marks

-----------------------------------------------------------------------------
(* The delivery system.                                                     *)

EnsureDramaAsset ==
    /\ run.pc = "asset"
    /\ run' = [run EXCEPT !.pc = "configs"]
    /\ UNCHANGED <<accountVars, platform, marks, ledger, result, runs>>

\* The promotion content of each link, if it is missing (see LinkStages).
EnsurePromotionConfigs ==
    /\ run.pc = "configs"
    /\ run' = [run EXCEPT !.pc = "submit"]
    /\ UNCHANGED <<accountVars, platform, marks, ledger, result, runs>>

\* A page fails before the submission was confirmed: with a code or without, but
\* never as safe to retry.
PageFails ==
    /\ run.pc \in {"asset", "configs", "submit"}
    /\ ManualReview

\* The confirmed submission reaches the platform, which may list it only later; what
\* the page shows then decides.  The task's name holds the time, so it is this
\* execution's own.
SubmitPlan(status) ==
    /\ run.pc = "submit"
    /\ platform' = Append(platform, [drama |-> run.drama, run |-> runs, cids |-> AccountCids,
                                     status |-> status])
    /\ run' = [run EXCEPT !.pc = "submitted"]
    /\ UNCHANGED <<accountVars, marks, ledger, result, runs>>

SubmitIgnored ==
    /\ run.pc = "submit"
    /\ run' = [run EXCEPT !.pc = "submitted"]
    /\ UNCHANGED <<accountVars, platform, marks, ledger, result, runs>>

Shown == {t \in DOMAIN platform : platform[t].status # "HIDDEN"}

Own == {t \in Shown : platform[t].run = runs}

\* The page's row of a task, if there is just one: that may be an older task's.
ReadTaskRow ==
    /\ run.pc = "submitted"
    /\ \E t \in Shown : Shown = {t} /\ run' = [run EXCEPT !.pc = "poll", !.task = t]
    /\ UNCHANGED <<accountVars, platform, marks, ledger, result, runs>>

\* The row is there without a text.
ResultUncertain ==
    /\ run.pc = "submitted"
    /\ run' = [run EXCEPT !.pc = "find"]
    /\ UNCHANGED <<accountVars, platform, marks, ledger, result, runs>>

\* No row, or several.
SubmitRaises == run.pc = "submitted" /\ ManualReview

FindByTaskName ==
    /\ run.pc = "find"
    /\ \E t \in Own : run' = [run EXCEPT !.pc = "poll", !.task = t]
    /\ UNCHANGED <<accountVars, platform, marks, ledger, result, runs>>

\* Mutant: what is not found is submitted once more.
SubmitAgain ==
    /\ run.pc = "find" /\ Own = {}
    /\ run' = [run EXCEPT !.pc = "submit"]
    /\ UNCHANGED <<accountVars, platform, marks, ledger, result, runs>>

\* The look into the list counts as the reconciliation: it is safe to retry.
NotFound ==
    /\ run.pc = "find" /\ Own = {}
    /\ ManualReview

\* Mutant: the deadline does not end the polling.
PollForever ==
    /\ run.pc = "poll" /\ platform[run.task].status # "COMPLETED"
    /\ run' = [run EXCEPT !.polls = (@ + 1) % (MaxPolls + 1)]
    /\ UNCHANGED <<accountVars, platform, marks, ledger, result, runs>>

PollAgain ==
    /\ run.pc = "poll" /\ run.polls < MaxPolls
    /\ platform[run.task].status # "COMPLETED"
    /\ run' = [run EXCEPT !.polls = @ + 1]
    /\ UNCHANGED <<accountVars, platform, marks, ledger, result, runs>>

\* Failed and partly failed tasks are polled until the deadline, too.
PollTimesOut ==
    /\ run.pc = "poll" /\ run.polls = MaxPolls
    /\ ManualReview

\* The row has no status: uncertain, but not safe to retry.
PollUncertain ==
    /\ run.pc = "poll"
    /\ Report("UNCERTAIN", 0) /\ UNCHANGED marks

PollCompleted ==
    /\ run.pc = "poll" /\ platform[run.task].status = "COMPLETED"
    /\ run.polls < MaxPolls
    /\ run' = [run EXCEPT !.pc = "finish"]
    /\ UNCHANGED <<accountVars, platform, marks, ledger, result, runs>>

\* The success row is kept in memory until M=1 is written; then it is committed
\* with the report.
FinalizeCompleted ==
    /\ run.pc = "finish"
    /\ marks' = [marks EXCEPT ![run.drama] = run.task]
    /\ run' = [run EXCEPT !.pc = "report"]
    /\ UNCHANGED <<accountVars, platform, ledger, result, runs>>

ReportCompleted ==
    /\ run.pc = "report"
    /\ Report("COMPLETED", run.task) /\ UNCHANGED marks

\* Mutant: the report does not depend on M=1.
CompleteAnyway ==
    /\ run.pc = "finish"
    /\ Report("COMPLETED", run.task) /\ UNCHANGED marks

\* The in-memory row turns FAILED.
WriteCompletionFails ==
    /\ run.pc = "finish"
    /\ ManualReview

-----------------------------------------------------------------------------
\* The platform lists a late task, and works on its tasks: any time will do in which
\* its pages are read.
PlatformStep ==
    /\ run.pc \in {"submitted", "find", "poll"}
    /\ \E t \in DOMAIN platform, status \in {"PENDING", "COMPLETED", "FAILED"} :
          /\ platform[t].status = IF status = "PENDING" THEN "HIDDEN" ELSE "PENDING"
          /\ platform' = [platform EXCEPT ![t].status = status]
    /\ UNCHANGED <<accountVars, marks, ledger, result, run, runs>>

\* The worker dies: the transaction is gone, the item is released.
Crash ==
    /\ run.pc # "idle"
    /\ run' = NoRun /\ assign' = NoAssign /\ pending' = {}
    /\ UNCHANGED <<sheet, usage, edits, platform, marks, ledger, result, runs>>

ExecuteNext ==
    \/ PrepareFails \/ AssignRaises \/ AccountAssignmentFailure \/ PageFails \/ SubmitRaises
    \/ PollUncertain \/ WriteCompletionFails
    \/ \E real \in BOOLEAN : Prepare(real)
    \/ AssignStep \/ BuildPlan \/ Validate \/ ValidationFails \/ GuardBlocks
    \/ EnsureDramaAsset \/ EnsurePromotionConfigs
    \/ (\E status \in {"HIDDEN", "PENDING"} : SubmitPlan(status))
    \/ SubmitIgnored \/ ReadTaskRow \/ ResultUncertain \/ FindByTaskName \/ NotFound
    \/ PollAgain \/ PollTimesOut \/ PollCompleted
    \/ FinalizeCompleted \/ ReportCompleted

Next ==
    \/ \E d \in Drama : Start(d)
    \/ ExecuteNext
    \/ EditSheet /\ UNCHANGED deliveryVars
    \/ PlatformStep
    \/ Crash

Spec == Init /\ [][Next]_vars

\* Calls to the sheet and the pages have timeouts: what was begun goes on.
FairSpec == Spec /\ WF_vars(ExecuteNext)

-----------------------------------------------------------------------------
(* Properties.                                                              *)

RunPcs == {"idle", "prepare", "assign", "validate", "asset", "configs", "submit", "submitted",
           "find", "poll", "finish", "report"}

\* Every variable holds a value of its kind; what is polled exists.
TypeOK ==
    /\ AccountTypeOK
    /\ run.pc \in RunPcs /\ run.polls \in 0 .. MaxPolls
    /\ run.pc \in {"poll", "finish", "report"} => run.task \in Shown
    /\ runs \in 0 .. MaxRuns

\* Once the names are in the sheet and the CIDs recorded, the plan can only fail
\* for its materials: the blocks, whether found or copied, give every link its
\* accounts and no link accounts it has no use for (plan_validation_service.py:45-146,
\* delivery_form_spec.py:50-118).
ConfirmedPlanIsValid ==
    run.pc = "validate" =>
        /\ assign.real => ReportPasses
        /\ \A l \in Links[run.drama] : Cardinality(Routing(l)) >= 1 /\ l \in CoveredLinks
        /\ CoveredLinks \subseteq Links[run.drama]

\* M=1 and the ledger are written only after the task that was polled completed on
\* the platform, and a ledger row only after M=1, whatever fails or dies in between
\* (standard_delivery_service.py:160-251).
CompletionIsBacked ==
    \A d \in Drama :
        /\ marks[d] # 0 => platform[marks[d]].status = "COMPLETED"
        /\ ledger[d] # 0 => marks[d] # 0 /\ platform[ledger[d]].status = "COMPLETED"
        /\ result[d] = "COMPLETED" => ledger[d] # 0

\* How far the execution has come, and what the platform has been given and has completed.
Phase == CASE run.pc = "idle" -> "idle"
           [] run.pc = "report" -> "marked"
           [] run.pc \in {"submitted", "find", "poll", "finish"} -> "submitted"
           [] OTHER -> "begun"
Submitted == [t \in DOMAIN platform |-> platform[t].drama]
Completed == {t \in DOMAIN platform : platform[t].status = "COMPLETED"}

\* The execution implements DeliveryStages: it submits once, and what it marks and records is a
\* completed task, in this order, whatever the deliveries before it have left behind
\* (standard_delivery_service.py:93-251, worker_executor.py:96-117).
Stages == INSTANCE DeliveryStages WITH
    phase <- Phase, served <- run.drama, tasks <- Submitted, completed <- Completed,
    marked <- marks, recorded <- ledger

KeepsDelivery == Stages!Spec

\* Every execution ends, whatever the platform does (delivery_flow_service.py:74-124).
ExecutionEnds == (run.pc # "idle") ~> (run.pc = "idle")

\* "同一 CID 当天不分配第二部剧" (business-rules.md:144): no two dramas are submitted
\* with one CID on one day.
CidServesOneDrama ==
    \A s, t \in DOMAIN platform :
        platform[s].drama # platform[t].drama /\ DayOf[platform[s].drama] = DayOf[platform[t].drama]
            => platform[s].cids \cap platform[t].cids = {}

\* "按唯一任务名称对账，防止结果不确定时重复提交" (delivery_flow_service.py:71).
SubmittedOnce ==
    \A s, t \in DOMAIN platform : platform[s].drama = platform[t].drama => s = t
=============================================================================
