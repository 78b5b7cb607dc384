------------------------- MODULE LinkReadinessProofs -------------------------
(***************************************************************************)
(* Proofs about LinkReadiness, for every set of tasks, platforms, link     *)
(* types and URLs: types, what LINK_READY and a recorded config mean, what *)
(* the sheet shows, and the refinement of LinkStages.                      *)
(***************************************************************************)
EXTENDS LinkReadiness, TLAPS

\* What holds of a row and of the executor's copy of it, given the sheet and
\* the configs on the delivery system.
RowOK(t, row, sh, cf) ==
    /\ row.links # NoLinks => row.linkStatus = "VALIDATED"
    /\ row.configs \subseteq TypesOf(row.links)
    /\ row.status = "LINK_READY" /\ KindOf[t] # "MINIPROGRAM" =>
          Frozen(row) /\ MissingConfigs(row) = {}
    /\ \A y \in row.configs : cf[KindOf[t]][y] # {}
    /\ KindOf[t] # "MINIPROGRAM" /\ Frozen(row) => sh[t] = row.links

RowsOK == \A t \in Tasks : RowOK(t, task[t], sheet, configs)

\* The copy only adds to the stored row; links are looked for when it has none.
CopyOK ==
    LET t == run.task row == task[run.task] mine == run.mine IN
    /\ t \in Tasks
    /\ RowOK(t, mine, sheet, configs)
    /\ row.links # NoLinks => mine.links = row.links
    /\ row.configs \subseteq mine.configs
    /\ run.pc \in {"bad", "write"} =>
          /\ mine.links = NoLinks /\ run.found # NoLinks
          /\ KindOf[t] \in {"TOMATO", "JUBIAN", "MINIPROGRAM"}
          /\ KindOf[t] = "JUBIAN" => run.found = sheet[t]
    /\ run.pc \in {"drama", "config"} => Frozen(mine) /\ KindOf[t] # "MINIPROGRAM"
    /\ run.pc # "report" => mine.status # "LINK_READY"

RunOK == run.pc # "none" => CopyOK

IInv == TypeOK /\ RowsOK /\ RunOK

\* Updates of a row keep its type.
LEMMA RowUpdates ==
    ASSUME NEW row \in TaskRow
    PROVE  /\ \A s \in Status : [row EXCEPT !.status = s] \in TaskRow
           /\ \A g \in Target : [row EXCEPT !.target = g] \in TaskRow
           /\ \A d \in BOOLEAN : [row EXCEPT !.due = d] \in TaskRow
           /\ [row EXCEPT !.confirmed = TRUE] \in TaskRow
           /\ \A d \in AssetIds \cup {NoId} : [row EXCEPT !.drama = d] \in TaskRow
           /\ \A c \in SUBSET Types : [row EXCEPT !.configs = c] \in TaskRow
           /\ \A ls \in Links : [row EXCEPT !.links = ls] \in TaskRow
           /\ [row EXCEPT !.linkStatus = "VALIDATED"] \in TaskRow
           /\ [row EXCEPT !.linkStatus = "NOT_STARTED"] \in TaskRow
  BY DEF TaskRow

\* The fields of a row have their types.
LEMMA RowFields ==
    ASSUME NEW row \in TaskRow
    PROVE  /\ row.status \in Status /\ row.target \in Target
           /\ row.links \in Links /\ row.configs \in SUBSET Types
           /\ row.drama \in AssetIds \cup {NoId} /\ row.due \in BOOLEAN
  BY DEF TaskRow

PC == {"none", "links", "write", "bad", "drama", "config", "report"}

\* The fields of the execution have their types.
LEMMA RunFields ==
    ASSUME NEW r \in Run
    PROVE  r.mine \in TaskRow /\ r.found \in Links /\ r.task \in Tasks \cup {NoTask}
  BY DEF Run

\* Moving the execution on keeps its type.
LEMMA GoTypes ==
    ASSUME NEW r \in Run, NEW row \in TaskRow, NEW pc \in PC
    PROVE  /\ [r EXCEPT !.pc = pc, !.mine = row] \in Run
           /\ \A m \in BOOLEAN : [r EXCEPT !.pc = pc, !.mismatch = m, !.mine = row] \in Run
           /\ \A ls \in Links : [r EXCEPT !.found = ls, !.pc = pc] \in Run
           /\ \A t \in Tasks : [r EXCEPT !.task = t, !.pc = pc, !.mine = row] \in Run
  BY DEF Run, PC

\* The initial row and the empty link set have their types.
LEMMA Rows == NewTask \in TaskRow /\ NoLinks \in Links /\ NoRun \in Run
<1>1. NoLinks \in Links  BY DEF NoLinks, Links
<1>2. NewTask \in TaskRow
  BY <1>1, LinkReadinessAssumption DEF NewTask, TaskRow, Status, Target
<1>3. NoRun \in Run  BY <1>1, <1>2 DEF NoRun, Run
<1>. QED  BY <1>1, <1>2, <1>3

\* Every step keeps the types.
LEMMA TypeStep == IInv /\ [Next]_vars => TypeOK'
<1>. SUFFICES ASSUME IInv, [Next]_vars PROVE TypeOK'  OBVIOUS
<1>. USE LinkReadinessAssumption DEF IInv
<1>m. run.mine \in TaskRow /\ run.found \in Links /\ run \in Run
  BY RunFields DEF TypeOK
<1>o. ASSUME Step PROVE ops' \in 0 .. MaxOps  BY <1>o DEF Step, TypeOK
<1>s. \A s \in {"READY", "WAITING_TIME", "RUNNING", "DRY_RUN", "MANUAL_REVIEW",
                 "LINK_EXTRACTED", "LINK_READY"} : s \in Status
  BY DEF Status
<1>p. \A pc \in {"links", "write", "bad", "drama", "config", "report"} : pc \in PC
  BY DEF PC
<1>g. ASSUME NEW pc \in PC, NEW row \in TaskRow, Go(pc, row) PROVE run' \in Run
  BY <1>g, <1>m, GoTypes DEF Go
<1>r. ASSUME NEW s \in Status, Report(s) PROVE run' \in Run
  BY <1>r, <1>m, <1>g, <1>p, RowUpdates DEF Report
<1>f. SheetWritten \in [Tasks -> Links]
  BY <1>m DEF SheetWritten, TypeOK
<1>c. ASSUME NEW y \in Types, SaveConfig(y), run.mine.links[y] \in Urls
      PROVE  configs' \in [Kind -> [Types -> SUBSET Urls]]
  <2>1. \A k \in Kind : [configs[k] EXCEPT ![y] = @ \cup {run.mine.links[y]}] \in [Types -> SUBSET Urls]
    BY <1>c DEF TypeOK
  <2>. QED  BY <1>c, <2>1 DEF SaveConfig, TypeOK
<1>u. ASSUME NEW y \in MissingConfigs(run.mine) PROVE run.mine.links[y] \in Urls
  BY <1>m, RowFields DEF MissingConfigs, TypesOf, Links
<1>1. ASSUME NEW t \in Tasks, NEW target \in Target, Enqueue(t, target) PROVE TypeOK'
  <2>. DEFINE row == Enqueued(task[t], target)
  <2>1. row \in TaskRow
    BY RowUpdates, Rows DEF TypeOK, Enqueued, Unprepared
  <2>2. [row EXCEPT !.status = "READY"] \in TaskRow /\ [row EXCEPT !.status = "WAITING_TIME"] \in TaskRow
    BY <1>s, <2>1, RowUpdates
  <2>. HIDE DEF row
  <2>3. task' \in [Tasks -> TaskRow]
    <3>1. CASE task' = [task EXCEPT ![t] = [row EXCEPT !.status = "READY"]]
      BY <2>2, <3>1 DEF TypeOK
    <3>2. CASE task' = [task EXCEPT ![t] = IF row.status = "DRY_RUN"
                                           THEN [row EXCEPT !.status = "WAITING_TIME"] ELSE row]
      BY <2>1, <2>2, <3>2 DEF TypeOK
    <3>. QED  BY <1>1, <3>1, <3>2 DEF Enqueue, row
  <2>4. item' \in [Tasks -> ItemState]
    BY <1>1 DEF Enqueue, TypeOK, ItemState
  <2>5. Step /\ UNCHANGED <<evidence, sheet, assets, configs, run>>
    BY <1>1 DEF Enqueue, OperatorStep, Step
  <2>. QED  BY <1>o, <2>3, <2>4, <2>5 DEF TypeOK
<1>2. ASSUME NEW t \in Tasks, Retry(t) PROVE TypeOK'
  <2>2. task' \in [Tasks -> TaskRow]
    BY <1>2, <1>s, RowUpdates DEF Retry, TypeOK
  <2>3. item' \in [Tasks -> ItemState]
    BY <1>2 DEF Retry, TypeOK, ItemState
  <2>4. Step /\ UNCHANGED <<evidence, sheet, assets, configs, run>>
    BY <1>2 DEF Retry, OperatorStep, Step
  <2>. QED  BY <1>o, <2>2, <2>3, <2>4 DEF TypeOK
<1>3. ASSUME NEW t \in Tasks, ConfirmDramaMatch(t) PROVE TypeOK'
  <2>1. task' = [task EXCEPT ![t] = [[@ EXCEPT !.status = "READY"] EXCEPT !.confirmed = TRUE]]
    BY <1>3 DEF ConfirmDramaMatch, TypeOK
  <2>2. task' \in [Tasks -> TaskRow]
    BY <2>1, <1>s, RowUpdates DEF TypeOK
  <2>3. item' \in [Tasks -> ItemState]
    BY <1>3 DEF ConfirmDramaMatch, TypeOK, ItemState
  <2>4. Step /\ UNCHANGED <<evidence, sheet, assets, configs, run>>
    BY <1>3 DEF ConfirmDramaMatch, OperatorStep, Step
  <2>. QED  BY <1>o, <2>2, <2>3, <2>4 DEF TypeOK
<1>4. ASSUME NEW t \in Tasks, Release(t) PROVE TypeOK'
  <2>2. task' \in [Tasks -> TaskRow]
    BY <1>4, <1>s, RowUpdates DEF Release, TypeOK
  <2>3. item' \in [Tasks -> ItemState]
    BY <1>4 DEF Release, TypeOK, ItemState
  <2>4. Step /\ UNCHANGED <<evidence, sheet, assets, configs, run>>
    BY <1>4 DEF Release, OperatorStep, Step
  <2>. QED  BY <1>o, <2>2, <2>3, <2>4 DEF TypeOK
<1>5. ASSUME NEW t \in Tasks, Scan(t) PROVE TypeOK'
  <2>1. PICK ls \in RowLinks(t), due \in BOOLEAN, marked \in BOOLEAN :
             /\ sheet' = [sheet EXCEPT ![t] = ls]
             /\ task' = [task EXCEPT ![t] = Scanned(@, ls, due, marked)]
    BY <1>5 DEF Scan
  <2>2. ls \in Links  BY DEF RowLinks, TypeOK
  <2>3. Scanned(task[t], ls, due, marked) \in TaskRow
    BY <2>2, RowUpdates DEF Scanned, TypeOK
  <2>4. sheet' \in [Tasks -> Links] /\ task' \in [Tasks -> TaskRow]
    BY <2>1, <2>2, <2>3 DEF TypeOK
  <2>5. Step /\ UNCHANGED <<evidence, item, assets, configs, run>>
    BY <1>5 DEF Scan, Step
  <2>. QED  BY <1>o, <2>4, <2>5 DEF TypeOK
<1>6. ASSUME NEW t \in Tasks, Claim(t) PROVE TypeOK'
  <2>1. [task[t] EXCEPT !.status = "RUNNING"] \in TaskRow
    BY <1>s, RowUpdates DEF TypeOK
  <2>2. run' = [NoRun EXCEPT !.task = t, !.pc = "links",
                             !.mine = [task[t] EXCEPT !.status = "RUNNING"]]
    BY <1>6 DEF Claim
  <2>3. run' \in Run
    BY <1>p, <2>1, <2>2, Rows, GoTypes
  <2>4. item' \in [Tasks -> ItemState]
    BY <1>6 DEF Claim, TypeOK, ItemState
  <2>. QED  BY <1>6, <2>3, <2>4 DEF Claim, TypeOK
<1>7. ASSUME Rehearse PROVE TypeOK'
  <2>1. run' \in Run
    BY <1>7, <1>m, <1>s, <1>p, <1>r, RowUpdates, RowFields DEF Rehearse
  <2>. QED  BY <1>7, <2>1 DEF Rehearse, TypeOK
<1>8. ASSUME NotYet PROVE TypeOK'
  <2>1. run' \in Run
    BY <1>8, <1>m, <1>s, <1>p, <1>r, RowUpdates, RowFields DEF NotYet
  <2>. QED  BY <1>8, <2>1 DEF NotYet, TypeOK
<1>9. ASSUME ReuseLinks PROVE TypeOK'
  <2>1. run' \in Run
    BY <1>9, <1>m, <1>s, <1>p, <1>g, RowUpdates, RowFields DEF ReuseLinks, AfterLinks
  <2>. QED  BY <1>9, <2>1 DEF ReuseLinks, TypeOK
<1>10. ASSUME Acquire PROVE TypeOK'
  <2>1. PICK ls \in Links :
             run' = [run EXCEPT !.found = ls, !.pc = IF BadLinks(ls) THEN "bad" ELSE "write"]
    BY <1>10 DEF Acquire, Acquirable
  <2>2. run' \in Run
    <3>. DEFINE pc == IF BadLinks(ls) THEN "bad" ELSE "write"
    <3>1. pc \in PC  BY <1>p
    <3>. HIDE DEF pc
    <3>2. [run EXCEPT !.found = ls, !.pc = pc] \in Run
      BY <1>m, <3>1, GoTypes
    <3>. QED  BY <2>1, <3>2 DEF pc
  <2>. QED  BY <1>10, <2>2 DEF Acquire, TypeOK
<1>11. ASSUME AcquireFails PROVE TypeOK'
  <2>1. PICK mismatch \in BOOLEAN :
             run' = [run EXCEPT !.pc = "report", !.mismatch = mismatch,
                                !.mine = [@ EXCEPT !.status = "MANUAL_REVIEW"]]
    BY <1>11 DEF AcquireFails
  <2>2. [run.mine EXCEPT !.status = "MANUAL_REVIEW"] \in TaskRow
    BY <1>m, <1>s, RowUpdates
  <2>3. run' = [run EXCEPT !.pc = "report", !.mismatch = mismatch,
                           !.mine = [run.mine EXCEPT !.status = "MANUAL_REVIEW"]]
    BY <2>1, <1>m DEF Run
  <2>4. run' \in Run
    BY <1>m, <1>p, <2>2, <2>3, GoTypes
  <2>. QED  BY <1>11, <2>4 DEF AcquireFails, TypeOK
<1>12. ASSUME RejectLinks PROVE TypeOK'
  <2>1. run' \in Run  BY <1>12, <1>r, <1>s DEF RejectLinks
  <2>. QED  BY <1>12, <1>f, <2>1 DEF RejectLinks, TypeOK
<1>13. ASSUME FreezeLinks PROVE TypeOK'
  <2>. DEFINE mine == [run.mine EXCEPT !.links = run.found, !.linkStatus = "VALIDATED",
                                       !.status = "READY"]
  <2>1. mine \in TaskRow
    BY <1>m, <1>s, RowUpdates
  <2>2. [mine EXCEPT !.status = AfterLinks(mine).status] \in TaskRow /\ AfterLinks(mine).pc \in PC
    BY <2>1, <1>s, <1>p, RowUpdates, RowFields DEF AfterLinks
  <2>3. run' \in Run
    BY <1>13, <1>g, <2>2 DEF FreezeLinks
  <2>. QED  BY <1>13, <1>f, <2>3 DEF FreezeLinks, TypeOK
<1>14. ASSUME WriteFails PROVE TypeOK'
  <2>1. PICK some \in SUBSET Types :
             sheet' = [sheet EXCEPT ![run.task] =
                         [y \in Types |-> IF y \in some THEN run.found[y] ELSE @[y]]]
    BY <1>14 DEF WriteFails
  <2>2. \A ls \in Links : [y \in Types |-> IF y \in some THEN run.found[y] ELSE ls[y]] \in Links
    BY <1>m DEF Links
  <2>3. sheet' \in [Tasks -> Links]
    BY <2>1, <2>2 DEF TypeOK
  <2>. QED  BY <1>14, <1>r, <1>s, <2>3 DEF WriteFails, TypeOK
<1>15. ASSUME SkipDrama PROVE TypeOK'
  <2>1. run' \in Run
    BY <1>15, <1>m, <1>s, <1>p, <1>g, RowUpdates, RowFields DEF SkipDrama
  <2>. QED  BY <1>15, <2>1 DEF SkipDrama, TypeOK
<1>16. ASSUME FindAsset PROVE TypeOK'
  <2>1. PICK id \in AssetIds \cup {NoId} : Go("config", [run.mine EXCEPT !.drama = id])
    BY <1>16 DEF FindAsset, TypeOK
  <2>2. run' \in Run
    BY <2>1, <1>g, <1>m, <1>p, RowUpdates
  <2>. QED  BY <1>16, <2>2 DEF FindAsset, TypeOK
<1>17. ASSUME CreateAsset PROVE TypeOK'
  <2>1. PICK id \in AssetIds : /\ assets' = assets \cup {id}
                               /\ Go("config", [run.mine EXCEPT !.drama = id])
    BY <1>17 DEF CreateAsset
  <2>2. run' \in Run
    BY <2>1, <1>g, <1>m, <1>p, RowUpdates
  <2>. QED  BY <1>17, <2>1, <2>2 DEF CreateAsset, TypeOK
<1>18. ASSUME CreateAssetFails PROVE TypeOK'
  <2>1. assets' \subseteq AssetIds
    BY <1>18 DEF CreateAssetFails, TypeOK
  <2>. QED  BY <1>18, <1>r, <1>s, <2>1 DEF CreateAssetFails, TypeOK
<1>19. ASSUME NEW y \in Types, FindConfig(y) PROVE TypeOK'
  <2>1. [run.mine EXCEPT !.configs = @ \cup {y}] \in TaskRow
    BY <1>m, RowUpdates, RowFields
  <2>2. run' \in Run
    BY <1>19, <1>g, <1>p, <2>1 DEF FindConfig
  <2>. QED  BY <1>19, <2>2 DEF FindConfig, TypeOK
<1>20. ASSUME NEW y \in Types, CreateConfig(y) PROVE TypeOK'
  <2>1. [run.mine EXCEPT !.configs = @ \cup {y}] \in TaskRow
    BY <1>m, RowUpdates, RowFields
  <2>2. run' \in Run
    BY <1>20, <1>g, <1>p, <2>1 DEF CreateConfig
  <2>. QED  BY <1>20, <1>c, <1>u, <2>2 DEF CreateConfig, TypeOK
<1>21. ASSUME NEW y \in Types, CreateConfigFails(y) PROVE TypeOK'
  <2>1. configs' \in [Kind -> [Types -> SUBSET Urls]]
    BY <1>21, <1>c, <1>u DEF CreateConfigFails, TypeOK
  <2>. QED  BY <1>21, <1>r, <1>s, <2>1 DEF CreateConfigFails, TypeOK
<1>22. ASSUME ConfigsReady PROVE TypeOK'
  <2>1. run' \in Run
    BY <1>22, <1>m, <1>s, <1>p, <1>r, RowUpdates, RowFields DEF ConfigsReady
  <2>. QED  BY <1>22, <2>1 DEF ConfigsReady, TypeOK
<1>23. ASSUME Commit PROVE TypeOK'
  <2>1. task' \in [Tasks -> TaskRow]
    BY <1>23, <1>m DEF Commit, TypeOK
  <2>2. item' \in [Tasks -> ItemState]
    BY <1>23 DEF Commit, TypeOK, ItemState
  <2>3. run.task \in Tasks  BY <1>23 DEF Commit, At, RunOK, CopyOK
  <2>. QED  BY <1>23, <2>1, <2>2, <2>3, Rows DEF Commit, TypeOK
<1>24. ASSUME RollBack PROVE TypeOK'
  BY <1>24, Rows DEF RollBack, TypeOK
<1>25. CASE UNCHANGED vars  BY <1>25 DEF vars, TypeOK
<1>. QED
  BY <1>1, <1>2, <1>3, <1>4, <1>5, <1>6, <1>7, <1>8, <1>9, <1>10, <1>11, <1>12, <1>13, <1>14, <1>15, <1>16, <1>17, <1>18, <1>19, <1>20, <1>21, <1>22, <1>23, <1>24, <1>25 DEF Next, OperatorNext, LinkNext, DeliveryNext
\* A status other than LINK_READY changes nothing a row is held to.
LEMMA StatusKeepsRow ==
    ASSUME NEW t \in Tasks, NEW row \in TaskRow, NEW sh, NEW cf, RowOK(t, row, sh, cf),
           NEW s \in Status, s # "LINK_READY"
    PROVE  RowOK(t, [row EXCEPT !.status = s], sh, cf)
  BY DEF RowOK, TaskRow, Frozen, MissingConfigs, TypesOf, NoLinks

\* Other fields do not matter.
LEMMA SameRow ==
    ASSUME NEW t, NEW row, NEW new, NEW sh, NEW cf, RowOK(t, row, sh, cf),
           new.links = row.links, new.linkStatus = row.linkStatus,
           new.status = row.status, new.configs = row.configs
    PROVE  RowOK(t, new, sh, cf)
  BY DEF RowOK, Frozen, MissingConfigs

Grows == \A k \in Kind, y \in Types : configs[k][y] \subseteq configs'[k][y]

\* Configs that are added, and a sheet that changes only where no link is
\* frozen, leave what a row is held to.
LEMMA RowMonotone ==
    ASSUME TypeOK, NEW t \in Tasks, NEW row \in TaskRow, RowOK(t, row, sheet, configs),
           Grows, sheet'[t] = sheet[t] \/ ~Frozen(row) \/ KindOf[t] = "MINIPROGRAM"
    PROVE  RowOK(t, row, sheet', configs')
<1>1. row.configs \subseteq Types /\ KindOf[t] \in Kind
  BY LinkReadinessAssumption, RowFields
<1>. QED  BY <1>1 DEF RowOK, Grows

LEMMA GoFields ==
    ASSUME run \in Run, NEW row, NEW pc, Go(pc, row)
    PROVE  run'.mine = row /\ run'.pc = pc /\ run'.task = run.task /\ run'.found = run.found
  BY DEF Go, Run

\* A step that leaves the sheet and the links alone and may add configs.
LEMMA CopyMovesOn ==
    ASSUME IInv, run.pc # "none", UNCHANGED <<task, sheet>>, Grows,
           NEW row \in TaskRow, NEW pc \in PC \ {"bad", "write"}, Go(pc, row),
           RowOK(run.task, row, sheet, configs'),
           row.links = run.mine.links, run.mine.configs \subseteq row.configs,
           pc \in {"drama", "config"} => Frozen(row) /\ KindOf[run.task] # "MINIPROGRAM",
           pc # "report" => row.status # "LINK_READY"
    PROVE  RowsOK' /\ RunOK'
<1>1. run'.mine = row /\ run'.pc = pc /\ run'.task = run.task
  BY GoFields DEF IInv, TypeOK
<1>2. RowsOK'
  BY RowMonotone DEF IInv, RowsOK, TypeOK
<1>3. CopyOK'
  BY <1>1 DEF IInv, RunOK, CopyOK
<1>. QED  BY <1>2, <1>3 DEF RunOK

\* Every step keeps the invariant.
LEMMA InvStep == IInv /\ [Next]_vars => RowsOK' /\ RunOK'
<1>. SUFFICES ASSUME IInv, [Next]_vars PROVE RowsOK' /\ RunOK'  OBVIOUS
<1>. USE LinkReadinessAssumption
<1>t. TypeOK /\ RowsOK /\ RunOK  BY DEF IInv
<1>m. run.mine \in TaskRow /\ run.found \in Links /\ run \in Run
  BY <1>t, RunFields DEF TypeOK
<1>s. \A s \in {"READY", "WAITING_TIME", "RUNNING", "DRY_RUN", "MANUAL_REVIEW",
                 "LINK_EXTRACTED", "LINK_READY"} : s \in Status
  BY DEF Status
<1>p. \A pc \in {"links", "write", "bad", "drama", "config", "report"} : pc \in PC
  BY DEF PC
<1>c. run.pc # "none" => CopyOK /\ run.task \in Tasks /\ RowOK(run.task, run.mine, sheet, configs)
  BY <1>t DEF RunOK, CopyOK
<1>k. UNCHANGED configs => Grows  BY DEF Grows
<1>n. run = NoRun => run.pc = "none"  BY DEF NoRun
<1>r. ASSUME NEW s \in Status, s # "LINK_READY", Report(s), run.pc # "none",
             UNCHANGED <<task, sheet>>, Grows
      PROVE  RowsOK' /\ RunOK'
  <2>. DEFINE row == [run.mine EXCEPT !.status = s]
  <2>1. row \in TaskRow /\ row.links = run.mine.links /\ row.configs = run.mine.configs
    BY <1>m, RowUpdates, ZenonT(60) DEF TaskRow
  <2>2. RowOK(run.task, run.mine, sheet, configs')
    BY <1>r, <1>c, <1>m, <1>t, RowMonotone
  <2>3. RowOK(run.task, row, sheet, configs')
    BY <1>r, <1>c, <1>m, <2>2, StatusKeepsRow
  <2>4. Go("report", row)  BY <1>r DEF Report
  <2>. HIDE DEF row
  <2>. QED  BY <1>r, <1>p, <2>1, <2>3, <2>4, CopyMovesOn
<1>w. ASSUME NEW t \in Tasks, NEW row, task' = [task EXCEPT ![t] = row],
             RowOK(t, row, sheet', configs), run = NoRun, UNCHANGED <<configs, run>>,
             \A u \in Tasks \ {t} : sheet'[u] = sheet[u]
      PROVE  RowsOK' /\ RunOK'
  <2>1. \A u \in Tasks \ {t} : RowOK(u, task[u], sheet', configs')
    BY <1>w, <1>t, <1>k, RowMonotone DEF RowsOK, TypeOK
  <2>2. RowsOK'
    BY <1>w, <1>t, <2>1 DEF RowsOK, TypeOK
  <2>. QED  BY <1>n, <1>w, <2>2 DEF RunOK
<1>1. ASSUME NEW t \in Tasks, NEW target \in Target, Enqueue(t, target) PROVE RowsOK' /\ RunOK'
  <2>. DEFINE base == IF task[t].status = "DRY_RUN" THEN Unprepared(task[t]) ELSE task[t]
              row == [base EXCEPT !.target = target]
  <2>1. base \in TaskRow /\ RowOK(t, base, sheet, configs)
    <3>1. Unprepared(task[t]) \in TaskRow
      BY <1>t, RowUpdates, Rows DEF TypeOK, Unprepared
    <3>2. RowOK(t, Unprepared(task[t]), sheet, configs) \/ task[t].status # "DRY_RUN"
      BY <1>t DEF TypeOK, RowOK, Unprepared, TaskRow, TypesOf, NoLinks, Frozen
    <3>. QED  BY <1>t, <3>1, <3>2 DEF TypeOK, RowsOK
  <2>. HIDE DEF base
  <2>2. row \in TaskRow /\ RowOK(t, row, sheet, configs)
    <3>1. row \in TaskRow  BY <2>1, RowUpdates
    <3>2. /\ row.links = base.links /\ row.linkStatus = base.linkStatus
          /\ row.status = base.status /\ row.configs = base.configs
      BY <2>1 DEF TaskRow
    <3>. QED  BY <2>1, <3>1, <3>2, SameRow
  <2>3. row = Enqueued(task[t], target)  BY DEF base, Enqueued
  <2>. HIDE DEF row
  <2>4. PICK new : /\ task' = [task EXCEPT ![t] = new]
                   /\ new = row \/ \E s \in {"READY", "WAITING_TIME"} : new = [row EXCEPT !.status = s]
    BY <1>1, <2>3 DEF Enqueue
  <2>5. RowOK(t, new, sheet, configs)
    BY <1>s, <2>2, <2>4, StatusKeepsRow
  <2>. QED  BY <1>1, <1>w, <2>4, <2>5 DEF Enqueue, OperatorStep, Step
<1>2. ASSUME NEW t \in Tasks, Retry(t) \/ Release(t) PROVE RowsOK' /\ RunOK'
  <2>1. RowOK(t, [task[t] EXCEPT !.status = "READY"], sheet, configs)
    BY <1>t, <1>s, StatusKeepsRow DEF TypeOK, RowsOK
  <2>. QED  BY <1>2, <1>w, <2>1 DEF Retry, Release, OperatorStep, Step
<1>3. ASSUME NEW t \in Tasks, ConfirmDramaMatch(t) PROVE RowsOK' /\ RunOK'
  <2>. DEFINE ready == [task[t] EXCEPT !.status = "READY"]
  <2>1. ready \in TaskRow /\ RowOK(t, ready, sheet, configs)
    BY <1>t, <1>s, StatusKeepsRow, RowUpdates DEF TypeOK, RowsOK
  <2>. HIDE DEF ready
  <2>2. RowOK(t, [ready EXCEPT !.confirmed = TRUE], sheet, configs)
    BY <2>1 DEF RowOK, TaskRow, Frozen, MissingConfigs, TypesOf
  <2>3. task' = [task EXCEPT ![t] = [ready EXCEPT !.confirmed = TRUE]]
    BY <1>3, <1>t DEF ConfirmDramaMatch, TypeOK, ready
  <2>. QED  BY <1>3, <1>w, <2>2, <2>3 DEF ConfirmDramaMatch, OperatorStep, Step
<1>4. ASSUME NEW t \in Tasks, Scan(t) PROVE RowsOK' /\ RunOK'
  <2>1. PICK ls \in RowLinks(t), due \in BOOLEAN, marked \in BOOLEAN :
             /\ sheet' = [sheet EXCEPT ![t] = ls]
             /\ task' = [task EXCEPT ![t] = Scanned(@, ls, due, marked)]
    BY <1>4 DEF Scan
  <2>. DEFINE row == task[t]
              timed == [row EXCEPT !.due = due]
  <2>2. row \in TaskRow /\ RowOK(t, row, sheet, configs) /\ ls \in Links
    BY <1>t DEF TypeOK, RowsOK, RowLinks
  <2>3. /\ timed \in TaskRow /\ RowOK(t, timed, sheet, configs)
        /\ timed.links = row.links /\ timed.linkStatus = row.linkStatus
        /\ timed.status = row.status /\ timed.configs = row.configs
    <3>1. timed \in TaskRow  BY <2>2, RowUpdates
    <3>2. /\ timed.links = row.links /\ timed.linkStatus = row.linkStatus
          /\ timed.status = row.status /\ timed.configs = row.configs
      BY <2>2 DEF TaskRow
    <3>. QED  BY <2>2, <3>1, <3>2, SameRow
  <2>5. Frozen(row) => ls = sheet[t]
    BY <2>1 DEF RowLinks
  <2>6. RowOK(t, timed, sheet', configs)
    BY <1>t, <2>1, <2>3, <2>5 DEF RowOK, TypeOK, Frozen
  <2>7. ASSUME ls # NoLinks, KindOf[t] # "MINIPROGRAM"
        PROVE  RowOK(t, [timed EXCEPT !.links = ls, !.linkStatus = "VALIDATED"], sheet', configs)
    <3>. DEFINE new == [timed EXCEPT !.links = ls, !.linkStatus = "VALIDATED"]
    <3>1. /\ new.links = ls /\ new.linkStatus = "VALIDATED"
          /\ new.status = timed.status /\ new.configs = timed.configs
      BY <2>3 DEF TaskRow
    <3>. HIDE DEF new
    <3>2. sheet'[t] = ls  BY <1>t, <2>1 DEF TypeOK
    <3>3. CASE Frozen(row)
      <4>1. ls = timed.links
        BY <2>2, <2>3, <2>5, <2>7, <3>3 DEF RowOK
      <4>. QED  BY <2>6, <2>7, <3>1, <3>2, <3>3, <2>3, <4>1 DEF RowOK, Frozen, MissingConfigs, TypesOf
    <3>4. CASE ~Frozen(row)
      <4>1. row.links = NoLinks  BY <2>2, <3>4 DEF RowOK, Frozen
      <4>2. row.configs = {}  BY <2>2, <4>1 DEF RowOK, TypesOf, NoLinks
      <4>3. row.status # "LINK_READY"  BY <2>2, <2>7, <3>4 DEF RowOK
      <4>. QED  BY <2>7, <2>3, <3>1, <3>2, <4>2, <4>3 DEF RowOK
    <3>. QED  BY <3>3, <3>4 DEF new
  <2>8. KindOf[t] # "MINIPROGRAM" /\ (marked /\ ls # NoLinks =>
          Scanned(row, ls, due, marked) = [timed EXCEPT !.links = ls, !.linkStatus = "VALIDATED"])
    BY <1>4, <2>2 DEF Scan, Scanned, TaskRow
  <2>9. ~(marked /\ ls # NoLinks) => Scanned(row, ls, due, marked) = timed
    BY DEF Scanned
  <2>10. RowOK(t, Scanned(row, ls, due, marked), sheet', configs)
    BY <2>6, <2>7, <2>8, <2>9
  <2>. QED  BY <1>4, <1>t, <1>w, <2>1, <2>10 DEF Scan, Step, TypeOK
<1>5. ASSUME NEW t \in Tasks, Claim(t) PROVE RowsOK' /\ RunOK'
  <2>. DEFINE mine == [task[t] EXCEPT !.status = "RUNNING"]
  <2>1. mine \in TaskRow /\ RowOK(t, mine, sheet, configs)
    BY <1>t, <1>s, RowUpdates, StatusKeepsRow DEF TypeOK, RowsOK
  <2>2. mine.links = task[t].links /\ mine.configs = task[t].configs /\ mine.status = "RUNNING"
    BY <1>t DEF TypeOK, TaskRow
  <2>3. run'.task = t /\ run'.mine = mine /\ run'.pc = "links"
    BY <1>5 DEF Claim, NoRun
  <2>. HIDE DEF mine
  <2>4. RowsOK'  BY <1>5, <1>t DEF Claim, RowsOK
  <2>5. CopyOK'  BY <1>5, <2>1, <2>2, <2>3 DEF Claim, CopyOK
  <2>. QED  BY <2>4, <2>5 DEF RunOK
<1>6. ASSUME Rehearse \/ NotYet PROVE RowsOK' /\ RunOK'
  BY <1>6, <1>r, <1>s, <1>k DEF Rehearse, NotYet, At
<1>7. ASSUME ReuseLinks PROVE RowsOK' /\ RunOK'
  <2>. DEFINE next == AfterLinks(run.mine)
              row == [run.mine EXCEPT !.status = next.status]
  <2>1. run.pc = "links" /\ Frozen(run.mine) /\ Go(next.pc, row) /\ UNCHANGED <<task, sheet, configs>>
    BY <1>7 DEF ReuseLinks, At
  <2>2. run.mine.status # "LINK_READY" /\ run.mine.status \in Status
    BY <1>c, <1>m, <2>1, RowFields DEF CopyOK
  <2>3. /\ next.status \in Status /\ next.pc \in PC \ {"bad", "write"}
        /\ next.pc # "report" => next.status # "LINK_READY" /\ next.pc = "drama" /\ KindOf[run.task] # "MINIPROGRAM"
        /\ next.status = "LINK_READY" => KindOf[run.task] = "MINIPROGRAM"
    BY <1>s, <1>p, <2>2 DEF AfterLinks
  <2>. HIDE DEF next
  <2>4. /\ row \in TaskRow
        /\ row.links = run.mine.links /\ row.configs = run.mine.configs
        /\ row.linkStatus = run.mine.linkStatus /\ row.status = next.status
    BY <1>m, <2>3, RowUpdates, ZenonT(60) DEF TaskRow
  <2>. HIDE DEF row
  <2>5. RowOK(run.task, row, sheet, configs) /\ Frozen(row)
    BY <1>c, <2>1, <2>3, <2>4 DEF RowOK, Frozen
  <2>. QED  BY <1>k, <2>1, <2>3, <2>4, <2>5, CopyMovesOn
<1>8. ASSUME Acquire PROVE RowsOK' /\ RunOK'
  <2>1. PICK ls \in Acquirable(run.task) :
             run' = [run EXCEPT !.found = ls, !.pc = IF BadLinks(ls) THEN "bad" ELSE "write"]
    BY <1>8 DEF Acquire
  <2>2. run'.task = run.task /\ run'.mine = run.mine /\ run'.found = ls /\ run'.pc \in {"bad", "write"}
    BY <1>m, <2>1 DEF Run
  <2>3. /\ CopyOK /\ run.pc = "links" /\ run.mine.links = NoLinks
        /\ run.mine.status # "LINK_READY"
    BY <1>8, <1>c DEF Acquire, At, CopyOK, RowOK, Frozen
  <2>4. /\ ls # NoLinks /\ KindOf[run.task] \in {"TOMATO", "JUBIAN", "MINIPROGRAM"}
        /\ KindOf[run.task] = "JUBIAN" => ls = sheet[run.task]
    BY <1>c, <2>3 DEF Acquirable, Kind
  <2>5. RowsOK'  BY <1>8, <1>t DEF Acquire, RowsOK
  <2>6. CopyOK'  BY <1>8, <2>2, <2>3, <2>4 DEF Acquire, CopyOK
  <2>. QED  BY <2>5, <2>6 DEF RunOK
<1>9. ASSUME AcquireFails PROVE RowsOK' /\ RunOK'
  <2>. DEFINE row == [run.mine EXCEPT !.status = "MANUAL_REVIEW"]
  <2>1. run'.task = run.task /\ run'.mine = row /\ run'.pc = "report"
    BY <1>9, <1>m DEF AcquireFails, Run
  <2>2. RowOK(run.task, row, sheet, configs)
    BY <1>9, <1>c, <1>m, <1>s, StatusKeepsRow DEF AcquireFails, At
  <2>3. row.links = run.mine.links /\ row.configs = run.mine.configs
    BY <1>m DEF TaskRow
  <2>. HIDE DEF row
  <2>4. CopyOK /\ run.pc = "links"  BY <1>9, <1>c DEF AcquireFails, At
  <2>5. RowsOK'  BY <1>9, <1>t DEF AcquireFails, RowsOK
  <2>6. CopyOK'  BY <1>9, <2>1, <2>2, <2>3, <2>4 DEF AcquireFails, CopyOK
  <2>. QED  BY <2>5, <2>6 DEF RunOK
<1>x. ASSUME run.pc \in {"bad", "write"}, UNCHANGED <<task, configs>>,
             \A u \in Tasks \ {run.task} : sheet'[u] = sheet[u]
      PROVE  /\ RowsOK' /\ CopyOK /\ run.mine.links = NoLinks /\ run.mine.configs = {}
             /\ task[run.task].links = NoLinks /\ task[run.task].configs = {}
  <2>1. CopyOK /\ run.mine.links = NoLinks /\ run.task \in Tasks
    BY <1>x, <1>c DEF CopyOK
  <2>2. task[run.task].links = NoLinks
    BY <2>1 DEF CopyOK
  <2>3. run.mine.configs = {} /\ task[run.task].configs = {}
    BY <2>1, <2>2, <1>c, <1>x, <1>t DEF RowsOK, RowOK, TypesOf, NoLinks
  <2>4. ~Frozen(task[run.task])  BY <2>2 DEF Frozen
  <2>5. RowsOK'
    BY <1>x, <1>t, <1>k, <2>1, <2>4, RowMonotone DEF RowsOK, TypeOK
  <2>. QED  BY <2>1, <2>2, <2>3, <2>5
<1>y. \A u \in Tasks \ {run.task} : SheetWritten[u] = sheet[u]
  BY <1>t DEF SheetWritten, TypeOK
<1>10. ASSUME NEW s \in {"MANUAL_REVIEW"}, Report(s), run.pc \in {"bad", "write"},
              UNCHANGED <<task, configs>>, \A u \in Tasks \ {run.task} : sheet'[u] = sheet[u]
       PROVE  RowsOK' /\ RunOK'
  <2>. DEFINE row == [run.mine EXCEPT !.status = "MANUAL_REVIEW"]
  <2>1. run'.task = run.task /\ run'.mine = row /\ run'.pc = "report"
    BY <1>10, <1>m, GoFields DEF Report
  <2>2. row.links = run.mine.links /\ row.configs = run.mine.configs /\ row.status = "MANUAL_REVIEW"
    BY <1>m DEF TaskRow
  <2>. HIDE DEF row
  <2>3. RowsOK' /\ CopyOK /\ row.links = NoLinks /\ row.configs = {}
        /\ task[run.task].links = NoLinks /\ task[run.task].configs = {}
    BY <1>10, <1>x, <2>2
  <2>4. RowOK(run.task, row, sheet', configs)
    BY <2>2, <2>3 DEF RowOK, Frozen
  <2>5. CopyOK'  BY <1>10, <2>1, <2>3, <2>4 DEF CopyOK
  <2>. QED  BY <2>3, <2>5 DEF RunOK
<1>11. ASSUME RejectLinks PROVE RowsOK' /\ RunOK'
  BY <1>11, <1>10, <1>y DEF RejectLinks, At
<1>12. ASSUME WriteFails PROVE RowsOK' /\ RunOK'
  <2>1. \A u \in Tasks \ {run.task} : sheet'[u] = sheet[u]
    BY <1>12, <1>t DEF WriteFails, TypeOK
  <2>. QED  BY <1>12, <1>10, <2>1 DEF WriteFails, At
<1>13. ASSUME FreezeLinks PROVE RowsOK' /\ RunOK'
  <2>. DEFINE mine == [run.mine EXCEPT !.links = run.found, !.linkStatus = "VALIDATED",
                                       !.status = "READY"]
              next == AfterLinks(mine)
              row == [mine EXCEPT !.status = next.status]
  <2>1. /\ run.pc = "write" /\ sheet' = SheetWritten /\ UNCHANGED <<task, configs>>
        /\ Go(next.pc, row)
    BY <1>13 DEF FreezeLinks, At
  <2>2. /\ mine \in TaskRow /\ mine.status = "READY" /\ mine.links = run.found
        /\ mine.linkStatus = "VALIDATED" /\ mine.configs = run.mine.configs
    <3>1. mine \in TaskRow  BY <1>m, <1>s, RowUpdates
    <3>. QED  BY <1>m, <3>1 DEF TaskRow
  <2>. HIDE DEF mine
  <2>3. /\ next.pc \in {"report", "drama"}
        /\ next.pc = "drama" => next.status # "LINK_READY" /\ KindOf[run.task] # "MINIPROGRAM"
        /\ next.status = "LINK_READY" => KindOf[run.task] = "MINIPROGRAM"
    BY <2>2 DEF AfterLinks
  <2>. HIDE DEF next
  <2>4. /\ row.status = next.status /\ row.links = run.found
        /\ row.linkStatus = "VALIDATED" /\ row.configs = run.mine.configs
    BY <2>2 DEF TaskRow
  <2>5. run'.task = run.task /\ run'.mine = row /\ run'.pc = next.pc
    BY <1>m, <2>1, GoFields
  <2>. HIDE DEF row
  <2>6. RowsOK' /\ CopyOK /\ run.mine.configs = {}
        /\ task[run.task].links = NoLinks /\ task[run.task].configs = {}
    BY <1>x, <1>y, <2>1
  <2>7. KindOf[run.task] # "MINIPROGRAM" => sheet'[run.task] = run.found
    BY <1>t, <2>1, <2>6 DEF CopyOK, SheetWritten, WritesSheet, TypeOK
  <2>a. run.found # NoLinks /\ row.configs = {}
    BY <2>1, <2>4, <2>6 DEF CopyOK
  <2>b. Frozen(row)  BY <2>4, <2>a DEF Frozen
  <2>c. row.status = "LINK_READY" => KindOf[run.task] = "MINIPROGRAM"
    BY <2>3, <2>4
  <2>8. RowOK(run.task, row, sheet', configs) /\ Frozen(row)
    BY <2>4, <2>7, <2>a, <2>b, <2>c DEF RowOK
  <2>9. CopyOK'
    BY <2>1, <2>3, <2>4, <2>5, <2>6, <2>8 DEF CopyOK
  <2>. QED  BY <2>6, <2>9 DEF RunOK
<1>d. ASSUME run.pc \in {"drama", "config"}
      PROVE  /\ Frozen(run.mine) /\ KindOf[run.task] # "MINIPROGRAM" /\ run.mine.status # "LINK_READY"
             /\ RowOK(run.task, run.mine, sheet, configs) /\ run.task \in Tasks
  BY <1>d, <1>c DEF CopyOK
<1>e. ASSUME NEW id \in AssetIds \cup {NoId}, run.pc = "drama", UNCHANGED <<task, sheet, configs>>,
             Go("config", [run.mine EXCEPT !.drama = id])
      PROVE  RowsOK' /\ RunOK'
  <2>. DEFINE row == [run.mine EXCEPT !.drama = id]
  <2>1. row \in TaskRow  BY <1>m, RowUpdates
  <2>2. /\ row.links = run.mine.links /\ row.configs = run.mine.configs
        /\ row.linkStatus = run.mine.linkStatus /\ row.status = run.mine.status
    BY <1>m DEF TaskRow
  <2>3. Go("config", row)  BY <1>e
  <2>. HIDE DEF row
  <2>4. RowOK(run.task, row, sheet, configs) /\ Frozen(row)
    BY <1>d, <1>e, <2>2, SameRow DEF Frozen
  <2>. QED  BY <1>d, <1>e, <1>k, <1>p, <2>1, <2>2, <2>3, <2>4, CopyMovesOn
<1>14. ASSUME SkipDrama PROVE RowsOK' /\ RunOK'
  <2>1. run.pc = "drama" /\ Go("config", run.mine) /\ UNCHANGED <<task, sheet, configs>>
    BY <1>14 DEF SkipDrama, At
  <2>. QED  BY <1>d, <1>k, <1>m, <1>p, <2>1, CopyMovesOn
<1>15. ASSUME FindAsset \/ CreateAsset PROVE RowsOK' /\ RunOK'
  <2>1. \E id \in AssetIds \cup {NoId} : Go("config", [run.mine EXCEPT !.drama = id])
    BY <1>15, <1>t DEF FindAsset, CreateAsset, TypeOK
  <2>. QED  BY <1>15, <1>e, <2>1 DEF FindAsset, CreateAsset, At
<1>16. ASSUME CreateAssetFails PROVE RowsOK' /\ RunOK'
  BY <1>16, <1>r, <1>s, <1>k DEF CreateAssetFails, At
<1>g. ASSUME NEW y \in Types, SaveConfig(y), run.pc = "config", y \in MissingConfigs(run.mine)
      PROVE  Grows /\ configs'[KindOf[run.task]][y] # {}
  <2>1. KindOf[run.task] \in Kind  BY <1>g, <1>d
  <2>. QED  BY <1>g, <1>t, <2>1 DEF SaveConfig, Grows, TypeOK
<1>h. ASSUME NEW y \in Types, run.pc = "config", y \in MissingConfigs(run.mine),
             Go("config", [run.mine EXCEPT !.configs = @ \cup {y}]), Grows,
             configs'[KindOf[run.task]][y] # {}, UNCHANGED <<task, sheet>>
      PROVE  RowsOK' /\ RunOK'
  <2>. DEFINE row == [run.mine EXCEPT !.configs = @ \cup {y}]
  <2>1. row \in TaskRow  BY <1>m, RowUpdates, RowFields
  <2>2. /\ row.links = run.mine.links /\ row.configs = run.mine.configs \cup {y}
        /\ row.linkStatus = run.mine.linkStatus /\ row.status = run.mine.status
    BY <1>m DEF TaskRow
  <2>3. Go("config", row)  BY <1>h
  <2>. HIDE DEF row
  <2>4. RowOK(run.task, run.mine, sheet, configs')
    BY <1>d, <1>h, <1>m, <1>t, RowMonotone
  <2>5. RowOK(run.task, row, sheet, configs') /\ Frozen(row)
    BY <1>d, <1>h, <2>2, <2>4 DEF RowOK, Frozen, MissingConfigs
  <2>. QED  BY <1>d, <1>h, <1>p, <2>1, <2>2, <2>3, <2>5, CopyMovesOn
<1>17. ASSUME NEW y \in Types, FindConfig(y) PROVE RowsOK' /\ RunOK'
  BY <1>17, <1>h, <1>k DEF FindConfig, Named, At
<1>18. ASSUME NEW y \in Types, CreateConfig(y) PROVE RowsOK' /\ RunOK'
  BY <1>18, <1>g, <1>h DEF CreateConfig, At
<1>19. ASSUME NEW y \in Types, CreateConfigFails(y) PROVE RowsOK' /\ RunOK'
  <2>1. Grows  BY <1>19, <1>g, <1>k DEF CreateConfigFails, At
  <2>. QED  BY <1>19, <1>r, <1>s, <2>1 DEF CreateConfigFails, At
<1>20. ASSUME ConfigsReady PROVE RowsOK' /\ RunOK'
  <2>. DEFINE row == [run.mine EXCEPT !.status = "LINK_READY"]
  <2>1. row \in TaskRow  BY <1>m, <1>s, RowUpdates
  <2>2. /\ row.links = run.mine.links /\ row.configs = run.mine.configs
        /\ row.linkStatus = run.mine.linkStatus
    BY <1>m DEF TaskRow
  <2>3. Go("report", row) /\ run.pc = "config" /\ MissingConfigs(run.mine) = {}
        /\ UNCHANGED <<task, sheet, configs>>
    BY <1>20 DEF ConfigsReady, Report, At
  <2>. HIDE DEF row
  <2>4. RowOK(run.task, row, sheet, configs)
    BY <1>d, <2>2, <2>3 DEF RowOK, Frozen, MissingConfigs
  <2>. QED  BY <1>k, <1>p, <2>1, <2>2, <2>3, <2>4, CopyMovesOn
<1>21. ASSUME Commit PROVE RowsOK' /\ RunOK'
  <2>1. RowOK(run.task, run.mine, sheet, configs) /\ run.task \in Tasks
    BY <1>21, <1>c DEF Commit, At
  <2>2. RowsOK'  BY <1>21, <1>t, <2>1 DEF Commit, RowsOK, TypeOK
  <2>. QED  BY <1>21, <2>2 DEF Commit, RunOK, NoRun
<1>22. ASSUME RollBack PROVE RowsOK' /\ RunOK'
  BY <1>22, <1>t DEF RollBack, RowsOK, RunOK, NoRun
<1>23. CASE UNCHANGED vars
  BY <1>23, <1>t DEF vars, RowsOK, RunOK, CopyOK
<1>. QED
  BY <1>1, <1>2, <1>3, <1>4, <1>5, <1>6, <1>7, <1>8, <1>9, <1>11, <1>12, <1>13, <1>14, <1>15,
     <1>16, <1>17, <1>18, <1>19, <1>20, <1>21, <1>22, <1>23
     DEF Next, OperatorNext, LinkNext, DeliveryNext

LEMMA InitInv == Init => IInv
<1>. SUFFICES ASSUME Init PROVE IInv  OBVIOUS
<1>1. TypeOK
  BY Rows, LinkReadinessAssumption DEF Init, TypeOK, ItemState
<1>2. \A t \in Tasks : RowOK(t, task[t], sheet, configs)
  BY DEF Init, RowOK, NewTask, Frozen
<1>. QED  BY <1>1, <1>2 DEF IInv, Init, NoRun, RowsOK, RunOK

\* The inductive invariant holds for every number of tasks, types and URLs.
THEOREM Invariance == Spec => []IInv
<1>1. IInv /\ [Next]_vars => IInv'
  BY TypeStep, InvStep DEF IInv
<1>. QED  BY InitInv, <1>1, PTL DEF Spec

\* Every variable keeps its type.
THEOREM TypeCorrect == Spec => []TypeOK
<1>1. IInv => TypeOK  BY DEF IInv
<1>. QED  BY Invariance, <1>1, PTL

\* A LINK_READY task has its links frozen and all their configs on record
\* (link_readiness_service.py:40-86).
THEOREM ReadyTasksAreBuilt == Spec => []ReadyIsBuilt
<1>1. IInv => ReadyIsBuilt  BY DEF IInv, RowsOK, RowOK, ReadyIsBuilt
<1>. QED  BY Invariance, <1>1, PTL

\* A config on record exists (promotion_config_page.py:172-246).
THEOREM ConfigsExist == Spec => []RecordedConfigsExist
<1>1. IInv => RecordedConfigsExist
  BY DEF IInv, RowsOK, RowOK, RecordedConfigsExist, Named
<1>. QED  BY Invariance, <1>1, PTL

\* The sheet shows the frozen links (task_preparation_service.py:188-193).
THEOREM SheetIsRight == Spec => []SheetShowsFrozenLinks
<1>1. IInv => SheetShowsFrozenLinks
  BY DEF IInv, RowsOK, RowOK, SheetShowsFrozenLinks
<1>. QED  BY Invariance, <1>1, PTL

-----------------------------------------------------------------------------
(* The refinement of LinkStages.                                            *)

\* A step that only moves the execution leaves the stages alone, and Commit and
\* a scan advance one task.
LEMMA Advances ==
    ASSUME IInv, NEW t \in Tasks, NEW row \in TaskRow, task' = [task EXCEPT ![t] = row],
           RowOK(t, row, sheet', configs'),
           task[t].links # NoLinks => row.links = task[t].links,
           task[t].configs \subseteq row.configs
    PROVE  Stages!Advance(t)
<1>. DEFINE F == [u \in Tasks |-> task[u].links]
            B == [u \in Tasks |-> task[u].configs]
            R == {u \in Tasks : task[u].status = "LINK_READY"}
<1>t. task \in [Tasks -> TaskRow]  BY DEF IInv, TypeOK
<1>1. F' = [F EXCEPT ![t] = row.links] /\ B' = [B EXCEPT ![t] = row.configs]
  BY <1>t
<1>2. R' \in {R \ {t}, R \cup {t}}
  <2>1. R' = IF row.status = "LINK_READY" THEN R \cup {t} ELSE R \ {t}
    BY <1>t
  <2>. QED  BY <2>1
<1>3. row.links \in [Types -> Urls \cup {NoUrl}]  BY RowFields DEF Links
<1>4. row.configs \in SUBSET Stages!Held(row.links)
  BY DEF RowOK, TypesOf, Stages!Held
<1>5. F[t] = task[t].links /\ B[t] = task[t].configs /\ Stages!Nothing = NoLinks
  BY DEF Stages!Nothing, NoLinks
<1>. QED  BY <1>1, <1>2, <1>3, <1>4, <1>5 DEF Stages!Advance

\* A task that was rehearsed starts again, any other one keeps what it has.
LEMMA EnqueueStages ==
    ASSUME IInv, IInv', NEW t \in Tasks, NEW target \in Target, Enqueue(t, target)
    PROVE  Stages!Restart(t) \/ Stages!Advance(t)
<1>t. task \in [Tasks -> TaskRow]  BY DEF IInv, TypeOK
<1>1. PICK row : task' = [task EXCEPT ![t] = row]
  BY DEF Enqueue
<1>2. row \in TaskRow /\ RowOK(t, row, sheet', configs')
  BY <1>t, <1>1 DEF IInv, TypeOK, RowsOK
<1>3. CASE task[t].status # "DRY_RUN"
  <2>1. row.links = task[t].links /\ row.configs = task[t].configs
    BY <1>t, <1>1, <1>3, ZenonT(60) DEF Enqueue, Enqueued, TaskRow
  <2>. QED  BY <1>1, <1>2, <2>1, Advances
<1>4. CASE task[t].status = "DRY_RUN"
  <2>. DEFINE base == [Unprepared(task[t]) EXCEPT !.target = target]
  <2>1. base.links = NoLinks /\ base.configs = {} /\ base.status = "DRY_RUN" /\ base \in TaskRow
    BY <1>t, <1>4, Rows DEF Unprepared, TaskRow
  <2>2. base = Enqueued(task[t], target)  BY <1>4 DEF Enqueued
  <2>. HIDE DEF base
  <2>3. row.links = NoLinks /\ row.configs = {} /\ row.status # "LINK_READY"
    BY <1>t, <1>1, <2>1, <2>2 DEF Enqueue, TaskRow
  <2>4. /\ [u \in Tasks |-> task[u].links]' = [[u \in Tasks |-> task[u].links] EXCEPT ![t] = NoLinks]
        /\ [u \in Tasks |-> task[u].configs]' = [[u \in Tasks |-> task[u].configs] EXCEPT ![t] = {}]
        /\ {u \in Tasks : task[u].status = "LINK_READY"}' = {u \in Tasks : task[u].status = "LINK_READY"} \ {t}
    BY <1>t, <1>1, <2>3
  <2>5. Stages!Nothing = NoLinks  BY DEF Stages!Nothing, NoLinks
  <2>. QED  BY <2>4, <2>5 DEF Stages!Restart
<1>. QED  BY <1>3, <1>4

LEMMA StageStep == IInv /\ IInv' /\ [Next]_vars => [Stages!Next]_(Stages!stages)
<1>. SUFFICES ASSUME IInv, IInv', [Next]_vars PROVE [Stages!Next]_(Stages!stages)  OBVIOUS
<1>t. task \in [Tasks -> TaskRow]  BY DEF IInv, TypeOK
<1>u. UNCHANGED task => [Stages!Next]_(Stages!stages)
  BY DEF Stages!stages
<1>a. ASSUME NEW t \in Tasks, NEW row \in TaskRow, task' = [task EXCEPT ![t] = row],
             task[t].links # NoLinks => row.links = task[t].links,
             task[t].configs \subseteq row.configs
      PROVE  Stages!Next
  <2>1. RowOK(t, row, sheet', configs')
    BY <1>a, <1>t DEF IInv, RowsOK
  <2>. QED  BY <1>a, <2>1, Advances DEF Stages!Next
<1>1. ASSUME NEW t \in Tasks, NEW target \in Target, Enqueue(t, target) PROVE Stages!Next
  BY <1>1, EnqueueStages DEF Stages!Next
<1>2. ASSUME NEW t \in Tasks, Retry(t) \/ Release(t) PROVE Stages!Next
  <2>. DEFINE row == [task[t] EXCEPT !.status = "READY"]
  <2>1. row \in TaskRow  BY <1>t, RowUpdates DEF Status
  <2>2. row.links = task[t].links /\ row.configs = task[t].configs
    BY <1>t DEF TaskRow
  <2>. QED  BY <1>2, <1>a, <2>1, <2>2 DEF Retry, Release
<1>3. ASSUME NEW t \in Tasks, ConfirmDramaMatch(t) PROVE Stages!Next
  <2>1. PICK row : task' = [task EXCEPT ![t] = row]
                   /\ row = [[task[t] EXCEPT !.status = "READY"] EXCEPT !.confirmed = TRUE]
    BY <1>3, <1>t DEF ConfirmDramaMatch
  <2>2. row \in TaskRow  BY <1>t, <2>1, RowUpdates DEF Status
  <2>3. row.links = task[t].links /\ row.configs = task[t].configs
    BY <1>t, <2>1 DEF TaskRow
  <2>. QED  BY <1>a, <2>1, <2>2, <2>3
<1>4. ASSUME NEW t \in Tasks, Scan(t) PROVE Stages!Next
  <2>1. PICK ls \in RowLinks(t), due \in BOOLEAN, marked \in BOOLEAN :
             task' = [task EXCEPT ![t] = Scanned(@, ls, due, marked)]
    BY <1>4 DEF Scan
  <2>. DEFINE row == Scanned(task[t], ls, due, marked)
  <2>2. ls \in Links  BY DEF RowLinks, IInv, TypeOK
  <2>3. row \in TaskRow  BY <1>t, <2>2, RowUpdates DEF Scanned
  <2>4. row.configs = task[t].configs /\ row.links \in {ls, task[t].links}
    BY <1>t DEF Scanned, TaskRow
  <2>5. task[t].links # NoLinks => ls = task[t].links
    <3>1. RowOK(t, task[t], sheet, configs)  BY DEF IInv, RowsOK
    <3>. QED  BY <1>4, <3>1 DEF Scan, RowLinks, RowOK, Frozen
  <2>. HIDE DEF row
  <2>6. task' = [task EXCEPT ![t] = row]  BY <2>1 DEF row
  <2>. QED  BY <1>a, <2>3, <2>4, <2>5, <2>6
<1>5. ASSUME Commit PROVE Stages!Next
  <2>1. CopyOK /\ run.mine \in TaskRow
    BY <1>5, RunFields DEF Commit, At, IInv, RunOK, TypeOK
  <2>. QED  BY <1>5, <1>a, <2>1 DEF Commit, CopyOK
<1>6. CASE UNCHANGED vars  BY <1>6, <1>u DEF vars
<1>7. CASE LinkNext
  BY <1>7, <1>u DEF LinkNext, Claim, Rehearse, NotYet, ReuseLinks, Acquire, AcquireFails,
     RejectLinks, FreezeLinks, WriteFails
<1>8. CASE DeliveryNext \/ RollBack
  BY <1>8, <1>u DEF DeliveryNext, SkipDrama, FindAsset, CreateAsset, CreateAssetFails, FindConfig,
     CreateConfig, CreateConfigFails, ConfigsReady, RollBack
<1>. QED
  BY <1>1, <1>2, <1>3, <1>4, <1>5, <1>6, <1>7, <1>8 DEF Next, OperatorNext

\* The pipeline implements LinkStages: links are frozen once, and what was built
\* for them is never forgotten.
THEOREM Refinement == Spec => KeepsStages
<1>1. Init => Stages!Init
  BY DEF Init, Stages!Init, NewTask, NoLinks, Stages!Nothing
<1>2. IInv /\ IInv' /\ [Next]_vars => [Stages!Next]_(Stages!stages)
  BY StageStep
<1>. QED
  BY <1>1, <1>2, Invariance, PTL DEF Spec, KeepsStages, Stages!Spec

=============================================================================
