----------------------------- MODULE WorkerProofs -----------------------------
(***************************************************************************)
(* Theorems about the worker's two sides, each for every value of the      *)
(* constants: the process that executes (WorkerProcess), and the           *)
(* extraction of links that it executes (TomatoExtraction, whose names     *)
(* carry TE where the two modules would share one).                        *)
(*                                                                         *)
(* The process: one that starts or executes holds the write lock, so two   *)
(* of them never do; and one that is up has had its id admitted, so while  *)
(* one id only is admitted a single process confirms modes.                *)
(*                                                                         *)
(* The extraction: what the caches and the claims hold are links of rows   *)
(* whose name matches, a tier's link is claimed until the other tier has   *)
(* its own, and a row is added only for the drama that was verified.       *)
(***************************************************************************)
EXTENDS WorkerProcess, TomatoExtraction, SequenceTheorems, NaturalsInduction,
        WellFoundedInduction, TLAPS

-----------------------------------------------------------------------------
(* The worker process.                                                      *)

\* Starting, executing and stopping need the write lock.
Locking(p) == proc[p].pc \in {"starting", "executing", "stopping"} => lock = p

\* A worker is up only with a lease record of its id.
Admitted(p) == Up(p) => lease[IdOf[p]].status # "NONE"

IInv == TypeOK /\ \A p \in Processes : Locking(p) /\ Admitted(p)

\* No process is up at first.
LEMMA InitInv == Init => IInv
<1> QED
    BY WorkerProcessAssumption
    DEF Init, IInv, TypeOK, LeaseRow, Environment, Process, Down, Locking, Admitted, Up, Mode, NoMode

\* A process keeps its shape when its browsers are cleaned up.
LEMMA CleanedProcess ==
    ASSUME NEW x \in Process, NEW b \in {"none", "open", "dead"}
    PROVE  [x EXCEPT !.orphans = 0, !.browser = b] \in Process
<1>1. ASSUME NEW n \in 0 .. 1 PROVE [x EXCEPT !.orphans = n, !.browser = b] \in Process
    BY DEF Process
<1>2. 0 \in 0 .. 1
    OBVIOUS
<1>3. QED  BY ONLY <1>1, <1>2

\* A step of one process, a mode change and the clock preserve the invariant.
LEMMA StepInv == IInv /\ [Next]_vars => IInv'
<1> SUFFICES ASSUME IInv, [Next]_vars PROVE IInv'
    OBVIOUS
<1> USE WorkerProcessAssumption
<1>1. ASSUME NEW p \in Processes, Launch(p) PROVE IInv'
  <2> USE <1>1 DEF Launch, Operation
  <2>1. proc' \in [Processes -> Process]
    <3> DEFINE r == [proc[p] EXCEPT !.pc = "acquiring", !.at = now]
    <3>1. proc' = [proc EXCEPT ![p] = r]
      OBVIOUS
    <3>2. proc[p] \in Process /\ now \in Nat /\ environment.desired \in Mode
      BY DEF IInv, TypeOK, Environment
    <3>3. r \in Process
      BY ONLY <3>2 DEF Process, Mode, NoMode, BrowserFor
    <3> QED  BY <3>1, <3>3 DEF IInv, TypeOK
  <2>2. lease' \in [Ids -> LeaseRow] /\ environment' \in Environment
    BY DEF IInv, TypeOK, LeaseRow, Process, Environment, Mode, NoMode
  <2>3. now' \in 0 .. MaxTime /\ lock' \in Processes \cup {Free} /\ ops' \in 0 .. MaxOps
    BY DEF IInv, TypeOK, Unlocked
  <2>4. \A q \in Processes : Locking(q)'
    BY DEF IInv, TypeOK, Locking, Process, Down, Unlocked
  <2>5. \A q \in Processes : Admitted(q)'
    BY DEF IInv, TypeOK, Admitted, Up, Process, Down
  <2> QED  BY <2>1, <2>2, <2>3, <2>4, <2>5 DEF IInv, TypeOK
<1>2. ASSUME NEW p \in Processes, AcquireLease(p) PROVE IInv'
  <2> USE <1>2 DEF AcquireLease, CleanupZombies
  <2>1. proc' \in [Processes -> Process]
    <3>1. \A q \in Processes : proc[q] \in Process
      BY DEF IInv, TypeOK
    <3> DEFINE Cleaned(q) ==
             [proc[q] EXCEPT !.orphans = 0, !.browser = IF @ = "open" THEN "dead" ELSE @]
    <3>2. ASSUME NEW q \in Processes PROVE Cleaned(q) \in Process
      <4> DEFINE b == IF proc[q].browser = "open" THEN "dead" ELSE proc[q].browser
      <4>1. b \in {"none", "open", "dead"} /\ proc[q] \in Process
        BY ONLY <3>1, q \in Processes DEF Process
      <4>2. Cleaned(q) = [proc[q] EXCEPT !.orphans = 0, !.browser = b]
        OBVIOUS
      <4> HIDE DEF b
      <4>3. [proc[q] EXCEPT !.orphans = 0, !.browser = b] \in Process
        BY ONLY <4>1, CleanedProcess
      <4> QED  BY ONLY <4>2, <4>3
    <3>3. [proc[p] EXCEPT !.pc = "starting"] \in Process
      BY ONLY <3>1, p \in Processes DEF Process
    <3>4. proc' = [q \in Processes |->
             IF q = p THEN [proc[p] EXCEPT !.pc = "starting"] ELSE Cleaned(q)]
      OBVIOUS
    <3> HIDE DEF Cleaned
    <3> QED  BY ONLY <3>2, <3>3, <3>4
  <2>2. lease' \in [Ids -> LeaseRow] /\ environment' \in Environment
    BY DEF IInv, TypeOK, LeaseRow, Process, Environment, Mode, NoMode
  <2>3. now' \in 0 .. MaxTime /\ lock' \in Processes \cup {Free} /\ ops' \in 0 .. MaxOps
    BY DEF IInv, TypeOK, Unlocked
  <2>4. \A q \in Processes : Locking(q)'
    BY DEF IInv, TypeOK, Locking, Process, Down, Unlocked
  <2>5. \A q \in Processes : Admitted(q)'
    BY ZenonT(60) DEF IInv, TypeOK, Admitted, Up, Process, Down
  <2> QED  BY <2>1, <2>2, <2>3, <2>4, <2>5 DEF IInv, TypeOK
<1>3. ASSUME NEW p \in Processes, AcquireFails(p) PROVE IInv'
  <2> USE <1>3 DEF AcquireFails
  <2>1. proc' \in [Processes -> Process]
    BY DEF TypeOK, Process, Down, Mode, NoMode, Environment, IInv
  <2>2. lease' \in [Ids -> LeaseRow] /\ environment' \in Environment
    BY DEF IInv, TypeOK, LeaseRow, Process, Environment, Mode, NoMode
  <2>3. now' \in 0 .. MaxTime /\ lock' \in Processes \cup {Free} /\ ops' \in 0 .. MaxOps
    BY DEF IInv, TypeOK, Unlocked
  <2>4. \A q \in Processes : Locking(q)'
    BY DEF IInv, TypeOK, Locking, Process, Down, Unlocked
  <2>5. \A q \in Processes : Admitted(q)'
    BY DEF IInv, TypeOK, Admitted, Up, Process, Down
  <2> QED  BY <2>1, <2>2, <2>3, <2>4, <2>5 DEF IInv, TypeOK
<1>4. ASSUME NEW p \in Processes, FinishStart(p) PROVE IInv'
  <2> USE <1>4 DEF FinishStart, Granted, BrowserFor
  <2>1. proc' \in [Processes -> Process]
    <3> DEFINE r == [proc[p] EXCEPT !.pc = "idle", !.mode = environment.desired, !.browser = BrowserFor(environment.desired)]
    <3>1. proc' = [proc EXCEPT ![p] = r]
      OBVIOUS
    <3>2. proc[p] \in Process /\ now \in Nat /\ environment.desired \in Mode
      BY DEF IInv, TypeOK, Environment
    <3>3. r \in Process
      BY ONLY <3>2 DEF Process, Mode, NoMode, BrowserFor
    <3> QED  BY <3>1, <3>3 DEF IInv, TypeOK
  <2>2. lease' \in [Ids -> LeaseRow] /\ environment' \in Environment
    BY DEF IInv, TypeOK, LeaseRow, Process, Environment, Mode, NoMode
  <2>3. now' \in 0 .. MaxTime /\ lock' \in Processes \cup {Free} /\ ops' \in 0 .. MaxOps
    BY DEF IInv, TypeOK, Unlocked
  <2>4. \A q \in Processes : Locking(q)'
    BY DEF IInv, TypeOK, Locking, Process, Down, Unlocked
  <2>5. \A q \in Processes : Admitted(q)'
    BY DEF IInv, TypeOK, Admitted, Up, Process, Down
  <2> QED  BY <2>1, <2>2, <2>3, <2>4, <2>5 DEF IInv, TypeOK
<1>5. ASSUME NEW p \in Processes, BeginSwitch(p) PROVE IInv'
  <2> USE <1>5 DEF BeginSwitch
  <2>1. proc' \in [Processes -> Process]
    <3> DEFINE r == [proc[p] EXCEPT !.pc = "switching", !.browser = "none", !.target = environment.desired]
    <3>1. proc' = [proc EXCEPT ![p] = r]
      OBVIOUS
    <3>2. proc[p] \in Process /\ now \in Nat /\ environment.desired \in Mode
      BY DEF IInv, TypeOK, Environment
    <3>3. r \in Process
      BY ONLY <3>2 DEF Process, Mode, NoMode, BrowserFor
    <3> QED  BY <3>1, <3>3 DEF IInv, TypeOK
  <2>2. lease' \in [Ids -> LeaseRow] /\ environment' \in Environment
    BY DEF IInv, TypeOK, LeaseRow, Process, Environment, Mode, NoMode
  <2>3. now' \in 0 .. MaxTime /\ lock' \in Processes \cup {Free} /\ ops' \in 0 .. MaxOps
    BY DEF IInv, TypeOK, Unlocked
  <2>4. \A q \in Processes : Locking(q)'
    BY DEF IInv, TypeOK, Locking, Process, Down, Unlocked
  <2>5. \A q \in Processes : Admitted(q)'
    BY DEF IInv, TypeOK, Admitted, Up, Process, Down
  <2> QED  BY <2>1, <2>2, <2>3, <2>4, <2>5 DEF IInv, TypeOK
<1>6. ASSUME NEW p \in Processes, FinishSwitch(p) PROVE IInv'
  <2> USE <1>6 DEF FinishSwitch, BrowserFor
  <2>1. proc' \in [Processes -> Process]
    <3> DEFINE r == [proc[p] EXCEPT !.pc = "idle", !.mode = proc[p].target, !.browser = BrowserFor(proc[p].target)]
    <3>1. proc' = [proc EXCEPT ![p] = r]
      OBVIOUS
    <3>2. proc[p] \in Process /\ now \in Nat /\ environment.desired \in Mode
      BY DEF IInv, TypeOK, Environment
    <3>3. r \in Process
      BY ONLY <3>2 DEF Process, Mode, NoMode, BrowserFor
    <3> QED  BY <3>1, <3>3 DEF IInv, TypeOK
  <2>2. lease' \in [Ids -> LeaseRow] /\ environment' \in Environment
    BY DEF IInv, TypeOK, LeaseRow, Process, Environment, Mode, NoMode
  <2>3. now' \in 0 .. MaxTime /\ lock' \in Processes \cup {Free} /\ ops' \in 0 .. MaxOps
    BY DEF IInv, TypeOK, Unlocked
  <2>4. \A q \in Processes : Locking(q)'
    BY DEF IInv, TypeOK, Locking, Process, Down, Unlocked
  <2>5. \A q \in Processes : Admitted(q)'
    BY DEF IInv, TypeOK, Admitted, Up, Process, Down
  <2> QED  BY <2>1, <2>2, <2>3, <2>4, <2>5 DEF IInv, TypeOK
<1>7. ASSUME NEW p \in Processes, BeginHeartbeat(p) PROVE IInv'
  <2> USE <1>7 DEF BeginHeartbeat
  <2>1. proc' \in [Processes -> Process]
    <3> DEFINE r == [proc[p] EXCEPT !.pc = "beating", !.at = now]
    <3>1. proc' = [proc EXCEPT ![p] = r]
      OBVIOUS
    <3>2. proc[p] \in Process /\ now \in Nat /\ environment.desired \in Mode
      BY DEF IInv, TypeOK, Environment
    <3>3. r \in Process
      BY ONLY <3>2 DEF Process, Mode, NoMode, BrowserFor
    <3> QED  BY <3>1, <3>3 DEF IInv, TypeOK
  <2>2. lease' \in [Ids -> LeaseRow] /\ environment' \in Environment
    BY DEF IInv, TypeOK, LeaseRow, Process, Environment, Mode, NoMode
  <2>3. now' \in 0 .. MaxTime /\ lock' \in Processes \cup {Free} /\ ops' \in 0 .. MaxOps
    BY DEF IInv, TypeOK, Unlocked
  <2>4. \A q \in Processes : Locking(q)'
    BY DEF IInv, TypeOK, Locking, Process, Down, Unlocked
  <2>5. \A q \in Processes : Admitted(q)'
    BY DEF IInv, TypeOK, Admitted, Up, Process, Down
  <2> QED  BY <2>1, <2>2, <2>3, <2>4, <2>5 DEF IInv, TypeOK
<1>8. ASSUME NEW p \in Processes, Heartbeat(p) PROVE IInv'
  <2> USE <1>8 DEF Heartbeat, Granted
  <2>1. proc' \in [Processes -> Process]
    BY DEF TypeOK, Process, Down, Mode, NoMode, Environment, IInv
  <2>2. lease' \in [Ids -> LeaseRow] /\ environment' \in Environment
    BY DEF IInv, TypeOK, LeaseRow, Process, Environment, Mode, NoMode
  <2>3. now' \in 0 .. MaxTime /\ lock' \in Processes \cup {Free} /\ ops' \in 0 .. MaxOps
    BY DEF IInv, TypeOK, Unlocked
  <2>4. \A q \in Processes : Locking(q)'
    BY DEF IInv, TypeOK, Locking, Process, Down, Unlocked
  <2>5. \A q \in Processes : Admitted(q)'
    BY DEF IInv, TypeOK, Admitted, Up, Process, Down
  <2> QED  BY <2>1, <2>2, <2>3, <2>4, <2>5 DEF IInv, TypeOK
<1>9. ASSUME NEW p \in Processes, NothingClaimed(p) PROVE IInv'
  <2> USE <1>9 DEF NothingClaimed
  <2>1. proc' \in [Processes -> Process]
    BY DEF TypeOK, Process, Down, Mode, NoMode, Environment, IInv
  <2>2. lease' \in [Ids -> LeaseRow] /\ environment' \in Environment
    BY DEF IInv, TypeOK, LeaseRow, Process, Environment, Mode, NoMode
  <2>3. now' \in 0 .. MaxTime /\ lock' \in Processes \cup {Free} /\ ops' \in 0 .. MaxOps
    BY DEF IInv, TypeOK, Unlocked
  <2>4. \A q \in Processes : Locking(q)'
    BY DEF IInv, TypeOK, Locking, Process, Down, Unlocked
  <2>5. \A q \in Processes : Admitted(q)'
    BY DEF IInv, TypeOK, Admitted, Up, Process, Down
  <2> QED  BY <2>1, <2>2, <2>3, <2>4, <2>5 DEF IInv, TypeOK
<1>10. ASSUME NEW p \in Processes, Claim(p) PROVE IInv'
  <2> USE <1>10 DEF Claim
  <2>1. proc' \in [Processes -> Process]
    BY DEF TypeOK, Process, Down, Mode, NoMode, Environment, IInv
  <2>2. lease' \in [Ids -> LeaseRow] /\ environment' \in Environment
    BY DEF IInv, TypeOK, LeaseRow, Process, Environment, Mode, NoMode
  <2>3. now' \in 0 .. MaxTime /\ lock' \in Processes \cup {Free} /\ ops' \in 0 .. MaxOps
    BY DEF IInv, TypeOK, Unlocked
  <2>4. \A q \in Processes : Locking(q)'
    BY DEF IInv, TypeOK, Locking, Process, Down, Unlocked
  <2>5. \A q \in Processes : Admitted(q)'
    BY DEF IInv, TypeOK, Admitted, Up, Process, Down
  <2> QED  BY <2>1, <2>2, <2>3, <2>4, <2>5 DEF IInv, TypeOK
<1>11. ASSUME NEW p \in Processes, RebuildBrowser(p) PROVE IInv'
  <2> USE <1>11 DEF RebuildBrowser
  <2>1. proc' \in [Processes -> Process]
    BY DEF TypeOK, Process, Down, Mode, NoMode, Environment, IInv
  <2>2. lease' \in [Ids -> LeaseRow] /\ environment' \in Environment
    BY DEF IInv, TypeOK, LeaseRow, Process, Environment, Mode, NoMode
  <2>3. now' \in 0 .. MaxTime /\ lock' \in Processes \cup {Free} /\ ops' \in 0 .. MaxOps
    BY DEF IInv, TypeOK, Unlocked
  <2>4. \A q \in Processes : Locking(q)'
    BY DEF IInv, TypeOK, Locking, Process, Down, Unlocked
  <2>5. \A q \in Processes : Admitted(q)'
    BY DEF IInv, TypeOK, Admitted, Up, Process, Down
  <2> QED  BY <2>1, <2>2, <2>3, <2>4, <2>5 DEF IInv, TypeOK
<1>12. ASSUME NEW p \in Processes, RebuildFails(p) PROVE IInv'
  <2> USE <1>12 DEF RebuildFails
  <2>1. proc' \in [Processes -> Process]
    BY DEF TypeOK, Process, Down, Mode, NoMode, Environment, IInv
  <2>2. lease' \in [Ids -> LeaseRow] /\ environment' \in Environment
    BY DEF IInv, TypeOK, LeaseRow, Process, Environment, Mode, NoMode
  <2>3. now' \in 0 .. MaxTime /\ lock' \in Processes \cup {Free} /\ ops' \in 0 .. MaxOps
    BY DEF IInv, TypeOK, Unlocked
  <2>4. \A q \in Processes : Locking(q)'
    BY DEF IInv, TypeOK, Locking, Process, Down, Unlocked
  <2>5. \A q \in Processes : Admitted(q)'
    BY DEF IInv, TypeOK, Admitted, Up, Process, Down
  <2> QED  BY <2>1, <2>2, <2>3, <2>4, <2>5 DEF IInv, TypeOK
<1>13. ASSUME NEW p \in Processes, Execute(p) PROVE IInv'
  <2> USE <1>13 DEF Execute
  <2>1. proc' \in [Processes -> Process]
    BY DEF TypeOK, Process, Down, Mode, NoMode, Environment, IInv
  <2>2. lease' \in [Ids -> LeaseRow] /\ environment' \in Environment
    BY DEF IInv, TypeOK, LeaseRow, Process, Environment, Mode, NoMode
  <2>3. now' \in 0 .. MaxTime /\ lock' \in Processes \cup {Free} /\ ops' \in 0 .. MaxOps
    BY DEF IInv, TypeOK, Unlocked
  <2>4. \A q \in Processes : Locking(q)'
    BY DEF IInv, TypeOK, Locking, Process, Down, Unlocked
  <2>5. \A q \in Processes : Admitted(q)'
    BY DEF IInv, TypeOK, Admitted, Up, Process, Down
  <2> QED  BY <2>1, <2>2, <2>3, <2>4, <2>5 DEF IInv, TypeOK
<1>14. ASSUME NEW p \in Processes, CycleCommits(p) PROVE IInv'
  <2> USE <1>14 DEF CycleCommits
  <2>1. proc' \in [Processes -> Process]
    <3> DEFINE r == [proc[p] EXCEPT !.pc = "idle", !.rebuilt = FALSE]
    <3>1. proc' = [proc EXCEPT ![p] = r]
      OBVIOUS
    <3>2. proc[p] \in Process /\ now \in Nat /\ environment.desired \in Mode
      BY DEF IInv, TypeOK, Environment
    <3>3. r \in Process
      BY ONLY <3>2 DEF Process, Mode, NoMode, BrowserFor
    <3> QED  BY <3>1, <3>3 DEF IInv, TypeOK
  <2>2. lease' \in [Ids -> LeaseRow] /\ environment' \in Environment
    BY DEF IInv, TypeOK, LeaseRow, Process, Environment, Mode, NoMode
  <2>3. now' \in 0 .. MaxTime /\ lock' \in Processes \cup {Free} /\ ops' \in 0 .. MaxOps
    BY DEF IInv, TypeOK, Unlocked
  <2>4. \A q \in Processes : Locking(q)'
    BY DEF IInv, TypeOK, Locking, Process, Down, Unlocked
  <2>5. \A q \in Processes : Admitted(q)'
    BY DEF IInv, TypeOK, Admitted, Up, Process, Down
  <2> QED  BY <2>1, <2>2, <2>3, <2>4, <2>5 DEF IInv, TypeOK
<1>15. ASSUME NEW p \in Processes, CycleRollsBack(p) PROVE IInv'
  <2> USE <1>15 DEF CycleRollsBack
  <2>1. proc' \in [Processes -> Process]
    <3> DEFINE b == IF proc[p].rebuilt THEN "dead" ELSE proc[p].browser
               o == IF proc[p].rebuilt /\ proc[p].browser = "open" THEN 1 ELSE proc[p].orphans
               r == [proc[p] EXCEPT !.pc = "idle", !.rebuilt = FALSE, !.browser = b, !.orphans = o]
    <3>1. proc' = [proc EXCEPT ![p] = r]
      OBVIOUS
    <3>2. proc[p] \in Process
      BY DEF IInv, TypeOK
    <3>3. b \in {"none", "open", "dead"} /\ o \in 0 .. 1
      BY ONLY <3>2 DEF Process
    <3> HIDE DEF b, o
    <3>4. r \in Process
      BY ONLY <3>2, <3>3 DEF Process
    <3> QED  BY <3>1, <3>4 DEF IInv, TypeOK
  <2>2. lease' \in [Ids -> LeaseRow] /\ environment' \in Environment
    BY DEF IInv, TypeOK, LeaseRow, Process, Environment, Mode, NoMode
  <2>3. now' \in 0 .. MaxTime /\ lock' \in Processes \cup {Free} /\ ops' \in 0 .. MaxOps
    BY DEF IInv, TypeOK, Unlocked
  <2>4. \A q \in Processes : Locking(q)'
    BY DEF IInv, TypeOK, Locking, Process, Down, Unlocked
  <2>5. \A q \in Processes : Admitted(q)'
    BY DEF IInv, TypeOK, Admitted, Up, Process, Down
  <2> QED  BY <2>1, <2>2, <2>3, <2>4, <2>5 DEF IInv, TypeOK
<1>16. ASSUME NEW p \in Processes, BeginExit(p) PROVE IInv'
  <2> USE <1>16 DEF BeginExit
  <2>1. proc' \in [Processes -> Process]
    <3> DEFINE r == [proc[p] EXCEPT !.pc = "stopping", !.browser = "none"]
    <3>1. proc' = [proc EXCEPT ![p] = r]
      OBVIOUS
    <3>2. proc[p] \in Process /\ now \in Nat /\ environment.desired \in Mode
      BY DEF IInv, TypeOK, Environment
    <3>3. r \in Process
      BY ONLY <3>2 DEF Process, Mode, NoMode, BrowserFor
    <3> QED  BY <3>1, <3>3 DEF IInv, TypeOK
  <2>2. lease' \in [Ids -> LeaseRow] /\ environment' \in Environment
    BY DEF IInv, TypeOK, LeaseRow, Process, Environment, Mode, NoMode
  <2>3. now' \in 0 .. MaxTime /\ lock' \in Processes \cup {Free} /\ ops' \in 0 .. MaxOps
    BY DEF IInv, TypeOK, Unlocked
  <2>4. \A q \in Processes : Locking(q)'
    BY DEF IInv, TypeOK, Locking, Process, Down, Unlocked
  <2>5. \A q \in Processes : Admitted(q)'
    BY DEF IInv, TypeOK, Admitted, Up, Process, Down
  <2> QED  BY <2>1, <2>2, <2>3, <2>4, <2>5 DEF IInv, TypeOK
<1>17. ASSUME NEW p \in Processes, FinishExit(p) PROVE IInv'
  <2> USE <1>17 DEF FinishExit
  <2>1. proc' \in [Processes -> Process]
    BY DEF TypeOK, Process, Down, Mode, NoMode, Environment, IInv
  <2>2. lease' \in [Ids -> LeaseRow] /\ environment' \in Environment
    BY DEF IInv, TypeOK, LeaseRow, Process, Environment, Mode, NoMode
  <2>3. now' \in 0 .. MaxTime /\ lock' \in Processes \cup {Free} /\ ops' \in 0 .. MaxOps
    BY DEF IInv, TypeOK, Unlocked
  <2>4. \A q \in Processes : Locking(q)'
    BY DEF IInv, TypeOK, Locking, Process, Down, Unlocked
  <2>5. \A q \in Processes : Admitted(q)'
    BY DEF IInv, TypeOK, Admitted, Up, Process, Down
  <2> QED  BY <2>1, <2>2, <2>3, <2>4, <2>5 DEF IInv, TypeOK
<1>18. ASSUME NEW p \in Processes, Crash(p) PROVE IInv'
  <2> USE <1>18 DEF Crash
  <2>1. proc' \in [Processes -> Process]
    BY DEF TypeOK, Process, Down, Mode, NoMode, Environment, IInv
  <2>2. lease' \in [Ids -> LeaseRow] /\ environment' \in Environment
    BY DEF IInv, TypeOK, LeaseRow, Process, Environment, Mode, NoMode
  <2>3. now' \in 0 .. MaxTime /\ lock' \in Processes \cup {Free} /\ ops' \in 0 .. MaxOps
    BY DEF IInv, TypeOK, Unlocked
  <2>4. \A q \in Processes : Locking(q)'
    BY DEF IInv, TypeOK, Locking, Process, Down, Unlocked
  <2>5. \A q \in Processes : Admitted(q)'
    BY DEF IInv, TypeOK, Admitted, Up, Process, Down
  <2> QED  BY <2>1, <2>2, <2>3, <2>4, <2>5 DEF IInv, TypeOK
<1>19. ASSUME NEW p \in Processes, BrowserDies(p) PROVE IInv'
  <2> USE <1>19 DEF BrowserDies, Operation
  <2>1. proc' \in [Processes -> Process]
    BY DEF TypeOK, Process, Down, Mode, NoMode, Environment, IInv
  <2>2. lease' \in [Ids -> LeaseRow] /\ environment' \in Environment
    BY DEF IInv, TypeOK, LeaseRow, Process, Environment, Mode, NoMode
  <2>3. now' \in 0 .. MaxTime /\ lock' \in Processes \cup {Free} /\ ops' \in 0 .. MaxOps
    BY DEF IInv, TypeOK, Unlocked
  <2>4. \A q \in Processes : Locking(q)'
    BY DEF IInv, TypeOK, Locking, Process, Down, Unlocked
  <2>5. \A q \in Processes : Admitted(q)'
    BY DEF IInv, TypeOK, Admitted, Up, Process, Down
  <2> QED  BY <2>1, <2>2, <2>3, <2>4, <2>5 DEF IInv, TypeOK
<1>20. ASSUME NEW m \in Mode, SetDesiredMode(m) PROVE IInv'
    BY <1>20 DEF SetDesiredMode, Operation, IInv, TypeOK, Locking, Admitted, Up, Environment
<1>21. ASSUME Tick PROVE IInv'
    BY <1>21 DEF Tick, IInv, TypeOK, Locking, Admitted, Up
<1>22. ASSUME UNCHANGED vars PROVE IInv'
    BY <1>22 DEF vars, IInv, TypeOK, Locking, Admitted, Up
<1>23. QED
    BY <1>1, <1>2, <1>3, <1>4, <1>5, <1>6, <1>7, <1>8, <1>9, <1>10, <1>11, <1>12, <1>13,
       <1>14, <1>15, <1>16, <1>17, <1>18, <1>19, <1>20, <1>21, <1>22 DEF Next, Loop

\* The invariant holds for any processes, ids and bounds.
LEMMA Invariance == Spec => []IInv
<1>1. QED  BY InitInv, StepInv, PTL DEF Spec

\* The rows and the processes' memory keep their shape.
THEOREM TypeCorrect == Spec => []TypeOK
<1>1. IInv => TypeOK
    BY DEF IInv
<1>2. QED  BY Invariance, <1>1, PTL

\* The cleanup of a starting worker, which kills every headless browser of the machine, never
\* falls into another worker's execution, however many workers are started, under whatever ids.
THEOREM StartIsExclusive == Spec => []StartSparesExecution
<1>1. IInv => StartSparesExecution
    BY DEF IInv, Locking, StartSparesExecution
<1>2. QED  BY Invariance, <1>1, PTL

-----------------------------------------------------------------------------
(* The confirmed mode, for processes started with different ids            *)

DifferentIds == \A p, q \in Processes : IdOf[p] = IdOf[q] => p = q

\* No step takes an id's admission back.
LEMMA AdmissionStays ==
    ASSUME IInv, [Next]_vars, OneIdAdmitted'
    PROVE  OneIdAdmitted
<1>1. ASSUME NEW p \in Processes, FinishStart(p) \/ Heartbeat(p) PROVE OneIdAdmitted
    BY <1>1, WorkerProcessAssumption
    DEF FinishStart, Heartbeat, Granted, OneIdAdmitted, IInv, TypeOK, LeaseRow
<1>2. CASE UNCHANGED lease
    BY <1>2 DEF OneIdAdmitted
<1>3. UNCHANGED lease \/ \E p \in Processes : FinishStart(p) \/ Heartbeat(p)
    BY DEF Next, Loop, vars, Launch, AcquireLease, AcquireFails, BeginSwitch, FinishSwitch,
           BeginHeartbeat, NothingClaimed, Claim, RebuildBrowser, RebuildFails, Execute,
           CycleCommits, CycleRollsBack, BeginExit, FinishExit, Crash, BrowserDies,
           SetDesiredMode, Tick
<1>4. QED  BY <1>1, <1>2, <1>3

\* A process that comes up in a mode has confirmed it, and nobody else is up to confirm another.
LEMMA ConfirmedStep ==
    ASSUME DifferentIds, IInv, IInv', ExecutesInConfirmedMode, [Next]_vars
    PROVE  ExecutesInConfirmedMode'
<1> SUFFICES ASSUME NEW q \in Processes, OneIdAdmitted', Up(q)', proc'[q].pc # "switching"
             PROVE  environment'.applied = proc'[q].mode
    BY DEF ExecutesInConfirmedMode
<1>1. OneIdAdmitted
    BY AdmissionStays
<1>2. ASSUME NEW p \in Processes, Up(p)' PROVE p = q
    <2>1. lease'[IdOf[p]].status # "NONE" /\ lease'[IdOf[q]].status # "NONE"
      BY <1>2 DEF IInv, Admitted
    <2>2. IdOf[p] \in Ids /\ IdOf[q] \in Ids
      BY WorkerProcessAssumption DEF WorkerProcessAssumption
    <2>3. QED  BY <2>1, <2>2 DEF OneIdAdmitted, DifferentIds
<1>3. ASSUME NEW p \in Processes, FinishStart(p) \/ FinishSwitch(p)
      PROVE  environment'.applied = proc'[q].mode
    <2> USE DEF IInv, TypeOK, Process, Environment
    <2>1. proc'[p].pc = "idle" /\ environment'.applied = proc'[p].mode
      BY <1>3 DEF FinishStart, FinishSwitch
    <2>2. p = q
      BY <2>1, <1>2 DEF Up
    <2>3. QED  BY <2>1, <2>2
<1>4. ASSUME environment'.applied = environment.applied, proc'[q].mode = proc[q].mode,
             Up(q), proc[q].pc # "switching"
      PROVE  environment'.applied = proc'[q].mode
    BY <1>1, <1>4 DEF ExecutesInConfirmedMode
<1>5. ASSUME NEW p \in Processes,
             \/ Launch(p) \/ AcquireFails(p) \/ BeginSwitch(p) \/ BeginHeartbeat(p) \/ Heartbeat(p)
             \/ NothingClaimed(p) \/ Claim(p) \/ RebuildBrowser(p) \/ RebuildFails(p) \/ Execute(p)
             \/ CycleCommits(p) \/ CycleRollsBack(p) \/ BeginExit(p) \/ FinishExit(p) \/ Crash(p)
             \/ BrowserDies(p)
      PROVE  environment'.applied = proc'[q].mode
    <2> USE DEF IInv, TypeOK, Process, Down
    <2>1. environment' = environment
      BY <1>5 DEF Launch, AcquireFails, BeginSwitch, BeginHeartbeat, Heartbeat, NothingClaimed,
                  Claim, RebuildBrowser, RebuildFails, Execute, CycleCommits, CycleRollsBack,
                  BeginExit, FinishExit, Crash, BrowserDies
    <2>2. CASE p = q
      BY <1>4, <1>5, <2>1, <2>2
      DEF Up, Launch, AcquireFails, BeginSwitch, BeginHeartbeat, Heartbeat, NothingClaimed,
          Claim, RebuildBrowser, RebuildFails, Execute, CycleCommits, CycleRollsBack,
          BeginExit, FinishExit, Crash, BrowserDies
    <2>3. CASE p # q
      <3>1. proc'[q] = proc[q]
        BY <1>5, <2>3
        DEF Launch, AcquireFails, BeginSwitch, BeginHeartbeat, Heartbeat, NothingClaimed,
            Claim, RebuildBrowser, RebuildFails, Execute, CycleCommits, CycleRollsBack,
            BeginExit, FinishExit, Crash, BrowserDies
      <3>2. QED  BY <1>4, <2>1, <3>1 DEF Up
    <2>4. QED  BY <2>2, <2>3
<1>6. ASSUME NEW p \in Processes, AcquireLease(p) PROVE environment'.applied = proc'[q].mode
    <2> USE DEF IInv, TypeOK, Process
    <2>1. environment' = environment /\ proc'[p].pc = "starting"
      BY <1>6 DEF AcquireLease
    <2>2. p # q
      BY <2>1, <1>2 DEF Up
    <2>3. proc'[q].mode = proc[q].mode /\ proc'[q].pc = proc[q].pc
      <3>1. proc'[q] = [proc[q] EXCEPT !.orphans = 0,
                                       !.browser = IF @ = "open" THEN "dead" ELSE @]
        BY <1>6, <2>2 DEF AcquireLease, CleanupZombies
      <3>2. QED  BY <3>1
    <2>4. Up(q) /\ proc[q].pc # "switching"
      BY <2>3, <1>2 DEF Up
    <2>5. QED  BY <1>4, <2>1, <2>3, <2>4
<1>7. ASSUME NEW m \in Mode, SetDesiredMode(m) PROVE environment'.applied = proc'[q].mode
    BY <1>4, <1>7 DEF SetDesiredMode, Up, IInv, TypeOK, Environment
<1>8. CASE Tick \/ UNCHANGED vars
    BY <1>4, <1>8 DEF Tick, vars, Up
<1>9. QED
    BY <1>3, <1>5, <1>6, <1>7, <1>8 DEF Next, Loop

\* Where every process is started with an id of its own: as long as no second id is let in, a
\* worker executes in the mode the system page shows as confirmed.
THEOREM ConfirmedModeHolds == DifferentIds => (Spec => []ExecutesInConfirmedMode)
<1> SUFFICES ASSUME DifferentIds PROVE Spec => []ExecutesInConfirmedMode
    OBVIOUS
<1>1. Init => ExecutesInConfirmedMode
    BY DEF Init, ExecutesInConfirmedMode, Up, Down
<1>2. IInv /\ IInv' /\ ExecutesInConfirmedMode /\ [Next]_vars => ExecutesInConfirmedMode'
    BY ConfirmedStep
<1>3. QED  BY Invariance, <1>1, <1>2, PTL DEF Spec

-----------------------------------------------------------------------------
(* The extraction: its inductive invariant.                                 *)

Choice == [title : Template \cup {""}, price : Nat, order : Nat]
CacheEntry == [title : Template \cup {""}, order : Nat, url : Int]

\* The URL of a listed link of a drama with a matching name.
Known(url) == \E i \in DOMAIN rows : rows[i].url = url /\ rows[i].name # "other"

\* What an extraction can take for a link: none, an unreadable one, a matching one.
Link(url) == url \in {NoUrl, BadUrl} \/ Known(url)

RowsOK ==
    /\ rows \in Seq(Row)
    /\ \A i \in DOMAIN rows : rows[i].url \in 1 .. Len(rows)
    /\ \A i, j \in DOMAIN rows : rows[i].url = rows[j].url => i = j
    /\ GeneratesForTheDrama

AppOK ==
    /\ app \in {"", "FREE", "PAID"} /\ tomato.context \in {"", "FREE", "PAID"}
    /\ tomato.context # "" => app = tomato.context

\* The caches and the claims hold links of matching rows only.
CachesOK ==
    /\ tomato \in [context : {"", "FREE", "PAID"}, cache : Seq(CacheEntry),
                   listed : Seq(Row), claimed : SUBSET Int]
    /\ \A i \in DOMAIN tomato.cache : Known(tomato.cache[i].url)
    /\ \A i \in DOMAIN tomato.listed : Known(tomato.listed[i].url)
    /\ \A url \in tomato.claimed : Link(url)

Run == [pc : Pcs, episode : {1, 2}, links : [Types -> Int],
        failed : SUBSET {"IAP", "29", "99"}, existing : SUBSET Choice,
        best : [Tiers -> Choice], tries : 0 .. ScanTries - 1]

\* A tier has a link only once its turn is over, and until the other tier's is over,
\* the link is claimed.
LinksOK ==
    /\ \A y \in Types : Link(run.links[y])
    /\ run.pc \notin {"99", "99again", "report"} => run.links[29] = NoUrl
    /\ run.pc # "report" => run.links[99] = NoUrl
    /\ run.pc # "report" /\ ValidUrl(run.links[29]) => run.links[29] \in tomato.claimed
    /\ ValidUrl(run.links[29]) => run.links[29] # run.links[99]

RunOK == run \in Run /\ LinksOK

FrozenOK ==
    /\ frozen \in [Types -> Int]
    /\ \A y \in Types : frozen[y] # NoUrl => Known(frozen[y])
    /\ ValidUrl(frozen[29]) => frozen[29] # frozen[99]

ExtractionInv == RowsOK /\ AppOK /\ CachesOK /\ RunOK /\ FrozenOK /\ runs \in 0 .. MaxRuns

-----------------------------------------------------------------------------
(* Lists of rows.                                                           *)

\* What holds of 0 and of the successor of each number it holds of, holds of all.
LEMMA Induction ==
    ASSUME NEW S \in SUBSET Nat, 0 \in S, \A n \in S : n + 1 \in S PROVE S = Nat
<1> DEFINE Bad == Nat \ S
<1> SUFFICES ASSUME Bad # {} PROVE FALSE
  OBVIOUS
<1>1. PICK n \in Bad : \A m \in Bad : <<m, n>> \notin OpToRel(<, Nat)
  BY NatLessThanWellFounded, WFMin
<1>2. n - 1 \in Nat /\ n - 1 < n
  OBVIOUS
<1>3. n - 1 \notin Bad
  BY <1>1, <1>2 DEF OpToRel
<1> QED  BY <1>2, <1>3

\* A recursive definition over the places of a list defines a function.
LEMMA FoldExists ==
    ASSUME NEW S, NEW base \in S, NEW n \in Nat, NEW step \in [1 .. n -> [S -> S]]
    PROVE  \E f \in [0 .. n -> S] :
               f = [i \in 0 .. n |-> IF i = 0 THEN base ELSE step[i][f[i - 1]]]
<1> DEFINE Partial(m) == {g \in [0 .. m -> S] : /\ g[0] = base
                                                /\ \A i \in 1 .. m : g[i] = step[i][g[i - 1]]}
           Good == {m \in Nat : m <= n => Partial(m) # {}}
<1>1. 0 \in Good
  <2>1. [i \in 0 .. 0 |-> base] \in Partial(0)
    OBVIOUS
  <2> QED  BY <2>1
<1>2. ASSUME NEW m \in Good PROVE m + 1 \in Good
  <2>1. ASSUME m + 1 <= n PROVE Partial(m + 1) # {}
    <3>1. PICK g \in Partial(m) : TRUE
      BY <2>1
    <3> DEFINE h == [i \in 0 .. m + 1 |-> IF i = m + 1 THEN step[i][g[m]] ELSE g[i]]
    <3>2. g[m] \in S /\ step[m + 1] \in [S -> S]
      BY <2>1
    <3>3. h \in [0 .. m + 1 -> S]
      BY <2>1, <3>1, <3>2
    <3>4. h[0] = base
      BY <3>1
    <3>5. ASSUME NEW i \in 1 .. m + 1 PROVE h[i] = step[i][h[i - 1]]
      BY <3>1
    <3> QED  BY <3>3, <3>4, <3>5
  <2> HIDE DEF Partial
  <2> QED  BY <2>1
<1> HIDE DEF Good
<1>3. n \in Good
  BY <1>1, <1>2, Induction DEF Good
<1>4. PICK g \in Partial(n) : TRUE
  BY <1>3 DEF Good
<1> QED  BY <1>4

\* In particular one whose values are lists.
LEMMA ListFold ==
    ASSUME NEW Q, <<>> \in Q, NEW N \in Nat, NEW step \in [1 .. N -> [Q -> Q]]
    PROVE  \E g \in [0 .. N -> Q] :
               g = [n \in 0 .. N |-> IF n = 0 THEN <<>> ELSE step[n][g[n - 1]]]
<1>1. \E f \in [0 .. N -> Q] :
               f = [i \in 0 .. N |-> IF i = 0 THEN <<>> ELSE step[i][f[i - 1]]]
  BY FoldExists
<1> QED  BY <1>1

\* The lists made of the elements of s at the given places.
Picks(S, s, places) ==
    {x \in Seq(S) : \A j \in DOMAIN x : \E i \in places : i \in DOMAIN s /\ x[j] = s[i]}

\* Kept returns elements of the list at the given places, and no others.
LEMMA KeptIs ==
    ASSUME NEW S, NEW s \in Seq(S), NEW places
    PROVE  Kept(s, places) \in Picks(S, s, places)
<1> DEFINE N == Len(s)
           P == Picks(S, s, places)
           add(x, n) == IF n \in places THEN Append(x, s[n]) ELSE x
           f == CHOOSE g : g = [i \in 0 .. N |->
                    IF i = 0 THEN <<>> ELSE IF i \in places THEN Append(g[i - 1], s[i]) ELSE g[i - 1]]
<1>1. N \in Nat /\ DOMAIN s = 1 .. N /\ \A n \in 1 .. N : s[n] \in S
  OBVIOUS
<1>11. N \in Nat
  OBVIOUS
<1>2. Kept(s, places) = f[N]
  BY DEF Kept
<1>3. f = CHOOSE g : g = [i \in 0 .. N |-> IF i = 0 THEN <<>> ELSE add(g[i - 1], i)]
  OBVIOUS
<1>4. ASSUME NEW x \in P, NEW n \in 1 .. N PROVE add(x, n) \in P
  <2>1. x \in Seq(S) /\ s[n] \in S
    BY <1>1 DEF Picks
  <2>2. CASE n \in places
    <3> DEFINE y == Append(x, s[n])
    <3>1. /\ y \in Seq(S) /\ DOMAIN y = 1 .. Len(x) + 1 /\ y[Len(x) + 1] = s[n]
          /\ \A j \in 1 .. Len(x) : y[j] = x[j]
          /\ DOMAIN x = 1 .. Len(x) /\ Len(x) \in Nat
      BY <2>1, AppendProperties, LenProperties
    <3> HIDE DEF y
    <3>2. ASSUME NEW j \in DOMAIN y PROVE \E i \in places : i \in DOMAIN s /\ y[j] = s[i]
      <4>1. CASE j = Len(x) + 1
        BY <1>1, <2>2, <3>1, <4>1
      <4>2. CASE j \in DOMAIN x
        BY <3>1, <4>2 DEF Picks
      <4> QED  BY <3>1, <4>1, <4>2
    <3>3. y \in P
      BY <3>1, <3>2 DEF Picks
    <3> QED  BY <2>2, <3>3 DEF y
  <2> QED  BY <2>2
<1>5. <<>> \in P
  BY DEF Picks
<1> HIDE DEF N, P, add, f
<1>6. \E g : g = [i \in 0 .. N |-> IF i = 0 THEN <<>> ELSE add(g[i - 1], i)]
  <2> DEFINE step == [n \in 1 .. N |-> [x \in P |-> add(x, n)]]
  <2>1. step \in [1 .. N -> [P -> P]]
    BY <1>4
  <2> HIDE DEF step
  <2>2. PICK g \in [0 .. N -> P] :
             g = [n \in 0 .. N |-> IF n = 0 THEN <<>> ELSE step[n][g[n - 1]]]
    BY <1>11, <1>5, <2>1, ListFold
  <2>3. \A n \in 1 .. N : n - 1 \in 0 .. N
    BY <1>1
  <2>4. \A n \in 1 .. N : step[n][g[n - 1]] = add(g[n - 1], n)
    BY <2>2, <2>3 DEF step
  <2>5. g = [n \in 0 .. N |-> IF n = 0 THEN <<>> ELSE add(g[n - 1], n)]
    BY <1>1, <2>2, <2>4
  <2> QED  BY <2>5
<1>7. f = [i \in 0 .. N |-> IF i = 0 THEN <<>> ELSE add(f[i - 1], i)]
  BY <1>3, <1>6
<1> DEFINE Good == {n \in Nat : n <= N => f[n] \in P}
<1>8. 0 \in Good
  BY <1>1, <1>5, <1>7
<1>9. ASSUME NEW n \in Good PROVE n + 1 \in Good
  <2>1. ASSUME n + 1 <= N PROVE f[n + 1] \in P
    <3>1. f[n] \in P /\ n + 1 \in 1 .. N /\ (n + 1) - 1 = n /\ n + 1 \in 0 .. N /\ n + 1 # 0
      BY <1>1, <2>1
    <3>2. f[n + 1] = add(f[n], n + 1)
      BY <1>7, <3>1
    <3> QED  BY <1>4, <3>1, <3>2
  <2> QED  BY <2>1
<1> HIDE DEF Good
<1>10. N \in Good
  BY <1>1, <1>8, <1>9, Induction DEF Good
<1> QED  BY <1>1, <1>2, <1>10 DEF Good, P

\* A set of numbers that is not empty has a first one.
LEMMA FirstIs ==
    ASSUME NEW places \in SUBSET Nat, places # {} PROVE First(places) \in places
<1>1. PICK n \in places : \A m \in places : <<m, n>> \notin OpToRel(<, Nat)
  BY NatLessThanWellFounded, WFMin
<1>2. ASSUME NEW m \in places PROVE n <= m
  <2>1. n \in Nat /\ m \in Nat
    OBVIOUS
  <2>2. ~(m < n)
    BY <1>1 DEF OpToRel
  <2> QED  BY <2>1, <2>2
<1> QED  BY <1>2 DEF First

\* FirstUrl returns the URL of one of the elements at the given places, or none.
LEMMA FirstUrlIs ==
    ASSUME NEW S, NEW s \in Seq(S), NEW places \in SUBSET DOMAIN s
    PROVE  \/ places = {} /\ FirstUrl(s, places) = NoUrl
           \/ \E i \in places : FirstUrl(s, places) = s[i].url
<1>1. places \subseteq Nat
  OBVIOUS
<1> QED  BY <1>1, FirstIs DEF FirstUrl

-----------------------------------------------------------------------------
(* The drama, the app and the rows.                                         *)

\* What a drama that was selected and verified is.
Verified(d) ==
    /\ d \in Catalogue /\ d.name = "same"
    /\ IF confirmed.drama # NoDrama THEN d = confirmed.drama /\ d.minute = confirmed.minute
       ELSE Near(d.minute)

\* Selecting chooses among the candidates, and the detail page alone decides that the
\* name is the same and the time near or confirmed.
LEMMA SelectedIsVerified == \A d \in SelectAndVerify : Verified(d)
<1> SUFFICES ASSUME NEW d \in SelectAndVerify PROVE Verified(d)
  OBVIOUS
<1> USE TomatoAssumption
<1>1. PICK C \in Candidates : d \in Match(C, ListedMinute)
  BY DEF SelectAndVerify
<1>2. DetailAgrees(d)
  BY DEF SelectAndVerify
<1>3. d \in C
  BY <1>1 DEF Match, MatchConfirmed, MatchUniqueDrama
<1>4. d \in Catalogue /\ d.name = "same" /\ d.minute \in Int
  BY <1>2, <1>3 DEF Candidates, DetailAgrees, Drama
<1>5. Match({d}, DetailMinute) # {}
  BY <1>2 DEF DetailAgrees
<1>6. DetailMinute[d] = d.minute
  BY <1>4 DEF DetailMinute
<1>7. CASE confirmed.drama # NoDrama
  BY <1>4, <1>5, <1>6, <1>7 DEF Match, MatchConfirmed, Verified
<1>8. CASE confirmed.drama = NoDrama
  <2>1. MatchUniqueDrama({d}, DetailMinute) # {}
    BY <1>5, <1>8 DEF Match
  <2>2. {c \in {d} : c.name = "similar"} = {}
    BY <1>4
  <2>3. \/ \E c \in {d} : DetailMinute[c] = Due
        \/ \E c \in {d} : Near(DetailMinute[c])
    BY <2>1, <2>2 DEF MatchUniqueDrama
  <2>4. Due - Due \in -5 .. 5
    <3>1. Due \in Int
      BY TomatoAssumption
    <3> QED  BY ONLY <3>1
  <2>5. Near(d.minute)
    BY <1>6, <2>3, <2>4 DEF Near
  <2> QED  BY <1>4, <1>8, <2>5 DEF Verified
<1> QED  BY <1>7, <1>8

\* Opening an app switches to it, whatever the adapter remembers.
LEMMA ContextIs ==
    ASSUME AppOK, NEW entry \in {"FREE", "PAID"} PROVE EnsureContext(entry) = entry
BY DEF AppOK, EnsureContext

LEMMA KnownNumbers ==
    ASSUME RowsOK, NEW url, Known(url)
    PROVE  url \in 1 .. Len(rows) /\ ValidUrl(url) /\ Len(rows) \in Nat
<1>1. Len(rows) \in Nat /\ DOMAIN rows = 1 .. Len(rows)
  BY DEF RowsOK
<1> QED  BY <1>1 DEF RowsOK, Known, ValidUrl, NoUrl, BadUrl

\* The new link is none of those that are known.
LEMMA NewUrlIsNew ==
    ASSUME RowsOK
    PROVE  NewUrl \in Nat \ {0} /\ NewUrl = Len(rows) + 1 /\ ~Link(NewUrl)
<1>1. Len(rows) \in Nat
  BY DEF RowsOK
<1> QED  BY <1>1, KnownNumbers DEF NewUrl, Link, NoUrl, BadUrl

\* What a search shows are rows of the list with a matching name.
LEMMA SearchedKnown ==
    ASSUME RowsOK, NEW s, NEW places \in SUBSET {i \in DOMAIN rows : DramaNameMatches(rows[i])},
           s = Kept(rows, places) \/ s = <<>>
    PROVE  s \in Seq(Row) /\ \A i \in DOMAIN s : Known(s[i].url)
<1>1. CASE s = <<>>
  BY <1>1
<1>2. CASE s = Kept(rows, places)
  <2>1. s \in Picks(Row, rows, places)
    BY <1>2, KeptIs DEF RowsOK
  <2>2. ASSUME NEW i \in DOMAIN s PROVE Known(s[i].url)
    <3>1. PICK j \in places : j \in DOMAIN rows /\ s[i] = rows[j]
      BY <2>1 DEF Picks
    <3> QED  BY <3>1 DEF DramaNameMatches, Known
  <2> QED  BY <2>1, <2>2 DEF Picks
<1> QED  BY <1>1, <1>2

\* What is taken from a list of known links is known.
LEMMA FirstUrlKnown ==
    ASSUME NEW S, NEW s \in Seq(S), \A i \in DOMAIN s : Known(s[i].url),
           NEW places \in SUBSET DOMAIN s
    PROVE  FirstUrl(s, places) = NoUrl \/ Known(FirstUrl(s, places))
BY FirstUrlIs

\* A row that a generation adds.
GeneratedRow(r) ==
    /\ r \in Row /\ r.url = NewUrl /\ Verified(r.drama) /\ r.name = "same"
    /\ r.entry = IF r.marked = 0 THEN "PAID" ELSE "FREE"

\* The list grows by one row, at either end, and keeps the others in their order.
Grows(r) ==
    /\ rows' \in Seq(Row) /\ Len(rows') = Len(rows) + 1
    /\ \E at \in DOMAIN rows', shift \in {0, 1} :
          /\ rows'[at] = r
          /\ \A k \in DOMAIN rows' : k # at => k - shift \in DOMAIN rows /\ rows'[k] = rows[k - shift]
          /\ \A i \in DOMAIN rows : i + shift \in DOMAIN rows' /\ rows'[i + shift] = rows[i]

LEMMA ListedGrows ==
    ASSUME NEW r \in Row, rows \in Seq(Row), Listed(r) PROVE Grows(r)
<1> DEFINE N == Len(rows)
<1>1. N \in Nat /\ DOMAIN rows = 1 .. N
  OBVIOUS
<1>2. CASE rows' = Append(rows, r)
  <2>1. /\ rows' \in Seq(Row) /\ Len(rows') = N + 1 /\ DOMAIN rows' = 1 .. N + 1
        /\ rows'[N + 1] = r /\ \A i \in 1 .. N : rows'[i] = rows[i]
    BY <1>2, AppendProperties, LenProperties
  <2> HIDE DEF N
  <2>2. N + 1 \in DOMAIN rows' /\ 0 \in {0, 1}
    BY <1>1, <2>1
  <2>3. \A k \in DOMAIN rows' : k # N + 1 => k - 0 \in DOMAIN rows /\ rows'[k] = rows[k - 0]
    BY <1>1, <2>1
  <2>4. \A i \in DOMAIN rows : i + 0 \in DOMAIN rows' /\ rows'[i + 0] = rows[i]
    BY <1>1, <2>1
  <2> QED  BY <2>1, <2>2, <2>3, <2>4 DEF Grows, N
<1>3. CASE rows' = <<r>> \o rows
  <2>1. <<r>> \in Seq(Row) /\ Len(<<r>>) = 1 /\ <<r>>[1] = r
    OBVIOUS
  <2>2. /\ rows' \in Seq(Row) /\ Len(rows') = 1 + N
        /\ \A k \in 1 .. Len(<<r>>) + N : rows'[k] = IF k <= Len(<<r>>) THEN <<r>>[k] ELSE rows[k - Len(<<r>>)]
    BY <1>3, <2>1, ConcatProperties
  <2>3. DOMAIN rows' = 1 .. 1 + N
    BY <2>2, LenProperties
  <2>4. \A k \in 1 .. 1 + N : rows'[k] = IF k <= 1 THEN <<r>>[k] ELSE rows[k - 1]
    BY <2>1, <2>2
  <2> HIDE DEF N
  <2>5. 1 \in DOMAIN rows' /\ 1 \in {0, 1} /\ rows'[1] = r
    BY <1>1, <2>1, <2>3, <2>4
  <2>6. \A k \in DOMAIN rows' : k # 1 => k - 1 \in DOMAIN rows /\ rows'[k] = rows[k - 1]
    BY <1>1, <2>3, <2>4
  <2>7. ASSUME NEW i \in DOMAIN rows PROVE i + 1 \in DOMAIN rows' /\ rows'[i + 1] = rows[i]
    <3>1. i + 1 \in 1 .. 1 + N /\ ~(i + 1 <= 1) /\ (i + 1) - 1 = i
      BY <1>1
    <3> QED  BY <2>3, <2>4, <3>1
  <2>8. Len(rows') = N + 1
    BY <1>1, <2>2
  <2> QED  BY <2>2, <2>5, <2>6, <2>7, <2>8 DEF Grows, N
<1> QED  BY <1>2, <1>3 DEF Listed

\* Links stay known while rows only join the list.
LEMMA GrowingKeepsKnown ==
    ASSUME NEW r, Grows(r), NEW url, Known(url) PROVE Known(url)'
BY DEF Grows, Known

LEMMA GrowingKeepsRows ==
    ASSUME NEW r, RowsOK, GeneratedRow(r), Grows(r), confirmed' = confirmed,
           NEW url, url = NewUrl
    PROVE  RowsOK' /\ Known(url)'
<1> DEFINE N == Len(rows)
<1>1. /\ rows' \in Seq(Row) /\ Len(rows') = N + 1 /\ DOMAIN rows' = 1 .. N + 1
      /\ DOMAIN rows = 1 .. N /\ N \in Nat
  BY LenProperties DEF Grows, RowsOK
<1>2. r.url = N + 1
  BY DEF GeneratedRow, NewUrl
<1> HIDE DEF N
<1>3. PICK at \in DOMAIN rows', shift \in {0, 1} :
          /\ rows'[at] = r
          /\ \A k \in DOMAIN rows' : k # at => k - shift \in DOMAIN rows /\ rows'[k] = rows[k - shift]
  BY DEF Grows
<1>4. \A i \in DOMAIN rows : rows[i].url \in 1 .. N
  BY DEF RowsOK, N
<1>5. ASSUME NEW k \in DOMAIN rows' PROVE rows'[k].url \in 1 .. N + 1
  <2>1. CASE k = at
    BY <1>1, <1>2, <1>3, <2>1
  <2>2. CASE k # at
    <3>1. rows'[k].url \in 1 .. N
      BY <1>3, <1>4, <2>2
    <3> QED  BY <1>1, <3>1
  <2> QED  BY <2>1, <2>2
<1>6. ASSUME NEW k \in DOMAIN rows', NEW l \in DOMAIN rows', rows'[k].url = rows'[l].url
      PROVE  k = l
  <2>1. ASSUME NEW m \in DOMAIN rows', m # at PROVE rows'[m].url # r.url
    BY <1>1, <1>2, <1>3, <1>4, <2>1
  <2>2. CASE k = at \/ l = at
    BY <1>3, <1>6, <2>1, <2>2
  <2>3. CASE k # at /\ l # at
    <3>1. /\ k - shift \in DOMAIN rows /\ l - shift \in DOMAIN rows
          /\ rows[k - shift].url = rows[l - shift].url
      BY <1>3, <1>6, <2>3
    <3>2. k - shift = l - shift
      BY <3>1 DEF RowsOK
    <3> QED  BY <1>1, <1>3, <3>2
  <2> QED  BY <2>2, <2>3
<1>7. GeneratesForTheDrama'
  <2>1. ASSUME NEW k \in DOMAIN rows', rows'[k].drama # NoDrama
        PROVE  /\ rows'[k].drama.name = "same"
               /\ IF confirmed.drama # NoDrama
                  THEN rows'[k].drama = confirmed.drama /\ rows'[k].drama.minute = confirmed.minute
                  ELSE Near(rows'[k].drama.minute)
               /\ rows'[k].entry = IF rows'[k].marked = 0 THEN "PAID" ELSE "FREE"
    <3>1. CASE k = at
      BY <1>3, <3>1 DEF GeneratedRow, Verified
    <3>2. CASE k # at
      <4>1. PICK i \in DOMAIN rows : rows'[k] = rows[i]
        BY <1>3, <3>2
      <4> QED  BY <2>1, <4>1 DEF RowsOK, GeneratesForTheDrama
    <3> QED  BY <3>1, <3>2
  <2> QED  BY <2>1 DEF GeneratesForTheDrama
<1>8. Known(url)'
  BY <1>3 DEF Known, GeneratedRow
<1>9. \A k \in DOMAIN rows' : rows'[k].url \in 1 .. Len(rows')
  BY <1>1, <1>5
<1> QED  BY <1>1, <1>6, <1>7, <1>8, <1>9 DEF RowsOK

-----------------------------------------------------------------------------
(* What the steps do to the list.                                           *)

LEMMA BestIs == RunOK => Tier \in Tiers /\ Best \in Choice
BY DEF RunOK, Run, Tier, Tiers, Best

\* Each generation adds one row, for the verified drama and in the right app.
LEMMA GeneratedIaaRow ==
    ASSUME RowsOK, AppOK, RunOK, GenerateIaa
    PROVE  \E r : GeneratedRow(r) /\ Grows(r)
<1>1. PICK d \in SelectAndVerify :
          /\ Opened("FREE")
          /\ Listed([url |-> NewUrl, name |-> d.name, entry |-> app',
                     marked |-> run.episode, digits |-> {run.episode}, title |-> "",
                     tier |-> 0, drama |-> d])
  BY DEF GenerateIaa
<1>2. PICK r : r = [url |-> NewUrl, name |-> d.name, entry |-> app',
                    marked |-> run.episode, digits |-> {run.episode}, title |-> "",
                    tier |-> 0, drama |-> d]
  OBVIOUS
<1>3. Verified(d) /\ d \in Catalogue /\ d.name = "same"
  BY SelectedIsVerified DEF Verified
<1>4. app' = "FREE" /\ NewUrl \in Nat /\ run.episode \in {1, 2}
  BY <1>1, ContextIs, NewUrlIsNew DEF Opened, RunOK, Run
<1>5. r \in Row
  BY <1>2, <1>3, <1>4 DEF Row, Names
<1>6. GeneratedRow(r)
  <2>1. /\ r.url = NewUrl /\ r.drama = d /\ r.name = d.name /\ r.entry = app'
        /\ r.marked = run.episode
    BY <1>2
  <2>2. r.marked # 0 /\ r.entry = "FREE"
    BY <1>4, <2>1
  <2> QED  BY <1>3, <1>5, <2>1, <2>2 DEF GeneratedRow
<1>7. Grows(r)
  BY <1>1, <1>2, <1>5, ListedGrows DEF RowsOK
<1> QED  BY <1>6, <1>7

LEMMA GeneratedIapRow ==
    ASSUME RowsOK, AppOK, RunOK, GenerateIap
    PROVE  \E r : GeneratedRow(r) /\ Grows(r)
<1>1. PICK d \in SelectAndVerify :
          /\ app' = EnsureContext("PAID")
          /\ Listed([url |-> NewUrl, name |-> d.name, entry |-> app',
                     marked |-> 0, digits |-> {}, title |-> Best.title,
                     tier |-> ClassifyPrice(Best.price), drama |-> d])
  BY DEF GenerateIap
<1>2. PICK r : r = [url |-> NewUrl, name |-> d.name, entry |-> app',
                    marked |-> 0, digits |-> {}, title |-> Best.title,
                    tier |-> ClassifyPrice(Best.price), drama |-> d]
  OBVIOUS
<1>3. Verified(d) /\ d \in Catalogue /\ d.name = "same"
  BY SelectedIsVerified DEF Verified
<1>4. app' = "PAID" /\ NewUrl \in Nat
  BY <1>1, ContextIs, NewUrlIsNew
<1>5. Best.title \in Template \cup {""}
  BY BestIs DEF Choice
<1>6. ClassifyPrice(Best.price) \in Tiers \cup {0}
  BY DEF ClassifyPrice, Tiers
<1>7. r \in Row
  BY <1>2, <1>3, <1>4, <1>5, <1>6 DEF Row, Names
<1>8. GeneratedRow(r)
  BY <1>2, <1>3, <1>4, <1>7 DEF GeneratedRow
<1>9. Grows(r)
  BY <1>1, <1>2, <1>7, ListedGrows DEF RowsOK
<1> QED  BY <1>8, <1>9

\* Nothing but a generation changes the list, and nothing changes who was confirmed.
LEMMA ListChanges ==
    ASSUME [TENext]_TEvars
    PROVE  confirmed' = confirmed /\ (GenerateIaa \/ GenerateIap \/ rows' = rows)
BY DEF TENext, ExtractNext, TEvars, Start, GetEpisodeCount, ReuseIaa, NoIaaListed, GenerateIaa,
       IaaRefused, IaaStillUnlisted, Raise, SearchExistingIap, NoPaidContext, ScanIapTemplates,
       RetryScan, ScanFails, SkipTier, IapFromCache, IapFromList, IapFromSite, GenerateIap,
       IapRefused, IapFromFallback, IapStillUnlisted, TierFails, BuildLinkSnapshot, CutOff

LEMMA RowsStep ==
    ASSUME ExtractionInv, [TENext]_TEvars
    PROVE  RowsOK' /\ (\A url : Known(url) => Known(url)') /\ \A url : Link(url) => Link(url)'
<1>1. confirmed' = confirmed
  BY ListChanges
<1>2. RowsOK' /\ \A url : Known(url) => Known(url)'
  <2>1. CASE rows' = rows
    <3>1. RowsOK'
      BY <1>1, <2>1 DEF ExtractionInv, RowsOK, GeneratesForTheDrama
    <3>2. \A url : Known(url) => Known(url)'
      BY <2>1 DEF Known
    <3> QED  BY <3>1, <3>2
  <2>2. CASE GenerateIaa \/ GenerateIap
    <3>1. PICK r : GeneratedRow(r) /\ Grows(r)
      BY <2>2, GeneratedIaaRow, GeneratedIapRow DEF ExtractionInv
    <3>2. RowsOK'
      BY <1>1, <3>1, GrowingKeepsRows DEF ExtractionInv
    <3> QED  BY <3>1, <3>2, GrowingKeepsKnown
  <2> QED  BY <2>1, <2>2, ListChanges
<1>3. \A url : Link(url) => Link(url)'
  BY <1>2 DEF Link
<1> QED  BY <1>2, <1>3

\* The URL that was read is the new one, which is known from then on, or it is no link.
LEMMA ReadIsLink ==
    ASSUME ExtractionInv, GenerateIaa \/ GenerateIap, NEW url \in Read
    PROVE  url \in Int /\ Link(url)' /\ (url = NoUrl \/ url = BadUrl \/ ~Link(url))
<1>1. confirmed' = confirmed
  BY DEF GenerateIaa, GenerateIap
<1>2. PICK r : GeneratedRow(r) /\ Grows(r)
  BY GeneratedIaaRow, GeneratedIapRow DEF ExtractionInv
<1>3. NewUrl \in Nat \ {0} /\ ~Link(NewUrl)
  BY NewUrlIsNew DEF ExtractionInv
<1>4. CASE url = NewUrl
  <2>1. Known(url)'
    BY <1>1, <1>2, <1>4, GrowingKeepsRows DEF ExtractionInv
  <2> QED  BY <1>3, <1>4, <2>1 DEF Link
<1>5. CASE url \in {NoUrl, BadUrl}
  BY <1>5 DEF Link, NoUrl, BadUrl
<1> QED  BY <1>4, <1>5 DEF Read

-----------------------------------------------------------------------------
(* The app and the caches.                                                  *)

LEMMA AppStep ==
    ASSUME ExtractionInv, [TENext]_TEvars PROVE AppOK'
<1> USE DEF ExtractionInv
<1>1. tomato \in [context : {"", "FREE", "PAID"}, cache : Seq(CacheEntry),
                  listed : Seq(Row), claimed : SUBSET Int]
  BY DEF CachesOK
<1>2. EnsureContext("FREE") = "FREE" /\ EnsureContext("PAID") = "PAID"
  BY ContextIs
<1>3. CASE app' = app /\ (tomato'.context = tomato.context \/ tomato'.context = "")
  BY <1>3 DEF AppOK
<1>4. CASE app' \in {"FREE", "PAID"} /\ tomato'.context = app'
  BY <1>4 DEF AppOK
<1>5. CASE UNCHANGED <<app, tomato>>
  BY <1>3, <1>5
<1>6. CASE app' = app /\ EndRun
  BY <1>3, <1>6 DEF EndRun, NewAdapter
<1>7. CASE Opened("FREE") \/ Opened("PAID")
  BY <1>1, <1>2, <1>4, <1>7 DEF Opened
<1>8. CASE SearchExistingIap \/ IapFromCache \/ IapFromFallback \/ TierFails \/ IapFromList
  BY <1>1, <1>3, <1>8
  DEF SearchExistingIap, IapFromCache, IapFromFallback, TierFails, IapFromList, Claimed
<1>9. CASE IapFromSite \/ GenerateIap \/ IapRefused
  BY <1>1, <1>2, <1>4, <1>9 DEF IapFromSite, GenerateIap, IapRefused, Claimed
<1> QED
  BY <1>5, <1>6, <1>7, <1>8, <1>9
  DEF TENext, ExtractNext, TEvars, Start, GetEpisodeCount, ReuseIaa, NoIaaListed, GenerateIaa,
       IaaRefused, IaaStillUnlisted, Raise, NoPaidContext, ScanIapTemplates,
       RetryScan, ScanFails, SkipTier, IapStillUnlisted, BuildLinkSnapshot, CutOff

\* A step keeps the caches right if it removes entries of the cache and claims links.
LEMMA CachesKept ==
    ASSUME ExtractionInv, [TENext]_TEvars,
           NEW context \in {"", "FREE", "PAID"}, NEW cache,
           cache = tomato.cache \/ \E places : cache = Kept(tomato.cache, places),
           NEW new \in SUBSET Int, \A url \in new : Link(url)',
           tomato' = [context |-> context, cache |-> cache, listed |-> tomato.listed,
                      claimed |-> tomato.claimed \cup new]
    PROVE  CachesOK'
<1>1. CachesOK
  BY DEF ExtractionInv
<1>2. (\A url : Known(url) => Known(url)') /\ \A url : Link(url) => Link(url)'
  BY RowsStep
<1>3. tomato.cache \in Seq(CacheEntry) /\ tomato.listed \in Seq(Row) /\ tomato.claimed \in SUBSET Int
  BY <1>1 DEF CachesOK
<1>4. cache \in Seq(CacheEntry) /\ \A i \in DOMAIN cache : Known(cache[i].url)
  <2>1. CASE cache = tomato.cache
    BY <1>1, <1>3, <2>1 DEF CachesOK
  <2>2. ASSUME NEW places, cache = Kept(tomato.cache, places)
        PROVE  cache \in Seq(CacheEntry) /\ \A i \in DOMAIN cache : Known(cache[i].url)
    <3>1. cache \in Picks(CacheEntry, tomato.cache, places)
      BY <1>3, <2>2, KeptIs
    <3> QED  BY <1>1, <3>1 DEF Picks, CachesOK
  <2> QED  BY <2>1, <2>2
<1>5. /\ tomato'.cache = cache /\ tomato'.listed = tomato.listed
      /\ tomato'.claimed = tomato.claimed \cup new
  OBVIOUS
<1>6. tomato' \in [context : {"", "FREE", "PAID"}, cache : Seq(CacheEntry),
                   listed : Seq(Row), claimed : SUBSET Int]
  BY <1>3, <1>4
<1>7. (\A i \in DOMAIN tomato.listed : Known(tomato.listed[i].url))'
  <2>1. \A i \in DOMAIN tomato.listed : Known(tomato.listed[i].url)
    BY <1>1 DEF CachesOK
  <2> QED  BY <1>2, <1>5, <2>1, ZenonT(60) DEF Known
<1>8. (\A i \in DOMAIN tomato.cache : Known(tomato.cache[i].url))'
  BY <1>2, <1>4, <1>5, ZenonT(60) DEF Known
<1>9. (\A url \in tomato.claimed : Link(url))'
  BY <1>1, <1>2, <1>5 DEF CachesOK
<1> QED  BY <1>6, <1>7, <1>8, <1>9 DEF CachesOK

\* A cache gives a link that is known and that no tier has.
LEMMA CachedIsFree ==
    ASSUME CachesOK, NEW t
    PROVE  \/ Cached(t) = NoUrl
           \/ Known(Cached(t)) /\ Cached(t) \notin tomato.claimed
<1> DEFINE cache == tomato.cache
           hit == {i \in DOMAIN cache : cache[i].title = t.title /\ cache[i].order = t.order}
           free == {i \in DOMAIN cache : cache[i].url \notin tomato.claimed}
<1>1. cache \in Seq(CacheEntry) /\ \A i \in DOMAIN cache : Known(cache[i].url)
  BY DEF CachesOK
<1>2. Cached(t) = IF hit = {} THEN NoUrl
                  ELSE IF FirstUrl(cache, hit) \notin tomato.claimed THEN FirstUrl(cache, hit)
                  ELSE FirstUrl(cache, free)
  BY DEF Cached
<1>3. hit \in SUBSET DOMAIN cache /\ free \in SUBSET DOMAIN cache
  OBVIOUS
<1>4. FirstUrl(cache, hit) = NoUrl \/ Known(FirstUrl(cache, hit))
  BY <1>1, <1>3, FirstUrlKnown
<1>5. FirstUrl(cache, free) = NoUrl \/ \E i \in free : FirstUrl(cache, free) = cache[i].url
  BY <1>1, <1>3, FirstUrlIs
<1> QED  BY <1>1, <1>2, <1>4, <1>5

LEMMA ListedIsFree ==
    ASSUME CachesOK, NEW tier, NEW title
    PROVE  LET url == FindInListCache(tier, title)
           IN  url = NoUrl \/ (Known(url) /\ url \notin tomato.claimed)
<1> DEFINE listed == tomato.listed
           left   == {i \in DOMAIN listed : listed[i].url \notin tomato.claimed}
           priced == {i \in left : PriceInTargetRange(listed[i].tier, tier)}
           named  == {i \in left : listed[i].title # "" /\ listed[i].title = title}
           places == IF priced # {} THEN priced ELSE named
<1>1. listed \in Seq(Row) /\ \A i \in DOMAIN listed : Known(listed[i].url)
  BY DEF CachesOK
<1>2. FindInListCache(tier, title) = FirstUrl(listed, places)
  BY DEF FindInListCache
<1>3. places \in SUBSET DOMAIN listed /\ \A i \in places : listed[i].url \notin tomato.claimed
  OBVIOUS
<1> HIDE DEF places, listed
<1>4. FirstUrl(listed, places) = NoUrl \/ \E i \in places : FirstUrl(listed, places) = listed[i].url
  BY <1>1, <1>3, FirstUrlIs
<1> QED  BY <1>1, <1>2, <1>3, <1>4

\* What a search of the site shows is known; another tier may have it.
LEMMA SearchGives ==
    ASSUME RowsOK, NEW s \in Searched
    PROVE  /\ s \in Seq(Row) /\ \A i \in DOMAIN s : Known(s[i].url)
           /\ \A places \in SUBSET DOMAIN s : FirstUrl(s, places) = NoUrl \/ Known(FirstUrl(s, places))
<1>1. s \in Seq(Row) /\ \A i \in DOMAIN s : Known(s[i].url)
  BY SearchedKnown DEF Searched
<1> QED  BY <1>1, FirstUrlKnown

LEMMA IaaUrlKnown ==
    ASSUME RowsOK, NEW s1 \in Searched, NEW s2 \in Searched
    PROVE  ListedIaa(s1, s2) = NoUrl \/ Known(ListedIaa(s1, s2))
<1>1. FindIaa(s1, run.episode) = NoUrl \/ Known(FindIaa(s1, run.episode))
  BY SearchGives DEF FindIaa
<1>2. FindExistingEpisode(s2, run.episode) = NoUrl \/ Known(FindExistingEpisode(s2, run.episode))
  BY SearchGives DEF FindExistingEpisode
<1> QED  BY <1>1, <1>2 DEF ListedIaa

LEMMA IapUrlKnown ==
    ASSUME RowsOK, NEW s1 \in Searched, NEW s2 \in Searched
    PROVE  /\ ListedIap(s1, s2) = NoUrl \/ Known(ListedIap(s1, s2))
           /\ \/ FallbackIap(s1, s2) = NoUrl
              \/ Known(FallbackIap(s1, s2)) /\ FallbackIap(s1, s2) \notin tomato.claimed
<1>1. FindIap(s1, Tier) = NoUrl \/ Known(FindIap(s1, Tier))
  BY SearchGives DEF FindIap
<1>2. FindExistingTemplate(s2, Best.title) = NoUrl \/ Known(FindExistingTemplate(s2, Best.title))
  BY SearchGives DEF FindExistingTemplate
<1> DEFINE free == {i \in DOMAIN s2 : s2[i].url \notin tomato.claimed}
<1>3. s2 \in Seq(Row) /\ free \in SUBSET DOMAIN s2 /\ \A i \in DOMAIN s2 : Known(s2[i].url)
  BY SearchGives
<1>4. FirstUrl(s2, free) = NoUrl \/ \E i \in free : FirstUrl(s2, free) = s2[i].url
  BY <1>3, FirstUrlIs
<1>5. \/ FirstUrl(s2, free) = NoUrl
      \/ Known(FirstUrl(s2, free)) /\ FirstUrl(s2, free) \notin tomato.claimed
  BY <1>3, <1>4
<1>6. FallbackIap(s1, s2) =
          IF FindIap(s1, Tier) = NoUrl THEN FirstUrl(s2, free)
          ELSE IF FindIap(s1, Tier) \in tomato.claimed THEN NoUrl ELSE FindIap(s1, Tier)
  BY DEF FallbackIap
<1> QED  BY <1>1, <1>2, <1>5, <1>6 DEF ListedIap

LEMMA CachesStep ==
    ASSUME ExtractionInv, [TENext]_TEvars PROVE CachesOK'
<1> USE DEF ExtractionInv
<1>1. /\ tomato \in [context : {"", "FREE", "PAID"}, cache : Seq(CacheEntry),
                     listed : Seq(Row), claimed : SUBSET Int]
      /\ tomato.context \in {"", "FREE", "PAID"}
  BY DEF CachesOK
<1>2. (\A url : Known(url) => Known(url)') /\ \A url : Link(url) => Link(url)'
  BY RowsStep
<1>3. CASE UNCHANGED tomato
  <2>1. /\ tomato.context \in {"", "FREE", "PAID"} /\ {} \in SUBSET Int
        /\ tomato' = [context |-> tomato.context, cache |-> tomato.cache,
                      listed |-> tomato.listed, claimed |-> tomato.claimed \cup {}]
    BY <1>1, <1>3
  <2> QED  BY <2>1, CachesKept
<1>4. ASSUME NEW entry \in {"FREE", "PAID"}, Opened(entry) PROVE CachesOK'
  <2>1. /\ entry \in {"", "FREE", "PAID"} /\ {} \in SUBSET Int
        /\ tomato' = [context |-> entry, cache |-> tomato.cache,
                      listed |-> tomato.listed, claimed |-> tomato.claimed \cup {}]
    BY <1>1, <1>4 DEF Opened
  <2> QED  BY <2>1, CachesKept
<1>5. CASE EndRun
  <2>1. tomato' = [context |-> "", cache |-> <<>>, listed |-> <<>>, claimed |-> {}]
    BY <1>5 DEF EndRun, NewAdapter
  <2>2. <<>> \in Seq(CacheEntry) /\ <<>> \in Seq(Row) /\ DOMAIN <<>> = {}
    OBVIOUS
  <2>3. tomato' \in [context : {"", "FREE", "PAID"}, cache : Seq(CacheEntry),
                     listed : Seq(Row), claimed : SUBSET Int]
    BY <2>1, <2>2
  <2>4. tomato'.cache = <<>> /\ tomato'.listed = <<>> /\ tomato'.claimed = {}
    BY <2>1
  <2> QED  BY <2>2, <2>3, <2>4 DEF CachesOK
<1>6. CASE SearchExistingIap
  <2>1. PICK s \in ListIap :
            tomato' = [tomato EXCEPT !.claimed = {}, !.listed = s,
                          !.cache = [i \in DOMAIN s |->
                                       [title |-> s[i].title, order |-> i, url |-> s[i].url]]]
    BY <1>6 DEF SearchExistingIap
  <2>2. s \in Seq(Row) /\ \A i \in DOMAIN s : Known(s[i].url)
    BY SearchedKnown DEF ListIap
  <2> DEFINE cache == [i \in DOMAIN s |-> [title |-> s[i].title, order |-> i, url |-> s[i].url]]
  <2>3. Len(s) \in Nat /\ DOMAIN s = 1 .. Len(s) /\ \A i \in 1 .. Len(s) : s[i] \in Row
    BY <2>2
  <2>4. ASSUME NEW i \in 1 .. Len(s)
        PROVE  [title |-> s[i].title, order |-> i, url |-> s[i].url] \in CacheEntry
    <3>1. i \in Nat
      BY <2>3
    <3>2. s[i] \in Row
      BY <2>3
    <3>3. s[i].title \in Template \cup {""} /\ s[i].url \in Nat
      BY ONLY <3>2 DEF Row
    <3>4. \A a \in Template \cup {""}, b \in Nat, c \in Int :
              [title |-> a, order |-> b, url |-> c] \in CacheEntry
      BY Zenon DEF CacheEntry
    <3>5. s[i].url \in Int
      <4>1. \A n \in Nat : n \in Int
        OBVIOUS
      <4> QED  BY ONLY <3>3, <4>1, Zenon
    <3> QED  BY ONLY <3>1, <3>3, <3>4, <3>5
  <2>5. cache \in Seq(CacheEntry)
    BY <2>3, <2>4
  <2>6. DOMAIN cache = DOMAIN s /\ \A i \in DOMAIN s : cache[i].url = s[i].url
    OBVIOUS
  <2> HIDE DEF cache
  <2>7. /\ tomato' = [context |-> tomato.context, cache |-> cache, listed |-> s, claimed |-> {}]
    BY <1>1, <2>1 DEF cache
  <2>8. /\ tomato'.context = tomato.context /\ tomato'.cache = cache /\ tomato'.listed = s
        /\ tomato'.claimed = {}
    BY <2>7
  <2>9. tomato' \in [context : {"", "FREE", "PAID"}, cache : Seq(CacheEntry),
                     listed : Seq(Row), claimed : SUBSET Int]
    BY <1>1, <2>2, <2>5, <2>7
  <2>10. (\A i \in DOMAIN tomato.listed : Known(tomato.listed[i].url))'
    BY <1>2, <2>2, <2>8 DEF Known
  <2>11. (\A i \in DOMAIN tomato.cache : Known(tomato.cache[i].url))'
    <3>1. DOMAIN tomato'.cache = DOMAIN cache /\ \A i \in DOMAIN cache : Known(cache[i].url)
      BY <2>2, <2>6, <2>8
    <3> QED  BY <1>2, <2>8, <3>1 DEF Known
  <2> QED  BY <2>8, <2>9, <2>10, <2>11 DEF CachesOK
<1>7. ASSUME NEW new \in SUBSET Int, \A url \in new : Link(url)', NEW context \in {"", "FREE", "PAID"},
             NEW cache, cache = tomato.cache \/ \E places : cache = Kept(tomato.cache, places),
             tomato' = [tomato EXCEPT !.context = context, !.claimed = @ \cup new, !.cache = cache]
      PROVE  CachesOK'
  <2>1. tomato' = [context |-> context, cache |-> cache, listed |-> tomato.listed,
                   claimed |-> tomato.claimed \cup new]
    BY <1>1, <1>7
  <2> QED  BY <1>7, <2>1, CachesKept
<1>8. ASSUME NEW url, Link(url) PROVE url \in Int /\ Link(url)' /\ {url} \in SUBSET Int
  BY <1>2, <1>8, KnownNumbers DEF Link, NoUrl, BadUrl
<1>9. \A t, url : \E places : Uncached(t, url) = Kept(tomato.cache, places)
  BY DEF Uncached
<1>10. CASE IapFromCache
  <2>1. PICK url, cache : url = Cached(Best) /\ cache = Uncached(Best, url)
    OBVIOUS
  <2>2. Link(url)
    BY <1>10, <2>1, CachedIsFree DEF IapFromCache, Link
  <2>3. tomato' = [tomato EXCEPT !.context = tomato.context, !.claimed = @ \cup {url}, !.cache = cache]
    BY <1>1, <1>10, <2>1 DEF IapFromCache
  <2> QED  BY <1>1, <1>7, <1>8, <1>9, <2>1, <2>2, <2>3, ZenonT(60)
<1>11. ASSUME NEW url, Link(url) \/ (url \in Int /\ Link(url)'), NEW context \in {"", "FREE", "PAID"},
              tomato' = [Claimed(url) EXCEPT !.context = context]
       PROVE  CachesOK'
  <2>1. PICK cache : cache = Uncached(Best, NoUrl)
    OBVIOUS
  <2>2. url \in Int /\ Link(url)' /\ {url} \in SUBSET Int
    BY <1>8, <1>11
  <2>3. tomato' = [tomato EXCEPT !.context = context, !.claimed = @ \cup {url}, !.cache = cache]
    BY <1>1, <1>11, <2>1 DEF Claimed
  <2>4. (\E places : cache = Kept(tomato.cache, places)) /\ \A u \in {url} : Link(u)'
    BY <1>9, <2>1, <2>2
  <2> QED  BY <1>7, <1>11, <2>2, <2>3, <2>4
<1>12. CASE IapFromList
  <2>1. PICK url : url = FindInListCache(Tier, Best.title)
    OBVIOUS
  <2>2. Link(url) /\ tomato' = Claimed(url)
    BY <1>12, <2>1, ListedIsFree DEF IapFromList, Link
  <2>3. PICK context \in {"", "FREE", "PAID"} : context = tomato.context
    BY <1>1
  <2>4. tomato' = [Claimed(url) EXCEPT !.context = context]
    BY <1>1, <2>2, <2>3 DEF Claimed
  <2> QED  BY <1>11, <2>2, <2>4
<1>13. CASE IapFromSite
  <2>1. PICK s1 \in Searched, s2 \in Searched :
            tomato' = [Claimed(ListedIap(s1, s2)) EXCEPT !.context = "PAID"]
    BY <1>13 DEF IapFromSite
  <2>2. PICK url : url = ListedIap(s1, s2)
    OBVIOUS
  <2>3. Link(url)
    BY <2>2, IapUrlKnown DEF Link
  <2> QED  BY <1>11, <2>1, <2>2, <2>3
<1>14. CASE GenerateIap
  <2>1. PICK url \in Read : tomato' = [Claimed(url) EXCEPT !.context = "PAID"]
    BY <1>14 DEF GenerateIap
  <2>2. url \in Int /\ Link(url)'
    BY <1>14, ReadIsLink
  <2> QED  BY <1>11, <2>1, <2>2
<1>15. CASE IapRefused \/ TierFails
  <2>1. PICK cache : cache = Uncached(Best, NoUrl)
    OBVIOUS
  <2>2. PICK context \in {"", "FREE", "PAID"} : tomato' = [tomato EXCEPT !.context = context, !.cache = cache]
    <3>1. CASE IapRefused
      BY <2>1, <3>1 DEF IapRefused
    <3>2. CASE TierFails
      <4>1. tomato' = [tomato EXCEPT !.context = tomato.context, !.cache = cache]
        BY <1>1, <2>1, <3>2 DEF TierFails
      <4> QED  BY <1>1, <4>1
    <3> QED  BY <1>15, <3>1, <3>2
  <2>3. tomato' = [tomato EXCEPT !.context = context, !.claimed = @ \cup {}, !.cache = cache]
    BY <1>1, <2>2
  <2>4. {} \in SUBSET Int /\ \A url \in {} : Link(url)'
    OBVIOUS
  <2> QED  BY <1>7, <1>9, <2>1, <2>3, <2>4
<1>16. CASE IapFromFallback
  <2>1. PICK s1 \in Searched, s2 \in Searched :
            tomato' = [tomato EXCEPT !.claimed = @ \cup {FallbackIap(s1, s2)}]
    BY <1>16 DEF IapFromFallback
  <2>2. PICK url : url = FallbackIap(s1, s2)
    OBVIOUS
  <2>3. Link(url)
    BY <2>2, IapUrlKnown DEF Link
  <2>4. tomato' = [tomato EXCEPT !.context = tomato.context, !.claimed = @ \cup {url},
                                 !.cache = tomato.cache]
    BY <1>1, <2>1, <2>2
  <2> QED  BY <1>1, <1>7, <1>8, <2>3, <2>4
<1> QED
  BY <1>3, <1>4, <1>5, <1>6, <1>10, <1>12, <1>13, <1>14, <1>15, <1>16
  DEF TENext, ExtractNext, TEvars, Start, GetEpisodeCount, ReuseIaa, NoIaaListed, GenerateIaa,
       IaaRefused, IaaStillUnlisted, Raise, NoPaidContext, ScanIapTemplates,
       RetryScan, ScanFails, SkipTier, IapStillUnlisted, BuildLinkSnapshot, CutOff

-----------------------------------------------------------------------------
(* The run.                                                                 *)

\* What a tier can take for its link: none that the other tier has claimed, and it
\* claims it.
Takes(url) ==
    /\ AtTier \/ AtTierAgain
    /\ url \in Int /\ Link(url)'
    /\ ValidUrl(url) => url \notin tomato.claimed /\ url \in tomato'.claimed
    /\ tomato.claimed \subseteq tomato'.claimed

TakeIap == SkipTier \/ IapFromCache \/ IapFromList \/ IapFromSite \/ GenerateIap \/ IapFromFallback

\* Each of the six ways to get a tier's link.
LEMMA TakesLink ==
    ASSUME ExtractionInv, [TENext]_TEvars, TakeIap
    PROVE  \E url : GotIap(url) /\ Takes(url)
<1> USE DEF ExtractionInv
<1>1. /\ tomato \in [context : {"", "FREE", "PAID"}, cache : Seq(CacheEntry),
                     listed : Seq(Row), claimed : SUBSET Int]
  BY DEF CachesOK
<1>2. \A url : Link(url) => Link(url)'
  BY RowsStep
<1>3. ASSUME NEW url, Link(url) PROVE url \in Int /\ Link(url)'
  BY <1>2, <1>3, KnownNumbers DEF Link, NoUrl, BadUrl
<1>4. Link(NoUrl) /\ ~ValidUrl(NoUrl)
  BY DEF Link, ValidUrl
<1>5. CASE SkipTier
  BY <1>3, <1>4, <1>5 DEF SkipTier, Takes
<1>6. CASE IapFromCache
  <2>1. PICK url : url = Cached(Best)
    OBVIOUS
  <2>2. Link(url) /\ url \notin tomato.claimed
    BY <1>6, <2>1, CachedIsFree DEF IapFromCache, Link
  <2>3. AtTier /\ GotIap(url) /\ tomato'.claimed = tomato.claimed \cup {url}
    BY <1>1, <1>6, <2>1 DEF IapFromCache
  <2> QED  BY <1>3, <2>2, <2>3 DEF Takes
<1>7. CASE IapFromList
  <2>1. PICK url : url = FindInListCache(Tier, Best.title)
    OBVIOUS
  <2>2. Link(url) /\ url \notin tomato.claimed
    BY <1>7, <2>1, ListedIsFree DEF IapFromList, Link
  <2>3. AtTier /\ GotIap(url) /\ tomato'.claimed = tomato.claimed \cup {url}
    BY <1>1, <1>7, <2>1 DEF IapFromList, Claimed, Uncacheable
  <2> QED  BY <1>3, <2>2, <2>3 DEF Takes
<1>8. CASE IapFromSite
  <2>1. PICK s1 \in Searched, s2 \in Searched :
            /\ ListedIap(s1, s2) \notin tomato.claimed
            /\ tomato' = [Claimed(ListedIap(s1, s2)) EXCEPT !.context = "PAID"]
            /\ GotIap(ListedIap(s1, s2))
    BY <1>8 DEF IapFromSite
  <2>2. PICK url : url = ListedIap(s1, s2)
    OBVIOUS
  <2>3. Link(url) /\ url \notin tomato.claimed
    BY <2>1, <2>2, IapUrlKnown DEF Link
  <2>4. AtTier /\ GotIap(url) /\ tomato'.claimed = tomato.claimed \cup {url}
    BY <1>1, <1>8, <2>1, <2>2 DEF IapFromSite, Claimed, MustAskSite, Uncacheable
  <2> QED  BY <1>3, <2>3, <2>4 DEF Takes
<1>9. CASE GenerateIap
  <2>1. PICK url \in Read : tomato' = [Claimed(url) EXCEPT !.context = "PAID"] /\ GotIap(url)
    BY <1>9 DEF GenerateIap
  <2>2. url \in Int /\ Link(url)' /\ (url = NoUrl \/ url = BadUrl \/ ~Link(url))
    BY <1>9, ReadIsLink
  <2>3. ValidUrl(url) => url \notin tomato.claimed
    BY <2>2 DEF ValidUrl, CachesOK
  <2>4. AtTier /\ tomato'.claimed = tomato.claimed \cup {url}
    BY <1>1, <1>9, <2>1 DEF GenerateIap, Claimed, MustAskSite, Uncacheable
  <2> QED  BY <2>1, <2>2, <2>3, <2>4 DEF Takes
<1>10. CASE IapFromFallback
  <2>1. PICK s1 \in Searched, s2 \in Searched :
            /\ FallbackIap(s1, s2) # NoUrl
            /\ tomato' = [tomato EXCEPT !.claimed = @ \cup {FallbackIap(s1, s2)}]
            /\ GotIap(FallbackIap(s1, s2))
    BY <1>10 DEF IapFromFallback
  <2>2. PICK url : url = FallbackIap(s1, s2)
    OBVIOUS
  <2>3. Link(url) /\ url \notin tomato.claimed
    BY <2>1, <2>2, IapUrlKnown DEF Link
  <2>4. AtTierAgain /\ GotIap(url) /\ tomato'.claimed = tomato.claimed \cup {url}
    BY <1>1, <1>10, <2>1, <2>2 DEF IapFromFallback
  <2> QED  BY <1>3, <2>3, <2>4 DEF Takes
<1> QED  BY <1>5, <1>6, <1>7, <1>8, <1>9, <1>10 DEF TakeIap

\* The templates that are picked are among the ones that were found, or none.
LEMMA PickedTemplates ==
    ASSUME NEW S \in SUBSET Choice, PickTemplates(S)
    PROVE  \E best \in [Tiers -> Choice] :
               run' = [run EXCEPT !.best = best, !.existing = {}, !.pc = "29", !.tries = 0]
<1>1. NoTemplate \in Choice
  BY DEF NoTemplate, Choice
<1>2. \A tier : InRangeTemplates(S, tier) \in SUBSET Choice
  BY DEF InRangeTemplates
<1>3. \A T \in SUBSET Choice : \A tier : PickBest(T, tier) \subseteq Choice
  BY <1>1 DEF PickBest
<1>4. PICK low \in PickBest(InRangeTemplates(S, 29), 29),
            high \in PickBest(InRangeTemplates(S, 99), 99) :
          run' = [run EXCEPT !.best = [p \in Tiers |-> IF p = 29 THEN low ELSE high],
                             !.existing = {}, !.pc = "29", !.tries = 0]
  BY DEF PickTemplates
<1>7. low \in Choice /\ high \in Choice
  BY <1>2, <1>3
<1>5. PICK best : best = [p \in Tiers |-> IF p = 29 THEN low ELSE high]
  OBVIOUS
<1>6. best \in [Tiers -> Choice]
  BY <1>5, <1>7
<1> QED  BY <1>4, <1>5, <1>6

\* What the list and the page show of the templates.
LEMMA KnownTemplates ==
    ASSUME NEW s \in Seq(Row)
    PROVE  {[title |-> s[i].title, price |-> s[i].tier, order |-> i] : i \in DOMAIN s} \subseteq Choice
<1>1. ASSUME NEW i \in DOMAIN s
      PROVE  [title |-> s[i].title, price |-> s[i].tier, order |-> i] \in Choice
  <2>1. s[i] \in Row /\ i \in Nat
    OBVIOUS
  <2>2. s[i].title \in Template \cup {""} /\ s[i].tier \in Tiers \cup {0}
    BY ONLY <2>1 DEF Row
  <2>3. \A n \in Tiers \cup {0} : n \in Nat
    BY DEF Tiers
  <2>4. s[i].tier \in Nat
    BY ONLY <2>2, <2>3, Zenon
  <2> QED  BY ONLY <2>1, <2>2, <2>4, Zenon DEF Choice
<1> QED  BY <1>1

LEMMA ScannedTemplates ==
    ASSUME NEW found \in ScanTemplates, run.existing \in SUBSET Choice
    PROVE  MergeTemplates(found) \in SUBSET Choice
<1>1. PICK s \in PageOrders, read \in BOOLEAN :
          found = {[title |-> s[i], price |-> IF read THEN PriceOf[s[i]] ELSE 0, order |-> i] :
                      i \in DOMAIN s}
  BY DEF ScanTemplates
<1>2. PICK n \in 0 .. Cardinality(Template) : s \in [1 .. n -> Template]
  BY DEF PageOrders
<1>3. ASSUME NEW i \in DOMAIN s
      PROVE  [title |-> s[i], price |-> IF read THEN PriceOf[s[i]] ELSE 0, order |-> i] \in Choice
  <2>1. s[i] \in Template /\ i \in Nat
    BY <1>2
  <2>2. PriceOf[s[i]] \in Nat /\ 0 \in Nat
    BY <2>1, TomatoAssumption
  <2> QED  BY <2>1, <2>2 DEF Choice
<1>4. found \in SUBSET Choice
  BY <1>1, <1>3
<1> QED  BY <1>4 DEF MergeTemplates

\* A run stays one when the fields that most steps change get values of their kinds.
LEMMA RunRecord ==
    ASSUME NEW r \in Run, NEW links \in [Types -> Int], NEW failed \in SUBSET {"IAP", "29", "99"},
           NEW pc \in Pcs, NEW tries \in 0 .. ScanTries - 1,
           NEW s, s = [r EXCEPT !.links = links, !.failed = failed, !.pc = pc, !.tries = tries]
    PROVE  s \in Run
BY DEF Run

\* ... and when templates have been picked.
LEMMA RunRecordPicked ==
    ASSUME NEW r \in Run, NEW best \in [Tiers -> Choice], NEW tries \in 0 .. ScanTries - 1,
           NEW pc \in Pcs, NEW none \in SUBSET Choice,
           NEW s, s = [r EXCEPT !.best = best, !.existing = none, !.pc = pc, !.tries = tries]
    PROVE  s \in Run
BY DEF Run

LEMMA RunTypesStep ==
    ASSUME ExtractionInv, [TENext]_TEvars PROVE run' \in Run
<1>1. run \in Run
  BY DEF ExtractionInv, RunOK
<1>2. CASE UNCHANGED run
  BY <1>1, <1>2
<1>21. /\ run.links \in [Types -> Int] /\ run.failed \in SUBSET {"IAP", "29", "99"}
       /\ run.pc \in Pcs /\ run.tries \in 0 .. ScanTries - 1
  BY <1>1 DEF Run
<1>22. 0 \in 0 .. ScanTries - 1 /\ {"scan", "report"} \subseteq Pcs
  BY DEF ScanTries, Pcs
<1>23. run.tries < ScanTries - 1 \/ run.tries < FallbackTries - 1 => run.tries + 1 \in 0 .. ScanTries - 1
  BY <1>21 DEF ScanTries, FallbackTries
<1>3. NoRun \in Run
  <2>1. NoTemplate \in Choice /\ NoUrl \in Int
    BY DEF NoTemplate, Choice, NoUrl
  <2>2. [y \in Types |-> NoUrl] \in [Types -> Int] /\ [p \in Tiers |-> NoTemplate] \in [Tiers -> Choice]
    BY <2>1
  <2>3. "idle" \in Pcs /\ {} \in SUBSET {"IAP", "29", "99"} /\ {} \in SUBSET Choice
        /\ 0 \in 0 .. ScanTries - 1 /\ 1 \in {1, 2}
    BY DEF Pcs, ScanTries
  <2> QED  BY <2>2, <2>3 DEF NoRun, Run
<1>4. CASE EndRun
  BY <1>3, <1>4 DEF EndRun
<1>5. CASE Start
  BY <1>3, <1>5 DEF Start, Run, Pcs
<1>6. CASE GetEpisodeCount
  BY <1>1, <1>6 DEF GetEpisodeCount, Run, Pcs
<1>7. CASE ReuseIaa
  <2>1. PICK s1 \in Searched, s2 \in Searched :
            run' = [run EXCEPT !.links[IAA] = ListedIaa(s1, s2), !.pc = "scan", !.tries = 0]
    BY <1>7 DEF ReuseIaa
  <2>2. ListedIaa(s1, s2) \in Int
    BY IaaUrlKnown, KnownNumbers DEF ExtractionInv, NoUrl
  <2>3. PICK links \in [Types -> Int] : links = [run.links EXCEPT ![IAA] = ListedIaa(s1, s2)]
    BY <1>1, <2>2 DEF Run
  <2>4. run' = [run EXCEPT !.links = links, !.failed = run.failed, !.pc = "scan", !.tries = 0]
    BY <1>1, <2>1, <2>3 DEF Run
  <2> QED  BY <1>1, <1>21, <1>22, <2>4, RunRecord
<1>8. CASE GenerateIaa
  <2>1. PICK url \in Read : run' = [run EXCEPT !.links[IAA] = url, !.pc = "scan"]
    BY <1>8 DEF GenerateIaa
  <2>2. url \in Int
    BY <1>8, ReadIsLink
  <2>3. PICK links \in [Types -> Int] : links = [run.links EXCEPT ![IAA] = url]
    BY <1>1, <2>2 DEF Run
  <2>4. run' = [run EXCEPT !.links = links, !.pc = "scan"]
    BY <1>1, <2>1, <2>3 DEF Run
  <2> QED  BY <1>1, <2>4 DEF Run, Pcs
<1>9. CASE NoIaaListed \/ IaaRefused
  BY <1>1, <1>9 DEF NoIaaListed, IaaRefused, Run, Pcs
<1>16. CASE IaaStillUnlisted
  <2>1. /\ run' = [run EXCEPT !.links = run.links, !.failed = run.failed, !.pc = run.pc,
                             !.tries = run.tries + 1]
        /\ run.tries + 1 \in 0 .. ScanTries - 1
    BY <1>1, <1>16, <1>23 DEF IaaStillUnlisted, Run
  <2> QED  BY <1>1, <1>21, <2>1, RunRecord
<1>17. CASE RetryScan
  <2>1. /\ run' = [run EXCEPT !.links = run.links, !.failed = run.failed, !.pc = "scan",
                             !.tries = run.tries + 1]
        /\ run.tries + 1 \in 0 .. ScanTries - 1
    BY <1>1, <1>17, <1>23 DEF RetryScan, Run
  <2>2. "scan" \in Pcs
    BY DEF Pcs
  <2> QED  BY <1>1, <1>21, <2>1, <2>2, RunRecord
<1>18. CASE ScanFails
  <2>1. PICK failed \in SUBSET {"IAP", "29", "99"} : failed = run.failed \cup {"IAP"}
    BY <1>1 DEF Run
  <2>2. run' = [run EXCEPT !.links = run.links, !.failed = failed, !.pc = "report", !.tries = run.tries]
    BY <1>1, <1>18, <2>1 DEF ScanFails, Run
  <2>3. "report" \in Pcs
    BY DEF Pcs
  <2> QED  BY <1>1, <1>21, <2>1, <2>2, <2>3, RunRecord
<1>10. ASSUME NEW S \in SUBSET Choice, PickTemplates(S) PROVE run' \in Run
  <2>1. PICK best \in [Tiers -> Choice] :
            run' = [run EXCEPT !.best = best, !.existing = {}, !.pc = "29", !.tries = 0]
    BY <1>10, PickedTemplates
  <2>2. {} \in SUBSET Choice /\ "29" \in Pcs
    BY DEF Pcs
  <2> QED  BY <1>1, <1>22, <2>1, <2>2, RunRecordPicked
<1>11. CASE SearchExistingIap
  <2>1. PICK s \in ListIap : \E known :
            /\ known = {[title |-> s[i].title, price |-> s[i].tier, order |-> i] : i \in DOMAIN s}
            /\ \/ PickTemplates(known)
               \/ run' = [run EXCEPT !.pc = "paid", !.existing = known]
    BY <1>11 DEF SearchExistingIap
  <2>4. PICK known :
            /\ known = {[title |-> s[i].title, price |-> s[i].tier, order |-> i] : i \in DOMAIN s}
            /\ \/ PickTemplates(known)
               \/ run' = [run EXCEPT !.pc = "paid", !.existing = known]
    BY <2>1
  <2>2. s \in Seq(Row)
    BY SearchedKnown DEF ListIap, ExtractionInv
  <2>3. known \in SUBSET Choice
    BY <2>2, <2>4, KnownTemplates
  <2> QED  BY <1>1, <1>10, <2>3, <2>4 DEF Run, Pcs
<1>12. CASE NoPaidContext \/ ScanIapTemplates
  <2>1. run.existing \in SUBSET Choice
    BY <1>1 DEF Run
  <2> QED  BY <1>10, <1>12, <2>1, ScannedTemplates DEF NoPaidContext, ScanIapTemplates
<1>13. ASSUME NEW url \in Int, GotIap(url) PROVE run' \in Run
  <2>1. AfterTier \in Pcs /\ 0 \in 0 .. ScanTries - 1
    BY DEF AfterTier, Pcs, ScanTries
  <2>2. PICK links : links = [run.links EXCEPT ![Tier] = url]
    OBVIOUS
  <2>3. links \in [Types -> Int]
    BY <1>1, <2>2 DEF Run
  <2>4. run' = [run EXCEPT !.links = links, !.pc = AfterTier, !.tries = 0]
    BY <1>1, <1>13, <2>2 DEF GotIap, Run
  <2> QED  BY <1>1, <2>1, <2>3, <2>4 DEF Run
<1>14. CASE TakeIap
  BY <1>13, <1>14, TakesLink DEF Takes
<1>15. CASE IapRefused
  <2>1. PICK pc \in Pcs : pc = IF Tier = 29 THEN "29again" ELSE "99again"
    BY DEF Pcs
  <2>2. run' = [run EXCEPT !.links = run.links, !.failed = run.failed, !.pc = pc, !.tries = 0]
    BY <1>1, <1>15, <2>1 DEF IapRefused, Run
  <2> QED  BY <1>1, <1>21, <1>22, <2>2, RunRecord
<1>19. CASE IapStillUnlisted
  <2>1. /\ run' = [run EXCEPT !.links = run.links, !.failed = run.failed, !.pc = run.pc,
                             !.tries = run.tries + 1]
        /\ run.tries + 1 \in 0 .. ScanTries - 1
    BY <1>1, <1>19, <1>23 DEF IapStillUnlisted, Run
  <2> QED  BY <1>1, <1>21, <2>1, RunRecord
<1>20. CASE TierFails
  <2>1. PICK pc \in Pcs : pc = AfterTier
    BY DEF AfterTier, Pcs
  <2>2. PICK failed \in SUBSET {"IAP", "29", "99"} :
            failed = run.failed \cup {IF Tier = 29 THEN "29" ELSE "99"}
    BY <1>1 DEF Run
  <2>3. run' = [run EXCEPT !.links = run.links, !.failed = failed, !.pc = pc, !.tries = 0]
    BY <1>1, <1>20, <2>1, <2>2 DEF TierFails, Run
  <2> QED  BY <1>1, <1>21, <1>22, <2>1, <2>2, <2>3, RunRecord
<1> QED
  BY <1>2, <1>4, <1>5, <1>6, <1>7, <1>8, <1>9, <1>11, <1>12, <1>14, <1>15,
     <1>16, <1>17, <1>18, <1>19, <1>20
  DEF TENext, ExtractNext, TEvars, Raise, BuildLinkSnapshot, CutOff, TakeIap

\* Links stay right when the run keeps them and its pc does not go back to an earlier tier.
LEMMA LinksKept ==
    ASSUME ExtractionInv, [TENext]_TEvars, run'.links = run.links,
           tomato.claimed \subseteq tomato'.claimed \/ run.links[29] = NoUrl,
           run.pc = "report" => run'.pc = "report",
           run.pc \in {"99", "99again"} => run'.pc \in {"99", "99again", "report"}
    PROVE  LinksOK'
<1>1. \A url : Link(url) => Link(url)'
  BY RowsStep
<1>2. LinksOK
  BY DEF ExtractionInv, RunOK
<1>3. ~ValidUrl(NoUrl)
  BY DEF ValidUrl
<1>4. (\A y \in Types : Link(run.links[y]))'
  BY <1>1, <1>2 DEF LinksOK
<1> QED  BY <1>2, <1>3, <1>4 DEF LinksOK, ValidUrl

LEMMA NoLinks ==
    ASSUME run'.links = [y \in Types |-> NoUrl] PROVE LinksOK'
BY DEF LinksOK, Link, ValidUrl, Types, Tiers, IAA

LEMMA LinksStep ==
    ASSUME ExtractionInv, [TENext]_TEvars PROVE LinksOK'
<1>1. run \in Run /\ LinksOK
  BY DEF ExtractionInv, RunOK
<1>2. /\ tomato \in [context : {"", "FREE", "PAID"}, cache : Seq(CacheEntry),
                     listed : Seq(Row), claimed : SUBSET Int]
  BY DEF ExtractionInv, CachesOK
<1>3. \A url : Link(url) => Link(url)'
  BY RowsStep
<1>4. CASE UNCHANGED <<run, tomato>>
  BY <1>4, LinksKept
<1>5. CASE Start \/ EndRun
  <2>1. run'.links = [y \in Types |-> NoUrl]
    BY <1>5 DEF Start, EndRun, NoRun
  <2> QED  BY <2>1, NoLinks
<1>6. CASE GetEpisodeCount \/ NoIaaListed \/ IaaRefused \/ IaaStillUnlisted
  <2>1. /\ run'.links = run.links /\ tomato'.claimed = tomato.claimed
        /\ run.pc \in {"count", "list", "iaa", "listAgain"}
    BY <1>1, <1>2, <1>6
    DEF GetEpisodeCount, NoIaaListed, IaaRefused, IaaStillUnlisted, Opened, Run
  <2> QED  BY <2>1, LinksKept
<1>7. CASE RetryScan \/ ScanFails
  <2>1. run'.links = run.links /\ tomato'.claimed = tomato.claimed /\ run.pc = "paid"
    BY <1>1, <1>2, <1>7 DEF RetryScan, ScanFails, Run
  <2> QED  BY <2>1, LinksKept
<1>8. ASSUME NEW S, PickTemplates(S) PROVE run'.links = run.links /\ run'.pc = "29"
  BY <1>1, <1>8 DEF PickTemplates, Run
<1>9. CASE SearchExistingIap
  <2>1. run'.links = run.links /\ run.pc = "scan"
    BY <1>1, <1>8, <1>9 DEF SearchExistingIap, Run
  <2>2. run.links[29] = NoUrl
    BY <1>1, <2>1 DEF LinksOK
  <2> QED  BY <2>1, <2>2, LinksKept
<1>10. CASE NoPaidContext \/ ScanIapTemplates
  <2>1. run'.links = run.links /\ tomato'.claimed = tomato.claimed /\ run.pc = "paid"
    BY <1>2, <1>8, <1>10 DEF NoPaidContext, ScanIapTemplates, Opened
  <2> QED  BY <2>1, LinksKept
<1>11. CASE IapRefused \/ IapStillUnlisted \/ TierFails
  <2>1. run'.links = run.links /\ tomato'.claimed = tomato.claimed
    BY <1>1, <1>2, <1>11 DEF IapRefused, IapStillUnlisted, TierFails, Run
  <2>2. run.pc \in {"29", "99", "29again", "99again"}
    BY <1>11 DEF IapRefused, IapStillUnlisted, TierFails, MustAskSite, Uncacheable, AtTier, AtTierAgain
  <2>3. run.pc \in {"99", "99again"} => run'.pc \in {"99", "99again", "report"}
    <3>1. run.pc \in {"99", "99again"} => Tier = 99 /\ AfterTier = "report"
      BY DEF Tier, AfterTier
    <3>2. CASE IapRefused
      BY <1>1, <3>1, <3>2 DEF IapRefused, Run
    <3>3. CASE IapStillUnlisted
      BY <1>1, <3>3 DEF IapStillUnlisted, Run
    <3>4. CASE TierFails
      BY <1>1, <3>1, <3>4 DEF TierFails, Run
    <3> QED  BY <1>11, <3>2, <3>3, <3>4
  <2> QED  BY <2>1, <2>2, <2>3, LinksKept
<1>12. CASE ReuseIaa \/ GenerateIaa
  <2>1. PICK url : run'.links = [run.links EXCEPT ![IAA] = url] /\ Link(url)' /\ run'.pc = "scan"
    <3>1. CASE ReuseIaa
      <4>1. PICK s1 \in Searched, s2 \in Searched :
                run' = [run EXCEPT !.links[IAA] = ListedIaa(s1, s2), !.pc = "scan", !.tries = 0]
        BY <3>1 DEF ReuseIaa
      <4>2. PICK url : url = ListedIaa(s1, s2)
        OBVIOUS
      <4>3. Link(url)
        BY <4>2, IaaUrlKnown DEF Link, ExtractionInv
      <4>4. run'.links = [run.links EXCEPT ![IAA] = url] /\ run'.pc = "scan"
        BY <1>1, <4>1, <4>2 DEF Run
      <4> QED  BY <1>3, <4>3, <4>4
    <3>2. CASE GenerateIaa
      <4>1. PICK url \in Read : run' = [run EXCEPT !.links[IAA] = url, !.pc = "scan"]
        BY <3>2 DEF GenerateIaa
      <4>2. Link(url)'
        BY <3>2, ReadIsLink
      <4>3. run'.links = [run.links EXCEPT ![IAA] = url] /\ run'.pc = "scan"
        BY <1>1, <4>1 DEF Run
      <4> QED  BY <4>2, <4>3
    <3> QED  BY <1>12, <3>1, <3>2
  <2>2. run.pc \in {"list", "listAgain", "iaa"}
    BY <1>12 DEF ReuseIaa, GenerateIaa
  <2>3. run.links[29] = NoUrl /\ run.links[99] = NoUrl /\ run.links \in [Types -> Int]
    BY <1>1, <2>2 DEF LinksOK, Run
  <2>4. run'.links[29] = NoUrl /\ run'.links[99] = NoUrl
    BY <2>1, <2>3 DEF Types, Tiers, IAA
  <2>5. (\A y \in Types : Link(run.links[y]))'
    <3>1. run'.links[IAA] = url
      BY <2>1, <2>3 DEF Types
    <3> QED  BY <2>1, <2>4, <3>1 DEF Types, Tiers, Link
  <2> QED  BY <2>4, <2>5 DEF LinksOK, ValidUrl
<1>13. CASE TakeIap
  <2>1. PICK url : GotIap(url) /\ Takes(url)
    BY <1>13, TakesLink
  <2>2. run' = [run EXCEPT !.links[Tier] = url, !.pc = AfterTier, !.tries = 0]
    BY <2>1 DEF GotIap
  <2>3. /\ run'.links = [run.links EXCEPT ![Tier] = url] /\ run'.pc = AfterTier
        /\ run.links \in [Types -> Int]
    BY <1>1, <2>2 DEF Run
  <2>4. CASE Tier = 29
    <3>1. run.pc \in {"29", "29again"} /\ run'.pc = "99"
      BY <2>3, <2>4 DEF Tier, AfterTier
    <3>2. run.links[99] = NoUrl
      BY <1>1, <3>1 DEF LinksOK
    <3>3. run'.links[29] = url /\ run'.links[99] = NoUrl /\ run'.links[IAA] = run.links[IAA]
      BY <2>3, <2>4, <3>2 DEF Types, Tiers, IAA
    <3>4. Link(run.links[IAA]) /\ Link(url)'
      BY <1>1, <2>1 DEF LinksOK, Types, Takes
    <3>5. (\A y \in Types : Link(run.links[y]))'
      BY <1>3, <3>3, <3>4 DEF Types, Tiers, Link
    <3>6. ValidUrl(url) => url \in tomato'.claimed
      BY <2>1 DEF Takes
    <3> QED  BY <3>1, <3>3, <3>5, <3>6 DEF LinksOK, ValidUrl
  <2>5. CASE Tier = 99
    <3>1. run.pc \in {"99", "99again"} /\ run'.pc = "report"
      BY <2>1, <2>3, <2>5 DEF Tier, AfterTier, Takes, AtTier, AtTierAgain
    <3>2. ValidUrl(run.links[29]) => run.links[29] \in tomato.claimed
      BY <1>1, <3>1 DEF LinksOK
    <3>3. run'.links[99] = url /\ run'.links[29] = run.links[29] /\ run'.links[IAA] = run.links[IAA]
      BY <2>3, <2>5 DEF Types, Tiers, IAA
    <3>4. Link(run.links[IAA]) /\ Link(run.links[29]) /\ Link(url)'
      BY <1>1, <2>1 DEF LinksOK, Types, Tiers, Takes
    <3>5. (\A y \in Types : Link(run.links[y]))'
      BY <1>3, <3>3, <3>4 DEF Types, Tiers, Link
    <3>6. ValidUrl(url) => url \notin tomato.claimed
      BY <2>1 DEF Takes
    <3> QED  BY <3>1, <3>2, <3>3, <3>5, <3>6 DEF LinksOK, ValidUrl
  <2> QED  BY <2>4, <2>5 DEF Tier
<1> QED
  BY <1>4, <1>5, <1>6, <1>7, <1>9, <1>10, <1>11, <1>12, <1>13
  DEF TENext, ExtractNext, TEvars, Raise, BuildLinkSnapshot, CutOff, TakeIap

-----------------------------------------------------------------------------
(* The links that are frozen, and the theorems.                             *)

LEMMA FrozenStep ==
    ASSUME ExtractionInv, [TENext]_TEvars PROVE FrozenOK'
<1>1. FrozenOK /\ LinksOK /\ run \in Run
  BY DEF ExtractionInv, RunOK
<1>2. \A url : Known(url) => Known(url)'
  BY RowsStep
<1>3. CASE UNCHANGED frozen
  <2>1. \A y \in Types : frozen[y] # NoUrl => Known(frozen[y])
    BY <1>1 DEF FrozenOK
  <2>2. (\A y \in Types : frozen[y] # NoUrl => Known(frozen[y]))'
    BY <1>2, <1>3, <2>1 DEF Known
  <2> QED  BY <1>1, <1>3, <2>2 DEF FrozenOK, ValidUrl
<1>4. CASE Start
  <2>1. frozen' = [y \in Types |-> NoUrl]
    BY <1>4 DEF Start
  <2> QED  BY <2>1 DEF FrozenOK, ValidUrl, Types, Tiers, NoUrl
<1>5. CASE BuildLinkSnapshot
  <2>1. frozen' = [y \in Types |-> IF y \in Selected THEN run.links[y] ELSE NoUrl]
    BY <1>5 DEF BuildLinkSnapshot
  <2>2. run.links \in [Types -> Int] /\ NoUrl \in Int
    BY <1>1 DEF Run, NoUrl
  <2>3. frozen' \in [Types -> Int]
    BY <2>1, <2>2
  <2>4. ASSUME NEW y \in Types, frozen'[y] # NoUrl
        PROVE  frozen'[y] = run.links[y] /\ Known(run.links[y])
    <3>1. y \in Selected /\ frozen'[y] = run.links[y]
      BY <2>1, <2>4
    <3>2. ValidUrl(run.links[y]) /\ Link(run.links[y])
      BY <1>1, <3>1 DEF Selected, LinksOK
    <3> QED  BY <3>1, <3>2 DEF ValidUrl, Link
  <2>5. (\A y \in Types : frozen[y] # NoUrl => Known(frozen[y]))'
    BY <1>2, <2>4 DEF Known
  <2>6. ValidUrl(frozen'[29]) => frozen'[29] # frozen'[99]
    BY <1>1, <2>4 DEF LinksOK, ValidUrl, Types, Tiers
  <2> QED  BY <2>3, <2>5, <2>6 DEF FrozenOK, ValidUrl
<1> QED
  BY <1>3, <1>4, <1>5
  DEF TENext, ExtractNext, TEvars, GetEpisodeCount, ReuseIaa, NoIaaListed, GenerateIaa,
       IaaRefused, IaaStillUnlisted, Raise, SearchExistingIap, NoPaidContext, ScanIapTemplates,
       RetryScan, ScanFails, SkipTier, IapFromCache, IapFromList, IapFromSite, GenerateIap,
       IapRefused, IapFromFallback, IapStillUnlisted, TierFails, CutOff

\* Whatever rows the site's list holds at first, an extraction has nothing yet.
LEMMA ExtractionInit == TEInit => ExtractionInv
<1> SUFFICES ASSUME TEInit PROVE ExtractionInv
  OBVIOUS
<1>12. PICK n \in 0 .. MaxOldRows : \E s \in [1 .. n -> OldRows] : rows = Numbered(s)
  BY DEF TEInit
<1>1. PICK s \in [1 .. n -> OldRows] : rows = Numbered(s)
  BY <1>12
<1>2. DOMAIN rows = 1 .. n /\ n \in Nat
  BY <1>1 DEF Numbered
<1>3. ASSUME NEW i \in 1 .. n PROVE rows[i] \in Row /\ rows[i].url = i /\ rows[i].drama = NoDrama
  <2>1. rows[i] = [url |-> i, name |-> s[i].name, entry |-> s[i].entry, marked |-> s[i].marked,
                   digits |-> s[i].digits, title |-> s[i].title, tier |-> s[i].tier,
                   drama |-> NoDrama]
    BY <1>1, <1>3 DEF Numbered
  <2>2. s[i] \in [name : Names, entry : {"FREE", "PAID"}, marked : {0, 1, 2},
                  digits : SUBSET {1, 2}, title : Template \cup {""}, tier : Tiers \cup {0}]
    BY <1>1, <1>3, TomatoAssumption
  <2>3. i \in Nat /\ NoDrama \in Catalogue \cup {NoDrama}
    BY <1>2, <1>3
  <2>4. /\ s[i].name \in Names /\ s[i].entry \in {"FREE", "PAID"} /\ s[i].marked \in {0, 1, 2}
        /\ s[i].digits \in SUBSET {1, 2} /\ s[i].title \in Template \cup {""}
        /\ s[i].tier \in Tiers \cup {0}
    BY ONLY <2>2
  <2>6. \A u \in Nat, a \in Names, e \in {"FREE", "PAID"}, m \in {0, 1, 2}, g \in SUBSET {1, 2},
          b \in Template \cup {""}, p \in Tiers \cup {0}, d \in Catalogue \cup {NoDrama} :
            [url |-> u, name |-> a, entry |-> e, marked |-> m, digits |-> g, title |-> b,
             tier |-> p, drama |-> d] \in Row
    BY ZenonT(60) DEF Row
  <2>5. rows[i] \in Row
    <3>1. [url |-> i, name |-> s[i].name, entry |-> s[i].entry, marked |-> s[i].marked,
           digits |-> s[i].digits, title |-> s[i].title, tier |-> s[i].tier,
           drama |-> NoDrama] \in Row
      BY ONLY <2>3, <2>4, <2>6, Zenon
    <3> QED  BY ONLY <2>1, <3>1, Zenon
  <2> QED  BY <2>1, <2>5
<1>4. rows = [i \in 1 .. n |-> rows[i]]
  BY <1>1, <1>2 DEF Numbered
<1>5. rows \in Seq(Row) /\ Len(rows) = n
  BY <1>2, <1>3, <1>4
<1>6. RowsOK
  <2>1. GeneratesForTheDrama
    BY <1>2, <1>3 DEF GeneratesForTheDrama
  <2> QED  BY <1>2, <1>3, <1>5, <2>1 DEF RowsOK
<1>7. AppOK
  BY DEF AppOK, TEInit, NewAdapter
<1>8. CachesOK
  <2>1. tomato = [context |-> "", cache |-> <<>>, listed |-> <<>>, claimed |-> {}]
    BY DEF TEInit, NewAdapter
  <2>2. <<>> \in Seq(CacheEntry) /\ <<>> \in Seq(Row) /\ DOMAIN <<>> = {}
    OBVIOUS
  <2>3. tomato \in [context : {"", "FREE", "PAID"}, cache : Seq(CacheEntry),
                    listed : Seq(Row), claimed : SUBSET Int]
    BY <2>1, <2>2
  <2>4. tomato.cache = <<>> /\ tomato.listed = <<>> /\ tomato.claimed = {}
    BY <2>1
  <2> QED  BY <2>2, <2>3, <2>4 DEF CachesOK
<1>9. RunOK
  <2>1. NoRun \in Run
    <3>1. NoTemplate \in Choice /\ NoUrl \in Int
      BY DEF NoTemplate, Choice, NoUrl
    <3>2. /\ [y \in Types |-> NoUrl] \in [Types -> Int]
          /\ [p \in Tiers |-> NoTemplate] \in [Tiers -> Choice]
      BY <3>1
    <3>3. "idle" \in Pcs /\ {} \in SUBSET {"IAP", "29", "99"} /\ {} \in SUBSET Choice
          /\ 0 \in 0 .. ScanTries - 1 /\ 1 \in {1, 2}
      BY DEF Pcs, ScanTries
    <3> QED  BY <3>2, <3>3 DEF NoRun, Run
  <2>2. run = NoRun
    BY DEF TEInit
  <2> QED  BY <2>1, <2>2 DEF RunOK, LinksOK, NoRun, Link, ValidUrl, Types, Tiers
<1>10. FrozenOK
  <2>1. frozen = [y \in Types |-> NoUrl]
    BY Zenon DEF TEInit
  <2>2. NoUrl \in Int /\ 29 \in Types
    BY DEF NoUrl, Types, Tiers
  <2> QED  BY ONLY <2>1, <2>2 DEF FrozenOK, ValidUrl
<1>11. runs \in 0 .. MaxRuns
  <2>1. runs = 0
    BY DEF TEInit
  <2>2. MaxRuns \in Nat
    BY TomatoAssumption
  <2> QED  BY ONLY <2>1, <2>2
<1> QED  BY <1>6, <1>7, <1>8, <1>9, <1>10, <1>11 DEF ExtractionInv

LEMMA ExtractionStep == ExtractionInv /\ [TENext]_TEvars => ExtractionInv'
<1> SUFFICES ASSUME ExtractionInv, [TENext]_TEvars PROVE ExtractionInv'
  OBVIOUS
<1>1. runs' \in 0 .. MaxRuns
  <2>1. runs \in 0 .. MaxRuns /\ MaxRuns \in Nat
    BY TomatoAssumption DEF ExtractionInv
  <2>2. CASE Start
    BY <2>1, <2>2 DEF Start
  <2>3. CASE UNCHANGED runs
    BY <2>1, <2>3
  <2> QED
    BY <2>2, <2>3
    DEF TENext, ExtractNext, TEvars, GetEpisodeCount, ReuseIaa, NoIaaListed, GenerateIaa,
       IaaRefused, IaaStillUnlisted, Raise, SearchExistingIap, NoPaidContext, ScanIapTemplates,
       RetryScan, ScanFails, SkipTier, IapFromCache, IapFromList, IapFromSite, GenerateIap,
       IapRefused, IapFromFallback, IapStillUnlisted, TierFails, BuildLinkSnapshot, CutOff
<1> QED
  BY <1>1, RowsStep, AppStep, CachesStep, RunTypesStep, LinksStep, FrozenStep
  DEF ExtractionInv, RunOK

LEMMA ExtractionInvariance == TESpec => []ExtractionInv
<1> QED  BY ExtractionInit, ExtractionStep, PTL DEF TESpec

\* Every variable of an extraction holds a value of its kind.
THEOREM ExtractionTypes == TESpec => []TETypeOK
<1>1. ExtractionInv => TETypeOK
  <2> SUFFICES ASSUME ExtractionInv PROVE TETypeOK
    OBVIOUS
  <2> USE DEF ExtractionInv
  <2>1. ASSUME NEW url, Link(url) PROVE url \in BadUrl .. Len(rows)
    <3>1. Len(rows) \in Nat
      BY DEF RowsOK
    <3> QED  BY <2>1, <3>1, KnownNumbers DEF Link, NoUrl, BadUrl
  <2>2. \A i \in DOMAIN rows : rows[i] \in Row /\ rows[i].url \in 1 .. Len(rows)
    BY DEF RowsOK
  <2>3. run.links \in [Types -> BadUrl .. Len(rows)]
    BY <2>1 DEF RunOK, LinksOK, Run
  <2>4. frozen \in [Types -> 0 .. Len(rows)]
    <3>1. ASSUME NEW y \in Types PROVE frozen[y] \in 0 .. Len(rows)
      <4>1. Len(rows) \in Nat
        BY DEF RowsOK
      <4>2. frozen[y] # NoUrl => frozen[y] \in 1 .. Len(rows)
        BY KnownNumbers DEF FrozenOK
      <4> QED  BY <4>1, <4>2 DEF NoUrl
    <3> QED  BY <3>1 DEF FrozenOK
  <2>5. tomato.claimed \subseteq BadUrl .. Len(rows)
    BY <2>1 DEF CachesOK
  <2>6. /\ run.pc \in Pcs /\ run.tries \in 0 .. ScanTries - 1
        /\ run.failed \subseteq {"IAP", "29", "99"}
    BY DEF RunOK, Run
  <2> QED  BY <2>2, <2>3, <2>4, <2>5, <2>6 DEF TETypeOK, AppOK
<1> QED  BY <1>1, ExtractionInvariance, PTL

\* The two price tiers never get the same link, over the caches, the list, the generation and
\* the fallbacks (tomato_adapter.py:326-465).
THEOREM TiersGetDifferentLinks == TESpec => []TiersDoNotShare
<1>1. ExtractionInv => TiersDoNotShare
  BY DEF ExtractionInv, RunOK, LinksOK, FrozenOK, TiersDoNotShare
<1> QED  BY <1>1, ExtractionInvariance, PTL

\* A link that is frozen belongs to a drama with a matching name, whichever of the eight ways
\* it was obtained (promotion_link_list.py:13-28).
THEOREM FrozenNamesMatch == TESpec => []FrozenLinksMatchTheName
<1>1. ExtractionInv => FrozenLinksMatchTheName
  <2> SUFFICES ASSUME ExtractionInv, NEW y \in Types, frozen[y] # NoUrl
               PROVE  RowOf(frozen[y]).name # "other"
    BY DEF FrozenLinksMatchTheName
  <2>1. PICK i \in DOMAIN rows : rows[i].url = frozen[y] /\ rows[i].name # "other"
    BY DEF ExtractionInv, FrozenOK, Known
  <2>2. \A j \in DOMAIN rows : rows[j].url = frozen[y] => j = i
    BY <2>1 DEF ExtractionInv, RowsOK
  <2>3. (CHOOSE j \in DOMAIN rows : rows[j].url = frozen[y]) = i
    BY <2>1, <2>2
  <2> QED  BY <2>1, <2>3 DEF RowOf
<1> QED  BY <1>1, ExtractionInvariance, PTL

\* A link that the program generates is one of the drama itself, at the right time or confirmed,
\* and of the right app (drama_selection.py:51-82, tomato_adapter.py:474-484).
THEOREM GeneratedForTheDrama == TESpec => []GeneratesForTheDrama
<1>1. ExtractionInv => GeneratesForTheDrama
  BY DEF ExtractionInv, RowsOK
<1> QED  BY <1>1, ExtractionInvariance, PTL
===============================================================================
