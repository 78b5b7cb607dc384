---------------------------- MODULE WorkerProcess ----------------------------
(***************************************************************************)
(* Automation Worker processes: the worker lease that is meant to keep     *)
(* them to one, the run mode the operator asks for and the worker confirms,*)
(* and the browser each process drives (bootstrap/automation_worker.py).   *)
(*                                                                         *)
(* acquire_lease writes inside a transaction that stays open, write lock   *)
(* held, until the first _sync_worker_runtime commits after the browser    *)
(* has started.  Each process computes "now" before it waits for the lock. *)
(* What a cycle does to the queue is module WorkQueue; here a cycle either *)
(* claims nothing or executes a task with the write lock held.             *)
(***************************************************************************)
EXTENDS Integers, FiniteSets

CONSTANTS
    Processes,    \* worker processes of one machine
    Ids,          \* the values of --worker-id
    IdOf,         \* the id each process is started with
    Free, NoProcess,
    LeaseLen,     \* --lease-seconds, in clock ticks
    MaxTime,      \* bound on the clock
    MaxOps        \* bound on mode changes, launches and browser deaths

ASSUME WorkerProcessAssumption ==
    /\ IdOf \in [Processes -> Ids]
    /\ Free \notin Processes /\ NoProcess \notin Processes
    /\ LeaseLen \in Nat \ {0} /\ MaxTime \in Nat /\ MaxOps \in Nat

VARIABLES
    now,          \* the clock
    lease,        \* worker_lease rows, as committed
    environment,  \* runtime_environment: the mode asked for, the mode confirmed
    proc,         \* the processes' memory
    lock,         \* who holds the SQLite write lock across steps
    ops

vars == <<now, lease, environment, proc, lock, ops>>

Mode == {"MOCK", "REAL"}
NoMode == "NONE"

\* A row's until is the time its lease runs out; a row that was never written
\* has status NONE.
LeaseRow == [status : {"NONE", "RUNNING", "STOPPED"},
             holder : Processes \cup {NoProcess}, until : Nat]

Environment == [desired : Mode, applied : Mode \cup {NoMode}]

\* browser is the runtime main() refers to; orphans counts the open browsers
\* that nothing refers to any more; rebuilt says that the current cycle has
\* replaced the browser and main() does not know it yet.
Process == [pc : {"down", "acquiring", "starting", "idle", "switching",
                  "beating", "cycle", "claimed", "executing", "stopping"},
            at : Nat, mode : Mode \cup {NoMode}, target : Mode \cup {NoMode},
            browser : {"none", "open", "dead"}, rebuilt : BOOLEAN, orphans : 0 .. 1]

Down == [pc |-> "down", at |-> 0, mode |-> NoMode, target |-> NoMode,
         browser |-> "none", rebuilt |-> FALSE, orphans |-> 0]

Init ==
    /\ now = 0
    /\ lease = [i \in Ids |-> [status |-> "NONE", holder |-> NoProcess, until |-> 0]]
    /\ environment = [desired |-> "MOCK", applied |-> NoMode]
    /\ proc = [p \in Processes |-> Down]
    /\ lock = Free
    /\ ops = 0

Operation == ops < MaxOps /\ ops' = ops + 1
Unlocked(p) == IF lock = p THEN Free ELSE lock
BrowserFor(mode) == IF mode = "REAL" THEN "open" ELSE "none"

-----------------------------------------------------------------------------
(* The lease.                                                               *)

Running(i, at) == lease[i].status = "RUNNING" /\ lease[i].until > at

Granted(p) == [status |-> "RUNNING", holder |-> p, until |-> proc[p].at + LeaseLen]

\* The conditional UPDATE: the worker's own record, stopped or run out.
OwnRecordLapsed(p) ==
    lease[IdOf[p]].status # "NONE" /\ ~Running(IdOf[p], proc[p].at)

OtherActive(p) == \E i \in Ids \ {IdOf[p]} : Running(i, proc[p].at)

Launch(p) ==
    /\ Operation
    /\ proc[p].pc = "down"
    /\ proc' = [proc EXCEPT ![p].pc = "acquiring", ![p].at = now]
    /\ UNCHANGED <<now, lease, environment, lock>>

\* Mutant: the lease is committed at once and the lock given back.
AcquireAndCommit(p) ==
    /\ proc[p].pc = "acquiring" /\ lock = Free
    /\ OwnRecordLapsed(p) \/ ~OtherActive(p)
    /\ lease' = [lease EXCEPT ![IdOf[p]] = Granted(p)]
    /\ proc' = [proc EXCEPT ![p].pc = "starting"]
    /\ UNCHANGED <<now, environment, lock, ops>>

\* cleanup_zombie_browsers kills every headless browser of the machine, whoever it
\* belongs to.
CleanupZombies(p) ==
    [q \in Processes |->
        IF q = p THEN proc[p]
        ELSE [proc[q] EXCEPT !.orphans = 0, !.browser = IF @ = "open" THEN "dead" ELSE @]]

\* The lease is written but not committed while the browsers are cleaned up.
AcquireLease(p) ==
    /\ proc[p].pc = "acquiring" /\ lock = Free
    /\ OwnRecordLapsed(p) \/ ~OtherActive(p)
    /\ lock' = p
    /\ proc' = [CleanupZombies(p) EXCEPT ![p].pc = "starting"]
    /\ UNCHANGED <<now, lease, environment, ops>>

\* Refused, or "database is locked" while another worker executes.
AcquireFails(p) ==
    /\ proc[p].pc = "acquiring"
    /\ lock # Free \/ (OtherActive(p) /\ ~OwnRecordLapsed(p))
    /\ proc' = [proc EXCEPT ![p] = Down]
    /\ UNCHANGED <<now, lease, environment, lock, ops>>

\* The first _sync_worker_runtime: the browser starts and everything commits.
\* The mode cannot have changed since it was read: p holds the write lock.
FinishStart(p) ==
    /\ proc[p].pc = "starting"
    /\ lease' = [lease EXCEPT ![IdOf[p]] = Granted(p)]
    /\ environment' = [environment EXCEPT !.applied = environment.desired]
    /\ proc' = [proc EXCEPT ![p].pc = "idle", ![p].mode = environment.desired,
                            ![p].browser = BrowserFor(environment.desired)]
    /\ lock' = Free
    /\ UNCHANGED <<now, ops>>

\* Main stops, by a KeyboardInterrupt or an exception: the finally block calls
\* release_lease, which flushes STOPPED and so takes the lock ...
BeginExit(p) ==
    /\ proc[p].pc \notin {"down", "stopping"} /\ lock \in {Free, p}
    /\ lock' = p
    /\ proc' = [proc EXCEPT ![p].pc = "stopping", ![p].browser = "none"]
    /\ UNCHANGED <<now, lease, environment, ops>>

\* ... and closes the session, which rolls the release back.
FinishExit(p) ==
    /\ proc[p].pc = "stopping"
    /\ proc' = [proc EXCEPT ![p] = Down]
    /\ lock' = Free
    /\ UNCHANGED <<now, lease, environment, ops>>

\* Killed, or a second exception while the lock is waited for.
Crash(p) ==
    /\ proc[p].pc \notin {"down", "stopping"}
    /\ proc' = [proc EXCEPT ![p] = Down]
    /\ lock' = Unlocked(p)
    /\ UNCHANGED <<now, lease, environment, ops>>

-----------------------------------------------------------------------------
(* The run mode.                                                            *)

SetDesiredMode(m) ==
    /\ Operation
    /\ lock = Free /\ environment.desired # m
    /\ environment' = [environment EXCEPT !.desired = m]
    /\ UNCHANGED <<now, lease, proc, lock>>

\* Mutant: compares with the mode already confirmed.
InStepWithApplied(p) ==
    /\ proc[p].mode = environment.applied
    /\ environment.applied = "REAL" => proc[p].browser = "open"

InStep(p) ==
    /\ proc[p].mode = environment.desired
    /\ environment.desired = "REAL" => proc[p].browser = "open"

\* _sync_worker_runtime finds another target, or its browser gone: it closes
\* the browser it refers to and starts over.
BeginSwitch(p) ==
    /\ proc[p].pc = "idle" /\ ~InStep(p)
    /\ proc' = [proc EXCEPT ![p].pc = "switching", ![p].browser = "none",
                            ![p].target = environment.desired]
    /\ UNCHANGED <<now, lease, environment, lock, ops>>

\* Mutant: the mode is taken over in memory only.
SwitchUnconfirmed(p) ==
    /\ proc[p].pc = "switching" /\ lock = Free
    /\ proc' = [proc EXCEPT ![p].pc = "idle", ![p].mode = proc[p].target,
                            ![p].browser = BrowserFor(proc[p].target)]
    /\ UNCHANGED <<now, lease, environment, lock, ops>>

\* The browser is up: mark_worker_mode writes the one column and commits.  If
\* the browser does not start or the lock does not come, main exits.
FinishSwitch(p) ==
    /\ proc[p].pc = "switching" /\ lock = Free
    /\ environment' = [environment EXCEPT !.applied = proc[p].target]
    /\ proc' = [proc EXCEPT ![p].pc = "idle", ![p].mode = proc[p].target,
                            ![p].browser = BrowserFor(proc[p].target)]
    /\ UNCHANGED <<now, lease, lock, ops>>

-----------------------------------------------------------------------------
(* One cycle: heartbeat, claim, execute.                                    *)

BeginHeartbeat(p) ==
    /\ proc[p].pc = "idle" /\ InStep(p)
    /\ proc' = [proc EXCEPT ![p].pc = "beating", ![p].at = now]
    /\ UNCHANGED <<now, lease, environment, lock, ops>>

\* The upsert is unconditional and commits at once.
Heartbeat(p) ==
    /\ proc[p].pc = "beating" /\ lock = Free
    /\ lease' = [lease EXCEPT ![IdOf[p]] = Granted(p)]
    /\ proc' = [proc EXCEPT ![p].pc = "cycle"]
    /\ UNCHANGED <<now, environment, lock, ops>>

NothingClaimed(p) ==
    /\ proc[p].pc = "cycle"
    /\ proc' = [proc EXCEPT ![p].pc = "idle"]
    /\ UNCHANGED <<now, lease, environment, lock, ops>>

Claim(p) ==
    /\ proc[p].pc = "cycle" /\ lock = Free
    /\ proc' = [proc EXCEPT ![p].pc = "claimed"]
    /\ UNCHANGED <<now, lease, environment, lock, ops>>

\* After a claim: a browser that died meanwhile, or whose login files changed,
\* is closed and replaced before the task is executed.
RebuildBrowser(p) ==
    /\ proc[p].pc = "claimed" /\ proc[p].mode = "REAL" /\ ~proc[p].rebuilt
    /\ proc' = [proc EXCEPT ![p].browser = "open", ![p].rebuilt = TRUE]
    /\ UNCHANGED <<now, lease, environment, lock, ops>>

\* The new browser does not start: the cycle ends, main keeps the closed one.
RebuildFails(p) ==
    /\ proc[p].pc = "claimed" /\ proc[p].mode = "REAL" /\ ~proc[p].rebuilt
    /\ proc' = [proc EXCEPT ![p].browser = "dead", ![p].pc = "idle"]
    /\ UNCHANGED <<now, lease, environment, lock, ops>>

Execute(p) ==
    /\ proc[p].pc = "claimed" /\ lock = Free
    /\ lock' = p
    /\ proc' = [proc EXCEPT ![p].pc = "executing"]
    /\ UNCHANGED <<now, lease, environment, ops>>

\* The cycle commits and hands a rebuilt browser to main.
CycleCommits(p) ==
    /\ proc[p].pc = "executing"
    /\ proc' = [proc EXCEPT ![p].pc = "idle", ![p].rebuilt = FALSE]
    /\ lock' = Free
    /\ UNCHANGED <<now, lease, environment, ops>>

\* The cycle is rolled back and returns no browser: main goes on with the closed
\* one, and a browser this cycle started is open with nobody to close it.
CycleRollsBack(p) ==
    /\ proc[p].pc \in {"cycle", "claimed", "executing"}
    /\ proc' = [proc EXCEPT ![p].pc = "idle", ![p].rebuilt = FALSE,
                  ![p].browser = IF proc[p].rebuilt THEN "dead" ELSE @,
                  ![p].orphans = IF proc[p].rebuilt /\ proc[p].browser = "open" THEN 1 ELSE @]
    /\ lock' = Unlocked(p)
    /\ UNCHANGED <<now, lease, environment, ops>>

BrowserDies(p) ==
    /\ Operation
    /\ proc[p].browser = "open"
    /\ proc' = [proc EXCEPT ![p].browser = "dead"]
    /\ UNCHANGED <<now, lease, environment, lock>>

Tick ==
    /\ now < MaxTime
    /\ now' = now + 1
    /\ UNCHANGED <<lease, environment, proc, lock, ops>>

-----------------------------------------------------------------------------
Loop(p) ==
    \/ BeginSwitch(p) \/ FinishSwitch(p) \/ BeginHeartbeat(p) \/ Heartbeat(p)
    \/ NothingClaimed(p) \/ Claim(p) \/ RebuildBrowser(p) \/ RebuildFails(p)
    \/ Execute(p) \/ CycleCommits(p) \/ CycleRollsBack(p)

Next ==
    \/ \E p \in Processes :
          \/ Launch(p) \/ AcquireLease(p) \/ AcquireFails(p) \/ FinishStart(p)
          \/ Loop(p) \/ BeginExit(p) \/ FinishExit(p) \/ Crash(p) \/ BrowserDies(p)
    \/ \E m \in Mode : SetDesiredMode(m)
    \/ Tick

Spec == Init /\ [][Next]_vars

\* A process that is up goes on: main is a loop, each wait for the lock is
\* bounded, and a browser that keeps failing to start ends the process.
FairSpec ==
    /\ Spec
    /\ WF_vars(Tick)
    /\ \A p \in Processes :
          /\ WF_vars(AcquireLease(p) \/ AcquireFails(p)) /\ WF_vars(FinishStart(p))
          /\ WF_vars(Loop(p)) /\ WF_vars(FinishExit(p)) /\ WF_vars(CycleCommits(p) \/ CycleRollsBack(p))

-----------------------------------------------------------------------------
(* Properties.                                                              *)

\* The lease rows, the mode row and the processes keep their shape, and the lock is free or a
\* process's (proved in WorkerProofs).
TypeOK ==
    /\ now \in 0 .. MaxTime
    /\ lease \in [Ids -> LeaseRow]
    /\ environment \in Environment
    /\ proc \in [Processes -> Process]
    /\ lock \in Processes \cup {Free}
    /\ ops \in 0 .. MaxOps

Up(p) == proc[p].pc \notin {"down", "acquiring", "starting", "stopping"}

\* Workers with one id only have ever been let in.
OneIdAdmitted ==
    \A i, j \in Ids : lease[i].status # "NONE" /\ lease[j].status # "NONE" => i = j

\* As long as no second id is let in, a task is never executed in a mode that the system
\* page does not show as confirmed, through mode changes, crashes and restarts.
ExecutesInConfirmedMode ==
    \A p \in Processes :
        OneIdAdmitted /\ Up(p) /\ proc[p].pc # "switching" => environment.applied = proc[p].mode

\* A starting worker kills every headless browser of the machine
\* (cleanup_zombie_browsers).  It never does so while another worker executes a
\* task: the uncommitted lease and the execution both need the write lock.
StartSparesExecution ==
    \A p, q \in Processes :
        p # q /\ proc[p].pc = "starting" => proc[q].pc # "executing"

\* A mode the operator asked for is confirmed, or the worker goes down, or the
\* operator asks for another, or a second id is let in.
ModeIsApplied ==
    \A m \in Mode :
        (environment.desired = m /\ \E p \in Processes : Up(p))
            ~> \/ environment.applied = m \/ environment.desired # m
               \/ (\A p \in Processes : ~Up(p)) \/ ~OneIdAdmitted

-----------------------------------------------------------------------------
(* What the repository says and the code does not keep; see README.         *)

\* "V1 is fixed to one worker": at most one id holds an active lease.
SingleActiveLease ==
    Cardinality({i \in Ids : Running(i, now)}) <= 1

\* "Returns the new objects if the browser was rebuilt in this cycle": main
\* can close every browser that is open.
RebuiltBrowserReturned == \A p \in Processes : proc[p].orphans = 0
=============================================================================
