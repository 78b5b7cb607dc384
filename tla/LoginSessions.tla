---------------------------- MODULE LoginSessions ----------------------------
(***************************************************************************)
(* The login of each platform: the file data/sessions/<platform>/          *)
(* storage.json, the login browsers, imports and clearing that write it,   *)
(* and the worker's browser, which loads it at start, merges its own       *)
(* cookies into it when it closes, and is rebuilt at a claim when the      *)
(* modification time of the file has moved.                                *)
(*                                                                         *)
(* Of a platform's cookies only the authentication cookie is modelled. Its *)
(* values are numbered in the order the server issues them, and the server *)
(* stops accepting them in that order.                                     *)
(***************************************************************************)
EXTENDS Integers, FiniteSets

CONSTANTS
    Platforms, Tomato,  \* the platforms the worker loads; Tomato logs in on its own page
    Threads, NoThread,  \* login browsers: threads of the server, or of the CLI
    MaxValue,           \* bound on the values a server issues
    MaxOps              \* bound on what people and accidents do

ASSUME LoginSessionsAssumption ==
    Tomato \in Platforms /\ NoThread \notin Threads /\ MaxValue \in Nat /\ MaxOps \in Nat

VARIABLES
    file,      \* what each storage.json holds
    issued,    \* how many values each server has issued
    expired,   \* ... and how many of them it no longer accepts
    profile,   \* the cookie in the persistent profile the login browsers share
    thread, task,
    importing, \* the import in progress
    worker,    \* the worker's browser
    stored,    \* history: the login people stored last and have not cleared
    missed,    \* history: files written in a window the modification times do not cover
    raced,     \* history: files written between another writer's read and its write
    ops

vars == <<file, issued, expired, profile, thread, task, importing, worker, stored, missed,
          raced, ops>>
serverVars == <<issued, expired>>
threadVars == <<profile, thread, task>>
fileVars   == <<file, stored, raced, missed>>

NoFile   == -1
NoCookie == 0
Content  == NoFile .. MaxValue
Value    == NoCookie .. MaxValue

\* _LoginTask and the browser of its thread; how it was started says when it stores.
Thread == [platform : Platforms, pc : {"ended", "opening", "waiting", "verified"},
           by : {"manager", "auto", "enter"}, running : BOOLEAN, stop : BOOLEAN, had : BOOLEAN]

Worker == [pc : {"off", "loaded", "idle", "executing", "closing"}, claimed : BOOLEAN,
           ctx : [Platforms -> Value], seen : [Platforms -> {"absent", "same", "older"}],
           todo : SUBSET Platforms, read : Content, reading : BOOLEAN]

WorkerOff(claimed) ==
    [pc |-> "off", claimed |-> claimed, ctx |-> [p \in Platforms |-> NoCookie],
     seen |-> [p \in Platforms |-> "absent"], todo |-> {}, read |-> NoFile, reading |-> FALSE]

NoImport == [active |-> FALSE, platform |-> Tomato, value |-> NoCookie, read |-> NoFile]

Init ==
    /\ file = [p \in Platforms |-> NoFile]
    /\ issued = [p \in Platforms |-> 0] /\ expired = issued
    /\ profile = [p \in Platforms |-> NoCookie]
    /\ thread = [t \in Threads |-> [platform |-> Tomato, pc |-> "ended", by |-> "manager",
                                    running |-> FALSE, stop |-> FALSE, had |-> FALSE]]
    /\ task = [p \in Platforms |-> NoThread]
    /\ importing = NoImport /\ worker = WorkerOff(FALSE)
    /\ stored = [p \in Platforms |-> NoCookie] /\ missed = {} /\ raced = {} /\ ops = 0

\* The authentication cookie of a file's content, if there is one.
CookieOf(content) == IF content = NoFile THEN NoCookie ELSE content

Accepted(p, value) == value > expired[p]

Operation == ops < MaxOps /\ ops' = ops + 1

\* The server issues a new value of p's cookie.
Issue(p) ==
    /\ issued[p] < MaxValue
    /\ issued' = [issued EXCEPT ![p] = @ + 1] /\ UNCHANGED expired

-----------------------------------------------------------------------------
(* The status the dashboard shows. *)

\* check: an authentication cookie is on disk. Its own expiry date is part of Accepted.
Check(p) == CookieOf(file[p]) > NoCookie

\* check_live: a headless page with the stored cookies is not sent to the login page.
CheckLive(p) == Check(p) /\ Accepted(p, file[p])

-----------------------------------------------------------------------------
(* Writing a file. *)

WorkerUp == worker.pc \in {"idle", "executing"}

\* The worker compares the modification times of the files there were at its start.
Touched(p) == IF WorkerUp /\ worker.seen[p] = "same" THEN [worker EXCEPT !.seen[p] = "older"]
              ELSE worker

WriteFile(p, content) ==
    /\ file' = [file EXCEPT ![p] = content]
    /\ missed' = IF worker.pc = "loaded" \/ (WorkerUp /\ worker.seen[p] = "absent")
                 THEN missed \cup {p} ELSE missed

-----------------------------------------------------------------------------
(* Login browsers. *)

IsRunning(p) == task[p] # NoThread /\ thread[task[p]].running

\* A thread whose browser is closed serves the next login; the manager's record of it, if
\* it still has one, then counts for nothing.
StartThread(t, p, by) ==
    /\ thread[t].pc = "ended" /\ Operation
    /\ thread' = [thread EXCEPT ![t] = [platform |-> p, pc |-> "opening", by |-> by,
                                        running |-> TRUE, stop |-> FALSE, had |-> FALSE]]
    /\ task' = [q \in Platforms |-> IF q = p /\ by = "manager" THEN t
                                    ELSE IF task[q] = t THEN NoThread ELSE task[q]]
    /\ UNCHANGED <<fileVars, serverVars, profile, importing, worker>>

\* SessionLoginManager.start, unless a login of the platform runs; the login command.
Start(p) == ~IsRunning(p) /\ \E t \in Threads : StartThread(t, p, "manager")
LoginCommand(p) == \E t \in Threads, by \in {"auto", "enter"} : StartThread(t, p, by)

Close(t) == [thread EXCEPT ![t].pc = "ended", ![t].running = FALSE]

ProfileIsOpen(p) == \E t \in Threads : thread[t].platform = p /\ thread[t].pc \in {"waiting", "verified"}

LoggedIn(p) == Accepted(p, profile[p])

\* launch_persistent_context, which a second Chromium on the profile cannot do; the tomato
\* page may already show a login, the others note the cookies there are.
Open(t) ==
    LET p == thread[t].platform IN
    /\ thread[t].pc = "opening"
    /\ IF ProfileIsOpen(p) THEN thread' = Close(t)
       ELSE thread' = [thread EXCEPT
                ![t].pc = IF p = Tomato /\ LoggedIn(p) THEN "verified" ELSE "waiting",
                ![t].had = profile[p] > NoCookie]
    /\ UNCHANGED <<fileVars, serverVars, profile, task, importing, worker, ops>>

\* The person enters the password and the captcha.
PersonLogsIn(t) ==
    LET p == thread[t].platform IN
    /\ thread[t].pc = "waiting" /\ Operation /\ Issue(p)
    /\ profile' = [profile EXCEPT ![p] = issued'[p]]
    /\ UNCHANGED <<fileVars, thread, task, importing, worker>>

\* Enter in the terminal, which the login command without --auto-save waits for.
PressEnter(t) ==
    /\ thread[t].by = "enter" /\ thread[t].pc = "waiting" /\ ~thread[t].stop
    /\ thread' = [thread EXCEPT ![t].stop = TRUE]
    /\ UNCHANGED <<fileVars, serverVars, profile, task, importing, worker, ops>>

\* _login_tomato: stores on a visible login; Enter also stores a cookie nobody checked.
PollTomato(t) ==
    /\ thread[t].platform = Tomato
    /\ \/ /\ (thread[t].by = "enter" => thread[t].stop) /\ LoggedIn(Tomato)
          /\ thread' = [thread EXCEPT ![t].pc = "verified"]
       \/ /\ thread[t].stop /\ ~LoggedIn(Tomato)
          /\ thread' = IF thread[t].by = "enter" /\ profile[Tomato] > NoCookie
                       THEN [thread EXCEPT ![t].pc = "verified"] ELSE Close(t)

\* _login_generic: stores a login when a cookie key appears that the profile did not have
\* at the start, or, when told to stop, whatever keys there are if the page is not the login.
PollGeneric(t) ==
    LET p == thread[t].platform IN
    /\ p # Tomato
    /\ \/ thread[t].stop /\ thread' = IF LoggedIn(p) THEN [thread EXCEPT ![t].pc = "verified"]
                                      ELSE Close(t)
       \/ /\ ~thread[t].stop /\ thread[t].by # "enter" /\ ~thread[t].had /\ LoggedIn(p)
          /\ thread' = [thread EXCEPT ![t].pc = "verified"]

Poll(t) ==
    /\ thread[t].pc = "waiting" /\ (PollTomato(t) \/ PollGeneric(t))
    /\ UNCHANGED <<fileVars, serverVars, profile, task, importing, worker, ops>>

\* Mutant: no deadline.
WaitsForever(t) ==
    /\ thread[t].pc = "waiting" /\ thread[t].stop /\ thread' = Close(t)
    /\ UNCHANGED <<fileVars, serverVars, profile, task, importing, worker, ops>>

\* The ten minutes of _LOGIN_WAIT_SECONDS are over.
TimesOut(t) ==
    /\ thread[t].pc = "waiting" /\ (thread[t].by = "enter" => thread[t].stop)
    /\ thread' = Close(t)
    /\ UNCHANGED <<fileVars, serverVars, profile, task, importing, worker, ops>>

\* The browser is closed by hand or an error ends the thread.
Breaks(t) ==
    /\ thread[t].pc \in {"waiting", "verified"} /\ Operation
    /\ thread' = Close(t)
    /\ UNCHANGED <<fileVars, serverVars, profile, task, importing, worker>>

\* _save_storage: the whole file is replaced by the login browser's cookies.
SaveLogin(t) ==
    LET p == thread[t].platform IN
    /\ thread[t].pc = "verified"
    /\ WriteFile(p, profile[p]) /\ worker' = Touched(p)
    /\ stored' = [stored EXCEPT ![p] = profile[p]] /\ raced' = raced \ {p}
    /\ thread' = Close(t)
    /\ UNCHANGED <<serverVars, profile, task, importing, ops>>

Finish(p) ==
    /\ IsRunning(p) /\ ~thread[task[p]].stop
    /\ thread' = [thread EXCEPT ![task[p]].stop = TRUE]
    /\ UNCHANGED <<fileVars, serverVars, profile, task, importing, worker, ops>>

\* reset: the manager forgets the task; its thread and browser go on.
Reset(p) ==
    /\ task[p] # NoThread /\ Operation
    /\ thread' = [thread EXCEPT ![task[p]].running = FALSE, ![task[p]].stop = TRUE]
    /\ task' = [task EXCEPT ![p] = NoThread]
    /\ UNCHANGED <<fileVars, serverVars, profile, importing, worker>>

-----------------------------------------------------------------------------
(* Imports, and clearing. *)

\* From Chrome, from a storage file or from the request: a login made elsewhere, an old
\* value, or cookies without an authentication cookie. The file is read first.
ImportRead(p) ==
    /\ ~importing.active /\ Operation
    /\ Issue(p) \/ UNCHANGED serverVars
    /\ \E v \in NoCookie .. issued'[p] :
          importing' = [active |-> TRUE, platform |-> p, value |-> v, read |-> file[p]]
    /\ UNCHANGED <<fileVars, threadVars, worker>>

\* import_storage: the incoming cookies come first, so they win.
Imported(incoming, existing) == IF incoming > NoCookie THEN incoming ELSE CookieOf(existing)

ImportWrite ==
    LET p == importing.platform  content == Imported(importing.value, importing.read) IN
    /\ importing.active
    /\ WriteFile(p, content) /\ worker' = Touched(p)
    /\ IF importing.value > NoCookie
       THEN stored' = [stored EXCEPT ![p] = content] /\ raced' = raced \ {p}
       ELSE stored' = stored /\ raced' = IF file[p] = importing.read THEN raced ELSE raced \cup {p}
    /\ importing' = NoImport
    /\ UNCHANGED <<serverVars, threadVars, ops>>

\* clear: the file goes; the worker's modification times do not show it.
Clear(p) ==
    /\ file[p] # NoFile /\ Operation
    /\ file' = [file EXCEPT ![p] = NoFile] /\ stored' = [stored EXCEPT ![p] = NoCookie]
    /\ UNCHANGED <<missed, raced, serverVars, threadVars, importing, worker>>

-----------------------------------------------------------------------------
(* The worker's browser. *)

\* start: the files are loaded into a new context ...
WorkerLoads ==
    /\ worker.pc = "off" /\ IF worker.claimed THEN UNCHANGED ops ELSE Operation
    /\ worker' = [worker EXCEPT !.pc = "loaded", !.ctx = [p \in Platforms |-> CookieOf(file[p])]]
    /\ missed' = {}
    /\ UNCHANGED <<file, stored, raced, serverVars, threadVars, importing>>

\* ... and then their modification times are taken.
WorkerCaptures ==
    /\ worker.pc = "loaded"
    /\ worker' = [worker EXCEPT
            !.pc = IF worker.claimed THEN "executing" ELSE "idle", !.claimed = FALSE,
            !.seen = [p \in Platforms |-> IF file[p] = NoFile THEN "absent" ELSE "same"]]
    /\ UNCHANGED <<fileVars, serverVars, threadVars, importing, ops>>

\* Mutant: all files must have changed.
AllChangedOnDisk == \A p \in Platforms : worker.seen[p] = "older"

\* storage_changed_on_disk: files that were absent at the start are not looked at.
StorageChangedOnDisk == \E p \in Platforms : worker.seen[p] = "older"

Closing(claimed) ==
    [worker EXCEPT !.pc = "closing", !.claimed = claimed, !.todo = Platforms]

\* _run_cycle after a claim: the browser is rebuilt first if a file has changed.
Claim ==
    /\ worker.pc = "idle"
    /\ worker' = IF StorageChangedOnDisk THEN Closing(TRUE) ELSE [worker EXCEPT !.pc = "executing"]
    /\ UNCHANGED <<fileVars, serverVars, threadVars, importing, ops>>

\* The server renews the cookie while the browser works.
Renew(p) ==
    /\ worker.pc = "executing" /\ Accepted(p, worker.ctx[p]) /\ Operation /\ Issue(p)
    /\ worker' = [worker EXCEPT !.ctx[p] = issued'[p]]
    /\ UNCHANGED <<fileVars, threadVars, importing>>

Executed ==
    /\ worker.pc = "executing" /\ worker' = [worker EXCEPT !.pc = "idle"]
    /\ UNCHANGED <<fileVars, serverVars, threadVars, importing, ops>>

\* After so many tasks, or at the end of the process.
WorkerCloses ==
    /\ worker.pc = "idle" /\ Operation /\ worker' = Closing(FALSE)
    /\ UNCHANGED <<fileVars, serverVars, threadVars, importing>>

\* The browser is gone: storage_state fails and close saves nothing.
BrowserDies ==
    /\ WorkerUp /\ Operation /\ worker' = WorkerOff(FALSE)
    /\ UNCHANGED <<fileVars, serverVars, threadVars, importing>>

\* save_storage_state goes through the platforms in their fixed order.
NextToSave == IF Tomato \in worker.todo THEN Tomato ELSE CHOOSE p \in worker.todo : TRUE

SaveRead ==
    /\ worker.pc = "closing" /\ worker.todo # {} /\ ~worker.reading
    /\ worker' = [worker EXCEPT !.reading = TRUE, !.read = file[NextToSave]]
    /\ UNCHANGED <<fileVars, serverVars, threadVars, importing, ops>>

\* Mutant: existing + browser, so the worker's own cookie wins.
MergedSwapped(browser, existing) == IF browser > NoCookie THEN browser ELSE CookieOf(existing)

\* _dedupe_cookies(browser + existing): the later entry wins, the one on disk.
Merged(browser, existing) == IF CookieOf(existing) > NoCookie THEN existing ELSE browser

SaveWrite ==
    LET p == NextToSave IN
    /\ worker.pc = "closing" /\ worker.todo # {} /\ worker.reading
    /\ WriteFile(p, Merged(worker.ctx[p], worker.read))
    /\ raced' = IF file[p] = worker.read THEN raced ELSE raced \cup {p}
    /\ worker' = [worker EXCEPT !.reading = FALSE, !.read = NoFile, !.todo = @ \ {p}]
    /\ UNCHANGED <<stored, serverVars, threadVars, importing, ops>>

WorkerClosed ==
    /\ worker.pc = "closing" /\ worker.todo = {} /\ worker' = WorkerOff(worker.claimed)
    /\ UNCHANGED <<fileVars, serverVars, threadVars, importing, ops>>

WorkerNext ==
    \/ WorkerLoads \/ WorkerCaptures \/ Claim \/ Executed \/ WorkerCloses \/ BrowserDies
    \/ SaveRead \/ SaveWrite \/ WorkerClosed
    \/ \E p \in Platforms : Renew(p)

-----------------------------------------------------------------------------
\* The server stops accepting values, the oldest first.
Expire(p) ==
    /\ expired[p] < issued[p] /\ Operation
    /\ expired' = [expired EXCEPT ![p] = issued[p]]
    /\ UNCHANGED <<fileVars, issued, threadVars, importing, worker>>

ThreadStep(t) == Open(t) \/ Poll(t) \/ TimesOut(t) \/ SaveLogin(t)

PeopleNext ==
    \/ \E p \in Platforms : \/ Start(p) \/ LoginCommand(p) \/ Finish(p)
                            \/ Reset(p) \/ ImportRead(p) \/ Clear(p) \/ Expire(p)
    \/ \E t \in Threads : PersonLogsIn(t) \/ PressEnter(t) \/ Breaks(t)

Next == PeopleNext \/ ImportWrite \/ WorkerNext \/ \E t \in Threads : ThreadStep(t)

\* The threads run on their own.
Fairness == \A t \in Threads : WF_vars(ThreadStep(t))

Spec == Init /\ [][Next]_vars
FairSpec == Spec /\ Fairness

-----------------------------------------------------------------------------
(* Properties. *)

\* The shapes; the record the manager keeps of a login is that platform's, and says running
\* only while the thread has not ended (_LoginTask, the finally of _run).
TypeOK ==
    /\ file \in [Platforms -> Content] /\ worker \in Worker
    /\ issued \in [Platforms -> Value] /\ expired \in [Platforms -> Value]
    /\ profile \in [Platforms -> Value] /\ stored \in [Platforms -> Value]
    /\ thread \in [Threads -> Thread] /\ task \in [Platforms -> Threads \cup {NoThread}]
    /\ missed \subseteq Platforms /\ raced \subseteq Platforms
    /\ \A t \in Threads : thread[t].running => thread[t].pc # "ended"
    /\ \A p \in Platforms : task[p] # NoThread => thread[task[p]].platform = p

\* A task is executed with a login that works whenever the dashboard shows one that does:
\* no writer of the file gets past the comparison of modification times at the claim, but
\* for a file that was absent when the worker started and one that is written while it
\* starts (missed).
ExecutesLoggedIn ==
    [][\A p \in Platforms :
        /\ worker.pc # "executing" /\ worker'.pc = "executing"
        /\ CheckLive(p) /\ p \notin missed
        => Accepted(p, worker'.ctx[p])]_vars

\* The login a person stored last stays in the file until it is cleared: neither a worker
\* that closes with older cookies nor an import without a login takes it away, except when
\* two of them write the file at once (raced).
StoredLoginIsKept ==
    \A p \in Platforms : stored[p] > NoCookie /\ p \notin raced => file[p] = stored[p]

\* A login the manager started comes to an end, so the platform can be logged in again,
\* whatever the person does or does not do.
LoginEnds == \A p \in Platforms : IsRunning(p) ~> ~IsRunning(p)

\* save_storage_state writes the cookie the server has renewed back to the file, so that
\* the next start does not load the one it replaced (worker_browser.py:115-119).
RenewalIsWritten ==
    [][\A p \in Platforms : SaveWrite /\ p = NextToSave => file'[p] >= worker.ctx[p]]_vars

=============================================================================
