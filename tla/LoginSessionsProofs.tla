------------------------ MODULE LoginSessionsProofs ------------------------
(***************************************************************************)
(* Proofs about LoginSessions, for every set of platforms and of login     *)
(* browsers and every bound: types, the login that is kept in the file,    *)
(* and the login a worker executes with.                                   *)
(***************************************************************************)
EXTENDS LoginSessions, TLAPS

ImportOK == importing \in [active : BOOLEAN, platform : Platforms, value : Value, read : Content]

\* No cookie is newer than the last value its server has issued.
IssuedOK ==
    /\ worker.pc # "closing" => ~worker.reading
    /\ \A p \in Platforms :
          /\ file[p] <= issued[p] /\ profile[p] <= issued[p] /\ worker.ctx[p] <= issued[p]
          /\ worker.reading /\ p = NextToSave => worker.read <= issued[p]
          /\ p = importing.platform => importing.value <= issued[p] /\ importing.read <= issued[p]

\* What the worker's browser has is as new as the file, unless the modification times, or
\* their absence, show that the file has been written since.
SeesOK ==
    \A p \in Platforms \ missed :
        /\ worker.pc = "loaded" => file[p] <= worker.ctx[p]
        /\ WorkerUp => CASE worker.seen[p] = "same" -> file[p] <= worker.ctx[p]
                         [] worker.seen[p] = "absent" -> file[p] = NoFile
                         [] OTHER -> TRUE

IInv == TypeOK /\ ImportOK /\ IssuedOK /\ StoredLoginIsKept /\ SeesOK

-----------------------------------------------------------------------------
(* Types                                                                    *)

LEMMA Numbers ==
    /\ NoCookie \in Value /\ NoFile \in Content /\ Value \subseteq Int /\ Content \subseteq Int
    /\ \A v \in Value : v \in Content /\ v >= NoCookie
    /\ \A c \in Content : CookieOf(c) \in Value
    /\ ops \in Nat /\ ops < MaxOps => ops + 1 \in Nat
BY LoginSessionsAssumption DEF Value, Content, NoCookie, NoFile, CookieOf

\* The server's next value is one it can issue, above all before.
LEMMA Issuing ==
    ASSUME NEW p \in Platforms, Issue(p), issued \in [Platforms -> Value]
    PROVE  /\ issued' \in [Platforms -> Value] /\ expired' = expired
           /\ \A q \in Platforms : issued'[q] >= issued[q]
           /\ issued'[p] = issued[p] + 1
BY LoginSessionsAssumption DEF Issue, Value, NoCookie

LEMMA WorkerRecords ==
    ASSUME worker \in Worker
    PROVE  /\ \A c \in BOOLEAN : WorkerOff(c) \in Worker /\ Closing(c) \in Worker
           /\ \A p \in Platforms : Touched(p) \in Worker
BY Numbers DEF Worker, WorkerOff, Closing, Touched

\* What is written is a content.
LEMMA Writing ==
    ASSUME NEW p \in Platforms, NEW c \in Content, WriteFile(p, c),
           file \in [Platforms -> Content], missed \subseteq Platforms
    PROVE  file' \in [Platforms -> Content] /\ missed' \subseteq Platforms
BY DEF WriteFile

LEMMA Saving ==
    ASSUME worker.pc = "closing", worker.todo # {}, worker \in Worker
    PROVE  NextToSave \in Platforms /\ NextToSave \in worker.todo
<1>1. NextToSave \in worker.todo
  BY DEF NextToSave
<1> QED  BY <1>1 DEF Worker

\* The records of threads and the manager's tasks keep their types and their agreement.
ThreadsOK ==
    /\ thread \in [Threads -> Thread] /\ task \in [Platforms -> Threads \cup {NoThread}]
    /\ \A t \in Threads : thread[t].running => thread[t].pc # "ended"
    /\ \A p \in Platforms : task[p] # NoThread => thread[task[p]].platform = p

\* Updates of a thread's record.
LEMMA ThreadRecords ==
    ASSUME NEW r \in Thread
    PROVE  /\ [r EXCEPT !.stop = TRUE] \in Thread
           /\ [r EXCEPT !.running = FALSE, !.stop = TRUE] \in Thread
           /\ \A pc \in {"waiting", "verified"} :
                 /\ [r EXCEPT !.pc = pc] \in Thread
                 /\ \A had \in BOOLEAN : [r EXCEPT !.pc = pc, !.had = had] \in Thread
BY DEF Thread

LEMMA CloseKeeps ==
    ASSUME ThreadsOK, NEW t \in Threads
    PROVE  \E r \in Thread : /\ Close(t) = [thread EXCEPT ![t] = r]
                             /\ r.platform = thread[t].platform /\ r.running = FALSE
<1> DEFINE r == [thread[t] EXCEPT !.pc = "ended", !.running = FALSE]
<1>1. r \in Thread /\ r.platform = thread[t].platform /\ r.running = FALSE
  BY DEF ThreadsOK, Thread
<1>2. Close(t) = [thread EXCEPT ![t] = r]
  BY DEF Close, ThreadsOK
<1> QED  BY <1>1, <1>2

\* A step of one thread, in which the manager at most forgets tasks.
LEMMA OneThread ==
    ASSUME ThreadsOK, NEW t \in Threads, NEW r \in Thread, thread' = [thread EXCEPT ![t] = r],
           r.platform = thread[t].platform, r.running => r.pc # "ended",
           task' \in [Platforms -> Threads \cup {NoThread}],
           \A q \in Platforms : task'[q] \in {task[q], NoThread}
    PROVE  ThreadsOK'
<1>1. \A u \in Threads : thread'[u].platform = thread[u].platform
  BY DEF ThreadsOK
<1> QED  BY <1>1 DEF ThreadsOK

LEMMA ThreadsStep ==
    ASSUME ThreadsOK, Next PROVE ThreadsOK'
<1> USE DEF ThreadsOK
<1>1. ASSUME NEW p \in Platforms, NEW t \in Threads, NEW by \in {"manager", "auto", "enter"},
             StartThread(t, p, by)
      PROVE  ThreadsOK'
  <2>1. thread' \in [Threads -> Thread] /\ task' \in [Platforms -> Threads \cup {NoThread}]
    BY <1>1 DEF StartThread, Thread
  <2>2. \A u \in Threads : thread'[u].running => thread'[u].pc # "ended"
    BY <1>1 DEF StartThread
  <2>3. ASSUME NEW q \in Platforms, task'[q] # NoThread PROVE thread'[task'[q]].platform = q
    <3>1. CASE task'[q] = t
      BY <1>1, <3>1, LoginSessionsAssumption DEF StartThread
    <3>2. CASE task'[q] # t
      BY <1>1, <2>3, <3>2 DEF StartThread
    <3> QED  BY <3>1, <3>2
  <2> QED  BY <2>1, <2>2, <2>3
<1>2. ASSUME NEW t \in Threads, Open(t) \/ Poll(t) \/ PressEnter(t) PROVE ThreadsOK'
  <2>1. \E r \in Thread :
           /\ thread' = [thread EXCEPT ![t] = r] /\ r.platform = thread[t].platform
           /\ r.running => r.pc # "ended"
    <3>1. thread[t] \in Thread /\ thread[t].running \in BOOLEAN
      BY DEF Thread
    <3>2. CASE thread' = Close(t)
      BY <3>1, <3>2, CloseKeeps
    <3>3. CASE Open(t) /\ thread' # Close(t)
      <4> DEFINE pc == IF thread[t].platform = Tomato /\ LoggedIn(thread[t].platform)
                       THEN "verified" ELSE "waiting"
                 had == profile[thread[t].platform] > NoCookie
                 r == [thread[t] EXCEPT !.pc = pc, !.had = had]
      <4>1. thread' = [thread EXCEPT ![t] = r]
        BY <3>3 DEF Open
      <4>2. pc \in {"waiting", "verified"} /\ had \in BOOLEAN
        OBVIOUS
      <4> HIDE DEF pc, had
      <4>3. r \in Thread
        BY <3>1, <4>2, ThreadRecords
      <4>4. r.platform = thread[t].platform /\ r.pc # "ended"
        BY <3>1, <4>2 DEF Thread
      <4> HIDE DEF r
      <4> QED  BY <4>1, <4>3, <4>4
    <3>4. CASE Poll(t) /\ thread' # Close(t)
      <4> DEFINE r == [thread[t] EXCEPT !.pc = "verified"]
      <4>1. thread' = [thread EXCEPT ![t] = r]
        BY <3>4 DEF Poll, PollTomato, PollGeneric
      <4>2. r \in Thread
        BY <3>1, ThreadRecords
      <4>3. r.platform = thread[t].platform /\ r.pc # "ended"
        BY <3>1 DEF Thread
      <4> HIDE DEF r
      <4> QED  BY <4>1, <4>2, <4>3
    <3>5. CASE PressEnter(t)
      <4> DEFINE r == [thread[t] EXCEPT !.stop = TRUE]
      <4>1. thread' = [thread EXCEPT ![t] = r] /\ thread[t].pc # "ended"
        BY <3>5 DEF PressEnter
      <4>2. r \in Thread
        BY <3>1, ThreadRecords
      <4>3. r.platform = thread[t].platform /\ r.pc # "ended"
        BY <3>1, <4>1 DEF Thread
      <4> HIDE DEF r
      <4> QED  BY <4>1, <4>2, <4>3
    <3> QED  BY <1>2, <3>2, <3>3, <3>4, <3>5
  <2>2. UNCHANGED task
    BY <1>2 DEF Open, Poll, PressEnter
  <2> QED  BY <2>1, <2>2, OneThread
<1>3. ASSUME NEW t \in Threads, TimesOut(t) \/ SaveLogin(t) \/ Breaks(t) PROVE ThreadsOK'
  <2>1. thread' = Close(t) /\ UNCHANGED task
    BY <1>3 DEF TimesOut, SaveLogin, Breaks
  <2> QED  BY <2>1, CloseKeeps, OneThread, ZenonT(60)
<1>7. ASSUME NEW p \in Platforms, Finish(p) \/ Reset(p) PROVE ThreadsOK'
  <2> DEFINE t == task[p]
  <2>1. t \in Threads
    BY <1>7 DEF Finish, Reset, IsRunning
  <2>2. \E r \in Thread :
           /\ thread' = [thread EXCEPT ![t] = r] /\ r.platform = thread[t].platform
           /\ r.running => r.pc # "ended"
    <3>1. CASE Finish(p)
      <4> DEFINE r == [thread[t] EXCEPT !.stop = TRUE]
      <4>1. thread' = [thread EXCEPT ![t] = r] /\ thread[t].running
        BY <3>1 DEF Finish, IsRunning
      <4>2. r \in Thread
        BY <2>1, ThreadRecords
      <4>3. r.platform = thread[t].platform /\ r.pc = thread[t].pc /\ thread[t].pc # "ended"
        BY <2>1, <4>1 DEF Thread
      <4> HIDE DEF r
      <4> QED  BY <4>1, <4>2, <4>3
    <3>2. CASE Reset(p)
      <4> DEFINE r == [thread[t] EXCEPT !.running = FALSE, !.stop = TRUE]
      <4>1. thread' = [thread EXCEPT ![t] = r]
        BY <3>2 DEF Reset
      <4>2. r \in Thread
        BY <2>1, ThreadRecords
      <4>3. r.platform = thread[t].platform /\ r.running = FALSE
        BY <2>1 DEF Thread
      <4> HIDE DEF r
      <4> QED  BY <4>1, <4>2, <4>3
    <3> QED  BY <1>7, <3>1, <3>2
  <2>3. task' \in [Platforms -> Threads \cup {NoThread}]
        /\ \A q \in Platforms : task'[q] \in {task[q], NoThread}
    BY <1>7 DEF Finish, Reset
  <2> HIDE DEF t
  <2> QED  BY <2>1, <2>2, <2>3, OneThread
<1>4. ASSUME NEW t \in Threads, PersonLogsIn(t) PROVE ThreadsOK'
  BY <1>4 DEF PersonLogsIn
<1>5. ASSUME NEW p \in Platforms, ImportRead(p) \/ Clear(p) \/ Expire(p) \/ Renew(p)
      PROVE  ThreadsOK'
  BY <1>5 DEF ImportRead, Clear, Expire, Renew, threadVars
<1>6. CASE \/ ImportWrite \/ WorkerLoads \/ WorkerCaptures \/ Claim \/ Executed \/ WorkerCloses
           \/ BrowserDies \/ SaveRead \/ SaveWrite \/ WorkerClosed
  BY <1>6 DEF ImportWrite, WorkerLoads, WorkerCaptures, Claim, Executed, WorkerCloses,
              BrowserDies, SaveRead, SaveWrite, WorkerClosed, threadVars
<1> QED
  BY <1>1, <1>2, <1>3, <1>4, <1>5, <1>6, <1>7
  DEF Next, PeopleNext, WorkerNext, ThreadStep, Start, LoginCommand

\* The files, the cookies and the worker keep their types.
ValuesOK ==
    /\ file \in [Platforms -> Content] /\ worker \in Worker
    /\ issued \in [Platforms -> Value] /\ expired \in [Platforms -> Value]
    /\ profile \in [Platforms -> Value] /\ stored \in [Platforms -> Value]
    /\ missed \subseteq Platforms /\ raced \subseteq Platforms
    /\ ImportOK

LEMMA ValuesStep ==
    ASSUME ThreadsOK, ValuesOK, Next PROVE ValuesOK'
<1> USE DEF ValuesOK
<1>1. ASSUME NEW p \in Platforms, NEW t \in Threads, NEW by \in {"manager", "auto", "enter"},
             StartThread(t, p, by)
      PROVE  ValuesOK'
  BY <1>1 DEF StartThread, fileVars, serverVars, ImportOK
<1>2. ASSUME NEW t \in Threads, Open(t) \/ Poll(t) \/ TimesOut(t) \/ PressEnter(t) \/ Breaks(t)
      PROVE  ValuesOK'
  BY <1>2 DEF Open, Poll, TimesOut, PressEnter, Breaks, fileVars, serverVars, ImportOK
<1>3. ASSUME NEW t \in Threads, SaveLogin(t) PROVE ValuesOK'
  <2> DEFINE p == thread[t].platform
  <2>1. p \in Platforms /\ profile[p] \in Content
    BY Numbers DEF ThreadsOK, Thread
  <2>2. WriteFile(p, profile[p]) /\ worker' = Touched(p) /\ stored' = [stored EXCEPT ![p] = profile[p]]
        /\ raced' = raced \ {p} /\ UNCHANGED <<serverVars, profile, importing>>
    BY <1>3 DEF SaveLogin
  <2> HIDE DEF p
  <2>3. file' \in [Platforms -> Content] /\ missed' \subseteq Platforms /\ worker' \in Worker
    BY <2>1, <2>2, Writing, WorkerRecords
  <2> QED  BY <2>1, <2>2, <2>3 DEF serverVars, ImportOK
<1>4. ASSUME NEW p \in Platforms, Finish(p) \/ Reset(p) PROVE ValuesOK'
  BY <1>4 DEF Finish, Reset, fileVars, serverVars, ImportOK
<1>5. ASSUME NEW t \in Threads, PersonLogsIn(t) PROVE ValuesOK'
  <2> DEFINE p == thread[t].platform
  <2>1. p \in Platforms
    BY DEF ThreadsOK, Thread
  <2>2. Issue(p) /\ profile' = [profile EXCEPT ![p] = issued'[p]]
        /\ UNCHANGED <<fileVars, importing, worker>>
    BY <1>5 DEF PersonLogsIn
  <2> HIDE DEF p
  <2>3. issued' \in [Platforms -> Value] /\ expired' = expired
    BY <2>1, <2>2, Issuing
  <2> QED  BY <2>1, <2>2, <2>3 DEF fileVars, ImportOK
<1>6. ASSUME NEW p \in Platforms, ImportRead(p) PROVE ValuesOK'
  <2>1. issued' \in [Platforms -> Value] /\ expired' = expired
    BY <1>6, Issuing DEF ImportRead, serverVars
  <2>2. \A v \in NoCookie .. issued'[p] : v \in Value
    BY <2>1, Numbers, LoginSessionsAssumption DEF Value, NoCookie
  <2>3. ImportOK'
    BY <1>6, <2>2 DEF ImportRead, ImportOK
  <2> QED  BY <1>6, <2>1, <2>3 DEF ImportRead, fileVars, threadVars
<1>7. CASE ImportWrite
  <2> DEFINE p == importing.platform  content == Imported(importing.value, importing.read)
  <2>1. p \in Platforms /\ content \in Content /\ (importing.value > NoCookie => content \in Value)
    BY Numbers DEF Imported, ImportOK
  <2>2. WriteFile(p, content) /\ worker' = Touched(p) /\ importing' = NoImport
        /\ stored' \in {stored, [stored EXCEPT ![p] = content]}
        /\ (importing.value > NoCookie \/ stored' = stored)
        /\ raced' \subseteq raced \cup {p} /\ UNCHANGED <<serverVars, profile>>
    BY <1>7 DEF ImportWrite, threadVars
  <2> HIDE DEF p, content
  <2>3. file' \in [Platforms -> Content] /\ missed' \subseteq Platforms /\ worker' \in Worker
    BY <2>1, <2>2, Writing, WorkerRecords
  <2>4. ImportOK'
    BY <2>2, Numbers, LoginSessionsAssumption DEF ImportOK, NoImport
  <2>5. stored' \in [Platforms -> Value]
    BY <2>1, <2>2
  <2>6. raced' \subseteq Platforms
    BY <2>1, <2>2
  <2> QED  BY <2>2, <2>3, <2>4, <2>5, <2>6 DEF serverVars
<1>8. ASSUME NEW p \in Platforms, Clear(p) PROVE ValuesOK'
  BY <1>8, Numbers DEF Clear, serverVars, threadVars, ImportOK
<1>9. CASE WorkerLoads
  BY <1>9, Numbers DEF WorkerLoads, serverVars, threadVars, ImportOK, Worker
<1>10. CASE WorkerCaptures
  BY <1>10, Numbers DEF WorkerCaptures, fileVars, serverVars, threadVars, ImportOK, Worker
<1>11. CASE Claim \/ Executed \/ WorkerCloses \/ BrowserDies \/ WorkerClosed
  <2>1. worker' \in Worker
    <3>1. worker.claimed \in BOOLEAN /\ [worker EXCEPT !.pc = "executing"] \in Worker
          /\ [worker EXCEPT !.pc = "idle"] \in Worker
      BY DEF Worker
    <3> QED
      BY <1>11, <3>1, WorkerRecords DEF Claim, Executed, WorkerCloses, BrowserDies, WorkerClosed
  <2> QED
    BY <1>11, <2>1 DEF Claim, Executed, WorkerCloses, BrowserDies, WorkerClosed, fileVars,
                       serverVars, threadVars, ImportOK
<1>12. ASSUME NEW p \in Platforms, Renew(p) PROVE ValuesOK'
  <2>1. issued' \in [Platforms -> Value] /\ expired' = expired
    BY <1>12, Issuing DEF Renew
  <2>2. worker' \in Worker
    BY <1>12, <2>1 DEF Renew, Worker
  <2> QED  BY <1>12, <2>1, <2>2 DEF Renew, fileVars, threadVars, ImportOK
<1>13. CASE SaveRead
  <2>1. NextToSave \in Platforms
    BY <1>13, Saving DEF SaveRead
  <2>2. worker' \in Worker
    BY <1>13, <2>1 DEF SaveRead, Worker
  <2> QED  BY <1>13, <2>2 DEF SaveRead, fileVars, serverVars, threadVars, ImportOK
<1>14. CASE SaveWrite
  <2> DEFINE p == NextToSave  content == Merged(worker.ctx[p], worker.read)
  <2>1. p \in Platforms
    BY <1>14, Saving DEF SaveWrite
  <2>2. WriteFile(p, content) /\ raced' \subseteq raced \cup {p}
        /\ worker' = [worker EXCEPT !.reading = FALSE, !.read = NoFile, !.todo = @ \ {p}]
        /\ UNCHANGED <<stored, serverVars, profile, importing>>
    BY <1>14 DEF SaveWrite, threadVars
  <2> HIDE DEF p
  <2>3. content \in Content
    BY <2>1, Numbers DEF Worker, Merged
  <2> HIDE DEF content
  <2>4. file' \in [Platforms -> Content] /\ missed' \subseteq Platforms
    BY <2>1, <2>2, <2>3, Writing
  <2>5. worker' \in Worker
    BY <2>2, Numbers DEF Worker
  <2> QED  BY <2>1, <2>2, <2>4, <2>5 DEF serverVars, ImportOK
<1>15. ASSUME NEW p \in Platforms, Expire(p) PROVE ValuesOK'
  BY <1>15 DEF Expire, fileVars, threadVars, ImportOK
<1> QED
  BY <1>1, <1>2, <1>3, <1>4, <1>5, <1>6, <1>7, <1>8, <1>9, <1>10, <1>11, <1>12, <1>13, <1>14, <1>15
  DEF Next, PeopleNext, WorkerNext, ThreadStep, Start, LoginCommand

-----------------------------------------------------------------------------
(* The invariant                                                            *)

\* Steps that neither write a file nor change what a browser or an import holds.
Still == UNCHANGED <<file, issued, profile, importing, worker, stored, raced, missed>>

LEMMA Steps ==
    ASSUME Next
    PROVE  \/ Still
           \/ \E t \in Threads : SaveLogin(t) \/ PersonLogsIn(t)
           \/ \E p \in Platforms : ImportRead(p) \/ Clear(p) \/ Renew(p)
           \/ ImportWrite \/ WorkerLoads \/ WorkerCaptures \/ Claim \/ Executed \/ WorkerCloses
           \/ BrowserDies \/ SaveRead \/ SaveWrite \/ WorkerClosed
BY ZenonT(60) DEF Next, PeopleNext, WorkerNext, ThreadStep, Start, LoginCommand, StartThread, Open, Poll,
       TimesOut, PressEnter, Breaks, Finish, Reset, Expire, Still, fileVars, serverVars, threadVars

\* The worker records that another writer touched a file it knows, and nothing else.
LEMMA Touching ==
    ASSUME worker \in Worker, NEW p \in Platforms
    PROVE  LET w == Touched(p) IN
           /\ w.pc = worker.pc /\ w.ctx = worker.ctx /\ w.todo = worker.todo
           /\ w.reading = worker.reading /\ w.read = worker.read
           /\ \A q \in Platforms : q # p => w.seen[q] = worker.seen[q]
           /\ WorkerUp => w.seen[p] = IF worker.seen[p] = "same" THEN "older" ELSE worker.seen[p]
BY DEF Touched, Worker

LEMMA IssuedNumbers ==
    ASSUME issued \in [Platforms -> Value], NEW p \in Platforms
    PROVE  issued[p] \in Int /\ 0 <= issued[p] /\ NoCookie <= issued[p] /\ NoFile <= issued[p]
<1>1. issued[p] \in Value
  OBVIOUS
<1> QED  BY <1>1, LoginSessionsAssumption DEF Value, NoCookie, NoFile

LEMMA IssuedStep ==
    ASSUME ThreadsOK, ValuesOK, IssuedOK, Next PROVE IssuedOK'
<1> USE DEF ValuesOK
<1>1. CASE Still
  BY <1>1 DEF Still, IssuedOK, NextToSave
<1>2. ASSUME NEW t \in Threads, SaveLogin(t) PROVE IssuedOK'
  <2> DEFINE p == thread[t].platform
  <2>1. p \in Platforms
    BY DEF ThreadsOK, Thread
  <2>2. file' = [file EXCEPT ![p] = profile[p]] /\ worker' = Touched(p)
        /\ UNCHANGED <<issued, profile, importing>>
    BY <1>2 DEF SaveLogin, WriteFile, serverVars
  <2> HIDE DEF p
  <2> QED  BY <2>1, <2>2, Touching DEF IssuedOK, NextToSave
<1>3. ASSUME NEW t \in Threads, PersonLogsIn(t) PROVE IssuedOK'
  <2> DEFINE p == thread[t].platform
  <2>1. p \in Platforms
    BY DEF ThreadsOK, Thread
  <2>2. Issue(p) /\ profile' = [profile EXCEPT ![p] = issued'[p]]
        /\ UNCHANGED <<file, importing, worker>>
    BY <1>3 DEF PersonLogsIn, fileVars
  <2> HIDE DEF p
  <2>3. \A q \in Platforms : issued'[q] >= issued[q] /\ issued'[q] \in Int
    BY <2>1, <2>2, Issuing, Numbers
  <2>4. \A q \in Platforms : worker.ctx[q] \in Int /\ file[q] \in Int /\ profile[q] \in Int
                             /\ issued[q] \in Int
    BY Numbers DEF Worker
  <2>5. worker.read \in Int /\ importing.value \in Int /\ importing.read \in Int
    BY Numbers DEF Worker, ImportOK
  <2> QED  BY <2>1, <2>2, <2>3, <2>4, <2>5 DEF IssuedOK, NextToSave
<1>4. ASSUME NEW p \in Platforms, ImportRead(p) PROVE IssuedOK'
  <2>1. \A q \in Platforms : issued'[q] >= issued[q] /\ issued'[q] \in Int
    <3>1. CASE Issue(p)
      BY <3>1, Issuing, Numbers
    <3>2. CASE UNCHANGED serverVars
      BY <3>2, IssuedNumbers DEF serverVars
    <3> QED  BY <1>4, <3>1, <3>2 DEF ImportRead
  <2>2. \A q \in Platforms : worker.ctx[q] \in Int /\ file[q] \in Int /\ profile[q] \in Int
                             /\ issued[q] \in Int
    BY Numbers DEF Worker
  <2>3. worker.read \in Int
    BY Numbers DEF Worker
  <2>4. importing'.platform = p /\ importing'.read = file[p] /\ importing'.value <= issued'[p]
        /\ UNCHANGED <<file, worker, profile>>
    BY <1>4 DEF ImportRead, fileVars, threadVars
  <2> QED  BY <2>1, <2>2, <2>3, <2>4 DEF IssuedOK, NextToSave
<1>5. CASE ImportWrite
  <2> DEFINE p == importing.platform  content == Imported(importing.value, importing.read)
  <2>1. p \in Platforms /\ content <= issued[p] /\ issued[p] >= 0
    BY Numbers DEF Imported, ImportOK, IssuedOK, CookieOf, NoFile, NoCookie
  <2>2. file' = [file EXCEPT ![p] = content] /\ worker' = Touched(p)
        /\ importing' = NoImport /\ UNCHANGED <<issued, profile>>
    BY <1>5 DEF ImportWrite, WriteFile, serverVars, threadVars
  <2> HIDE DEF p, content
  <2>4. \A q \in Platforms : importing'.value <= issued[q] /\ importing'.read <= issued[q]
    BY <2>2, IssuedNumbers DEF NoImport
  <2>5. /\ worker'.pc = worker.pc /\ worker'.ctx = worker.ctx /\ worker'.todo = worker.todo
        /\ worker'.reading = worker.reading /\ worker'.read = worker.read
    BY <2>1, <2>2, Touching
  <2>6. NextToSave' = NextToSave
    BY <2>5 DEF NextToSave
  <2> QED  BY <2>1, <2>2, <2>4, <2>5, <2>6 DEF IssuedOK
<1>6. ASSUME NEW p \in Platforms, Clear(p) PROVE IssuedOK'
  <2>1. file' = [file EXCEPT ![p] = NoFile] /\ UNCHANGED <<issued, profile, importing, worker>>
    BY <1>6 DEF Clear, serverVars, threadVars
  <2>2. \A q \in Platforms : NoFile <= issued[q]
    BY IssuedNumbers
  <2>3. NextToSave' = NextToSave
    BY <2>1 DEF NextToSave
  <2> QED  BY <2>1, <2>2, <2>3 DEF IssuedOK
<1>7. ASSUME NEW p \in Platforms, Renew(p) PROVE IssuedOK'
  <2>1. \A q \in Platforms : issued'[q] >= issued[q] /\ issued'[q] \in Int
    BY <1>7, Issuing, Numbers DEF Renew
  <2>2. \A q \in Platforms : worker.ctx[q] \in Int /\ file[q] \in Int /\ profile[q] \in Int
                             /\ issued[q] \in Int
    BY Numbers DEF Worker
  <2>3. worker.read \in Int /\ importing.value \in Int /\ importing.read \in Int
    BY Numbers DEF Worker, ImportOK
  <2>4. worker.ctx \in [Platforms -> Value]
    BY DEF Worker
  <2>5. worker' = [worker EXCEPT !.ctx[p] = issued'[p]] /\ UNCHANGED <<file, profile, importing>>
    BY <1>7 DEF Renew, fileVars, threadVars
  <2>6. worker'.pc = worker.pc /\ worker'.reading = worker.reading /\ worker'.read = worker.read
        /\ worker'.todo = worker.todo /\ worker'.ctx = [worker.ctx EXCEPT ![p] = issued'[p]]
    BY <2>5 DEF Worker
  <2> QED  BY <2>1, <2>2, <2>3, <2>4, <2>5, <2>6 DEF IssuedOK, NextToSave
<1>8. CASE WorkerLoads
  <2>1. \A q \in Platforms : CookieOf(file[q]) <= issued[q]
    BY Numbers DEF IssuedOK, CookieOf, NoCookie
  <2> QED
    BY <1>8, <2>1 DEF WorkerLoads, serverVars, threadVars, IssuedOK, NextToSave, Worker
<1>9. CASE WorkerCaptures \/ Executed \/ Claim \/ WorkerCloses
  <2>1. worker'.ctx = worker.ctx /\ worker'.reading = worker.reading /\ ~worker.reading
        /\ UNCHANGED <<file, issued, profile, importing>>
    BY <1>9 DEF WorkerCaptures, Executed, Claim, WorkerCloses, Closing, Worker, fileVars,
                serverVars, threadVars, IssuedOK
  <2> QED  BY <2>1 DEF IssuedOK
<1>10. CASE BrowserDies \/ WorkerClosed
  <2>1. ~worker'.reading /\ \A q \in Platforms : worker'.ctx[q] = NoCookie
    BY <1>10 DEF BrowserDies, WorkerClosed, WorkerOff
  <2>2. \A q \in Platforms : NoCookie <= issued[q]
    BY IssuedNumbers
  <2> QED
    BY <1>10, <2>1, <2>2 DEF IssuedOK, BrowserDies, WorkerClosed, fileVars, serverVars, threadVars
<1>11. CASE SaveRead
  <2>1. worker'.ctx = worker.ctx /\ worker'.read = file[NextToSave] /\ worker'.todo = worker.todo
        /\ worker'.pc = worker.pc /\ worker.pc = "closing" /\ UNCHANGED <<file, issued, profile, importing>>
    BY <1>11 DEF SaveRead, Worker, fileVars, serverVars, threadVars
  <2> QED  BY <2>1 DEF IssuedOK, NextToSave
<1>12. CASE SaveWrite
  <2> DEFINE p == NextToSave  content == Merged(worker.ctx[p], worker.read)
  <2>1. p \in Platforms
    BY <1>12, Saving DEF SaveWrite
  <2>2. file' = [file EXCEPT ![p] = content] /\ ~worker'.reading /\ worker'.ctx = worker.ctx
        /\ UNCHANGED <<issued, profile, importing>>
    BY <1>12 DEF SaveWrite, WriteFile, Worker, serverVars, threadVars
  <2>3. content <= issued[p]
    BY <1>12, <2>1 DEF IssuedOK, SaveWrite, Merged
  <2> HIDE DEF p, content
  <2> QED  BY <2>1, <2>2, <2>3 DEF IssuedOK
<1> QED
  BY <1>1, <1>2, <1>3, <1>4, <1>5, <1>6, <1>7, <1>8, <1>9, <1>10, <1>11, <1>12, Steps

\* The login people stored stays in its file.
LEMMA StoredStep ==
    ASSUME ThreadsOK, ValuesOK, StoredLoginIsKept, Next PROVE StoredLoginIsKept'
<1> USE DEF ValuesOK
<1>1. CASE UNCHANGED <<file, stored, raced>>
  BY <1>1 DEF StoredLoginIsKept
<1>2. ASSUME NEW t \in Threads, SaveLogin(t) PROVE StoredLoginIsKept'
  <2> DEFINE p == thread[t].platform
  <2>1. p \in Platforms
    BY DEF ThreadsOK, Thread
  <2>2. file' = [file EXCEPT ![p] = profile[p]] /\ stored' = [stored EXCEPT ![p] = profile[p]]
        /\ raced' = raced \ {p}
    BY <1>2 DEF SaveLogin, WriteFile
  <2> HIDE DEF p
  <2> QED  BY <2>1, <2>2 DEF StoredLoginIsKept
<1>3. CASE ImportWrite
  <2> DEFINE p == importing.platform  content == Imported(importing.value, importing.read)
  <2>1. p \in Platforms /\ file' = [file EXCEPT ![p] = content]
    BY <1>3 DEF ImportWrite, WriteFile, ImportOK
  <2>2. CASE importing.value > NoCookie
    <3>1. stored' = [stored EXCEPT ![p] = content] /\ raced' = raced \ {p}
      BY <1>3, <2>2 DEF ImportWrite
    <3> HIDE DEF p, content
    <3> QED  BY <2>1, <3>1 DEF StoredLoginIsKept
  <2>3. CASE ~(importing.value > NoCookie)
    <3>1. stored' = stored /\ raced' = IF file[p] = importing.read THEN raced ELSE raced \cup {p}
      BY <1>3, <2>3 DEF ImportWrite
    <3>2. content = CookieOf(importing.read)
      BY <2>3 DEF Imported
    <3> HIDE DEF p, content
    <3>3. ASSUME NEW q \in Platforms, stored'[q] > NoCookie, q \notin raced'
          PROVE  file'[q] = stored'[q]
      <4>1. file[q] = stored[q]
        BY <3>1, <3>3 DEF StoredLoginIsKept
      <4>2. CASE q = p
        BY <2>1, <3>1, <3>2, <3>3, <4>1, <4>2 DEF CookieOf, NoFile, NoCookie
      <4>3. CASE q # p
        BY <2>1, <3>1, <4>1, <4>3
      <4> QED  BY <4>2, <4>3
    <3> QED  BY <3>3 DEF StoredLoginIsKept
  <2> QED  BY <2>2, <2>3
<1>4. ASSUME NEW p \in Platforms, Clear(p) PROVE StoredLoginIsKept'
  BY <1>4 DEF Clear, StoredLoginIsKept, NoCookie
<1>5. CASE SaveWrite
  <2> DEFINE p == NextToSave  content == Merged(worker.ctx[p], worker.read)
  <2>1. p \in Platforms
    BY <1>5, Saving DEF SaveWrite
  <2>2. file' = [file EXCEPT ![p] = content] /\ stored' = stored
        /\ raced' = IF file[p] = worker.read THEN raced ELSE raced \cup {p}
    BY <1>5 DEF SaveWrite, WriteFile
  <2>3. CookieOf(worker.read) > NoCookie => content = worker.read
    BY DEF Merged
  <2> HIDE DEF p, content
  <2>4. ASSUME NEW q \in Platforms, stored'[q] > NoCookie, q \notin raced'
        PROVE  file'[q] = stored'[q]
    <3>1. file[q] = stored[q]
      BY <2>2, <2>4 DEF StoredLoginIsKept
    <3>2. CASE q = p
      BY <2>1, <2>2, <2>3, <2>4, <3>1, <3>2 DEF CookieOf, NoFile, NoCookie
    <3>3. CASE q # p
      BY <2>1, <2>2, <3>1, <3>3
    <3> QED  BY <3>2, <3>3
  <2> QED  BY <2>4 DEF StoredLoginIsKept
<1>6. ASSUME NEW t \in Threads, PersonLogsIn(t) PROVE UNCHANGED <<file, stored, raced>>
  BY <1>6 DEF PersonLogsIn, fileVars
<1>7. ASSUME NEW p \in Platforms, ImportRead(p) \/ Renew(p) PROVE UNCHANGED <<file, stored, raced>>
  BY <1>7 DEF ImportRead, Renew, fileVars
<1>8. CASE \/ Still \/ WorkerLoads \/ WorkerCaptures \/ Claim \/ Executed \/ WorkerCloses
           \/ BrowserDies \/ SaveRead \/ WorkerClosed
  <2>1. UNCHANGED <<file, stored, raced>>
    BY <1>8 DEF Still, WorkerLoads, WorkerCaptures, Claim, Executed, WorkerCloses, BrowserDies,
                SaveRead, WorkerClosed, fileVars
  <2> QED  BY <1>1, <2>1
<1> QED  BY <1>1, <1>2, <1>3, <1>4, <1>5, <1>6, <1>7, <1>8, Steps

\* What the worker's browser holds is as new as the files it has seen.
LEMMA SeesStep ==
    ASSUME ThreadsOK, ValuesOK, IssuedOK, SeesOK, Next PROVE SeesOK'
<1> USE DEF ValuesOK
\* Another writer: the comparison of modification times shows it, or the write is missed.
<1>1. ASSUME NEW p \in Platforms, NEW c, WriteFile(p, c), worker' = Touched(p)
      PROVE  SeesOK'
  <2>1. /\ worker'.pc = worker.pc /\ worker'.ctx = worker.ctx
        /\ \A q \in Platforms : q # p => worker'.seen[q] = worker.seen[q]
        /\ WorkerUp => worker'.seen[p] = IF worker.seen[p] = "same" THEN "older"
                                         ELSE worker.seen[p]
    BY <1>1, Touching
  <2>2. WorkerUp' = WorkerUp
    BY <2>1 DEF WorkerUp
  <2>3. file' = [file EXCEPT ![p] = c] /\ missed \subseteq missed'
        /\ (worker.pc = "loaded" \/ (WorkerUp /\ worker.seen[p] = "absent") => p \in missed')
    BY <1>1 DEF WriteFile
  <2>4. worker.seen[p] \in {"absent", "same", "older"}
    BY DEF Worker
  <2>5. ASSUME NEW q \in Platforms \ missed'
        PROVE  /\ worker'.pc = "loaded" => file'[q] <= worker'.ctx[q]
               /\ WorkerUp' => CASE worker'.seen[q] = "same" -> file'[q] <= worker'.ctx[q]
                                 [] worker'.seen[q] = "absent" -> file'[q] = NoFile
                                 [] OTHER -> TRUE
    <3>1. CASE q = p
      BY <2>1, <2>2, <2>3, <2>4, <2>5, <3>1
    <3>2. CASE q # p
      BY <2>1, <2>2, <2>3, <2>5, <3>2 DEF SeesOK
    <3> QED  BY <3>1, <3>2
  <2> QED  BY <2>5 DEF SeesOK
<1>2. CASE UNCHANGED <<file, worker, missed>>
  BY <1>2 DEF SeesOK, WorkerUp
<1>3. ASSUME NEW t \in Threads, SaveLogin(t) PROVE SeesOK'
  <2>1. thread[t].platform \in Platforms
    BY DEF ThreadsOK, Thread
  <2> QED  BY <1>1, <1>3, <2>1 DEF SaveLogin
<1>4. CASE ImportWrite
  <2>1. importing.platform \in Platforms
    BY DEF ImportOK
  <2> QED  BY <1>1, <1>4, <2>1 DEF ImportWrite
<1>5. ASSUME NEW p \in Platforms, Clear(p) PROVE SeesOK'
  <2>1. \A q \in Platforms : worker.ctx[q] >= NoFile
    BY LoginSessionsAssumption DEF Worker, Value, NoCookie, NoFile
  <2> QED  BY <1>5, <2>1 DEF Clear, SeesOK, WorkerUp
<1>6. CASE WorkerLoads
  <2>1. worker'.pc = "loaded" /\ \A q \in Platforms : worker'.ctx[q] = CookieOf(file[q])
    BY <1>6 DEF WorkerLoads, Worker
  <2>2. \A c \in Content : c <= CookieOf(c)
    BY LoginSessionsAssumption DEF CookieOf, Content, NoFile, NoCookie
  <2> QED  BY <1>6, <2>1, <2>2 DEF WorkerLoads, SeesOK, WorkerUp
<1>7. CASE WorkerCaptures
  <2>1. /\ worker'.pc \in {"executing", "idle"} /\ worker'.ctx = worker.ctx
        /\ \A q \in Platforms : worker'.seen[q] = IF file[q] = NoFile THEN "absent" ELSE "same"
    BY <1>7 DEF WorkerCaptures, Worker
  <2>2. worker.pc = "loaded" /\ UNCHANGED <<file, missed>>
    BY <1>7 DEF WorkerCaptures, fileVars
  <2> QED  BY <2>1, <2>2 DEF SeesOK, WorkerUp
<1>8. CASE WorkerUp /\ worker'.pc # "loaded" /\ UNCHANGED <<file, missed>>
           /\ worker'.ctx = worker.ctx /\ worker'.seen = worker.seen
  BY <1>8 DEF SeesOK, WorkerUp
<1>9. CASE Executed \/ Claim \/ WorkerCloses
  <2>1. WorkerUp /\ worker'.pc # "loaded" /\ UNCHANGED <<file, missed>>
        /\ worker'.ctx = worker.ctx /\ worker'.seen = worker.seen
    BY <1>9 DEF Executed, Claim, WorkerCloses, Closing, Worker, WorkerUp, fileVars
  <2> QED  BY <1>8, <2>1
<1>10. CASE BrowserDies \/ SaveRead \/ SaveWrite \/ WorkerClosed
  <2>1. CASE BrowserDies \/ WorkerClosed
    BY <2>1 DEF BrowserDies, WorkerClosed, WorkerOff, SeesOK, WorkerUp
  <2>2. CASE SaveRead \/ SaveWrite
    <3>1. worker.pc = "closing" /\ worker'.pc = worker.pc
      BY <2>2 DEF SaveRead, SaveWrite, Worker
    <3> QED  BY <3>1 DEF SeesOK, WorkerUp
  <2> QED  BY <1>10, <2>1, <2>2
\* The server's new cookie is newer than what any file holds.
<1>11. ASSUME NEW p \in Platforms, Renew(p) PROVE SeesOK'
  <2>1. worker' = [worker EXCEPT !.ctx[p] = issued'[p]] /\ worker.pc = "executing"
        /\ issued'[p] >= issued[p] /\ issued'[p] \in Int /\ UNCHANGED <<file, missed>>
    BY <1>11, Issuing, Numbers DEF Renew, fileVars
  <2>2. worker'.pc = worker.pc /\ worker'.seen = worker.seen
        /\ worker'.ctx = [worker.ctx EXCEPT ![p] = issued'[p]]
    BY <2>1 DEF Worker
  <2>3. worker.ctx \in [Platforms -> Value]
    BY DEF Worker
  <2>4. file[p] <= issued'[p]
    BY <2>1, IssuedNumbers, Numbers DEF IssuedOK
  <2> QED  BY <2>1, <2>2, <2>3, <2>4 DEF SeesOK, WorkerUp
<1>12. ASSUME NEW t \in Threads, PersonLogsIn(t) PROVE SeesOK'
  BY <1>2, <1>12 DEF PersonLogsIn, fileVars
<1>13. ASSUME NEW p \in Platforms, ImportRead(p) PROVE SeesOK'
  BY <1>2, <1>13 DEF ImportRead, fileVars
<1>14. CASE Still
  BY <1>2, <1>14 DEF Still
<1> QED
  BY <1>3, <1>4, <1>5, <1>6, <1>7, <1>9, <1>10, <1>11, <1>12, <1>13, <1>14, Steps

-----------------------------------------------------------------------------
(* The theorems                                                             *)

LEMMA InvInit == Init => IInv
<1> SUFFICES ASSUME Init PROVE IInv
  OBVIOUS
<1> USE LoginSessionsAssumption, Numbers
<1>1. \A c \in BOOLEAN : WorkerOff(c) \in Worker
  BY DEF WorkerOff, Worker
<1>2. TypeOK
  <2>1. worker \in Worker /\ file \in [Platforms -> Content]
    BY <1>1 DEF Init
  <2>2. /\ issued \in [Platforms -> Value] /\ expired \in [Platforms -> Value]
        /\ profile \in [Platforms -> Value] /\ stored \in [Platforms -> Value]
    BY DEF Init, NoCookie
  <2>3. ThreadsOK /\ missed \subseteq Platforms /\ raced \subseteq Platforms
    BY DEF Init, ThreadsOK, Thread
  <2> QED  BY <2>1, <2>2, <2>3 DEF TypeOK, ThreadsOK
<1>3. ImportOK
  BY DEF Init, NoImport, ImportOK
<1>4. worker.pc = "off" /\ ~worker.reading /\ importing.value = NoCookie
      /\ importing.read = NoFile /\ \A p \in Platforms : worker.ctx[p] = NoCookie
  BY DEF Init, WorkerOff, NoImport
<1>5. IssuedOK
  <2>1. \A p \in Platforms : file[p] = -1 /\ issued[p] = 0 /\ profile[p] = 0
    BY DEF Init, NoFile, NoCookie
  <2> QED  BY <1>4, <2>1 DEF IssuedOK, NoCookie, NoFile
<1>6. StoredLoginIsKept
  BY DEF Init, StoredLoginIsKept, NoCookie
<1>7. SeesOK
  BY <1>4 DEF SeesOK, WorkerUp
<1> QED  BY <1>2, <1>3, <1>5, <1>6, <1>7 DEF IInv

LEMMA InvStep == IInv /\ [Next]_vars => IInv'
<1> SUFFICES ASSUME IInv, [Next]_vars PROVE IInv'
  OBVIOUS
<1>1. ThreadsOK /\ ValuesOK
  BY DEF IInv, TypeOK, ThreadsOK, ValuesOK
<1>2. CASE Next
  <2>1. ThreadsOK' /\ ValuesOK' /\ IssuedOK' /\ StoredLoginIsKept' /\ SeesOK'
    BY <1>1, <1>2, ThreadsStep, ValuesStep, IssuedStep, StoredStep, SeesStep DEF IInv
  <2> QED  BY <2>1 DEF IInv, TypeOK, ThreadsOK, ValuesOK
<1>3. CASE UNCHANGED vars
  BY <1>3 DEF vars, IInv, TypeOK, ImportOK, IssuedOK, NextToSave, StoredLoginIsKept, SeesOK,
              WorkerUp
<1> QED  BY <1>2, <1>3

LEMMA Invariance == Spec => []IInv
<1> QED  BY InvInit, InvStep, PTL DEF Spec

\* The shapes of the files, the browsers and the records; and the record the manager keeps
\* of a login is that platform's, and says running only while its thread has not ended
\* (_LoginTask, the finally of _run).
THEOREM TypeCorrect == Spec => []TypeOK
<1>1. IInv => TypeOK
  BY DEF IInv
<1> QED  BY <1>1, Invariance, PTL

\* A login that a person stored is in its file until somebody clears it: no login thread, no
\* import without a login and no worker that merges its older cookies into the file
\* (_dedupe_cookies) removes it, unless two writers had read the file at once.
THEOREM StoredLoginKept == Spec => []StoredLoginIsKept
<1>1. IInv => StoredLoginIsKept
  BY DEF IInv
<1> QED  BY <1>1, Invariance, PTL

\* A task is executed with a login that works when the dashboard shows one that does: the
\* worker has rebuilt its browser (storage_changed_on_disk), or what it loaded is as new.
THEOREM ExecutesLoggedInHolds == Spec => ExecutesLoggedIn
<1> DEFINE Starts == \A p \in Platforms :
                        /\ worker.pc # "executing" /\ worker'.pc = "executing"
                        /\ CheckLive(p) /\ p \notin missed
                        => Accepted(p, worker'.ctx[p])
<1>1. ASSUME IInv, [Next]_vars PROVE Starts
  <2>1. ThreadsOK /\ ValuesOK
    BY <1>1 DEF IInv, TypeOK, ThreadsOK, ValuesOK
  <2> SUFFICES ASSUME NEW p \in Platforms, worker.pc # "executing", worker'.pc = "executing",
                      CheckLive(p), p \notin missed
               PROVE  Accepted(p, worker'.ctx[p])
    OBVIOUS
  <2>2. Claim \/ WorkerCaptures
    <3>1. worker' # worker /\ Next
      BY <1>1 DEF vars
    <3>2. ASSUME NEW q \in Platforms PROVE Touched(q).pc = worker.pc
      BY <2>1, <3>2, Touching DEF ValuesOK
    <3>3. ASSUME NEW t \in Threads PROVE ~SaveLogin(t)
      BY <2>1, <3>2 DEF SaveLogin, ThreadsOK, Thread
    <3>4. ~ImportWrite
      BY <2>1, <3>2 DEF ImportWrite, ValuesOK, ImportOK
    <3>5. ASSUME NEW t \in Threads PROVE ~PersonLogsIn(t)
      BY <3>1 DEF PersonLogsIn
    <3>6. ASSUME NEW q \in Platforms PROVE ~ImportRead(q) /\ ~Clear(q) /\ ~Renew(q)
      BY <3>1 DEF ImportRead, Clear, Renew
    <3>7. ~(SaveRead \/ SaveWrite)
      BY <2>1 DEF SaveRead, SaveWrite, ValuesOK, Worker
    <3>9. ~(WorkerLoads \/ Executed \/ WorkerCloses)
      BY <2>1 DEF WorkerLoads, Executed, WorkerCloses, Closing, ValuesOK, Worker
    <3>10. ~(BrowserDies \/ WorkerClosed)
      BY DEF BrowserDies, WorkerClosed, WorkerOff
    <3>8. ~Still
      BY <3>1 DEF Still
    <3> QED  BY <3>1, <3>3, <3>4, <3>5, <3>6, <3>7, <3>8, <3>9, <3>10, Steps
  <2>3. worker'.ctx = worker.ctx
    BY <2>1, <2>2 DEF Claim, WorkerCaptures, Closing, ValuesOK, Worker
  <2>4. file[p] <= worker.ctx[p]
    <3>1. CASE WorkerCaptures
      BY <1>1, <3>1 DEF WorkerCaptures, IInv, SeesOK
    <3>2. CASE Claim
      <4>1. worker.pc = "idle" /\ ~StorageChangedOnDisk
        BY <3>2 DEF Claim, Closing
      <4>2. worker.seen[p] \in {"absent", "same"}
        BY <2>1, <4>1 DEF StorageChangedOnDisk, ValuesOK, Worker
      <4>3. file[p] # NoFile
        BY DEF CheckLive, Check, CookieOf, NoCookie
      <4> QED  BY <1>1, <4>1, <4>2, <4>3 DEF IInv, SeesOK, WorkerUp
    <3> QED  BY <2>2, <3>1, <3>2
  <2>5. file[p] > expired[p]
    BY DEF CheckLive, Accepted
  <2>6. file[p] \in Int /\ expired[p] \in Int /\ worker.ctx[p] \in Int
    BY <2>1, Numbers DEF ValuesOK, Worker
  <2> QED  BY <2>3, <2>4, <2>5, <2>6 DEF Accepted
<1> QED  BY <1>1, Invariance, PTL DEF Spec, ExecutesLoggedIn
=============================================================================
