------------------------ MODULE BrowserProcessesProofs ------------------------
(* Theorems of BrowserProcesses for any number of creates and closes. *)
EXTENDS BrowserProcesses, TLAPS

-----------------------------------------------------------------------------
(* Type correctness.  A close() marks the browser of its session, so TypeOK   *)
(* needs that a close() which has begun has a session, one that was returned. *)

Closings ==
  \A c \in Closers :
    pc[c] # "idle" => of[c] \in Sessions /\ pc[of[c]] = "owned"

Typed == TypeOK /\ Closings

\* A session is nobody's close().
LEMMA Kinds == \A s \in Sessions : s \notin Closers /\ s # None
BY Apart

\* Initially no close() has begun.
LEMMA TypedInit == Init => Typed
<1> SUFFICES ASSUME Init PROVE Typed
  OBVIOUS
<1>1. \A t \in Sessions \cup Closers : pc[t] = "idle"
  BY DEF Init
<1>2. /\ pc \in [Sessions \cup Closers -> CreatePlaces \cup ClosePlaces]
      /\ \A s \in Sessions : pc[s] \in CreatePlaces
      /\ \A c \in Closers : pc[c] \in ClosePlaces
  BY <1>1 DEF Init, CreatePlaces, ClosePlaces
<1>3. Closings
  BY <1>1 DEF Closings
<1> QED
  BY <1>2, <1>3 DEF Init, Typed, TypeOK

\* Where a create may stand, spelled out.
LEMMA PlacesAre ==
  /\ Awaits = {"launch", "context", "page", "route"}
  /\ CreatePlaces = {"launch", "context", "page", "route", "idle", "lock",
                     "start", "owned", "reap", "failed"}
  /\ ClosePlaces = {"idle", "contextClose", "browserClose", "closed", "left"}
BY DEF CreatePlaces, ClosePlaces, Awaits

\* The next await is a place of a create.
LEMMA AfterType ==
  /\ After["launch"] = "context" /\ After["context"] = "page"
  /\ After["page"] = "route" /\ After["route"] = "owned"
BY DEF After

\* A create moves from a place where it is not owned: no close() is disturbed.
LEMMA CreateMoves ==
  ASSUME Typed, NEW s \in Sessions, pc[s] # "owned",
         NEW p \in CreatePlaces, Goto(s, p), UNCHANGED of
  PROVE  /\ pc' \in [Sessions \cup Closers -> CreatePlaces \cup ClosePlaces]
         /\ \A r \in Sessions : pc'[r] \in CreatePlaces
         /\ \A c \in Closers : pc'[c] \in ClosePlaces
         /\ Closings'
BY Kinds DEF Typed, TypeOK, Closings, Goto

\* A close() of an owned session moves.
LEMMA CloseMoves ==
  ASSUME Typed, NEW c \in Closers, pc[c] # "idle",
         NEW p \in ClosePlaces, Goto(c, p), UNCHANGED of
  PROVE  /\ pc' \in [Sessions \cup Closers -> CreatePlaces \cup ClosePlaces]
         /\ \A r \in Sessions : pc'[r] \in CreatePlaces
         /\ \A d \in Closers : pc'[d] \in ClosePlaces
         /\ Closings'
         /\ of[c] \in Sessions
BY Kinds DEF Typed, TypeOK, Closings, Goto

\* Every step keeps the types.
LEMMA TypedNext == Typed /\ [Next]_vars => Typed'
<1> SUFFICES ASSUME Typed, [Next]_vars PROVE Typed'
  OBVIOUS
<1> USE PlacesAre DEF Typed
<1>1. ASSUME NEW s \in Sessions, NewSession(s)
      PROVE  Typed'
  <2>1. CASE StartDriver(s)
    BY <2>1, CreateMoves DEF StartDriver, TypeOK, signalVars
  <2>2. CASE WaitForDriver(s)
    BY <2>2, CreateMoves DEF WaitForDriver, TypeOK, signalVars, driverVars
  <2>3. CASE UseDriver(s)
    BY <2>3, CreateMoves DEF UseDriver, TypeOK, signalVars, driverVars
  <2>4. CASE DriverStarted(s)
    BY <2>4, CreateMoves DEF DriverStarted, TypeOK, signalVars
  <2>5. CASE DriverFailed(s)
    BY <2>5, CreateMoves DEF DriverFailed, TypeOK, signalVars
  <2>6. CASE Resume(s)
    <3>1. pc[s] # "owned" /\ After[pc[s]] \in CreatePlaces
      BY <2>6, AfterType DEF Resume
    <3> QED
      BY <2>6, <3>1, CreateMoves DEF Resume, TypeOK, driverVars
  <2>7. CASE LaunchFailed(s)
    BY <2>7, CreateMoves DEF LaunchFailed, TypeOK, signalVars, driverVars
  <2>8. CASE SetupFailed(s)
    BY <2>8, CreateMoves DEF SetupFailed, MarkAndClose, TypeOK, driverVars
  <2>9. CASE Reaped(s)
    BY <2>9, CreateMoves DEF Reaped, TypeOK, signalVars, driverVars
  <2> QED
    BY <1>1, <2>1, <2>2, <2>3, <2>4, <2>5, <2>6, <2>7, <2>8, <2>9 DEF NewSession
<1>2. ASSUME NEW s \in Sessions, Cancelled(s)
      PROVE  Typed'
  <2>1. CASE SetupCancelled(s)
    BY <2>1, CreateMoves DEF SetupCancelled, MarkAndClose, TypeOK, driverVars
  <2>2. CASE CancelledEarly(s)
    BY <2>2, CreateMoves DEF CancelledEarly, TypeOK, signalVars, driverVars
  <2>3. CASE ReapCancelled(s)
    BY <2>3, CreateMoves DEF ReapCancelled, TypeOK, signalVars, driverVars
  <2> QED
    BY <1>2, <2>1, <2>2, <2>3 DEF Cancelled
<1>3. ASSUME NEW s \in Sessions, Driver(s) \/ StrayLaunch(s) \/ Crash(s)
      PROVE  Typed'
  <2>1. CASE Answer(s)
    BY <2>1 DEF Answer, TypeOK, Closings, signalVars, driverVars
  <2>2. CASE Exit(s)
    BY <2>2 DEF Exit, TypeOK, Closings, driverVars
  <2>3. CASE Disconnected(s)
    BY <2>3 DEF Disconnected, TypeOK, Closings, driverVars
  <2>4. CASE StrayLaunch(s)
    BY <2>4 DEF StrayLaunch, TypeOK, Closings, signalVars, driverVars
  <2>5. CASE Crash(s)
    BY <2>5 DEF Crash, TypeOK, Closings, driverVars
  <2> QED
    BY <1>3, <2>1, <2>2, <2>3, <2>4, <2>5 DEF Driver
<1>4. ASSUME NEW c \in Closers, CloseBegin(c)
      PROVE  Typed'
  BY <1>4, Kinds DEF CloseBegin, Goto, TypeOK, Closings, signalVars, driverVars
<1>5. ASSUME NEW c \in Closers, Close(c)
      PROVE  Typed'
  <2>1. CASE ContextClosed(c)
    BY <2>1, CloseMoves DEF ContextClosed, MarkAndClose, TypeOK, driverVars
  <2>2. CASE BrowserClosed(c)
    BY <2>2, CloseMoves DEF BrowserClosed, TypeOK, signalVars, driverVars
  <2> QED
    BY <1>5, <2>1, <2>2 DEF Close
<1>6. ASSUME NEW c \in Closers, CloseCancelled(c)
      PROVE  Typed'
  BY <1>6, CloseMoves DEF CloseCancelled, TypeOK, signalVars, driverVars
<1>7. CASE UNCHANGED vars
  BY <1>7 DEF vars, TypeOK, Closings, signalVars, driverVars
<1> QED
  BY <1>1, <1>2, <1>3, <1>4, <1>5, <1>6, <1>7 DEF Next

\* Every variable of PlaywrightEngine keeps its type, for any number of
\* overlapping creates and closes.
THEOREM EngineTypeCorrect == Spec => []TypeOK
<1>1. Typed => TypeOK
  BY DEF Typed
<1> QED
  BY <1>1, TypedInit, TypedNext, PTL DEF Spec

-----------------------------------------------------------------------------
(* One driver.  The task that starts it holds the lock, and nobody starts it   *)
(* twice.                                                                     *)

Starting ==
  /\ launchLock # None => pc[launchLock] = "start" /\ ~pw
  /\ \A s \in Sessions : pc[s] = "start" => launchLock = s

DriverInv == Starting /\ OneDriver

\* Nobody starts the driver before the first create.
LEMMA DriverInit == Init => DriverInv
BY DEF Init, DriverInv, Starting, OneDriver

\* Outside _ensure_pw() nobody touches the driver.
LEMMA DriverAlone ==
  ASSUME Typed, DriverInv, UNCHANGED driverVars,
         \A s \in Sessions : pc'[s] # pc[s] => pc[s] # "start" /\ pc'[s] # "start"
  PROVE  DriverInv'
BY DEF Typed, TypeOK, DriverInv, Starting, OneDriver, driverVars

\* Every step keeps the driver single.
LEMMA DriverNext == Typed /\ DriverInv /\ [Next]_vars => DriverInv'
<1> SUFFICES ASSUME Typed, DriverInv, [Next]_vars PROVE DriverInv'
  OBVIOUS
<1> USE PlacesAre
<1>1. ASSUME NEW s \in Sessions, NewSession(s)
      PROVE  DriverInv'
  <2> USE DEF DriverInv, Starting, OneDriver, Typed, TypeOK, Goto
  <2>1. CASE StartDriver(s)
    BY <2>1, Kinds DEF StartDriver
  <2>2. CASE DriverStarted(s)
    BY <2>2, Kinds DEF DriverStarted
  <2>3. CASE DriverFailed(s)
    BY <2>3, Kinds DEF DriverFailed
  <2>4. CASE WaitForDriver(s)
    BY <2>4, DriverAlone DEF WaitForDriver
  <2>5. CASE UseDriver(s)
    BY <2>5, DriverAlone DEF UseDriver
  <2>6. CASE Resume(s)
    BY <2>6, AfterType, DriverAlone DEF Resume
  <2>7. CASE LaunchFailed(s)
    BY <2>7, DriverAlone DEF LaunchFailed
  <2>8. CASE SetupFailed(s)
    BY <2>8, DriverAlone DEF SetupFailed, MarkAndClose
  <2>9. CASE Reaped(s)
    BY <2>9, DriverAlone DEF Reaped
  <2> QED
    BY <1>1, <2>1, <2>2, <2>3, <2>4, <2>5, <2>6, <2>7, <2>8, <2>9 DEF NewSession
<1>2. ASSUME NEW s \in Sessions, Cancelled(s)
      PROVE  DriverInv'
  <2>1. pc[s] # "start" /\ UNCHANGED driverVars
        /\ \E p \in {"failed", "reap"} : Goto(s, p)
    BY <1>2 DEF Cancelled, SetupCancelled, CancelledEarly, ReapCancelled,
                MarkAndClose
  <2> QED
    BY <2>1, DriverAlone DEF Goto, Typed, TypeOK
<1>3. ASSUME NEW s \in Sessions, Driver(s) \/ StrayLaunch(s) \/ Crash(s)
      PROVE  DriverInv'
  <2>1. UNCHANGED pc /\ UNCHANGED driverVars
    BY <1>3 DEF Driver, Answer, Exit, Disconnected, StrayLaunch, Crash
  <2> QED
    BY <2>1, DriverAlone
<1>4. ASSUME NEW c \in Closers, CloseBegin(c) \/ Close(c) \/ CloseCancelled(c)
      PROVE  DriverInv'
  <2>1. UNCHANGED driverVars /\ \E p \in ClosePlaces : Goto(c, p)
    BY <1>4 DEF CloseBegin, Close, ContextClosed, BrowserClosed, CloseCancelled,
                MarkAndClose
  <2> QED
    BY <2>1, Kinds, DriverAlone DEF Goto, Typed, TypeOK
<1>5. CASE UNCHANGED vars
  BY <1>5, DriverAlone DEF vars
<1> QED
  BY <1>1, <1>2, <1>3, <1>4, <1>5 DEF Next

\* However many first creates overlap, whichever of them fail or are cancelled
\* while they start it, async_playwright().start() succeeds at most once.
THEOREM DriverStartedOnce == Spec => []OneDriver
<1>1. Init => Typed /\ DriverInv
  BY TypedInit, DriverInit
<1>2. Typed /\ DriverInv /\ [Next]_vars => (Typed /\ DriverInv)'
  BY TypedNext, DriverNext
<1>3. DriverInv => OneDriver
  BY DEF DriverInv
<1> QED
  BY <1>1, <1>2, <1>3, PTL DEF Spec

-----------------------------------------------------------------------------
(* Processes.  Whose chromium runs, who was told to exit, and which news of it *)
(* is under way.                                                              *)

\* A process exists once its launch is answered, and is not closed before.
Born(s) ==
  /\ pc[s] \in {"idle", "lock", "start"} => answer[s] = "none" /\ proc[s] = "none"
  /\ pc[s] = "launch" => (answer[s] = "ok" <=> proc[s] # "none")
  /\ pc[s] \in {"context", "page", "route", "owned", "reap"} => proc[s] # "none"
  /\ s \in closing => proc[s] # "none"
  /\ s \in news \cup crashed => proc[s] = "gone"

\* A process that was told to exit is marked until it is news that it did, and
\* only the news of a crash comes unmarked.
Told(s) ==
  /\ s \in closing /\ proc[s] = "running" => s \in intentional
  /\ s \in news => s \in crashed \cup intentional
  /\ s \in counted => s \in crashed

\* What a failed create leaves running was told to exit, or is a stray.
Reaping(s) ==
  /\ pc[s] = "reap" => s \in closing
  /\ pc[s] = "failed" /\ proc[s] = "running" => s \in closing \cup abandoned

\* A close() that is over ended the process, told it to exit or was cancelled.
Ended(c) ==
  /\ pc[c] = "browserClose" => of[c] \in closing
  /\ pc[c] = "closed" => proc[of[c]] = "gone"
  /\ pc[c] = "left" => of[c] \in closing \cup abandoned

ProcessInv ==
  /\ \A s \in Sessions : Born(s) /\ Told(s) /\ Reaping(s)
  /\ \A c \in Closers : Ended(c)

\* No process runs before the first create.
LEMMA ProcessInit == Init => ProcessInv
BY Kinds DEF Init, ProcessInv, Born, Told, Reaping, Ended

\* Every step keeps the processes accounted for.
LEMMA ProcessNext == Typed /\ ProcessInv /\ [Next]_vars => ProcessInv'
<1> SUFFICES ASSUME Typed, ProcessInv, [Next]_vars PROVE ProcessInv'
  OBVIOUS
<1> USE PlacesAre, Kinds
    DEF ProcessInv, Born, Told, Reaping, Ended, Typed, TypeOK, Closings, Goto
<1>1. ASSUME NEW s \in Sessions, NewSession(s)
      PROVE  ProcessInv'
  <2>1. CASE StartDriver(s)
    BY <2>1 DEF StartDriver, signalVars
  <2>2. CASE WaitForDriver(s)
    BY <2>2 DEF WaitForDriver, signalVars
  <2>3. CASE UseDriver(s)
    BY <2>3 DEF UseDriver, signalVars
  <2>4. CASE DriverStarted(s)
    BY <2>4 DEF DriverStarted, signalVars
  <2>5. CASE DriverFailed(s)
    BY <2>5 DEF DriverFailed, signalVars
  <2>6. CASE Resume(s)
    BY <2>6, AfterType DEF Resume
  <2>7. CASE LaunchFailed(s)
    BY <2>7 DEF LaunchFailed, signalVars
  <2>8. CASE SetupFailed(s)
    BY <2>8 DEF SetupFailed, MarkAndClose
  <2>9. CASE Reaped(s)
    BY <2>9 DEF Reaped, signalVars
  <2> QED
    BY <1>1, <2>1, <2>2, <2>3, <2>4, <2>5, <2>6, <2>7, <2>8, <2>9 DEF NewSession
<1>2. ASSUME NEW s \in Sessions, Cancelled(s)
      PROVE  ProcessInv'
  <2>1. CASE SetupCancelled(s)
    BY <2>1 DEF SetupCancelled, MarkAndClose
  <2>2. CASE CancelledEarly(s)
    BY <2>2 DEF CancelledEarly, signalVars
  <2>3. CASE ReapCancelled(s)
    BY <2>3 DEF ReapCancelled, signalVars
  <2> QED
    BY <1>2, <2>1, <2>2, <2>3 DEF Cancelled
<1>3. ASSUME NEW s \in Sessions, Driver(s) \/ StrayLaunch(s) \/ Crash(s)
      PROVE  ProcessInv'
  <2>1. CASE Answer(s)
    BY <2>1 DEF Answer, signalVars
  <2>2. CASE Exit(s)
    BY <2>2 DEF Exit
  <2>3. CASE Disconnected(s)
    BY <2>3 DEF Disconnected
  <2>4. CASE StrayLaunch(s)
    BY <2>4 DEF StrayLaunch, signalVars
  <2>5. CASE Crash(s)
    BY <2>5 DEF Crash
  <2> QED
    BY <1>3, <2>1, <2>2, <2>3, <2>4, <2>5 DEF Driver
<1>4. ASSUME NEW c \in Closers, CloseBegin(c)
      PROVE  ProcessInv'
  BY <1>4 DEF CloseBegin, signalVars
<1>5. ASSUME NEW c \in Closers, Close(c)
      PROVE  ProcessInv'
  <2>1. CASE ContextClosed(c)
    BY <2>1 DEF ContextClosed, MarkAndClose
  <2>2. CASE BrowserClosed(c)
    BY <2>2 DEF BrowserClosed, signalVars
  <2> QED
    BY <1>5, <2>1, <2>2 DEF Close
<1>6. ASSUME NEW c \in Closers, CloseCancelled(c)
      PROVE  ProcessInv'
  BY <1>6 DEF CloseCancelled, signalVars
<1>7. CASE UNCHANGED vars
  BY <1>7 DEF vars, signalVars
<1> QED
  BY <1>1, <1>2, <1>3, <1>4, <1>5, <1>6, <1>7 DEF Next

\* With processes accounted for, teardowns are not counted and nothing leaks.
LEMMA ProcessSafe == Typed /\ ProcessInv => HealthyUncounted /\ NoLeak
<1> SUFFICES ASSUME Typed, ProcessInv PROVE HealthyUncounted /\ NoLeak
  OBVIOUS
<1>1. HealthyUncounted
  BY DEF Typed, TypeOK, ProcessInv, Told, HealthyUncounted
<1>2. ASSUME NEW s \in Sessions, proc[s] = "running"
      PROVE  \/ pc[s] \in Awaits \cup {"reap"}
             \/ /\ pc[s] = "owned"
                /\ \A c \in Closers : of[c] = s => pc[c] \notin {"closed", "left"}
             \/ s \in closing \cup abandoned
  BY <1>2, PlacesAre DEF Typed, TypeOK, ProcessInv, Born, Reaping, Ended
<1> QED
  BY <1>1, <1>2 DEF NoLeak

\* browser_restarts_total never counts a healthy teardown, with any number of
\* creates failing, closes overlapping on one session, and cancellations.
THEOREM TeardownsNotCounted == Spec => []HealthyUncounted
<1>1. Init => Typed /\ ProcessInv
  BY TypedInit, ProcessInit
<1>2. Typed /\ ProcessInv /\ [Next]_vars => (Typed /\ ProcessInv)'
  BY TypedNext, ProcessNext
<1> QED
  BY <1>1, <1>2, ProcessSafe, PTL DEF Spec

\* A running chromium always has a coroutine or a live session that will close
\* it, was told to exit, or was abandoned by a cancellation: a failed or
\* cancelled create never just forgets its browser.
THEOREM NoProcessForgotten == Spec => []NoLeak
<1>1. Init => Typed /\ ProcessInv
  BY TypedInit, ProcessInit
<1>2. Typed /\ ProcessInv /\ [Next]_vars => (Typed /\ ProcessInv)'
  BY TypedNext, ProcessNext
<1> QED
  BY <1>1, <1>2, ProcessSafe, PTL DEF Spec

-----------------------------------------------------------------------------
(* Crashes.  From its launch on a session's browser has the listener, and only *)
(* a close() past its context, or a failed create, marks it.                  *)

\* The crash of a browser whose setup can still succeed, or did.
Usable(s) ==
  pc[s] = "owned" \/ (pc[s] \in {"context", "page", "route"} /\ answer[s] = "ok")

Heard(s) ==
  /\ pc[s] \in {"context", "page", "route", "owned"} => s \in listening
  /\ s \in intentional => \/ pc[s] \in {"reap", "failed"}
                          \/ pc[s] = "owned" /\ Marked(s)
  /\ (s \in crashed \ news /\ Usable(s) /\ ~Marked(s)) => s \in counted

CrashInv == \A s \in Sessions : Heard(s)

\* Nothing is counted, marked or crashed before the first create.
LEMMA CrashInit == Init => CrashInv
BY Kinds DEF Init, CrashInv, Heard, Usable

\* A mark stays: a close() does not go back.
LEMMA MarksStay ==
  ASSUME Typed, [Next]_vars, NEW s \in Sessions, Marked(s)
  PROVE  Marked(s)'
<1> USE PlacesAre, Kinds DEF Typed, TypeOK, Marked, Goto
<1>1. PICK c \in Closers :
        of[c] = s /\ pc[c] \in {"browserClose", "closed", "left"}
  BY DEF Marked
<1>2. of'[c] = s /\ pc'[c] \in {"browserClose", "closed", "left"}
  <2>1. ASSUME NEW r \in Sessions, NewSession(r) \/ Cancelled(r)
        PROVE  UNCHANGED of /\ \E p \in CreatePlaces : Goto(r, p)
    BY <2>1, AfterType
       DEF NewSession, StartDriver, WaitForDriver, UseDriver, DriverStarted,
           DriverFailed, Resume, LaunchFailed, SetupFailed, Reaped, Cancelled,
           SetupCancelled, CancelledEarly, ReapCancelled, MarkAndClose
  <2>2. ASSUME NEW r \in Sessions, Driver(r) \/ StrayLaunch(r) \/ Crash(r)
        PROVE  UNCHANGED <<pc, of>>
    BY <2>2 DEF Driver, Answer, Exit, Disconnected, StrayLaunch, Crash
  <2>3. ASSUME NEW d \in Closers, CloseBegin(d)
        PROVE  d # c /\ (\E r \in Sessions : of' = [of EXCEPT ![d] = r])
               /\ Goto(d, "contextClose")
    BY <2>3, <1>1 DEF CloseBegin
  <2>4. ASSUME NEW d \in Closers, Close(d) \/ CloseCancelled(d)
        PROVE  UNCHANGED of
               /\ \E p \in {"browserClose", "closed", "left"} : Goto(d, p)
    BY <2>4 DEF Close, ContextClosed, BrowserClosed, CloseCancelled, MarkAndClose
  <2> QED
    BY <1>1, <2>1, <2>2, <2>3, <2>4 DEF Next, vars
<1> QED
  BY <1>2

\* Every step keeps the crashes counted.
LEMMA CrashNext ==
  Typed /\ ProcessInv /\ CrashInv /\ [Next]_vars => CrashInv'
<1> SUFFICES ASSUME Typed, ProcessInv, CrashInv, [Next]_vars PROVE CrashInv'
  OBVIOUS
<1>a. \A s \in Sessions : Marked(s) => Marked(s)'
  BY MarksStay
<1> USE <1>a, PlacesAre, Kinds
    DEF CrashInv, Heard, Usable, Typed, TypeOK, Closings, ProcessInv, Born, Goto
<1>1. ASSUME NEW s \in Sessions, NewSession(s)
      PROVE  CrashInv'
  <2>1. CASE StartDriver(s)
    BY <2>1 DEF StartDriver, signalVars
  <2>2. CASE WaitForDriver(s)
    BY <2>2 DEF WaitForDriver, signalVars
  <2>3. CASE UseDriver(s)
    BY <2>3 DEF UseDriver, signalVars
  <2>4. CASE DriverStarted(s)
    BY <2>4 DEF DriverStarted, signalVars
  <2>5. CASE DriverFailed(s)
    BY <2>5 DEF DriverFailed, signalVars
  <2>6. CASE Resume(s)
    BY <2>6, AfterType DEF Resume
  <2>7. CASE LaunchFailed(s)
    BY <2>7 DEF LaunchFailed, signalVars
  <2>8. CASE SetupFailed(s)
    BY <2>8 DEF SetupFailed, MarkAndClose
  <2>9. CASE Reaped(s)
    BY <2>9 DEF Reaped, signalVars
  <2> QED
    BY <1>1, <2>1, <2>2, <2>3, <2>4, <2>5, <2>6, <2>7, <2>8, <2>9 DEF NewSession
<1>2. ASSUME NEW s \in Sessions, Cancelled(s)
      PROVE  CrashInv'
  <2>1. CASE SetupCancelled(s)
    BY <2>1 DEF SetupCancelled, MarkAndClose
  <2>2. CASE CancelledEarly(s)
    BY <2>2 DEF CancelledEarly, signalVars
  <2>3. CASE ReapCancelled(s)
    BY <2>3 DEF ReapCancelled, signalVars
  <2> QED
    BY <1>2, <2>1, <2>2, <2>3 DEF Cancelled
<1>3. ASSUME NEW s \in Sessions, Driver(s) \/ StrayLaunch(s) \/ Crash(s)
      PROVE  CrashInv'
  <2>1. CASE Answer(s)
    BY <2>1 DEF Answer, signalVars
  <2>2. CASE Exit(s)
    BY <2>2 DEF Exit
  <2>3. CASE Disconnected(s)
    BY <2>3 DEF Disconnected
  <2>4. CASE StrayLaunch(s)
    BY <2>4 DEF StrayLaunch, signalVars
  <2>5. CASE Crash(s)
    BY <2>5 DEF Crash
  <2> QED
    BY <1>3, <2>1, <2>2, <2>3, <2>4, <2>5 DEF Driver
<1>4. ASSUME NEW c \in Closers, CloseBegin(c)
      PROVE  CrashInv'
  BY <1>4 DEF CloseBegin, signalVars
<1>5. ASSUME NEW c \in Closers, Close(c)
      PROVE  CrashInv'
  <2>1. CASE ContextClosed(c)
    <3>1. Marked(of[c])'
      BY <2>1 DEF ContextClosed, MarkAndClose, Marked
    <3> QED
      BY <2>1, <3>1 DEF ContextClosed, MarkAndClose
  <2>2. CASE BrowserClosed(c)
    BY <2>2 DEF BrowserClosed, signalVars
  <2> QED
    BY <1>5, <2>1, <2>2 DEF Close
<1>6. ASSUME NEW c \in Closers, CloseCancelled(c)
      PROVE  CrashInv'
  BY <1>6 DEF CloseCancelled, signalVars
<1>7. CASE UNCHANGED vars
  BY <1>7 DEF vars, signalVars
<1> QED
  BY <1>1, <1>2, <1>3, <1>4, <1>5, <1>6, <1>7 DEF Next

\* Every crash of a session's browser is counted once it is dispatched, unless a
\* close() of that session had already set out to end it.
THEOREM CrashSignalComplete == Spec => []CrashesCounted
<1>1. Init => Typed /\ ProcessInv /\ CrashInv
  BY TypedInit, ProcessInit, CrashInit
<1>2. Typed /\ ProcessInv /\ CrashInv /\ [Next]_vars
        => (Typed /\ ProcessInv /\ CrashInv)'
  BY TypedNext, ProcessNext, CrashNext
<1>3. Typed /\ CrashInv => CrashesCounted
  BY DEF Typed, TypeOK, CrashInv, Heard, Usable, CrashesCounted
<1> QED
  BY <1>1, <1>2, <1>3, PTL DEF Spec
=============================================================================
