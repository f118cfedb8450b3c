--------------------------- MODULE BrowserProcesses ---------------------------
(***************************************************************************)
(* PlaywrightEngine of api/engine/playwright_engine.py: the Playwright      *)
(* driver, started once on the first create, one chromium process per       *)
(* session, and the crash signal browser_restarts_total.                    *)
(*                                                                         *)
(* Three parties interleave: the coroutines (new_session, close), which may *)
(* be cancelled at any await; the driver, a process of its own that answers *)
(* their commands; and chromium processes, which may die by themselves.     *)
(* This is what SessionManager takes for one step, the opening of a browser, *)
(* and for another, its closing.                                           *)
(***************************************************************************)
EXTENDS Naturals, FiniteSets

CONSTANTS
  Sessions,  \* new_session() calls, and the browsers they launch
  Closers,   \* close() calls on the sessions they returned
  None       \* no task, no session

ASSUME Apart ==
  Sessions \cap Closers = {} /\ None \notin Sessions \cup Closers

VARIABLES
  pw,           \* self._pw is set
  drivers,      \* how often async_playwright().start() succeeded
  launchLock,   \* the task that holds _launch_lock, or None
  pc,           \* where a coroutine is suspended
  of,           \* the session a close() is for
  answer,       \* the driver's answer that a new_session() has not read yet
  proc,         \* a chromium process: "none", "running" or "gone"
  closing,      \* browsers the driver was told to close
  news,         \* "disconnected" events not yet dispatched
  listening,    \* browsers with the listener _on_disconnected
  intentional,  \* _intentional_closes
  counted,      \* browsers counted: browser_restarts_total is their number
  crashed,      \* browsers that died by themselves
  abandoned     \* browsers whose launch or close was cancelled half-way

driverVars == <<pw, drivers, launchLock>>
signalVars == <<news, listening, intentional, counted, crashed>>
vars == <<driverVars, signalVars, pc, of, answer, proc, closing, abandoned>>

\* The awaits of new_session() that the driver answers, in their order.
Awaits == {"launch", "context", "page", "route"}
After == [launch |-> "context", context |-> "page", page |-> "route",
          route |-> "owned"]
CreatePlaces == Awaits \cup {"idle", "lock", "start", "owned", "reap", "failed"}
ClosePlaces == {"idle", "contextClose", "browserClose", "closed", "left"}

TypeOK ==
  /\ pw \in BOOLEAN /\ drivers \in Nat
  /\ launchLock \in Sessions \cup {None}
  /\ pc \in [Sessions \cup Closers -> CreatePlaces \cup ClosePlaces]
  /\ \A s \in Sessions : pc[s] \in CreatePlaces
  /\ \A c \in Closers : pc[c] \in ClosePlaces
  /\ of \in [Closers -> Sessions \cup {None}]
  /\ answer \in [Sessions -> {"none", "ok", "error"}]
  /\ proc \in [Sessions -> {"none", "running", "gone"}]
  /\ closing \subseteq Sessions /\ news \subseteq Sessions
  /\ listening \subseteq Sessions /\ intentional \subseteq Sessions
  /\ counted \subseteq Sessions /\ crashed \subseteq Sessions
  /\ abandoned \subseteq Sessions

Init ==
  /\ pw = FALSE /\ drivers = 0 /\ launchLock = None
  /\ pc = [t \in Sessions \cup Closers |-> "idle"]
  /\ of = [c \in Closers |-> None]
  /\ answer = [s \in Sessions |-> "none"]
  /\ proc = [s \in Sessions |-> "none"]
  /\ closing = {} /\ news = {} /\ listening = {} /\ intentional = {}
  /\ counted = {} /\ crashed = {} /\ abandoned = {}

Goto(t, place) == pc' = [pc EXCEPT ![t] = place]

-----------------------------------------------------------------------------
(* _ensure_pw().  Whichever task waits for the lock may get it next: they    *)
(* all do the same with it.                                                  *)

\* Mutant: no second look at self._pw under the lock.
StartUnchecked(s) ==
  /\ (pc[s] = "idle" /\ ~pw) \/ pc[s] = "lock"
  /\ launchLock = None
  /\ launchLock' = s
  /\ Goto(s, "start")
  /\ UNCHANGED <<signalVars, pw, drivers, of, answer, proc, closing, abandoned>>

StartDriver(s) ==
  /\ pc[s] \in {"idle", "lock"} /\ ~pw
  /\ launchLock = None
  /\ launchLock' = s
  /\ Goto(s, "start")
  /\ UNCHANGED <<signalVars, pw, drivers, of, answer, proc, closing, abandoned>>

WaitForDriver(s) ==
  /\ pc[s] = "idle" /\ ~pw
  /\ launchLock # None
  /\ Goto(s, "lock")
  /\ UNCHANGED <<driverVars, signalVars, of, answer, proc, closing, abandoned>>

\* The driver runs: on to chromium.launch().
UseDriver(s) ==
  /\ pw
  /\ pc[s] = "idle" \/ (pc[s] = "lock" /\ launchLock = None)
  /\ Goto(s, "launch")
  /\ UNCHANGED <<driverVars, signalVars, of, answer, proc, closing, abandoned>>

DriverStarted(s) ==
  /\ pc[s] = "start"
  /\ pw' = TRUE /\ drivers' = drivers + 1 /\ launchLock' = None
  /\ Goto(s, "launch")
  /\ UNCHANGED <<signalVars, of, answer, proc, closing, abandoned>>

\* Mutant: the lock is kept when the start fails.
DriverFailedLocked(s) ==
  /\ pc[s] = "start"
  /\ Goto(s, "failed")
  /\ UNCHANGED <<driverVars, signalVars, of, answer, proc, closing, abandoned>>

\* start() raises or is cancelled: the lock is free and self._pw still None.
DriverFailed(s) ==
  /\ pc[s] = "start"
  /\ launchLock' = None
  /\ Goto(s, "failed")
  /\ UNCHANGED <<signalVars, pw, drivers, of, answer, proc, closing, abandoned>>

-----------------------------------------------------------------------------
(* new_session() with a running driver. *)

\* browser.close() after _note_intentional_close(): the driver is told, and the
\* coroutine awaits its answer.
MarkAndClose(t, s, place) ==
  /\ intentional' = intentional \cup {s}
  /\ closing' = closing \cup {s}
  /\ Goto(t, place)

\* The driver carries out a command of new_session(), or cannot.
Answer(s) ==
  /\ pc[s] \in Awaits /\ answer[s] = "none"
  /\ \/ /\ pc[s] = "launch" \/ proc[s] = "running"
        /\ answer' = [answer EXCEPT ![s] = "ok"]
        /\ proc' = [proc EXCEPT ![s] = "running"]
     \/ /\ answer' = [answer EXCEPT ![s] = "error"]
        /\ UNCHANGED proc
  /\ UNCHANGED <<driverVars, signalVars, pc, of, closing, abandoned>>

\* The coroutine goes on.  The listener is registered when launch() returns.
Resume(s) ==
  /\ pc[s] \in Awaits /\ answer[s] = "ok"
  /\ answer' = [answer EXCEPT ![s] = "none"]
  /\ listening' = listening \cup {s}
  /\ Goto(s, After[pc[s]])
  /\ UNCHANGED <<driverVars, news, intentional, counted, crashed, of, proc,
                 closing, abandoned>>

\* launch() raises: there is no browser to reap.
LaunchFailed(s) ==
  /\ pc[s] = "launch" /\ answer[s] = "error"
  /\ Goto(s, "failed")
  /\ UNCHANGED <<driverVars, signalVars, of, answer, proc, closing, abandoned>>

\* A later await raises: the finally branch reaps the browser.
SetupFailed(s) ==
  /\ pc[s] \in Awaits \ {"launch"} /\ answer[s] = "error"
  /\ MarkAndClose(s, s, "reap")
  /\ UNCHANGED <<driverVars, news, listening, counted, crashed, of, answer, proc,
                 abandoned>>

\* The reaping close() returns; its own errors are swallowed.
Reaped(s) ==
  /\ pc[s] = "reap" /\ proc[s] = "gone"
  /\ Goto(s, "failed")
  /\ UNCHANGED <<driverVars, signalVars, of, answer, proc, closing, abandoned>>

\* Mutant: only an error of Playwright's reaps the browser.
SetupCancelledUnreaped(s) ==
  /\ pc[s] \in Awaits \ {"launch"}
  /\ Goto(s, "failed")
  /\ UNCHANGED <<driverVars, signalVars, of, answer, proc, closing, abandoned>>

\* Cancelled with a browser in hand: the finally branch runs all the same.
SetupCancelled(s) ==
  /\ pc[s] \in Awaits \ {"launch"}
  /\ MarkAndClose(s, s, "reap")
  /\ UNCHANGED <<driverVars, news, listening, counted, crashed, of, answer, proc,
                 abandoned>>

\* Cancelled with no browser in hand yet: while it waits for the lock, or during
\* launch(), whose browser it then never learns of.
CancelledEarly(s) ==
  /\ pc[s] \in {"lock", "launch"}
  /\ abandoned' = IF pc[s] = "launch" THEN abandoned \cup {s} ELSE abandoned
  /\ Goto(s, "failed")
  /\ UNCHANGED <<driverVars, signalVars, of, answer, proc, closing>>

\* Cancelled while it reaps: the driver was told to close already.
ReapCancelled(s) ==
  /\ pc[s] = "reap"
  /\ Goto(s, "failed")
  /\ UNCHANGED <<driverVars, signalVars, of, answer, proc, closing, abandoned>>

-----------------------------------------------------------------------------
(* PlaywrightEngineSession.close() *)

\* Mutant: the mark is made before the context is closed.
CloseMarkedEarly(c) ==
  /\ pc[c] = "idle"
  /\ \E s \in Sessions : /\ pc[s] = "owned"
                         /\ of' = [of EXCEPT ![c] = s]
                         /\ intentional' = intentional \cup {s}
  /\ Goto(c, "contextClose")
  /\ UNCHANGED <<driverVars, news, listening, counted, crashed, answer, proc,
                 closing, abandoned>>

CloseBegin(c) ==
  /\ pc[c] = "idle"
  /\ \E s \in Sessions : pc[s] = "owned" /\ of' = [of EXCEPT ![c] = s]
  /\ Goto(c, "contextClose")
  /\ UNCHANGED <<driverVars, signalVars, answer, proc, closing, abandoned>>

\* Mutant: the context is closed and its browser is not.
ContextClosedOnly(c) ==
  /\ pc[c] = "contextClose"
  /\ Goto(c, "closed")
  /\ UNCHANGED <<driverVars, signalVars, of, answer, proc, closing, abandoned>>

\* Mutant: the close is not marked as intentional.
ContextClosedUnmarked(c) ==
  /\ pc[c] = "contextClose"
  /\ closing' = closing \cup {of[c]}
  /\ Goto(c, "browserClose")
  /\ UNCHANGED <<driverVars, signalVars, of, answer, proc, abandoned>>

\* context.close() returns or raises: on to the browser.
ContextClosed(c) ==
  /\ pc[c] = "contextClose"
  /\ MarkAndClose(c, of[c], "browserClose")
  /\ UNCHANGED <<driverVars, news, listening, counted, crashed, of, answer, proc,
                 abandoned>>

BrowserClosed(c) ==
  /\ pc[c] = "browserClose" /\ proc[of[c]] = "gone"
  /\ Goto(c, "closed")
  /\ UNCHANGED <<driverVars, signalVars, of, answer, proc, closing, abandoned>>

\* A cancelled close() does not go on to its browser: nothing catches
\* CancelledError.
CloseCancelled(c) ==
  /\ pc[c] \in {"contextClose", "browserClose"}
  /\ abandoned' = IF pc[c] = "contextClose" THEN abandoned \cup {of[c]}
                                            ELSE abandoned
  /\ Goto(c, "left")
  /\ UNCHANGED <<driverVars, signalVars, of, answer, proc, closing>>

-----------------------------------------------------------------------------
(* The driver and chromium, external, and the listener. *)

\* The driver goes on with a launch that nobody waits for any more.
StrayLaunch(s) ==
  /\ pc[s] = "failed" /\ s \in abandoned
  /\ answer[s] = "none" /\ proc[s] = "none"
  /\ proc' = [proc EXCEPT ![s] = "running"]
  /\ UNCHANGED <<driverVars, signalVars, pc, of, answer, closing, abandoned>>

\* The process exits because it was told to.
Exit(s) ==
  /\ s \in closing /\ proc[s] = "running"
  /\ proc' = [proc EXCEPT ![s] = "gone"]
  /\ news' = news \cup {s}
  /\ UNCHANGED <<driverVars, listening, intentional, counted, crashed, pc, of,
                 answer, closing, abandoned>>

\* The process dies by itself.
Crash(s) ==
  /\ proc[s] = "running"
  /\ proc' = [proc EXCEPT ![s] = "gone"]
  /\ news' = news \cup {s}
  /\ crashed' = crashed \cup {s}
  /\ UNCHANGED <<driverVars, listening, intentional, counted, pc, of, answer,
                 closing, abandoned>>

\* The event is dispatched, to _on_disconnected if that listens.
Disconnected(s) ==
  /\ s \in news
  /\ news' = news \ {s}
  /\ IF s \in listening THEN /\ intentional' = intentional \ {s}
                             /\ counted' = counted \cup ({s} \ intentional)
                        ELSE UNCHANGED <<intentional, counted>>
  /\ UNCHANGED <<driverVars, listening, crashed, pc, of, answer, proc, closing,
                 abandoned>>

-----------------------------------------------------------------------------
NewSession(s) ==
  \/ StartDriver(s) \/ WaitForDriver(s) \/ UseDriver(s)
  \/ DriverStarted(s) \/ DriverFailed(s)
  \/ Resume(s) \/ LaunchFailed(s) \/ SetupFailed(s) \/ Reaped(s)

Cancelled(s) == SetupCancelled(s) \/ CancelledEarly(s) \/ ReapCancelled(s)

Close(c) == ContextClosed(c) \/ BrowserClosed(c)

Driver(s) == Answer(s) \/ Exit(s) \/ Disconnected(s)

Next ==
  \/ \E s \in Sessions : \/ NewSession(s) \/ Cancelled(s) \/ Driver(s)
                         \/ StrayLaunch(s) \/ Crash(s)
  \/ \E c \in Closers : CloseBegin(c) \/ Close(c) \/ CloseCancelled(c)

Spec == Init /\ [][Next]_vars

\* The event loop carries on what has begun, and the driver answers.  Nobody need
\* create or close a session, cancel anything or crash.
Fairness ==
  /\ \A s \in Sessions : /\ WF_vars(pc[s] # "idle" /\ NewSession(s))
                         /\ WF_vars(Driver(s))
  /\ \A c \in Closers : WF_vars(Close(c))

FairSpec == Spec /\ Fairness

-----------------------------------------------------------------------------
(* Properties *)

\* However many first creates overlap, one Playwright driver is started.
OneDriver == drivers <= 1 /\ (pw <=> drivers = 1)

\* A healthy teardown, of a session or of a failed create, is never counted as a
\* crash, whoever else closes the same session at the same time.
HealthyUncounted == counted \subseteq crashed

Marked(s) ==
  \E c \in Closers : of[c] = s /\ pc[c] \in {"browserClose", "closed", "left"}

\* The crash of a session's browser is counted once its event is dispatched,
\* unless a close() of that session had begun to end the process.
CrashesCounted ==
  \A s \in crashed \ news :
    (pc[s] = "owned" /\ ~Marked(s)) => s \in counted

\* A running chromium process is being set up, being reaped, or belongs to a
\* session no close() of which has ended, unless it was told to exit or a
\* cancellation abandoned it.
NoLeak ==
  \A s \in Sessions :
    proc[s] = "running" =>
      \/ pc[s] \in Awaits \cup {"reap"}
      \/ /\ pc[s] = "owned"
         /\ \A c \in Closers : of[c] = s => pc[c] \notin {"closed", "left"}
      \/ s \in closing \cup abandoned

\* A close() that is not cancelled ends the process, crashes and other closes of
\* the session notwithstanding.
MemoryReturned ==
  \A c \in Closers, s \in Sessions :
    (pc[c] = "contextClose" /\ of[c] = s) ~> (pc[c] = "left" \/ proc[s] = "gone")

\* No create waits for the driver for ever, even if the one that starts it fails.
StartNotStuck ==
  \A s \in Sessions : pc[s] = "lock" ~> pc[s] # "lock"
=============================================================================
