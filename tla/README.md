# pagehub-browser in TLA+

pagehub-browser is a Python service that offers a headless browser over HTTP.
`POST /v1/sessions` starts a chromium process, `POST /v1/sessions/{id}/<verb>`
drives it, `DELETE` ends it, and a background task reaps sessions that are idle.
Everything runs on one asyncio event loop in one process, so nothing is
preempted; but every `await` is a place where any other request, the reaper,
Playwright's driver or the page itself may go first. The correctness of the
service lives in what each coroutine assumes across its awaits. These modules
model each place where it assumes something, model-check them with TLC, show that
the registry implements an abstract promise, and prove the main results with TLAPS.

References such as `session_manager.py:237` are to `src/api/` unless they name
another directory, those to `playwright_engine.py` to `src/api/engine/`.

## Inventory

### Components, their state and their operations

| Component | Source | State | Operations |
|---|---|---|---|
| Session registry | `session_manager.py` | `_records` (id → record with engine session, lock, `closing`, last use, idle timeout), `_tombstones` (LRU of reaped ids), five counters | `create` with LRU eviction before and after the launch, `get`, `touch`, `delete`, `list`, `close_all` |
| Idle reaper | `session_manager.py:288-335` | the snapshot it iterates and its `now` | `reap_pass` every interval |
| Action runner | `v1/sessions/actions/router.py` | two counters; the session's lock is held while an engine call runs | `_run_action`: get, lock with timeout, call, touch, classify |
| Sessions router | `v1/sessions/router.py` | none | create, delete, list, status probe |
| Admin reset | `v1/admin/router.py` | the snapshot it iterates | `reset_sessions` |
| Browser processes | `engine/playwright_engine.py:649-761` | driver handle, launch lock, intentional closes, live browsers, `browser_restarts_total` | `_ensure_pw`, `new_session`, `close`, the `disconnected` listener |
| Page scripts | `engine/playwright_engine.py:378-392, 438-458, 580-638` | none of its own; it races with the page | `_evaluate_settled` under `evaluate`, `local_storage`, whole-document `get_html` |
| Element verbs | `engine/playwright_engine.py:69-120, 187-276, 325-509` and `engine/errors.py` | none of its own; it races with the page | `_resolve_single`, the verbs, `wait_for`, the classification of errors |
| Navigation, deny-list | `engine/playwright_engine.py:137-153, 280-321`, `ssrf.py` | `_last_blocked_nav`, `current_url` of the record | `navigate`, route interception, refresh of the URL by the status probe |
| Console and network logs | `engine/playwright_engine.py:157-183, 511-546` | two bounded deques | listeners, reads that may clear |
| Cookies | `engine/playwright_engine.py:548-578` | Playwright's | get, set, clear |
| Middleware | `middleware.py` | bytes received of a request | body limit, header filter |
| Application | `main.py`, `config.py`, `deps.py` | the reaper task | start, shutdown |
| Schemas, health and metrics, deployment | | none | validation, reads |

### How they interact

    HTTP request --> middleware --> router --> SessionManager --> EngineSession
                                      |             |                 |
                                 per-session     registry        Playwright's
                                    lock        (no lock of         driver
                                      |          its own)             |
                                      +---- reaper task ----+     chromium, page

The registry has no lock of its own: it relies on there being no `await`
between a check and the change that depends on it. Each session has an
`asyncio.Lock` that actions, DELETE, the status probe and the reaper take. An
eviction and an administrator's reset close sessions **without** that lock.
The `closing` flag is what keeps two parties from removing the same session.
The engine's listener runs as a callback of the event loop. Playwright's driver
and chromium are processes of their own.

### What is hard, and what correctness means

* **Registry.** Creates overlap with each other, with deletes and with the
  reaper, each suspended while a browser opens or closes. Correct means: no more
  records than `MAX_SESSIONS`; two evictors never choose one victim; every removal
  is counted; a closing record has somebody who will remove it; an id that answers
  "unknown" does not turn into "expired".
* **Lock.** A lock wait with a timeout, a lock wait with none, and a lock that is
  never released after a reap. Correct means: one task at a time works on a
  session, the queue loses nobody and grants nobody who has left, every request is
  answered.
* **Processes.** A create has six awaits and may fail or be cancelled at each; a
  crash event arrives some time after the crash. Correct means: one driver, no
  forgotten chromium, crashes and nothing but crashes counted.
* **Scripts.** A navigation destroys a script at any moment, and the service
  retries. Correct means: the timeout covers all retries, a failure of the script's
  own is not retried, success is success.
* **Elements.** The page changes between wait, count and action. Correct means: one
  timeout for all of it, and an error that says of the page only what was so.
* **Navigation.** A note left by the route handler is read on the other side of an
  await, while the page navigates too. Correct means: a refusal is blamed on what was
  refused during this very goto, a 200 hides none, a recorded URL does not go back.
* **Logs.** Events come at any moment, reads clear, buffers overflow, and a response
  does not say which entry it belongs to. Correct means: a read is the tail of what
  happened, and no status is lost or given to a stranger.
* **Cancellation and shutdown.** A coroutine that is cancelled runs its `finally` and
  nothing else. Correct means: it keeps no lock, and what it leaves half closed the
  shutdown closes.

`PROJECT.json` lists the hazards one by one with their lines and the properties
that cover them.

## Plan

The order is that of importance: what breaks a tenant's session comes first.

| | Module | What | State |
|---|---|---|---|
| 1 | `SessionManager` | registry, lock, reaper and every request that changes them | done, proofs in `SessionManagerProofs` and `SessionLocksProofs` |
| 2 | `BrowserProcesses` | the two engine calls that 1 takes as steps | done, proofs in `BrowserProcessesProofs` |
| 3 | `PageScripts` | scripts, retries, timeouts | done, proofs in `PageScriptsProofs` |
| 4 | `ElementActions` | wait, count, act on a changing page | done, proofs in `ElementActionsProofs` |
| 5 | `SessionDirectory`, `SessionRefinement` | what the registry promises of each id, and the mapping under which `SessionManager` implements it | done, proofs in `SessionRefinementProofs` |
| 6 | `Lifespan` | `SessionManager` with cancelled requests and the shutdown of the application | done, proofs at the end of `SessionLocksProofs` |
| 7 | `Navigation` | `navigate`, its two URL checks and `_last_blocked_nav` while the page navigates by itself | done, proofs in `NavigationProofs` |
| 8 | `LogBuffers` | ring buffers, clearing reads and the matching of responses to requests | done, proofs in `LogBuffersProofs` |

Every safety property and every action property that a passing run checks is now
stated by a theorem; what is left to TLC is liveness.

Everything is parameterised by CONSTANTS with named assumptions, recursion is
avoided throughout (sequences by `SequencesExt`, the first record of a snapshot by
its insertion order), and invariants are conjunctions of named parts.

## The modules

### SessionManager

A request is a task that runs once. `pc` says at which await it is, `tgt` which
session it works on, `reply` what it answered. One action is the code between two
awaits of one coroutine, which is what asyncio runs without interruption. A session
has the name of the create request that made it, since its id is a fresh uuid4.

| TLA+ | Code |
|---|---|
| `records`, `born` | `_records` and the order of the dict |
| `idle` | `monotonic() - last_used_monotonic`, in ticks, counted up to `IdleCap` |
| `timeout`, `closing`, `lock`, `waiters` | fields of the record; the two last are its `asyncio.Lock` |
| `engine` | whether the session's browser is open |
| `tombstones`, `stats` | `_tombstones` and the counters |
| `todo`, `overdue` | the snapshot a reset or a reaper pass iterates, and the sessions past their timeout at the `now` the pass read once |
| `CreateAdmit` ... `SecondVictimClosed` | `create`, cut at its three awaits: first eviction, launch, second eviction (or the close of a surplus browser) |
| `GetLive`, `NotLive`, `TryLock`, `LockGranted`, `LockTimeout`, `ActionDone`, `DeleteDone` | `_run_action` and `delete` |
| `ProbeCached`, `ProbeLock`, `ProbeDone` | the status probe |
| `ResetBegin`, `ResetClosed` | `reset_sessions` |
| `ReapBegin`, `ReapClosed` | `reap_pass` |
| `Free`, `Take`, `Enqueue`, `Release` | `asyncio.Lock`, external: a released lock is promised to the first waiter, and until the loop runs that waiter `locked()` is false although nobody else can take it |

`wait_for` starts the acquisition as a task of its own, so there is a step
between `get()` and the first try of the lock (`acquire`). Closing a browser never
raises to its caller: `suppress(Exception)` or a logged handler is at every call.
`reap_pass` also has a branch that drops every record when the engine is dead;
`is_alive()` is true from the first start of the driver until shutdown, and a
record exists only after that start, so the branch does not fire in this model.

### BrowserProcesses

What `SessionManager` takes for one step, the opening of a browser, and for
another, its closing, is here a coroutine with an await for each command to the
driver. `pc` of a create runs through `lock`, `start`, `launch`, `context`, `page`,
`route` to `owned`; of a close through `contextClose` and `browserClose`.
`answer` is the driver's reply that a coroutine has not read yet, `proc` the
chromium process, `news` the disconnect events not yet dispatched.
Cancellation may come at every await. `crashed` and `abandoned` are history
variables: who died by itself, and whose browser a cancellation left behind.
Errors of `context.close()` are swallowed, so `ContextClosed` stands for its
success and its failure.

### PageScripts

`_evaluate_settled` against a page that runs, throws, hangs, navigates and dies as
it likes. Time is in quarters of a second, the unit of the pauses, and no time
passes while the event loop has something due, since a timer that is due is run
before the loop sleeps again. `script` is what the page did with the last script a
call sent; it goes on after the call has timed out, since `wait_for` cancels a
coroutine and not the page. `effects`, `ran` and `lost` are history: how often a
call's script took effect, which of its sendings did last, and how many a navigation
destroyed. The per-session lock is reduced to its holder.

### ElementActions

One call of one verb. `click` stands for click, type, select and hover, `screenshot`
for that of an element, `getAttribute` also for the element's `get_html` and
press-key, `getText` waits for visibility first, `waitFor` only waits. `matches`,
`shown` and `attr` are the page, which `PageChanges` may change at any await.
`waited`, `counted` and `acted` add up how long the call has been where. The rest is
history: `steady` is TRUE as long as nothing has happened to the page or the driver,
`failed` says that the driver failed the call for a reason of its own, `wasNone` and
`wasMany` how many elements matched at some moment.

`SpecRow` is the error table of SPEC.md, with its edge case for the screenshot of a
hidden element, as a function of the request and of the page. `Departs` names the two
cases in which the code answers something else: `TableKept` says that on a page that
stays as it is the answer is the row of SPEC.md except in these, where it never is.

### SessionDirectory and SessionRefinement

`SessionDirectory` is the promise without tasks, locks, browsers or clocks. A session
is `unborn`, `live`, `leaving`, `gone` or `expired`. It is admitted when there is room
(`Admit`) or in the same instant as a leaving one goes (`Swap`), is refused only when
there is none (`Refuse`), leaves once and never returns, and is remembered as expired
only up to `Memory` (`Expire`). A client that asks is told the truth of the moment it
asks (`Ask`).

`SessionRefinement` maps the registry to it. `LifeOf` is read off the record, the
tombstones and the create's answer; `HeardBy` says that a request is served from the
moment `get()` returned its record, whatever becomes of the session while the request
waits; `Refused` counts a create as refused as soon as it found the registry full,
although a surplus browser is closed before the 503. An insertion after the second
eviction is a `Swap`, an eviction before the launch a `Leave` and a `Retire`, and a
`ReapClosed` that goes on to its next session is an `Expire` with `next` nonempty. The
refinement holds without DELETE and reset, which remove sessions that are not theirs
to remove: `cap_with_reset` and `deleted_expires` are the counterexamples.

`LivesOneWay` is what is left of the promise when they come: the life of every id
moves only along `Onward`, from unborn to live to leaving to gone or expired, with
one move that the directory does not have: what was gone may be remembered as expired,
when a DELETE and the reaper both remove it. Capacity and the counters have their own
remainders, `OverrunBounded` and `EvictedReapedOnce` in `SessionManager`.

### Lifespan

`Lifespan` EXTENDS `SessionManager` with the steps a coroutine takes when
CancelledError, which is no Exception and passes every `suppress(Exception)`, is raised
at one of its awaits: one `Cut...` action for each kind of await. What follows it is
what `finally` and `async with` say and nothing else, so a cancelled eviction leaves
its victim `closing`, a cancelled DELETE still removes, counts and releases, and a
cancelled launch is undone by `new_session` (whose own steps are those of
`BrowserProcesses`). The browser of a cancelled close may be closed or not.
`Shutdown` is the lifespan's `finally`: it cancels the reaper wherever it is suspended
and takes `close_all`'s snapshot; the server runs it only when every request has
ended, which is uvicorn's doing and a guard of the action.

### Navigation

| TLA+ | Code |
|---|---|
| `CheckRefuses`, `InterceptorRefuses` | `check_navigate_url`, which asks the resolver, and `navigation_request_is_blocked`, which does not. A URL is its scheme and the kind of its host; the resolver's answer is any set of addresses |
| `allowed` | `_private_hosts_allowed()` |
| `Canonical`, `CallGoto` | `page.goto`: Chromium makes a URL of the string it is given, external. The URL need not have the host that `urlsplit` found, and of some strings it makes none |
| `lastBlocked`, `currentUrl` | `_last_blocked_nav`, and `current_url` of the record |
| `routed`, `flying` | navigation requests whose route event is not handled yet, and those let through; external |
| `arrived` | what became of the navigation the pending `goto` waits for; external |
| `Check`, `Busy`, `Begin`, `Goto...`, `TitleRead` | the request, cut at its awaits: the lock, `goto`, `title()` |
| `Refuse`, `LetThrough` | the route handler; `abort` may fail, which the handler swallows |
| `ProbeCached`, `ProbeLive` | GET of the session, whose `current_url()` awaits nothing |

`refused` and `shown` are history: what was refused during a request's goto, and what
the page showed since the last 200. The page and its frames navigate of their own at
any moment, and a redirect leads to a URL that no route event saw (`LandsOn`), as
`ssrf.py:152` says. The handler treats a frame's navigation as the page's.

### LogBuffers

The deques are sequences, an entry is a request's number and URL, and `from` says
whose response gave it its status (0 is None). The listener's loop from the newest
entry is `OnResponse`: the newest `Open` entry of the URL. The reads do not await
between copy and clear, so each is one step. `cleared`, `silenced` and `contended`
are history.

### MC modules and proof modules

`MCSessionManager` and `MCPageScripts` hold the symmetry and the statements of the
documents that the code does not keep; `MCNavigation` gives the URLs their parts,
`MCLogBuffers` the symmetry of URLs, `MCLifespan` that of creates;
`MCBrowserProcesses` and `MCElementActions` name the instances for TLC. The `...Proofs` modules hold only lemmas, invariants and
theorems; each EXTENDS the module it is about. `SessionLocksProofs` builds on
`SessionManagerProofs` and is about `Lifespan` too, `SessionRefinementProofs` builds on
`SessionLocksProofs`.

## Runs

| Run | Instance | What it shows |
|---|---|---|
| `creates_and_reaper` | 4 creates, 1 action, 1 probe, reaper, `MaxSessions` 2; 729,000 states | `CapRespected`, `CountersBalance`: with no DELETE and no reset in flight the cap is never exceeded and each removal is counted exactly once. `ImplementsDirectory`: the registry implements `SessionDirectory` |
| `all_requests` | 2 creates, 1 action, 2 deletes, 1 probe, 1 reset, reaper, `MaxSessions` 1; 1,094,000 states | the lock, its queue, the closing marks, the browsers, the tombstones and the counters (`NoUncountedRemoval`) with every kind of request at once; an id that answered 404 is not served again (`GoneForGood`), a life goes one way (`LivesOneWay`) |
| `answered` | 2 creates, 1 action, 1 delete, 1 probe, reaper; fair | every request that arrives is answered, an overdue session is removed or used |
| `browser_processes` | 2 creates, 2 closes; fair; 42,000 states | one driver, no forgotten process, the crash signal, and that a close that is not cancelled ends its process |
| `page_scripts` | 1 evaluate of 0.5 or 2 s, 1 call without a timeout, 3 retries; fair; 136,000 states | timeouts bound retries and pauses; scripts are repeated only after a loss; a 200 means that the last script sent ran to its end; evaluates are answered |
| `element_actions` | timeout of 3 ms, up to 2 matches, counting up to 4 ms; 106,000 states | one budget, justified blame, the error table with its two departures, crashes reported |
| `navigation` | 2 navigates, 1 probe, 5 URLs, 2 navigations of the page, both settings; 4,531,000 states | a blocked 400 names what was refused during this goto, and the request's own navigation only where Chromium made another URL of it; a 200 hides no refusal, the recorded URL does not go back |
| `log_buffers` | buffers of 3, 5 requests for 2 URLs, 4 messages; 1,386,000 states | a read is the tail since the last clear; statuses are kept, and kept by their own requests unless two of one URL overlap |
| `lifespan` | 3 creates, 1 action, 1 delete, 1 reset, reaper, `MaxSessions` 1, 2 cancellations; 3,981,000 states | a cancelled request lets go of every lock and queue, and `close_all` closes every browser a record leads to. Whoever is cut off, no session is evicted or reaped twice (`EvictedReapedOnce`), and the registry exceeds the cap by no more than what DELETE and reset have removed (`OverrunBounded`) |
| `cap_with_reset`, `deleted_expires`, `hung_read` | | the three disagreements below, each found as a counterexample |

### Bounds, and why they are enough

* Four creates against two slots: two that hold the slots and two that compete for
  them, which is the smallest instance where both evict, where one evicts and the
  other is turned away, and where both reach the second check after the launch.
  Each takes part once; the theorems `CapKept` and `BooksBalance` remove the bound.
* `all_requests` has one slot and two creates: a session, and a create that evicts
  it while the action, two deletes, the probe, the reset and the reaper are anywhere.
* `lifespan` has three creates on one slot, a DELETE and a reset: one create holds the
  slot, one gets past its second look at the cap with a victim that the DELETE or the
  reset takes away, and a third refills what was freed, so that the registry does
  exceed the cap. `OverrunKept` and `BooksSurvive` remove the bound.
* `IdleCap` 2 with timeouts and window of 1: an idle time is compared to these two
  only and to other idle times, so what lies above the larger is one class, except
  for the order of two idle sessions, where the module takes either as the oldest.
  A create may ask for no timeout or for 9, which is clamped. `answered` asks for
  none only.
* `TombstoneMax` 1: the second reaped session pushes out the first.
* Two sessions and two closers: two first creates racing for the launch lock, and
  two closes of one session, which is what an eviction and a reset can do.
* Timeouts of 2 and 8 quarters: the first ends in the middle of the second pause,
  the second lets all three retries happen.
* Timeout 3, two matches, 4 ms of counting: the wait may end early, late or never,
  counting alone may outlast the timeout, and two matches are the smallest
  ambiguity. Nothing in the code bounds how long counting takes; `MaxCounting` is
  a bound of the model, and no property depends on it.

* Two cancellations: one that strands a session and one that hits whoever comes after
  it, a DELETE of the stranded one or the create that evicts next. The reaper's own
  cancellation at the shutdown comes on top.
* Five URLs: one that the check lets through and may land anywhere its name resolves,
  one private and one that is no web URL, so each branch of both checks is taken with
  the escape hatch open and closed; one spelling of the private host that is a plain
  name to `urlsplit`, so that the handler refuses what the check let through, and one
  string of which Chromium makes no URL. Two navigates, one for the note that the other
  left; two navigations of the page, one refused before a goto and one during it.
* Buffers of three with five requests and four messages: they overflow twice with a
  clear in between, and three requests of one URL can be in flight at once.

### Deadlock

Deadlock is checked in the runs of `SessionManager` where the reaper runs for ever:
a state where nothing can move would be reported. The other modules are of a
fixed number of calls, which end (`Lifespan` ends with the application): their runs say `CHECK_DEADLOCK FALSE`, and what
must not get stuck there is stated by `StartNotStuck`, `MemoryReturned` and
`EvaluatesAnswered`.

### Fairness

Weak fairness per task: asyncio runs every ready task in turn, so a request that
has arrived is carried on (`pc # "start"`). In `SessionManager` the browser's calls
are taken to return, since the verbs have timeouts and the deployment cuts a
request off at 120 s (`src/modal_app.py`); `hung_read` shows the call for which the
code itself gives no such bound. The reaper's sleep ends and time passes. In
`BrowserProcesses` the driver answers; in `PageScripts` the event loop and its
timers go on and the page has **no** fairness at all, so `EvaluatesAnswered` holds
of pages that hang. Nobody is ever obliged to send a request, to cancel, to crash
or to navigate.

## Disagreements between the code and its documents

1. `cap_with_reset`. After its second eviction `create` inserts without another
   look at the cap (`session_manager.py:236-254`). When a reset removes the victim
   in the meantime, another create takes the slot, and the registry holds
   `MAX_SESSIONS` + 1. PLAN.md:172 and the docstring of `_evict_one` say it cannot.
2. `deleted_expires`. `locked()` is false while the lock is promised to a waiting
   DELETE; the reaper queues behind it and then tombstones what it deleted
   (SPEC.md:365 says deletion never tombstones).
3. `hung_read`. The whole-document `get_html` and `local_storage` have no timeout,
   so a looping page holds the session's lock (PLAN.md:160 says every call has
   one). `title()` after a goto is a third such call.

The models contain more behaviours that the documents rule out, for which there is no
run: a request between `get()` and its lock is invisible to the evictor and runs on a
browser that is being closed (`tests/test_session_manager.py:289`); two overlapping
DELETEs of one session both answer 204 (SPEC.md:365); `_evaluate_settled` runs a
script again whose effect came before the navigation that destroyed it (PLAN.md:176);
a click that navigates does not store `current_url` (PLAN.md:272); the route handler
refuses navigations of frames too, where PLAN.md:484 speaks of top-level ones.

`Departs` in `ElementActions` names two more, which `TableKept` shows to be the only ones
on a page that stays as it is: a malformed selector makes `wait-for` answer 422 where
SPEC.md:159 says 400 (`playwright_engine.py:408`), and the screenshot of a hidden element
answers 409 after its timeout where SPEC.md:373 says 422 (`playwright_engine.py:503`).
On a page that changes there is a third: an element that was found and went before the
action is answered with 404 or 409 where SPEC.md:369 says 422; `BlameJustified` allows it,
since the 404 is then true of the page.

## Proofs

All are proved for every value of the constants that satisfies the modules'
ASSUMEs: distinct task names, finitely many requests, positive limits.

**SessionManagerProofs.** `TypeCorrect` is inductive as `Typed`, which adds to
`TypeOK` the places that each kind of task can be at (`Placement`) and that a task
has a session whenever its place needs one (`Targeted`). The lemmas `OneTaskMoves`,
`LockEffects`, `MarkEffects`, `TargetEffects` and `Books` each say in one formula what *any* step
of any task does to the other tasks, to the locks, to the marks, to the targets and
to the books; the invariants are then proved from these summaries and not from some
thirty actions each.

* `MutualExclusion` (`WorkUnderLock`): by `LockEffects` a step leaves the locks
  alone, takes one that nobody holds, or releases the lock of a task that
  stops working, and with `WorkUnderLock` that task is the holder.
* `EvictorsApart` (`VictimsDistinct`) is inductive with `Marked`: what a create or
  the reaper is removing is marked closing, and both start only on what is not.
* `EveryRemovalCounted` (`NoUncountedRemoval`): by `Books` a step changes nothing,
  removes a record and counts it, inserts one and counts it, or does both at once;
  the invariant `Answered` (a record's create has answered) makes every insertion
  that of a new record.
* `CapKept` and `BooksBalance` assume `Deletes = {}` and `Resets = {}`, without
  which both are false: `cap_with_reset` shows it of the first, and a session that
  a DELETE and a reset both remove is counted twice. Their invariant is `Base`, with
  `Held`: every victim of an evictor or of the reaper still has its record. That is
  what makes the unchecked insert after the second eviction sound, one record going
  for one that comes, and it is just what a reset breaks.
* `OverrunKept` (`OverrunBounded`) assumes nothing of the kind. Its invariant is `Paid`:
  an *orphan* is a create in its second eviction whose victim has lost its record
  already; the orphans are no more than the deletions, and records and orphans
  together no more than the cap and the deletions. A create is orphaned only by a
  DELETE or a reset (`OrphansStep`, from `VictimsDistinct`), by each removal one at most,
  and that removal is counted (`Deletions`).
* `TombstonesKept` (`TombstonesSound`) needs no assumption: `TombEffects` says what any
  step does to the tombstones, and `Settled` that a tombstoned id was issued, has no
  record, is marked closing, and is not what the reaper is closing now, so the reaper
  never tombstones an id twice.

**BrowserProcessesProofs.** `DriverInv` (`Starting`: the lock is held exactly by the
create that starts the driver, and no driver runs then) gives `DriverStartedOnce`.
`ProcessInv` relates the four sides of a process's life: `Born` (who can have a process),
`Told` (a running process that was told to exit is marked, and unmarked news is of crashes), `Reaping` and
`Ended` (what a finished coroutine leaves); it gives `TeardownsNotCounted` and
`NoProcessForgotten`. `CrashInv` follows a crash from the process to its event to the
counter and gives `CrashSignalComplete`.

**PageScriptsProofs.** `Clocks` says that what has elapsed and what is left make up
the timeout, whatever was retried in between, and gives `BudgetBoundsRetries`.
`EffectInv` counts a script's effects and its sendings against its losses, all but the
last sending being lost, and gives `OnlyLossesRepeat` and `SuccessRan`. `PauseInv` bounds what was paused by the
attempt reached; the bound is quadratic in the number of attempts, so its step is
two lemmas of arithmetic of their own (`TriangleGrows`, `TriangleStep`).

**ElementActionsProofs.** `Times` ties the three clocks to what is left and gives
`OneBudgetShared`; `Blame` says at each await what the history must contain for
the answers reachable from there; `Still` says, for a page that has not changed,
what each await already knows of `SpecRow` and `Departs`. `CrashIsReported` is an action
property and needs only the type invariant.

**SessionRefinementProofs.** `RegistryIsADirectory` assumes `Deletes = {}` and
`Resets = {}`. Its invariant `Ready` adds `Settled` and `Fresh` (a mark is put on
issued sessions only) to `Base`. `LifeTable` reads
the life of an id off the state; `LivesSame`, `LivesLeave`, `LivesGo` and `LivesBegin`
turn what a step does to records, marks and tombstones into what it does to lives; and
`CreateSimulates`, `ReaperSimulates` and `ClientSimulates` find for each step its
abstract step, or that it has none.

`LivesGoOneWay` (`LivesOneWay`) holds with every kind of request. A session leaves the
registry only marked (`LeavesMarked`, from `MarkedFirst`: whoever removes, a DELETE and a
reset included, has marked first), no mark is taken back, an issued id never gets a
second record, and a create answers when it puts in a record that nobody has marked
(`BornLive`); `LifeMoves` reads the move of each id off these.

**SessionLocksProofs.** What the other two leave of `SessionManager`, with every kind
of request in any number. `LockMoves` says that a step leaves the locks alone, takes a
free one, joins a queue, is served from its head, gives up waiting, or gives a lock
back; the lemma `Leaving` that being served and giving up both take one waiter out of a
queue and keep the order of the others. `QueuesKept` follows from these two. The
others rest on the invariant `Sound`, which adds `Aimed` to the invariants above:
targets, snapshots and marks are of ids that were issued, so a create that has not
answered is nobody's target, and what the reaper has locked is marked.

* `LocksKept` (`LockSound`) needs `Aimed` for the lock the reaper keeps: an id that was
  issued and has lost its record never gets another.
* `MarksOwned` (`ClosingIsOwned`): by `RemovingEffects` a mark is put by the task that
  will remove the session, and that task goes on or has removed it.
* `BrowsersKept` (`BrowsersMatchRecords`): `EngineEffects` gives five things a step may do to
  browsers and records; `Launched` (a create in its second eviction has its browser)
  makes the insertion after it sound.
* `ProbesAhead` (`NoProbeBehindReaper`): a probe joins only the queue of a session that is
  not marked, where by `Marked` and `Aimed` the reaper neither holds nor waits, and what
  stays in a queue keeps its order (`ProbesStayFirst`).
* `EvictedOrReapedOnce` (`EvictedReapedOnce`): the invariant `Booked` counts, besides
  the records, the sessions that are *lost* to an evictor or the reaper, which is still
  closing them and will count them although a DELETE or a reset has removed their
  records. A removal makes at most its own session lost (`LosingStep`), the late
  removal finds it no longer so (`VictimDone`), and no evictor or reaper turns to a
  session that is gone: the evictor looks at the registry, and what has left the
  registry since the reaper took its snapshot is marked (`Tracked`).
* `GoneStaysGone` (`GoneForGood`): by `StaysGone` an issued id that `get()` does not
  return is never returned again, and `Hidden` carries that from the answer on.

Its last section is about `Lifespan`, whose specification adds a cut at every await
and the shutdown. The invariant is `Life`: while the application is up everything
above holds (`Running`), since a coroutine that is cut off does part of what its step
would have done and then nothing more (`Cuts`, `QuitKeeps`); a mark without a task to
remove its record is traced to an eviction or a reset that was cut off
(`MarksTraced`), an open browser without a record to a create or a DELETE that was
(`BrowsersTraced`); after the shutdown nothing moves but `close_all` (`Quiet`).
`CancelledLetsGo` (`CancelledLetGo`) and `BrowsersDrained` (`DrainedMeansClosed`) follow,
and `LocksSurvive` carries the locks, queues, victims, tombstones and 404s over to it.
`BooksSurvive` does so for `NoUncountedRemoval`, `EvictedReapedOnce` and
`OverrunBounded`: a request that is cut off removes nothing, or is a DELETE and counts
what it removes (`QuitAccounts`), so `Booked`, `Paid` and `NoUncountedRemoval` go on. They stop at the shutdown, whose `close_all`
counts nothing; the two upper bounds outlive it (`ClosedAccounts`). `ClosingIsOwned` and
`BrowsersMatchRecords` are not among them: a cancellation breaks them, and the traces
above are what remains. `LockSound` holds while the application is up and ends with
the cancelled reaper, which leaves its lock on a record that nobody will remove.

**NavigationProofs.** `IInv` adds to the type invariant that the navigate past
`waiting` holds the lock (`Exclusive`), that during its goto the note is one of the URLs
refused since it began, or None when there are none (`NoteSound`), and that the
handler does not refuse the very URL that the check has let through (`Checked`, from
`CheckIsStricter`), which says nothing of another URL that Chromium makes of it.
`BlameOfNavigate`, `RefusalsAreTold` and `RecordedUrlKept` follow from it.

**LogBuffersProofs.** `Aligned` gives each deque as an interval of consecutive numbers
in order, from which `LogsAreTheTail` follows. `FlightIsNewest` says that of a URL that
was never contended the request in flight is the newest and its entry has no status;
with it `StatusIsOwn` is inductive. `StatusesNotLost` (`NoStatusLost`) compares the sizes
of two sets of one URL, the entries without a status and the requests without a
response: a request adds one to both, a push or a clear takes from the first only,
and a response takes one from the second and, when the first is not empty, one from
it too, since there is then a newest such entry.

**Only model-checked.** Liveness (`RequestsAnswered`, `OverdueReaped`,
`MemoryReturned`, `StartNotStuck`, `EvaluatesAnswered`), which needs fairness and
ENABLED, out of the prover's reach. Everything else that a passing run checks is
proved. The type invariants are proved only (`TypeCorrect`, `EngineTypeCorrect`,
`ScriptsTypeCorrect`, `VerbTypeCorrect`, `NavigationTypeCorrect`): no run repeats them. No statement rests on induction over data.

## Not modelled

* `find`, which reads up to 50 elements under the session's lock: a loop with no branch
  that another task could disturb.
* The middleware: two filters of one request each, with no state that outlives it.
* The address ranges of the deny-list: a host is private or public, by whichever range.
* An exception of `close_all` or of the engine's close, which the lifespan suppresses.
* Cookies, schemas, `/health`, `/metrics`, deployment: no state of their own, or reads.
  The ranges that the schemas enforce are the ranges of the modules' inputs.
* `actions_total` and `action_errors_total`, which no decision reads; the bearer
  token; what a page contains beyond how many elements match; the wording of
  messages, of logs and of metrics.
* Garbage collection of the weak set of browsers, and a chromium that dies before
  its listener is registered: the model has the step, no property speaks of it.
* More than one process: the service keeps its registry in memory and is deployed with one.
