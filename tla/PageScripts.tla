----------------------------- MODULE PageScripts ------------------------------
(***************************************************************************)
(* The calls of one session that run JavaScript in its page through         *)
(* PlaywrightEngineSession._evaluate_settled: evaluate, local_storage and   *)
(* the whole-document get_html.  A navigation destroys the page's execution *)
(* context, and _evaluate_settled then sends the script again after a pause.*)
(*                                                                         *)
(* The page is a process of its own: a script it was sent may take effect,  *)
(* end, throw or run for ever whatever became of the call that sent it.     *)
(* Time is counted in quarters of a second, the unit of the pauses.         *)
(***************************************************************************)
EXTENDS Integers, FiniteSets

CONSTANTS
  Evaluates,  \* evaluate() calls: they have a timeout
  Reads,      \* local_storage() and get_html() calls: they have none
  None,       \* no call, no timeout
  Timeouts,   \* the timeouts an evaluate() may ask for
  Retries     \* the parameter `retries` of _evaluate_settled, 3

Calls == Evaluates \cup Reads

ASSUME Bounds ==
  /\ Evaluates \cap Reads = {} /\ None \notin Calls
  /\ Timeouts \subseteq Nat \ {0} /\ Retries \in Nat
  /\ None \notin Int

VARIABLES
  holder,   \* the call that holds the session's lock, or None
  pc,       \* "start", "evaluating", "pausing" or "answered"
  attempt,  \* how many scripts a call has sent: `attempt` + 1 of the loop
  limit,    \* the timeout a call asked for, or None
  left,     \* what is left of it on wait_for's timer
  pause,    \* what is left of asyncio.sleep
  script,   \* what became of the last script a call sent
  answer,   \* what a call answered
  elapsed,  \* how long a call with a timeout has taken
  paused,   \* how long a call has paused in all
  effects,  \* how often a call's script took effect in the page
  ran,      \* history: which of a call's scripts was the last to take effect
  lost,     \* how often a navigation destroyed a call's script
  alive     \* the session's browser lives

timers == <<left, pause, elapsed, paused>>
page == <<script, effects, ran, lost, alive>>
vars == <<holder, pc, attempt, limit, timers, page, answer>>

TypeOK ==
  /\ holder \in Calls \cup {None}
  /\ pc \in [Calls -> {"start", "evaluating", "pausing", "answered"}]
  /\ attempt \in [Calls -> 0..Retries + 1]
  /\ limit \in [Calls -> Timeouts \cup {None}]
  /\ left \in [Calls -> Nat \cup {None}]
  /\ pause \in [Calls -> 0..Retries]
  /\ script \in [Calls -> {"none", "sent", "running", "done", "threw", "dead",
                           "destroyed"}]
  /\ answer \in [Calls -> {"none", "ok", "actionFailed", "crash", "timeout",
                           "busy"}]
  /\ elapsed \in [Calls -> Nat] /\ paused \in [Calls -> Nat]
  /\ effects \in [Calls -> Nat] /\ lost \in [Calls -> Nat]
  /\ ran \in [Calls -> 0..Retries + 1]
  /\ alive \in BOOLEAN

Init ==
  /\ holder = None
  /\ pc = [c \in Calls |-> "start"]
  /\ attempt = [c \in Calls |-> 0]
  /\ limit = [c \in Calls |-> None]
  /\ left = [c \in Calls |-> None]
  /\ pause = [c \in Calls |-> 0]
  /\ script = [c \in Calls |-> "none"]
  /\ answer = [c \in Calls |-> "none"]
  /\ elapsed = [c \in Calls |-> 0] /\ paused = [c \in Calls |-> 0]
  /\ effects = [c \in Calls |-> 0] /\ lost = [c \in Calls |-> 0]
  /\ ran = [c \in Calls |-> 0]
  /\ alive = TRUE

-----------------------------------------------------------------------------
(* The calls. *)

\* self._page.evaluate: a script goes to the page, if there still is one.
Send(c) ==
  /\ script' = [script EXCEPT ![c] = IF alive THEN "sent" ELSE "dead"]
  /\ attempt' = [attempt EXCEPT ![c] = @ + 1]
  /\ pc' = [pc EXCEPT ![c] = "evaluating"]

\* _run_action releases the lock and answers.
Answer(c, what) ==
  /\ answer' = [answer EXCEPT ![c] = what]
  /\ pc' = [pc EXCEPT ![c] = "answered"]
  /\ holder' = None

\* _run_action gets the lock, and the first script is sent.
Start(c) ==
  /\ pc[c] = "start" /\ holder = None
  /\ holder' = c
  /\ \E t \in IF c \in Evaluates THEN Timeouts ELSE {None} :
       /\ limit' = [limit EXCEPT ![c] = t]
       /\ left' = [left EXCEPT ![c] = t]
  /\ Send(c)
  /\ UNCHANGED <<answer, pause, elapsed, paused, effects, ran, lost, alive>>

\* Another call holds the lock for too long: SessionBusy.
Busy(c) ==
  /\ pc[c] = "start" /\ holder # None
  /\ answer' = [answer EXCEPT ![c] = "busy"]
  /\ pc' = [pc EXCEPT ![c] = "answered"]
  /\ UNCHANGED <<holder, attempt, limit, timers, page>>

\* The script's result, or an error that is not a race with a navigation.
Outcome == [done |-> "ok", threw |-> "actionFailed", dead |-> "crash"]

Return(c) ==
  /\ pc[c] = "evaluating" /\ script[c] \in DOMAIN Outcome
  /\ Answer(c, Outcome[script[c]])
  /\ UNCHANGED <<attempt, limit, timers, page>>

\* Mutant: one retry too many.
RetryOnceMore(c) ==
  /\ pc[c] = "evaluating" /\ script[c] = "destroyed"
  /\ attempt[c] <= Retries + 1
  /\ pause' = [pause EXCEPT ![c] = attempt[c]]
  /\ pc' = [pc EXCEPT ![c] = "pausing"]
  /\ UNCHANGED <<holder, attempt, limit, left, elapsed, paused, page, answer>>

\* Mutant: an error of the script's own is retried too.
RetryAnyError(c) ==
  /\ pc[c] = "evaluating" /\ script[c] \in {"destroyed", "threw"}
  /\ attempt[c] <= Retries
  /\ pause' = [pause EXCEPT ![c] = attempt[c]]
  /\ pc' = [pc EXCEPT ![c] = "pausing"]
  /\ UNCHANGED <<holder, attempt, limit, left, elapsed, paused, page, answer>>

\* "Execution context was destroyed": a pause that grows with the attempts.
Retry(c) ==
  /\ pc[c] = "evaluating" /\ script[c] = "destroyed"
  /\ attempt[c] <= Retries
  /\ pause' = [pause EXCEPT ![c] = attempt[c]]
  /\ pc' = [pc EXCEPT ![c] = "pausing"]
  /\ UNCHANGED <<holder, attempt, limit, left, elapsed, paused, page, answer>>

\* Mutant: the loop ends without a result and returns None.
GiveUpQuietly(c) ==
  /\ pc[c] = "evaluating" /\ script[c] = "destroyed"
  /\ attempt[c] > Retries
  /\ Answer(c, "ok")
  /\ UNCHANGED <<attempt, limit, timers, page>>

GiveUp(c) ==
  /\ pc[c] = "evaluating" /\ script[c] = "destroyed"
  /\ attempt[c] > Retries
  /\ Answer(c, "actionFailed")
  /\ UNCHANGED <<attempt, limit, timers, page>>

\* Mutant: every attempt gets the whole timeout.
ResendAfresh(c) ==
  /\ pc[c] = "pausing" /\ pause[c] = 0
  /\ Send(c)
  /\ left' = [left EXCEPT ![c] = limit[c]]
  /\ UNCHANGED <<holder, limit, pause, elapsed, paused, effects, ran, lost,
                 alive, answer>>

Resend(c) ==
  /\ pc[c] = "pausing" /\ pause[c] = 0
  /\ Send(c)
  /\ UNCHANGED <<holder, limit, timers, effects, ran, lost, alive, answer>>

\* Mutant: the timeout bounds the pauses and not the evaluation.
TimeoutOfPauses(c) ==
  /\ pc[c] = "pausing" /\ left[c] = 0
  /\ Answer(c, "timeout")
  /\ UNCHANGED <<attempt, limit, timers, page>>

\* wait_for cancels the coroutine; the page knows nothing of it.
Timeout(c) ==
  /\ pc[c] \in {"evaluating", "pausing"} /\ left[c] = 0
  /\ Answer(c, "timeout")
  /\ UNCHANGED <<attempt, limit, timers, page>>

-----------------------------------------------------------------------------
(* The page, external. *)

\* A script begins and takes effect.
TakeEffect(c) ==
  /\ script[c] = "sent"
  /\ script' = [script EXCEPT ![c] = "running"]
  /\ effects' = [effects EXCEPT ![c] = @ + 1]
  /\ ran' = [ran EXCEPT ![c] = attempt[c]]
  /\ UNCHANGED <<holder, pc, attempt, limit, timers, answer, lost, alive>>

\* It ends or throws.
End(c) ==
  /\ script[c] = "running"
  /\ \E how \in {"done", "threw"} : script' = [script EXCEPT ![c] = how]
  /\ UNCHANGED <<holder, pc, attempt, limit, timers, answer, effects, ran,
                 lost, alive>>

Underway == {c \in Calls : script[c] \in {"sent", "running"}}

\* A navigation destroys the execution context and every script in it.
Navigation ==
  /\ Underway # {}
  /\ script' = [c \in Calls |-> IF c \in Underway THEN "destroyed" ELSE script[c]]
  /\ lost' = [c \in Calls |-> lost[c] + IF c \in Underway THEN 1 ELSE 0]
  /\ UNCHANGED <<holder, pc, attempt, limit, timers, answer, effects, ran,
                 alive>>

\* The browser dies, and with it whatever runs in its page.
Crash ==
  /\ alive
  /\ alive' = FALSE
  /\ script' = [c \in Calls |-> IF c \in Underway THEN "dead" ELSE script[c]]
  /\ UNCHANGED <<holder, pc, attempt, limit, timers, answer, effects, ran,
                 lost>>

-----------------------------------------------------------------------------
\* The event loop has something to do for a call: its script's fate is known or
\* a timer of it is due.
Due(c) ==
  \/ pc[c] = "evaluating" /\ script[c] \notin {"sent", "running"}
  \/ pc[c] = "pausing" /\ pause[c] = 0
  \/ pc[c] \in {"evaluating", "pausing"} /\ left[c] = 0

\* Time passes for the call that holds the lock; the event loop is never late.
\* A call without a timeout is not timed while the page has its script.
Tick(c) ==
  /\ pc[c] = "pausing" \/ (pc[c] = "evaluating" /\ left[c] # None)
  /\ ~Due(c)
  /\ IF left[c] = None
       THEN UNCHANGED <<left, elapsed>>
       ELSE /\ left' = [left EXCEPT ![c] = @ - 1]
            /\ elapsed' = [elapsed EXCEPT ![c] = @ + 1]
  /\ IF pc[c] = "pausing"
       THEN /\ pause' = [pause EXCEPT ![c] = @ - 1]
            /\ paused' = [paused EXCEPT ![c] = @ + 1]
       ELSE UNCHANGED <<pause, paused>>
  /\ UNCHANGED <<holder, pc, attempt, limit, page, answer>>

Proceed(c) ==
  Return(c) \/ Retry(c) \/ GiveUp(c) \/ Resend(c) \/ Timeout(c) \/ Tick(c)

Page(c) == TakeEffect(c) \/ End(c)

Next ==
  \/ \E c \in Calls : Start(c) \/ Busy(c) \/ Proceed(c) \/ Page(c)
  \/ Navigation \/ Crash

Spec == Init /\ [][Next]_vars

\* The event loop and its timers go on.  The page need not: a script may loop.
FairSpec == Spec /\ \A c \in Calls : WF_vars(Proceed(c))

-----------------------------------------------------------------------------
(* Properties *)

\* The timeout of an evaluate() bounds it with all its retries and pauses.
BudgetKept == \A c \in Evaluates : limit[c] # None => elapsed[c] <= limit[c]

\* The retries pause for at most 0.25 + 0.5 + 0.75 s: "self-bounded at ~1.5s".
PausesBounded == \A c \in Calls : 2 * paused[c] <= Retries * (Retries + 1)

\* A script takes effect again only for a navigation that destroyed it: any other
\* failure is answered as it is.  And it does so no more often than it is retried.
RepeatsExplained ==
  \A c \in Calls : effects[c] <= lost[c] + 1 /\ effects[c] <= Retries + 1

\* 200 means the script ran to its end, after every loss: the last script that was
\* sent took effect and ended, and each one before it was lost to a navigation.
OkMeansRan ==
  \A c \in Calls :
    answer[c] = "ok" => /\ script[c] = "done" /\ ran[c] = attempt[c]
                        /\ lost[c] = attempt[c] - 1

\* An evaluate() is answered however the page behaves.
EvaluatesAnswered ==
  \A c \in Evaluates : pc[c] \in {"evaluating", "pausing"} ~> pc[c] = "answered"
=============================================================================
