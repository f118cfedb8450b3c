---------------------------- MODULE ElementActions ----------------------------
(***************************************************************************)
(* One call of a verb on a single element: it waits until its locator      *)
(* resolves (PlaywrightEngineSession._resolve_single), counts the matches,  *)
(* and acts with what is left of its timeout; wait-for only waits.          *)
(*                                                                         *)
(* Every step of the call is an await on Playwright's driver, and between   *)
(* any two the page may change under it, or the browser die.  The driver is *)
(* prompt: no time passes while it has a reply.                             *)
(***************************************************************************)
EXTENDS Integers

CONSTANTS
  Timeout,     \* the timeout the caller asked for, in milliseconds
  MaxMatches,  \* bound: how many elements of a page match the locator
  MaxCounting, \* bound: how long the driver takes to count; nothing bounds it
  None         \* no request yet, no `nth`

\* 200, or an error of the engine, as engine_error_http tells them apart.
Answers == {"ok", "notFound", "attributeNotPresent", "ambiguous", "badSyntax",
            "timeout", "actionFailed", "crash"}

ASSUME Bounds ==
  /\ Timeout \in Nat \ {0} /\ MaxMatches \in Nat /\ MaxCounting \in Nat
  /\ None \notin Nat \cup Answers

\* `click` and `screenshot` stand for the actions that need a visible element,
\* `getAttribute` for those that need an attached one; get-text waits for a visible
\* one first.  The screenshot is that of an element.
Verbs == {"click", "screenshot", "getText", "getAttribute", "waitFor"}

\* Playwright begins the action only when the element is visible.
ActsOnVisible == {"click", "screenshot"}

States == {"attached", "visible", "hidden", "detached"}

\* What a verb waits for.  Only wait-for has the caller's choice.
WaitsFor(verb) ==
  CASE verb = "waitFor" -> States
    [] verb = "getText" -> {"visible"}
    [] OTHER            -> {"attached"}

\* `grammar`: the strategy is css or xpath, and so the value may be malformed.
Requests ==
  {r \in [verb : Verbs, state : States, nth : {None} \cup 0..MaxMatches,
          grammar : BOOLEAN, valid : BOOLEAN] :
     /\ r.state \in WaitsFor(r.verb)
     /\ r.valid \/ r.grammar}

VARIABLES
  req,      \* the request, or None
  pc,       \* what the call awaits
  left,     \* what is left of the timeout of the call it awaits
  waited, counted, acted,  \* how long it has waited, counted and acted
  answer,   \* what it answered
  matches,  \* how many elements match the locator, `nth` aside
  shown,    \* the element it resolves to is visible
  attr,     \* and has the attribute
  alive,    \* the session's browser lives
  steady,   \* history: nothing has happened to the page since the request
  failed,   \* history: the driver failed the call for a reason of its own
  wasNone,  \* history: at some moment of the request nothing matched
  wasMany   \* history: at some moment more than one element did

call == <<req, pc, left, waited, counted, acted, answer>>
page == <<matches, shown, attr, alive, steady, failed, wasNone, wasMany>>
vars == <<call, page>>

TypeOK ==
  /\ req \in Requests \cup {None}
  /\ pc \in {"start", "waiting", "counting", "lateCount", "acting", "watching",
             "absentCount", "answered"}
  /\ left \in 0..Timeout
  /\ waited \in 0..Timeout /\ counted \in 0..MaxCounting /\ acted \in 0..Timeout
  /\ answer \in Answers \cup {None}
  /\ matches \in 0..MaxMatches
  /\ shown \in BOOLEAN /\ attr \in BOOLEAN /\ alive \in BOOLEAN
  /\ steady \in BOOLEAN /\ failed \in BOOLEAN
  /\ wasNone \in BOOLEAN /\ wasMany \in BOOLEAN

Init ==
  /\ req = None /\ pc = "start" /\ left = 0
  /\ waited = 0 /\ counted = 0 /\ acted = 0
  /\ answer = None
  /\ matches \in 0..MaxMatches /\ shown \in BOOLEAN /\ attr \in BOOLEAN
  /\ alive = TRUE /\ steady = TRUE /\ failed = FALSE
  /\ wasNone = FALSE /\ wasMany = FALSE

-----------------------------------------------------------------------------
(* The locator. *)

\* How many elements the locator of request `r` stands for when `n` match.
Resolved(r, n) ==
  IF r.nth = None THEN n ELSE IF r.nth < n THEN 1 ELSE 0

Found == Resolved(req, matches)

Reached(state) ==
  \/ state = "attached" /\ Found > 0
  \/ state = "visible"  /\ Found > 0 /\ shown
  \/ state = "hidden"   /\ (Found = 0 \/ ~shown)
  \/ state = "detached" /\ Found = 0

Actionable == Found = 1 /\ (req.verb \in ActsOnVisible => shown)

\* Mutant: whatever is wrong with a css locator is its grammar.
SyntaxFirst ==
  IF req.grammar THEN "badSyntax" ELSE IF ~alive THEN "crash" ELSE "actionFailed"

\* _classify_playwright_error of an error other than a timeout or strictness.
Classified == IF ~alive THEN "crash" ELSE "actionFailed"

\* _locator_error: an error while the locator is waited for or counted.
LocatorError == IF alive /\ req.grammar THEN "badSyntax" ELSE Classified

\* Mutant: 0 would be no timeout at all, and less is refused.
RemainingUnclamped == Timeout - waited - counted

\* Mutant: the action gets a timeout of its own.
RemainingWhole == Timeout

\* What _resolve_single leaves for the action.
Remaining ==
  IF Timeout - waited - counted > 1 THEN Timeout - waited - counted ELSE 1

-----------------------------------------------------------------------------
(* The call.  Each action is a reply of the driver, and what the engine does  *)
(* with it up to its next await or its answer.                               *)

Answer(what) ==
  /\ answer' = what /\ pc' = "answered"
  /\ UNCHANGED <<req, left, waited, counted, acted, page>>

Await(what, timeout) ==
  /\ pc' = what /\ left' = timeout
  /\ UNCHANGED <<req, waited, counted, acted, answer, page>>

Begin ==
  /\ pc = "start"
  /\ req' \in Requests
  /\ left' = Timeout
  /\ pc' = IF req'.verb = "waitFor" THEN "watching" ELSE "waiting"
  /\ wasNone' = (Resolved(req', matches) = 0)
  /\ wasMany' = (Resolved(req', matches) > 1)
  /\ UNCHANGED <<waited, counted, acted, answer, matches, shown, attr, alive,
                 steady, failed>>

\* first.wait_for: the first match is in the state waited for.
WaitReached ==
  /\ pc = "waiting" /\ alive /\ req.valid /\ Reached(req.state)
  /\ IF req.nth = None THEN Await("counting", 0) ELSE Await("acting", Remaining)

\* Mutant: no match and a match that is not visible are the same.
TimedOutIsNotFound ==
  /\ pc = "waiting" /\ alive /\ req.valid /\ left = 0
  /\ Answer("notFound")

WaitTimedOut ==
  /\ pc = "waiting" /\ alive /\ req.valid /\ left = 0
  /\ IF req.state = "attached" THEN Answer("notFound") ELSE Await("lateCount", 0)

\* The driver refuses the selector's grammar, or finds its target closed.
WaitFailed ==
  /\ pc = "waiting" /\ ~(alive /\ req.valid)
  /\ Answer(LocatorError)

\* _count after the wait: exactly one element, unless `nth` was given.
Counted ==
  /\ pc = "counting" /\ alive
  /\ CASE Found = 0 -> Answer("notFound")
       [] Found = 1 -> Await("acting", Remaining)
       [] Found > 1 -> Answer("ambiguous")

\* Mutant: after a timeout nobody asks whether the locator is ambiguous.
CountedLateUnstrict ==
  /\ pc = "lateCount" /\ alive
  /\ Answer(IF Found = 0 THEN "notFound" ELSE "timeout")

\* _count after a wait for a visible element timed out.
CountedLate ==
  /\ pc = "lateCount" /\ alive
  /\ Answer(CASE Found = 0 -> "notFound"
              [] Found = 1 -> "timeout"
              [] Found > 1 -> "ambiguous")

CountFailed ==
  /\ pc \in {"counting", "lateCount", "absentCount"} /\ ~alive
  /\ Answer(LocatorError)

\* The action succeeds on the one element.
ActDone ==
  /\ pc = "acting" /\ alive /\ Actionable
  /\ Answer(IF req.verb = "getAttribute" /\ ~attr THEN "attributeNotPresent"
                                                 ELSE "ok")

\* Playwright's strictness: a second match has come since the count.
ActStrict ==
  /\ pc = "acting" /\ alive /\ Found > 1
  /\ Answer("ambiguous")

ActTimedOut ==
  /\ pc = "acting" /\ alive /\ left = 0
  /\ Answer("timeout")

ActFailed ==
  /\ pc = "acting" /\ ~alive
  /\ Answer(Classified)

\* wait-for: Locator.wait_for is strict and takes any state.
WatchReached ==
  /\ pc = "watching" /\ alive /\ req.valid /\ Found <= 1 /\ Reached(req.state)
  /\ Answer("ok")

WatchStrict ==
  /\ pc = "watching" /\ alive /\ req.valid /\ Found > 1
  /\ Answer("ambiguous")

WatchTimedOut ==
  /\ pc = "watching" /\ alive /\ req.valid /\ left = 0
  /\ IF req.state \in {"hidden", "detached"}
       THEN Await("absentCount", 0) ELSE Answer("timeout")

\* A malformed selector is not told apart here: "Action failed".
WatchFailed ==
  /\ pc = "watching" /\ ~(alive /\ req.valid)
  /\ Answer(Classified)

\* Already absent: success.
CountedAbsent ==
  /\ pc = "absentCount" /\ alive
  /\ Answer(IF Found = 0 THEN "ok" ELSE "timeout")

-----------------------------------------------------------------------------
(* The page and the driver, external. *)

Underway == pc \notin {"start", "answered"}

\* Elements come, go, are shown and hidden.
PageChanges ==
  /\ Underway /\ alive
  /\ matches' \in 0..MaxMatches /\ shown' \in BOOLEAN /\ attr' \in BOOLEAN
  /\ <<matches', shown', attr'>> # <<matches, shown, attr>>
  /\ steady' = FALSE
  /\ wasNone' = (wasNone \/ Resolved(req, matches') = 0)
  /\ wasMany' = (wasMany \/ Resolved(req, matches') > 1)
  /\ UNCHANGED <<call, alive, failed>>

Crash ==
  /\ Underway /\ alive
  /\ alive' = FALSE /\ steady' = FALSE
  /\ UNCHANGED <<call, matches, shown, attr, failed, wasNone, wasMany>>

\* The driver fails a call for another reason, a navigation under it or an action
\* the element does not support.
DriverFails ==
  /\ Underway /\ alive
  /\ steady' = FALSE /\ failed' = TRUE
  /\ answer' = IF pc \in {"acting", "watching"} THEN Classified ELSE LocatorError
  /\ pc' = "answered"
  /\ UNCHANGED <<req, left, waited, counted, acted, matches, shown, attr, alive,
                 wasNone, wasMany>>

\* The driver has a reply to the call it works on.
Replied ==
  \/ ~alive \/ ~req.valid
  \/ pc \in {"waiting", "acting", "watching"} /\ left = 0
  \/ pc \in {"waiting", "watching"} /\ Reached(req.state)
  \/ pc = "watching" /\ Found > 1
  \/ pc = "acting" /\ (Actionable \/ Found > 1)

Tick ==
  /\ Underway /\ ~Replied
  /\ CASE pc \in {"waiting", "watching"} ->
            /\ waited' = waited + 1 /\ left' = left - 1
            /\ UNCHANGED <<counted, acted>>
       [] pc = "acting" ->
            /\ acted' = acted + 1 /\ left' = left - 1
            /\ UNCHANGED <<counted, waited>>
       [] OTHER ->
            /\ counted < MaxCounting
            /\ counted' = counted + 1
            /\ UNCHANGED <<left, waited, acted>>
  /\ UNCHANGED <<req, pc, answer, page>>

ResolveSingle ==
  \/ WaitReached \/ WaitTimedOut \/ WaitFailed
  \/ Counted \/ CountedLate \/ CountFailed

Act == ActDone \/ ActStrict \/ ActTimedOut \/ ActFailed

WaitForElement == WatchReached \/ WatchStrict \/ WatchTimedOut \/ WatchFailed
                  \/ CountedAbsent

Next ==
  \/ Begin \/ ResolveSingle \/ Act \/ WaitForElement
  \/ PageChanges \/ Crash \/ DriverFails \/ Tick

Spec == Init /\ [][Next]_vars

-----------------------------------------------------------------------------
(* Properties *)

\* One timeout for the wait and the action: together they take no longer, and an
\* action that begins with nothing left has a millisecond: never 0, which to
\* Playwright is no timeout at all.
OneBudget ==
  /\ waited + acted <= Timeout + 1
  /\ waited + counted + acted > Timeout => acted <= 1
  /\ pc = "acting" => acted + left > 0

\* The caller is never blamed for what was not so.  "No element matched": at some
\* moment of the request none did, though before it one may have (for an element
\* that was found and then went SPEC.md:369 has a 422, which the code does not
\* give).  "Matched N elements": at some moment several did.  A syntax error: the
\* value is bad, or the driver failed the call of a css or xpath locator, as it may
\* when the page navigates; elements that come and go never make one, nor does the
\* browser's death.
BlameJustified ==
  /\ answer = "notFound" => wasNone
  /\ answer = "ambiguous" => wasMany
  /\ answer = "badSyntax" => req.grammar /\ (req.valid => failed)

\* The row of SPEC.md's error table for request `r` on a page that stays as it is,
\* with SPEC.md:373 for the screenshot of an element that is not visible.
SpecRow(r) ==
  LET n == Resolved(r, matches)
      met == \/ r.state = "attached" /\ n = 1
             \/ r.state = "visible"  /\ n = 1 /\ shown
             \/ r.state = "hidden"   /\ (n = 0 \/ ~shown)
             \/ r.state = "detached" /\ n = 0
  IN IF ~r.valid THEN "badSyntax"
     ELSE IF n > 1 THEN "ambiguous"
     ELSE IF r.verb = "waitFor" THEN IF met THEN "ok" ELSE "timeout"
     ELSE IF n = 0 THEN "notFound"
     ELSE IF r.verb = "screenshot" /\ ~shown THEN "actionFailed"
     ELSE IF r.verb \in {"click", "getText"} /\ ~shown THEN "timeout"
     ELSE IF r.verb = "getAttribute" /\ ~attr THEN "attributeNotPresent"
     ELSE "ok"

\* Where the code departs from its table: wait-for classifies the error of a malformed
\* selector as a failed action (422, not the 400 of SPEC.md:159), and the screenshot
\* of an element that stays hidden times out (409, not the 422 of SPEC.md:373).
Departs(r) ==
  \/ r.verb = "waitFor" /\ ~r.valid
  \/ /\ r.verb = "screenshot" /\ r.valid
     /\ Resolved(r, matches) = 1 /\ ~shown

\* On a page that nothing happens to, every verb answers its row of the table, in all
\* cases but those two, and in those it never does.
TableKept ==
  steady /\ answer # None => (answer = SpecRow(req) <=> ~Departs(req))

\* Once the browser has died a call answers that, whatever it was waiting for and
\* whatever its locator: never an error that blames the caller.
CrashReported == [][answer # answer' /\ ~alive => answer' = "crash"]_vars
=============================================================================
