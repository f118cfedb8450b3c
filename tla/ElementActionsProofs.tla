------------------------- MODULE ElementActionsProofs --------------------------
(***************************************************************************)
(* Theorems about ElementActions for every timeout and every page.          *)
(***************************************************************************)
EXTENDS ElementActions, TLAPS

\* Init is typed.
LEMMA TypedInit == Init => TypeOK
<1> SUFFICES ASSUME Init PROVE TypeOK
  OBVIOUS
<1>1. /\ left \in 0..Timeout /\ waited \in 0..Timeout /\ acted \in 0..Timeout
      /\ counted \in 0..MaxCounting
  BY Bounds DEF Init
<1>2. req \in Requests \cup {None} /\ answer \in Answers \cup {None}
  BY DEF Init
<1>3. /\ pc \in {"start", "waiting", "counting", "lateCount", "acting", "watching",
                "absentCount", "answered"}
      /\ matches \in 0..MaxMatches
  BY DEF Init
<1>4. /\ shown \in BOOLEAN /\ attr \in BOOLEAN /\ alive \in BOOLEAN
      /\ steady \in BOOLEAN /\ failed \in BOOLEAN
      /\ wasNone \in BOOLEAN /\ wasMany \in BOOLEAN
  BY DEF Init
<1> QED BY <1>1, <1>2, <1>3, <1>4 DEF TypeOK

\* The remainder of a timeout is at least a millisecond and at most the timeout.
LEMMA RemainingBounded ==
  ASSUME TypeOK
  PROVE  Remaining \in 1..Timeout
  BY Bounds DEF TypeOK, Remaining

\* How many elements a locator stands for.
LEMMA FoundTyped ==
  ASSUME TypeOK, req \in Requests
  PROVE  Found \in Nat /\ (req.nth # None => Found \in 0..1)
  BY Bounds DEF TypeOK, Found, Resolved, Requests

\* A request of a call that is underway or answered is a request.
Requested == pc # "start" => req \in Requests

\* How the timeout is spent.
Times ==
  /\ pc = "start" => waited = 0 /\ counted = 0 /\ acted = 0
  /\ pc \in {"waiting", "watching"} =>
       waited + left = Timeout /\ counted = 0 /\ acted = 0
  /\ pc \in {"counting", "lateCount", "absentCount"} => acted = 0
  /\ pc = "acting" => acted + left = Remaining
  /\ acted <= Remaining

Typed == TypeOK /\ Requested /\ Times

\* The invariant holds at first.
LEMMA TypedAtFirst == Init => Typed
<1> SUFFICES ASSUME Init PROVE Typed
  OBVIOUS
<1>1. TypeOK
  BY TypedInit
<1>2. Requested /\ Times
  BY Bounds DEF Init, Requested, Times, Remaining
<1> QED BY <1>1, <1>2 DEF Typed

\* An answer that is one of the answers keeps the invariant.
LEMMA AnswerTyped ==
  ASSUME Typed, NEW what \in Answers, pc # "start", Answer(what)
  PROVE  Typed'
<1>1. Times'
  <2>1. Remaining' = Remaining
    BY DEF Answer, Remaining
  <2> QED BY <2>1 DEF Typed, Times, Answer
<1>2. Requested' /\ TypeOK'
  BY DEF Typed, Requested, TypeOK, Answer, page
<1> QED BY <1>1, <1>2 DEF Typed

\* So does going on to an await with a timeout that fits what it is for.
LEMMA AwaitTyped ==
  ASSUME Typed, NEW what, NEW timeout, pc # "start", acted = 0,
         Await(what, timeout),
         \/ what \in {"counting", "lateCount", "absentCount"} /\ timeout = 0
         \/ what = "acting" /\ timeout = Remaining
  PROVE  Typed'
<1>1. Remaining \in 1..Timeout /\ Remaining' = Remaining
  BY RemainingBounded DEF Typed, Await, Remaining
<1>2. Times'
  BY <1>1, Bounds DEF Typed, Times, Await, TypeOK
<1>3. Requested' /\ TypeOK'
  BY <1>1, Bounds DEF Typed, Requested, TypeOK, Await, page
<1> QED BY <1>2, <1>3 DEF Typed

\* The errors an engine answers with are answers.
LEMMA ErrorsAreAnswers == LocatorError \in Answers /\ Classified \in Answers
  BY DEF LocatorError, Classified, Answers

\* Every step of _resolve_single keeps the invariant.
LEMMA ResolveTyped == Typed /\ ResolveSingle => Typed'
<1> SUFFICES ASSUME Typed, ResolveSingle PROVE Typed'
  OBVIOUS
<1>1. CASE WaitReached
  BY <1>1, AwaitTyped DEF WaitReached, Typed, Times
<1>2. CASE WaitTimedOut
  BY <1>2, AwaitTyped, AnswerTyped DEF WaitTimedOut, Typed, Times, Answers
<1>3. CASE WaitFailed
  BY <1>3, AnswerTyped, ErrorsAreAnswers DEF WaitFailed
<1>4. CASE Counted
  <2>1. Found \in Nat /\ acted = 0 /\ pc # "start"
    BY <1>4, FoundTyped DEF Counted, Typed, Requested, Times
  <2>2. Answer("notFound") \/ Answer("ambiguous") \/ Await("acting", Remaining)
    <3>1. Found = 0 \/ Found = 1 \/ Found > 1
      BY <2>1
    <3> QED BY <1>4, <3>1 DEF Counted
  <2> QED BY <2>1, <2>2, AwaitTyped, AnswerTyped DEF Answers
<1>5. CASE CountedLate
  <2>1. Found \in Nat /\ pc # "start"
    BY <1>5, FoundTyped DEF CountedLate, Typed, Requested
  <2>2. Answer("notFound") \/ Answer("timeout") \/ Answer("ambiguous")
    <3>1. Found = 0 \/ Found = 1 \/ Found > 1
      BY <2>1
    <3> QED BY <1>5, <3>1 DEF CountedLate
  <2> QED BY <2>1, <2>2, AnswerTyped DEF Answers
<1>6. CASE CountFailed
  BY <1>6, AnswerTyped, ErrorsAreAnswers DEF CountFailed
<1> QED BY <1>1, <1>2, <1>3, <1>4, <1>5, <1>6 DEF ResolveSingle

\* So does every reply to the action and to wait-for.
LEMMA ActTyped == Typed /\ (Act \/ WaitForElement) => Typed'
<1> SUFFICES ASSUME Typed, Act \/ WaitForElement PROVE Typed'
  OBVIOUS
<1>1. CASE Act
  BY <1>1, AnswerTyped, ErrorsAreAnswers
  DEF Act, ActDone, ActStrict, ActTimedOut, ActFailed, Answers
<1>2. CASE WatchTimedOut
  BY <1>2, AnswerTyped, AwaitTyped DEF WatchTimedOut, Typed, Times, Answers
<1>3. CASE WatchReached \/ WatchStrict \/ WatchFailed \/ CountedAbsent
  BY <1>3, AnswerTyped, ErrorsAreAnswers
  DEF WatchReached, WatchStrict, WatchFailed, CountedAbsent, Answers
<1> QED BY <1>1, <1>2, <1>3 DEF WaitForElement

\* While there is no reply the timer of the call has not run out.
LEMMA TickTyped == Typed /\ Tick => Typed'
<1> SUFFICES ASSUME Typed, Tick PROVE Typed'
  OBVIOUS
<1>1. Requested'
  BY DEF Typed, Requested, Tick
<1>2. pc' = pc /\ pc # "start" /\ pc # "answered"
  BY DEF Tick, Underway
<1>3. CASE pc \in {"waiting", "watching"}
  <2>1. /\ waited' = waited + 1 /\ left' = left - 1 /\ left # 0
        /\ counted' = counted /\ acted' = acted
    BY <1>3 DEF Tick, Replied
  <2>2. Times'
    BY <1>2, <1>3, <2>1, Bounds DEF Typed, Times, TypeOK, Remaining
  <2>3. TypeOK'
    BY <1>2, <1>3, <2>1, Bounds DEF Typed, Times, TypeOK, Tick, page
  <2> QED BY <1>1, <2>2, <2>3 DEF Typed
<1>4. CASE pc = "acting"
  <2>1. /\ acted' = acted + 1 /\ left' = left - 1 /\ left # 0
        /\ counted' = counted /\ waited' = waited
    BY <1>4 DEF Tick, Replied
  <2>2. Remaining' = Remaining /\ Remaining \in 1..Timeout
    BY <2>1, RemainingBounded DEF Remaining, Typed
  <2>3. Times'
    BY <1>2, <1>4, <2>1, <2>2 DEF Typed, Times, TypeOK
  <2>4. TypeOK'
    BY <1>2, <1>4, <2>1, <2>2, Bounds DEF Typed, Times, TypeOK, Tick, page
  <2> QED BY <1>1, <2>3, <2>4 DEF Typed
<1>5. CASE pc \notin {"waiting", "watching", "acting"}
  <2>1. /\ counted < MaxCounting /\ counted' = counted + 1
        /\ left' = left /\ waited' = waited /\ acted' = acted
    BY <1>5 DEF Tick
  <2>2. Times'
    BY <1>2, <1>5, <2>1, Bounds DEF Typed, Times, TypeOK, Remaining
  <2>3. TypeOK'
    BY <1>2, <1>5, <2>1, Bounds DEF Typed, TypeOK, Tick, page
  <2> QED BY <1>1, <2>2, <2>3 DEF Typed
<1> QED BY <1>3, <1>4, <1>5

\* The page and the driver keep the invariant.
LEMMA PageTyped == Typed /\ (PageChanges \/ Crash \/ DriverFails) => Typed'
<1> SUFFICES ASSUME Typed, PageChanges \/ Crash \/ DriverFails PROVE Typed'
  OBVIOUS
<1>1. /\ waited' = waited /\ counted' = counted /\ acted' = acted
      /\ left' = left /\ req' = req
  BY DEF PageChanges, Crash, DriverFails, call
<1>2. pc # "start" /\ (pc' = pc \/ pc' = "answered")
  BY DEF PageChanges, Crash, DriverFails, call, Underway
<1>3. Requested' /\ Times'
  BY <1>1, <1>2 DEF Typed, Requested, Times, Remaining
<1>4. CASE PageChanges
  <2>1. /\ matches' \in 0..MaxMatches /\ answer' = answer
        /\ shown' \in BOOLEAN /\ attr' \in BOOLEAN /\ alive' = alive
        /\ steady' \in BOOLEAN /\ failed' \in BOOLEAN
        /\ wasNone' \in BOOLEAN /\ wasMany' \in BOOLEAN
    BY <1>4 DEF PageChanges, call, Typed, TypeOK
  <2>2. TypeOK'
    BY <1>1, <1>2, <2>1 DEF Typed, TypeOK
  <2> QED BY <1>3, <2>2 DEF Typed
<1>5. CASE Crash
  <2>1. TypeOK'
    BY <1>1, <1>2, <1>5 DEF Typed, TypeOK, Crash, call
  <2> QED BY <1>3, <2>1 DEF Typed
<1>6. CASE DriverFails
  <2>1. answer' \in Answers
    BY <1>6, ErrorsAreAnswers DEF DriverFails
  <2>2. TypeOK'
    BY <1>1, <1>2, <1>6, <2>1 DEF Typed, TypeOK, DriverFails
  <2> QED BY <1>3, <2>2 DEF Typed
<1> QED BY <1>4, <1>5, <1>6

\* The request sets the timer.
LEMMA BeginTyped == Typed /\ Begin => Typed'
<1> SUFFICES ASSUME Typed, Begin PROVE Typed'
  OBVIOUS
<1>1. /\ req' \in Requests /\ left' = Timeout /\ pc' \in {"waiting", "watching"}
      /\ waited' = waited /\ counted' = counted /\ acted' = acted
      /\ waited = 0 /\ counted = 0 /\ acted = 0
  BY DEF Begin, Typed, Times
<1>2. Requested' /\ Times'
  BY <1>1, Bounds DEF Requested, Times, Remaining
<1>3. wasNone' \in BOOLEAN /\ wasMany' \in BOOLEAN
  BY DEF Begin
<1>4. TypeOK'
  BY <1>1, <1>3, Bounds DEF Typed, TypeOK, Begin
<1> QED BY <1>2, <1>4 DEF Typed

\* Every step keeps the invariant.
LEMMA TypedStep == Typed /\ [Next]_vars => Typed'
<1> SUFFICES ASSUME Typed, [Next]_vars PROVE Typed'
  OBVIOUS
<1>1. CASE UNCHANGED vars
  BY <1>1 DEF Typed, TypeOK, Requested, Times, Remaining, vars, call, page
<1> QED
  BY <1>1, BeginTyped, ResolveTyped, ActTyped, PageTyped, TickTyped DEF Next

\* TypedAlways: the inductive invariant.
THEOREM TypedAlways == Spec => []Typed
  BY TypedAtFirst, TypedStep, PTL DEF Spec

\* Every variable keeps its type: no timer runs below zero, and no wait, count or
\* action takes longer than the timeout, or the bound, allows.
THEOREM VerbTypeCorrect == Spec => []TypeOK
<1>1. Typed => TypeOK
  BY DEF Typed
<1> QED BY <1>1, TypedAlways, PTL

\* _resolve_single shares one timeout between the wait and the action.
THEOREM OneBudgetShared == Spec => []OneBudget
<1>1. Typed => OneBudget
  BY Bounds, RemainingBounded DEF Typed, Times, TypeOK, Remaining, OneBudget
<1> QED BY <1>1, TypedAlways, PTL

-----------------------------------------------------------------------------
(* Blame. *)

\* What the call may still answer: the histories know the page as it is, a wait
\* that has lasted has seen no match, and only a bad value or a failing driver
\* makes a syntax error.
Blame ==
  /\ Underway => /\ Found = 0 => wasNone
                 /\ Found > 1 => wasMany
  /\ pc = "waiting" /\ left < Timeout /\ req.state = "attached" => wasNone
  /\ pc \notin {"start", "waiting", "watching", "answered"} => req.valid
  /\ pc # "answered" => answer = None
  /\ BlameJustified

\* It holds at first.
LEMMA BlameAtFirst == Init => Blame
  BY Bounds DEF Answers, Init, Blame, BlameJustified, Underway

\* An answer that the histories justify keeps it.
LEMMA AnswerBlame ==
  ASSUME Typed, Blame, NEW what, Answer(what),
         what = "notFound" => wasNone, what = "ambiguous" => wasMany,
         what = "badSyntax" => req.grammar /\ (req.valid => failed)
  PROVE  Blame'
  BY DEF Blame, BlameJustified, Answer, Underway, page

\* Going on to an await other than the first keeps it.
LEMMA AwaitBlame ==
  ASSUME Typed, Blame, NEW what, NEW timeout, Await(what, timeout),
         pc # "answered", Underway, req.valid, what \notin {"start", "waiting", "answered"}
  PROVE  Blame'
<1>1. Found' = Found
  BY DEF Await, Found, Resolved, page
<1> QED BY <1>1 DEF Blame, BlameJustified, Await, Underway, page

\* Every step keeps it.
LEMMA BlameStep == Typed /\ Blame /\ [Next]_vars => Blame'
<1> SUFFICES ASSUME Typed, Blame, [Next]_vars PROVE Blame'
  OBVIOUS
<1>0. LocatorError # "notFound" /\ LocatorError # "ambiguous"
      /\ Classified \in {"crash", "actionFailed"}
  BY DEF LocatorError, Classified
<1>1. CASE Begin
  <2>1. /\ req' \in Requests /\ left' = Timeout /\ pc' \in {"waiting", "watching"}
        /\ answer' = answer /\ answer = None
    BY <1>1 DEF Begin, Blame
  <2>2. Found' = Resolved(req', matches)
    BY <1>1 DEF Begin, Found
  <2>3. (Found' = 0 => wasNone') /\ (Found' > 1 => wasMany')
    BY <1>1, <2>2 DEF Begin
  <2> QED BY <2>1, <2>3, Bounds DEF Blame, BlameJustified, Answers
<1>2. CASE ResolveSingle
  <2>0. pc # "start" /\ pc # "answered" /\ Underway
    BY <1>2 DEF ResolveSingle, WaitReached, WaitTimedOut, WaitFailed, Counted,
                CountedLate, CountFailed, Underway
  <2>1. CASE WaitReached
    BY <2>0, <2>1, AwaitBlame DEF WaitReached
  <2>2. CASE WaitTimedOut
    <3>1. CASE req.state = "attached"
      <4>1. wasNone /\ Answer("notFound")
        BY <2>2, <3>1, Bounds DEF WaitTimedOut, Blame
      <4> QED BY <4>1, AnswerBlame
    <3>2. CASE req.state # "attached"
      BY <2>0, <2>2, <3>2, AwaitBlame DEF WaitTimedOut
    <3> QED BY <3>1, <3>2
  <2>3. CASE WaitFailed
    <3>1. LocatorError = "badSyntax" => req.grammar /\ ~req.valid
      BY <2>3, <1>0 DEF WaitFailed, LocatorError
    <3> QED BY <1>0, <2>3, <3>1, AnswerBlame DEF WaitFailed
  <2>4. Found \in Nat
    BY <2>0, FoundTyped DEF Typed, Requested
  <2>5. Found = 0 \/ Found = 1 \/ Found > 1
    BY <2>4
  <2>6. CASE Counted
    <3>1. \/ Answer("notFound") /\ wasNone
          \/ Answer("ambiguous") /\ wasMany
          \/ Await("acting", Remaining) /\ req.valid
      BY <2>0, <2>5, <2>6 DEF Counted, Blame
    <3> QED BY <2>0, <3>1, AnswerBlame, AwaitBlame
  <2>7. CASE CountedLate
    <3>1. \/ Answer("notFound") /\ wasNone
          \/ Answer("ambiguous") /\ wasMany
          \/ Answer("timeout")
      BY <2>0, <2>5, <2>7 DEF CountedLate, Blame
    <3> QED BY <3>1, AnswerBlame
  <2>8. CASE CountFailed
    <3>1. LocatorError # "badSyntax"
      BY <1>0, <2>8 DEF CountFailed, LocatorError
    <3> QED BY <1>0, <2>8, <3>1, AnswerBlame DEF CountFailed
  <2> QED BY <1>2, <2>1, <2>2, <2>3, <2>6, <2>7, <2>8 DEF ResolveSingle
<1>3. CASE Act
  <2>1. ActStrict => wasMany
    BY DEF ActStrict, Blame, Underway
  <2> QED BY <1>0, <1>3, <2>1, AnswerBlame
          DEF Act, ActDone, ActStrict, ActTimedOut, ActFailed
<1>4. CASE WaitForElement
  <2>1. WatchStrict => wasMany
    BY DEF WatchStrict, Blame, Underway
  <2>2. CASE WatchTimedOut
    <3>1. Underway /\ req.valid /\ pc # "answered"
      BY <2>2 DEF WatchTimedOut, Underway
    <3>2. Answer("timeout") \/ Await("absentCount", 0)
      BY <2>2 DEF WatchTimedOut
    <3> QED BY <3>1, <3>2, AnswerBlame, AwaitBlame
  <2>3. CASE WatchReached \/ WatchStrict \/ WatchFailed \/ CountedAbsent
    BY <1>0, <2>1, <2>3, AnswerBlame
    DEF WatchReached, WatchStrict, WatchFailed, CountedAbsent
  <2> QED BY <1>4, <2>2, <2>3 DEF WaitForElement
<1>5. CASE PageChanges
  <2>1. /\ req' = req /\ pc' = pc /\ left' = left /\ answer' = answer
        /\ failed' = failed /\ pc # "start" /\ pc # "answered"
    BY <1>5 DEF PageChanges, call, Underway
  <2>2. (wasNone => wasNone') /\ (wasMany => wasMany')
    BY <1>5 DEF PageChanges
  <2>3. Found' = Resolved(req, matches')
    BY <2>1 DEF Found
  <2>4. (Found' = 0 => wasNone') /\ (Found' > 1 => wasMany')
    BY <1>5, <2>3 DEF PageChanges
  <2> QED BY <2>1, <2>2, <2>4 DEF Blame, BlameJustified
<1>6. CASE Crash
  <2>1. Found' = Found
    BY <1>6 DEF Crash, Found, Resolved, call
  <2> QED BY <1>6, <2>1 DEF Crash, call, Blame, BlameJustified, Underway
<1>7. CASE DriverFails
  <2>1. LocatorError = "badSyntax" => req.grammar
    BY <1>0 DEF LocatorError
  <2>2. /\ pc' = "answered" /\ failed' /\ req' = req
        /\ answer' # "notFound" /\ answer' # "ambiguous"
        /\ answer' = "badSyntax" => req.grammar
    BY <1>0, <1>7, <2>1 DEF DriverFails
  <2> QED BY <2>2 DEF Blame, BlameJustified, Underway
<1>8. CASE Tick
  <2>1. /\ req' = req /\ pc' = pc /\ answer' = answer /\ Found' = Found
        /\ wasNone' = wasNone /\ wasMany' = wasMany /\ failed' = failed
    BY <1>8 DEF Tick, page, Found, Resolved
  <2>2. pc = "waiting" /\ req.state = "attached" => wasNone
    <3>1. ASSUME pc = "waiting", req.state = "attached" PROVE wasNone
      <4>1. ~(Found > 0) /\ Underway /\ Found \in Nat
        BY <1>8, <3>1, FoundTyped
        DEF Tick, Replied, Reached, Underway, Typed, Requested
      <4> QED BY <4>1 DEF Blame
    <3> QED BY <3>1
  <2> QED BY <2>1, <2>2 DEF Blame, BlameJustified, Underway
<1>9. CASE UNCHANGED vars
  BY <1>9 DEF vars, call, page, Blame, BlameJustified, Underway, Found, Resolved
<1> QED
  BY <1>1, <1>2, <1>3, <1>4, <1>5, <1>6, <1>7, <1>8, <1>9 DEF Next

\* However the page changes between the awaits, no caller is told of a missing or an
\* ambiguous element that was at no moment so, nor of a syntax error but for a bad
\* value or a call that the driver failed.
THEOREM BlameIsJustified == Spec => []BlameJustified
<1>1. Blame => BlameJustified
  BY DEF Blame
<1> QED BY <1>1, BlameAtFirst, BlameStep, TypedAtFirst, TypedStep, PTL DEF Spec

-----------------------------------------------------------------------------
(* Crashes. *)

\* Whatever a call answers after its browser's death is "Internal error.".
THEOREM CrashIsReported == Spec => CrashReported
<1>1. [Next]_vars => [answer # answer' /\ ~alive => answer' = "crash"]_vars
  <2> SUFFICES ASSUME Next, ~alive, answer # answer' PROVE answer' = "crash"
    OBVIOUS
  <2>1. LocatorError = "crash" /\ Classified = "crash"
    BY DEF LocatorError, Classified
  <2> QED
    BY <2>1
    DEF Next, Begin, ResolveSingle, WaitReached, WaitTimedOut, WaitFailed, Counted,
        CountedLate, CountFailed, Act, ActDone, ActStrict, ActTimedOut, ActFailed,
        WaitForElement, WatchReached, WatchStrict, WatchTimedOut, WatchFailed,
        CountedAbsent, Answer, PageChanges, Crash, DriverFails, Tick
<1> QED BY <1>1, PTL DEF Spec, CrashReported

-----------------------------------------------------------------------------
(* The table of errors. *)

\* What a call knows of a page that stays as it is: a wait that has lasted has not
\* been granted, and an await is entered only on what the one before it saw.
Still ==
  steady =>
    /\ alive
    /\ pc = "waiting" =>
         /\ req.verb # "waitFor"
         /\ left < Timeout => req.valid /\ ~Reached(req.state)
    /\ pc = "watching" =>
         /\ req.verb = "waitFor"
         /\ left < Timeout => req.valid /\ Found <= 1 /\ ~Reached(req.state)
    /\ pc = "counting" => req.verb # "waitFor" /\ req.valid /\ Reached(req.state)
    /\ pc = "lateCount" =>
         req.verb = "getText" /\ req.valid /\ ~Reached(req.state)
    /\ pc = "absentCount" =>
         /\ req.verb = "waitFor" /\ req.valid /\ Found <= 1
         /\ req.state \in {"hidden", "detached"} /\ ~Reached(req.state)
    /\ pc = "acting" =>
         /\ req.verb # "waitFor" /\ req.valid /\ Found = 1 /\ Reached(req.state)
         /\ acted > 0 => ~Actionable
    /\ pc # "answered" => answer = None
    /\ TableKept

\* It holds at first.
LEMMA StillAtFirst == Init => Still
  BY DEF Init, Still, TableKept

\* What the verbs wait for.
LEMMA VerbsWait ==
  ASSUME req \in Requests
  PROVE  /\ req.verb \in Verbs /\ req.state \in States
         /\ req.verb \in {"click", "screenshot", "getAttribute"} =>
              req.state = "attached"
         /\ req.verb = "getText" => req.state = "visible"
  BY DEF Requests, Verbs, WaitsFor, States

\* The answer to a request that the table gives, or that the code gives instead.
Right(what) == what = SpecRow(req) <=> ~Departs(req)

\* A right answer keeps it.
LEMMA AnswerStill ==
  ASSUME Still, NEW what, Answer(what), steady => Right(what)
  PROVE  Still'
<1>1. /\ SpecRow(req)' = SpecRow(req) /\ Departs(req)' = Departs(req)
      /\ steady' = steady /\ alive' = alive
  BY DEF Answer, page, SpecRow, Departs, Resolved
<1> QED BY <1>1 DEF Still, Answer, TableKept, Right

\* A step that ends with a page that has changed keeps it.
LEMMA UnsteadyStill == ~steady' => Still'
  BY DEF Still

\* An await keeps it if the page is as the await needs it.
LEMMA AwaitStill ==
  ASSUME Still, NEW what, NEW timeout, Await(what, timeout), pc # "answered",
         acted = 0,
         steady =>
           /\ req.valid
           /\ \/ what = "counting" /\ req.verb # "waitFor" /\ Reached(req.state)
              \/ what = "lateCount" /\ req.verb = "getText" /\ ~Reached(req.state)
              \/ /\ what = "absentCount" /\ req.verb = "waitFor" /\ Found <= 1
                 /\ req.state \in {"hidden", "detached"} /\ ~Reached(req.state)
              \/ /\ what = "acting" /\ req.verb # "waitFor" /\ Found = 1
                 /\ Reached(req.state)
  PROVE  Still'
<1>1. /\ Found' = Found /\ Reached(req.state)' = Reached(req.state)
      /\ steady' = steady /\ alive' = alive /\ req' = req /\ acted' = acted
      /\ answer' = answer /\ pc' = what
  BY DEF Await, page, Found, Resolved, Reached
<1> QED BY <1>1 DEF Still, TableKept

\* The replies of _resolve_single answer right.
LEMMA ResolveStill == Typed /\ Still /\ ResolveSingle => Still'
<1> SUFFICES ASSUME Typed, Still, ResolveSingle PROVE Still'
  OBVIOUS
<1>1. req \in Requests /\ Found \in Nat /\ (req.nth # None => Found \in 0..1)
      /\ pc # "answered" /\ acted = 0 /\ (steady => alive)
  BY FoundTyped
  DEF ResolveSingle, WaitReached, WaitTimedOut, WaitFailed, Counted, CountedLate,
      CountFailed, Typed, Requested, Times, Still
<1>2. Found = Resolved(req, matches)
  BY DEF Found
<1>3. CASE WaitReached
  <2>1. steady => req.valid /\ req.verb # "waitFor" /\ Reached(req.state)
    BY <1>3 DEF WaitReached, Still
  <2>2. CASE req.nth = None
    BY <1>1, <1>3, <2>1, <2>2, AwaitStill DEF WaitReached
  <2>3. CASE req.nth # None
    <3>1. steady => Found = 1
      BY <1>1, <2>1, <2>3, VerbsWait DEF Reached, Verbs
    <3> QED BY <1>1, <1>3, <2>1, <2>3, <3>1, AwaitStill DEF WaitReached
  <2> QED BY <2>2, <2>3
<1>4. CASE WaitTimedOut
  <2>1. steady => req.valid /\ req.verb # "waitFor" /\ ~Reached(req.state)
    BY <1>4, Bounds DEF WaitTimedOut, Still
  <2>2. CASE req.state = "attached"
    <3>1. steady => Right("notFound")
      BY <1>1, <1>2, <2>1, <2>2 DEF SpecRow, Reached, Right, Departs
    <3> QED BY <1>4, <2>2, <3>1, AnswerStill DEF WaitTimedOut
  <2>3. CASE req.state # "attached"
    <3>1. steady => req.verb = "getText"
      BY <1>1, <2>1, <2>3, VerbsWait DEF Verbs
    <3> QED BY <1>1, <1>4, <2>1, <2>3, <3>1, AwaitStill DEF WaitTimedOut
  <2> QED BY <2>2, <2>3
<1>5. CASE WaitFailed
  <2>1. steady => Right(LocatorError)
    BY <1>1, <1>5 DEF WaitFailed, Still, SpecRow, LocatorError, Requests, Right, Departs
  <2> QED BY <1>5, <2>1, AnswerStill DEF WaitFailed
<1>6. CASE Counted
  <2>1. steady => req.valid /\ req.verb # "waitFor" /\ Reached(req.state)
    BY <1>6 DEF Counted, Still
  <2>2. CASE Found = 0
    <3>1. steady => Right("notFound")
      BY <1>2, <2>1, <2>2 DEF SpecRow, Right, Departs
    <3> QED BY <1>6, <2>2, <3>1, AnswerStill DEF Counted
  <2>3. CASE Found = 1
    BY <1>1, <1>6, <2>1, <2>3, AwaitStill DEF Counted
  <2>4. CASE Found > 1
    <3>1. steady => Right("ambiguous")
      BY <1>2, <2>1, <2>4 DEF SpecRow, Right, Departs
    <3>2. Answer("ambiguous")
      BY <1>1, <1>6, <2>4 DEF Counted
    <3> QED BY <3>1, <3>2, AnswerStill
  <2> QED BY <1>1, <2>2, <2>3, <2>4
<1>7. CASE CountedLate
  <2>1. steady => req.valid /\ req.verb = "getText" /\ ~Reached(req.state)
                  /\ req.state = "visible"
    BY <1>1, <1>7, VerbsWait DEF CountedLate, Still
  <2>2. CASE Found = 0
    <3>1. steady => Right("notFound")
      BY <1>2, <2>1, <2>2 DEF SpecRow, Right, Departs
    <3> QED BY <1>7, <2>2, <3>1, AnswerStill DEF CountedLate
  <2>3. CASE Found = 1
    <3>1. steady => Right("timeout")
      BY <1>2, <2>1, <2>3 DEF SpecRow, Reached, Right, Departs
    <3> QED BY <1>7, <2>3, <3>1, AnswerStill DEF CountedLate
  <2>4. CASE Found > 1
    <3>1. steady => Right("ambiguous")
      BY <1>2, <2>1, <2>4 DEF SpecRow, Right, Departs
    <3>2. Answer("ambiguous")
      BY <1>1, <1>7, <2>4 DEF CountedLate
    <3> QED BY <3>1, <3>2, AnswerStill
  <2> QED BY <1>1, <2>2, <2>3, <2>4
<1>8. CASE CountFailed
  BY <1>1, <1>8, AnswerStill DEF CountFailed
<1> QED BY <1>3, <1>4, <1>5, <1>6, <1>7, <1>8 DEF ResolveSingle

\* So do the replies to the action.
LEMMA ActStill == Typed /\ Still /\ Act => Still'
<1> SUFFICES ASSUME Typed, Still, Act PROVE Still'
  OBVIOUS
<1>1. /\ req \in Requests /\ pc = "acting" /\ acted + left = Remaining
      /\ Remaining \in 1..Timeout /\ acted \in Nat
  BY RemainingBounded
  DEF Act, ActDone, ActStrict, ActTimedOut, ActFailed, Typed, Requested, Times,
      TypeOK
<1>2. Found = Resolved(req, matches)
  BY DEF Found
<1>3. steady => /\ alive /\ req.verb # "waitFor" /\ req.valid /\ Found = 1
                /\ Reached(req.state) /\ (acted > 0 => ~Actionable)
  BY <1>1 DEF Still
<1>4. CASE ActDone
  <2>1. steady /\ req.verb = "getText" => shown
    BY <1>1, <1>3, VerbsWait DEF Reached
  <2>2. steady => Right(IF req.verb = "getAttribute" /\ ~attr
                        THEN "attributeNotPresent" ELSE "ok")
    BY <1>2, <1>3, <1>4, <2>1
    DEF ActDone, Actionable, ActsOnVisible, SpecRow, Right, Departs
  <2> QED BY <1>4, <2>2, AnswerStill DEF ActDone
<1>5. CASE ActStrict
  <2>1. ~steady
    BY <1>3, <1>5 DEF ActStrict
  <2> QED BY <1>5, <2>1, AnswerStill DEF ActStrict
<1>6. CASE ActTimedOut
  <2>1. acted > 0
    BY <1>1, <1>6 DEF ActTimedOut
  <2>2. steady => req.verb \in ActsOnVisible /\ ~shown
    BY <1>3, <2>1 DEF Actionable
  <2>3. steady => Right("timeout")
    BY <1>2, <1>3, <2>2 DEF ActsOnVisible, SpecRow, Right, Departs
  <2> QED BY <1>6, <2>3, AnswerStill DEF ActTimedOut
<1>7. CASE ActFailed
  BY <1>3, <1>7, AnswerStill DEF ActFailed
<1> QED BY <1>4, <1>5, <1>6, <1>7 DEF Act

\* So do the replies to wait-for.
LEMMA WatchStill == Typed /\ Still /\ WaitForElement => Still'
<1> SUFFICES ASSUME Typed, Still, WaitForElement PROVE Still'
  OBVIOUS
<1>1. req \in Requests /\ Found \in Nat /\ pc # "answered" /\ acted = 0
      /\ (steady => alive /\ req.verb = "waitFor") /\ req.state \in States
  BY FoundTyped, VerbsWait
  DEF WaitForElement, WatchReached, WatchStrict, WatchTimedOut, WatchFailed,
      CountedAbsent, Typed, Requested, Times, Still
<1>2. Found = Resolved(req, matches)
  BY DEF Found
<1>3. CASE WatchReached
  <2>1. steady => Right("ok")
    BY <1>1, <1>2, <1>3 DEF WatchReached, SpecRow, Reached, States, Right, Departs
  <2> QED BY <1>3, <2>1, AnswerStill DEF WatchReached
<1>4. CASE WatchStrict
  <2>1. steady => Right("ambiguous")
    BY <1>1, <1>2, <1>4 DEF WatchStrict, SpecRow, Right, Departs
  <2> QED BY <1>4, <2>1, AnswerStill DEF WatchStrict
<1>5. CASE WatchTimedOut
  <2>1. steady => req.valid /\ Found <= 1 /\ ~Reached(req.state)
    BY <1>5, Bounds DEF WatchTimedOut, Still
  <2>2. CASE req.state \in {"hidden", "detached"}
    BY <1>1, <1>5, <2>1, <2>2, AwaitStill DEF WatchTimedOut
  <2>3. CASE req.state \notin {"hidden", "detached"}
    <3>1. steady => Right("timeout")
      BY <1>1, <1>2, <2>1, <2>3 DEF SpecRow, Reached, States, Right, Departs
    <3> QED BY <1>5, <2>3, <3>1, AnswerStill DEF WatchTimedOut
  <2> QED BY <2>2, <2>3
<1>6. CASE WatchFailed
  <2>1. steady => Right(Classified)
    BY <1>1, <1>6 DEF WatchFailed, SpecRow, Classified, Right, Departs
  <2> QED BY <1>6, <2>1, AnswerStill DEF WatchFailed
<1>7. CASE CountedAbsent
  <2>1. steady => /\ req.valid /\ Found <= 1 /\ ~Reached(req.state)
                  /\ req.state \in {"hidden", "detached"}
    BY <1>7 DEF CountedAbsent, Still
  <2>2. steady => Found = 1
    BY <1>1, <2>1 DEF Reached
  <2>3. steady => Right("timeout")
    BY <1>1, <1>2, <2>1, <2>2 DEF SpecRow, Reached, Right, Departs
  <2> QED BY <1>7, <2>2, <2>3, AnswerStill DEF CountedAbsent
<1> QED BY <1>3, <1>4, <1>5, <1>6, <1>7 DEF WaitForElement

\* Every step keeps it.
LEMMA StillStep == Typed /\ Still /\ [Next]_vars => Still'
<1> SUFFICES ASSUME Typed, Still, [Next]_vars PROVE Still'
  OBVIOUS
<1>1. CASE Begin
  <2>1. /\ req' \in Requests /\ left' = Timeout
        /\ pc' = IF req'.verb = "waitFor" THEN "watching" ELSE "waiting"
        /\ answer' = answer /\ (steady' => alive' /\ answer = None)
    BY <1>1 DEF Begin, Still
  <2> QED BY <2>1, Bounds DEF Still, TableKept
<1>2. CASE PageChanges \/ Crash \/ DriverFails
  BY <1>2, UnsteadyStill DEF PageChanges, Crash, DriverFails
<1>3. CASE Tick
  <2>1. /\ req' = req /\ pc' = pc /\ answer' = answer /\ Found' = Found
        /\ Reached(req.state)' = Reached(req.state) /\ Actionable' = Actionable
        /\ steady' = steady /\ alive' = alive
        /\ pc # "answered" /\ pc # "start"
    BY <1>3 DEF Tick, page, Found, Resolved, Reached, Actionable, Underway
  <2>2. req \in Requests /\ Found \in Nat
    BY <2>1, FoundTyped DEF Typed, Requested
  <2>3. /\ req.valid
        /\ pc \in {"waiting", "watching"} => ~Reached(req.state)
        /\ pc = "watching" => Found <= 1
        /\ pc = "acting" => ~Actionable
    BY <1>3, <2>2 DEF Tick, Replied
  <2> QED BY <2>1, <2>3 DEF Still, TableKept
<1>4. CASE UNCHANGED vars
  <2>1. /\ req' = req /\ pc' = pc /\ answer' = answer /\ Found' = Found
        /\ Reached(req.state)' = Reached(req.state) /\ Actionable' = Actionable
        /\ SpecRow(req)' = SpecRow(req) /\ Departs(req)' = Departs(req)
        /\ left' = left /\ acted' = acted
        /\ steady' = steady /\ alive' = alive
    BY <1>4 DEF vars, call, page, Found, Resolved, Reached, Actionable, SpecRow,
                Departs
  <2> QED BY <2>1 DEF Still, TableKept
<1> QED
  BY <1>1, <1>2, <1>3, <1>4, ResolveStill, ActStill, WatchStill DEF Next

\* On a page that stays as it is, every verb answers its row of the table of errors,
\* for every timeout, locator and number of matches, but for the malformed selector of
\* a wait-for and the screenshot of a hidden element, where none ever does.
THEOREM TableIsKept == Spec => []TableKept
<1>1. Typed /\ Still => TableKept
  BY DEF Still, TableKept
<1> QED BY <1>1, StillAtFirst, StillStep, TypedAtFirst, TypedStep, PTL DEF Spec
=============================================================================
