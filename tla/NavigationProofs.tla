--------------------------- MODULE NavigationProofs ---------------------------
(* The invariants of Navigation, for any number of navigates and probes, any *)
(* URLs and any number of navigations of the page's own.                     *)
EXTENDS Navigation, TLAPS

\* What the three properties rest on.
\* One navigate is between goto and its answer: the one that holds the lock.
Exclusive == \A n \in Navigates : pc[n] \in {"going", "titling"} => lock = n

\* A navigate has an answer when it is finished.
AnsweredLast == \A n \in Navigates : pc[n] # "finished" => reply[n] = "none"

\* What was asked passed the check, so the route handler would let it through if
\* Chromium requested just that.
Checked ==
  \A n \in Navigates :
    pc[n] \in {"waiting", "going"} =>
      want[n] \in Urls /\ ~InterceptorRefuses(want[n])

\* The note tells of the goto in progress, and tells of it if there is anything
\* to tell.
NoteSound ==
  \A n \in Navigates :
    /\ \A u \in refused[n] : InterceptorRefuses(u)
    /\ pc[n] \in {"start", "waiting", "titling"} => refused[n] = {}
    /\ pc[n] = "going" =>
         IF lastBlocked = None THEN refused[n] = {} ELSE lastBlocked \in refused[n]
    /\ reply[n] = "loaded" => refused[n] = {}
    /\ reply[n] = "blocked" => blamed[n] \in refused[n] \ {want[n]}

UrlsKept == page \in shown /\ RecordedUrlFresh

IInv ==
  TypeOK /\ Exclusive /\ AnsweredLast /\ Checked /\ NoteSound /\ UrlsKept

LEMMA InitInvariant == Init => IInv
BY UrlParts, DistinctNames, PageStartsAssumption
   DEF Init, IInv, TypeOK, Exclusive, AnsweredLast, Checked, NoteSound, UrlsKept,
       RecordedUrlFresh, Requests

-----------------------------------------------------------------------------
\* The check is at least as strict as the route handler.
LEMMA CheckIsStricter ==
  ASSUME NEW u, NEW addresses, ~CheckRefuses(u, addresses)
  PROVE  ~InterceptorRefuses(u)
BY DEF CheckRefuses, InterceptorRefuses

\* Steps of the browser leave every request where it is.
LEMMA BrowserKeeps ==
  ASSUME IInv, BrowserStep
  PROVE  IInv'
<1> USE UrlParts, DistinctNames, PageStartsAssumption
<1> USE DEF TypeOK, tasks, Requests, NavigationRequest
<1>1. ASSUME NEW r \in routed, LetThrough(r)
      PROVE  IInv'
  <2>1. TypeOK'
    BY <1>1 DEF IInv, LetThrough
  <2>2. (Exclusive /\ AnsweredLast /\ Checked /\ NoteSound /\ UrlsKept)'
    BY <1>1 DEF IInv, LetThrough, Exclusive, AnsweredLast, Checked, NoteSound,
                UrlsKept, RecordedUrlFresh, InterceptorRefuses, WebUrl
  <2> QED BY <2>1, <2>2 DEF IInv
<1>2. ASSUME NEW r \in routed, NEW aborted \in BOOLEAN, Refuse(r, aborted)
      PROVE  IInv'
  <2>0. r.url \in Urls
    BY DEF IInv
  <2>1. TypeOK'
    BY <1>2, <2>0 DEF IInv, Refuse, GotoHears
  <2>2. (Exclusive /\ AnsweredLast /\ Checked /\ UrlsKept)'
    BY <1>2 DEF IInv, Refuse, Exclusive, AnsweredLast, Checked, UrlsKept,
                RecordedUrlFresh, InterceptorRefuses, WebUrl
  <2>3. ASSUME NEW n \in Navigates
        PROVE  /\ refused'[n] = IF Goes(n) THEN refused[n] \cup {r.url} ELSE refused[n]
               /\ lastBlocked' = r.url /\ lastBlocked' # None
               /\ pc'[n] = pc[n] /\ reply'[n] = reply[n] /\ want'[n] = want[n]
               /\ blamed'[n] = blamed[n]
               /\ \A u : InterceptorRefuses(u)' <=> InterceptorRefuses(u)
               /\ InterceptorRefuses(r.url)
               /\ Goes(n) <=> pc[n] = "going"
               /\ Goes(n) => reply[n] = "none"
    BY <1>2, <2>0 DEF IInv, Refuse, Goes, Exclusive, AnsweredLast,
                      InterceptorRefuses, WebUrl
  <2>4. NoteSound'
    <3> SUFFICES ASSUME NEW n \in Navigates
                 PROVE  /\ \A u \in refused'[n] : InterceptorRefuses(u)'
                        /\ pc'[n] \in {"start", "waiting", "titling"} =>
                             refused'[n] = {}
                        /\ pc'[n] = "going" => lastBlocked' \in refused'[n]
                        /\ reply'[n] = "loaded" => refused'[n] = {}
                        /\ reply'[n] = "blocked" =>
                             blamed'[n] \in refused'[n] \ {want'[n]}
      BY <2>3 DEF NoteSound
    <3>1. \A u \in refused[n] : InterceptorRefuses(u)
      BY DEF IInv, NoteSound
    <3>2. \A u \in refused'[n] : InterceptorRefuses(u)'
      <4>1. \A u : InterceptorRefuses(u)' <=> InterceptorRefuses(u)
        BY <2>3
      <4>2. refused'[n] \subseteq refused[n] \cup {r.url} /\ InterceptorRefuses(r.url)
        BY <2>3
      <4> QED BY <3>1, <4>1, <4>2
    <3>3. CASE Goes(n)
      BY <2>3, <3>2, <3>3
    <3>4. CASE ~Goes(n)
      BY <2>3, <3>2, <3>4 DEF IInv, NoteSound
    <3> QED BY <3>3, <3>4
  <2> QED BY <2>1, <2>2, <2>4 DEF IInv
<1>3. ASSUME NEW r \in flying, Commit(r)
      PROVE  IInv'
  <2>1. page' \in Urls \cup {Blank} /\ shown' \subseteq Urls \cup {Blank}
    BY <1>3 DEF IInv, Commit
  <2>2. TypeOK'
    BY <1>3, <2>1 DEF IInv, Commit, GotoHears
  <2>3. (Exclusive /\ AnsweredLast /\ Checked /\ NoteSound)'
    BY <1>3 DEF IInv, Commit, Exclusive, AnsweredLast, Checked, NoteSound,
                InterceptorRefuses, WebUrl
  <2>4. UrlsKept'
    BY <1>3 DEF IInv, Commit, UrlsKept, RecordedUrlFresh
  <2> QED BY <2>2, <2>3, <2>4 DEF IInv
<1>4. ASSUME NEW r \in flying, NEW outcome \in {"error", "noLoad"},
             Fizzle(r, outcome)
      PROVE  IInv'
  <2>1. TypeOK'
    BY <1>4 DEF IInv, Fizzle, GotoHears
  <2>2. (Exclusive /\ AnsweredLast /\ Checked /\ NoteSound /\ UrlsKept)'
    BY <1>4 DEF IInv, Fizzle, Exclusive, AnsweredLast, Checked, NoteSound,
                UrlsKept, RecordedUrlFresh, InterceptorRefuses, WebUrl
  <2> QED BY <2>1, <2>2 DEF IInv
<1>5. ASSUME NEW u \in Requestable, NEW main \in BOOLEAN, PageNavigates(u, main)
      PROVE  IInv'
  <2>0. u \in Urls
    BY DEF Requestable
  <2>1. TypeOK'
    BY <1>5, <2>0 DEF IInv, PageNavigates
  <2>2. (Exclusive /\ AnsweredLast /\ Checked /\ NoteSound /\ UrlsKept)'
    BY <1>5 DEF IInv, PageNavigates, Exclusive, AnsweredLast, Checked, NoteSound,
                UrlsKept, RecordedUrlFresh, InterceptorRefuses, WebUrl
  <2> QED BY <2>1, <2>2 DEF IInv
<1> QED BY <1>1, <1>2, <1>3, <1>4, <1>5 DEF BrowserStep

\* A navigate up to the call of goto.
LEMMA BeginKeeps ==
  ASSUME IInv, NEW n \in Navigates,
         \/ \E u \in Urls, addresses \in SUBSET {"private", "public"} :
              Check(n, u, addresses)
         \/ Busy(n) \/ Begin(n)
  PROVE  IInv'
<1> USE UrlParts, DistinctNames, PageStartsAssumption
<1> USE DEF TypeOK, Requests, browser
<1>1. ASSUME NEW u \in Urls, NEW addresses, Check(n, u, addresses)
      PROVE  IInv'
  <2>1. TypeOK'
    BY <1>1 DEF IInv, Check, Answer
  <2>2. (Exclusive /\ AnsweredLast /\ UrlsKept)'
    BY <1>1 DEF IInv, Check, Answer, Exclusive, AnsweredLast, UrlsKept,
                RecordedUrlFresh
  <2>3. Checked'
    BY <1>1, CheckIsStricter
       DEF IInv, Check, Answer, Checked, InterceptorRefuses, WebUrl
  <2>4. NoteSound'
    BY <1>1 DEF IInv, Check, Answer, NoteSound, AnsweredLast, InterceptorRefuses,
                WebUrl
  <2> QED BY <2>1, <2>2, <2>3, <2>4 DEF IInv
<1>2. CASE Busy(n)
  BY <1>2 DEF IInv, Busy, Answer, Exclusive, AnsweredLast, Checked, NoteSound,
              UrlsKept, RecordedUrlFresh, InterceptorRefuses, WebUrl
<1>3. CASE Begin(n)
  <2>0. routed' \subseteq NavigationRequest /\ arrived' \in {"nothing", "error"}
    <3>1. want[n] \in Urls /\ Canonical[want[n]] \in Urls \cup {None}
      BY <1>3 DEF IInv, Begin, Checked
    <3>2. CASE Canonical[want[n]] = None
      BY <1>3, <3>2 DEF IInv, Begin, CallGoto
    <3>3. CASE Canonical[want[n]] # None
      <4>1. [url |-> Canonical[want[n]], main |-> TRUE, by |-> n]
              \in NavigationRequest
        BY <3>1, <3>3 DEF NavigationRequest
      <4>2. /\ arrived' = "nothing"
            /\ routed' = routed \cup
                 {[url |-> Canonical[want[n]], main |-> TRUE, by |-> n]}
        BY <1>3, <3>3 DEF Begin, CallGoto
      <4> QED BY <4>1, <4>2 DEF IInv
    <3> QED BY <3>2, <3>3
  <2>1. TypeOK'
    BY <1>3, <2>0 DEF IInv, Begin
  <2>2. (Exclusive /\ AnsweredLast /\ Checked /\ UrlsKept)'
    BY <1>3 DEF IInv, Begin, Exclusive, AnsweredLast, Checked, UrlsKept,
                RecordedUrlFresh, InterceptorRefuses, WebUrl
  <2>3. \A m \in Navigates : m # n => pc'[m] = pc[m] /\ pc[m] # "going"
    BY <1>3 DEF IInv, Begin, Exclusive
  <2>4. refused[n] = {} /\ lastBlocked' = None /\ refused' = refused
        /\ want' = want /\ reply' = reply /\ blamed' = blamed
        /\ reply[n] = "none" /\ pc'[n] = "going"
    BY <1>3 DEF IInv, Begin, NoteSound, AnsweredLast
  <2>5. ASSUME NEW m \in Navigates
        PROVE  \A u \in refused'[m] : InterceptorRefuses(u)'
    BY <1>3 DEF IInv, Begin, NoteSound, InterceptorRefuses, WebUrl
  <2>6. ASSUME NEW m \in Navigates
        PROVE  /\ pc'[m] \in {"start", "waiting", "titling"} => refused'[m] = {}
               /\ pc'[m] = "going" => refused'[m] = {}
               /\ reply'[m] = "loaded" => refused'[m] = {}
               /\ reply'[m] = "blocked" => blamed'[m] \in refused'[m] \ {want'[m]}
    <3>1. CASE m = n
      BY <2>4, <3>1
    <3>2. CASE m # n
      BY <2>3, <2>4, <3>2 DEF IInv, NoteSound
    <3> QED BY <3>1, <3>2
  <2>7. NoteSound'
    BY <2>4, <2>5, <2>6 DEF NoteSound
  <2> QED BY <2>1, <2>2, <2>7 DEF IInv
<1> QED BY <1>1, <1>2, <1>3

\* What is made of goto's outcome.
LEMMA OutcomeKeeps ==
  ASSUME IInv, NEW n \in Navigates,
         \/ GotoTimesOut(n) \/ GotoRaises(n) \/ GotoRefused(n)
         \/ GotoReturns(n) \/ TitleRead(n)
  PROVE  IInv'
<1> USE UrlParts, DistinctNames, PageStartsAssumption
<1> USE DEF TypeOK, Requests, browser
<1>1. ASSUME NEW how \in {"timeout", "crash", "failed", "blocked"},
             NEW url \in Urls \cup {None}, Goes(n), Raise(n, how, url),
             how = "blocked" => url # None /\ url = lastBlocked
      PROVE  IInv'
  <2>1. TypeOK'
    BY <1>1 DEF IInv, Raise, Answer
  <2>2. (Exclusive /\ AnsweredLast /\ Checked /\ UrlsKept)'
    BY <1>1 DEF IInv, Raise, Answer, Exclusive, AnsweredLast, Checked, UrlsKept,
                RecordedUrlFresh, InterceptorRefuses, WebUrl, Goes
  <2>3. how = "blocked" => url \in refused[n] \ {want[n]}
    BY <1>1 DEF IInv, NoteSound, Goes, Checked
  <2>4. NoteSound'
    BY <1>1, <2>3 DEF IInv, Raise, Answer, NoteSound, InterceptorRefuses, WebUrl
  <2> QED BY <2>1, <2>2, <2>4 DEF IInv
<1>2. CASE GotoTimesOut(n)
  BY <1>1, <1>2 DEF GotoTimesOut
<1>3. CASE GotoRaises(n)
  <2>1. lastBlocked \in Urls \cup {None}
    BY DEF IInv
  <2> QED BY <1>1, <1>3, <2>1 DEF GotoRaises
<1>4. CASE GotoRefused(n)
  <2>1. lastBlocked \in Urls \cup {None}
    BY DEF IInv
  <2> QED BY <1>1, <1>4, <2>1 DEF GotoRefused
<1>5. CASE GotoReturns(n)
  <2>1. refused[n] = {}
    BY <1>5 DEF IInv, GotoReturns, Goes, NoteSound
  <2> QED BY <1>5, <2>1 DEF IInv, GotoReturns, Goes, Exclusive, AnsweredLast,
               Checked, NoteSound, UrlsKept, RecordedUrlFresh, InterceptorRefuses,
               WebUrl
<1>6. CASE TitleRead(n)
  <2>1. TypeOK' /\ (Exclusive /\ AnsweredLast /\ Checked)'
    BY <1>6 DEF IInv, TitleRead, Answer, Exclusive, AnsweredLast, Checked,
                InterceptorRefuses, WebUrl
  <2>2. refused[n] = {}
    BY <1>6 DEF IInv, TitleRead, NoteSound
  <2>3. NoteSound'
    BY <1>6, <2>2 DEF IInv, TitleRead, Answer, NoteSound, InterceptorRefuses, WebUrl
  <2>4. UrlsKept'
    BY <1>6 DEF IInv, TitleRead, UrlsKept, RecordedUrlFresh
  <2> QED BY <2>1, <2>3, <2>4 DEF IInv
<1> QED BY <1>2, <1>3, <1>4, <1>5, <1>6

LEMMA ProbeKeeps ==
  ASSUME IInv, NEW p \in Probes, ProbeCached(p) \/ ProbeLive(p)
  PROVE  IInv'
<1> USE UrlParts, DistinctNames, PageStartsAssumption
<1> USE DEF TypeOK, Requests, browser
<1>1. \A n \in Navigates : pc'[n] = pc[n]
  BY DEF IInv, ProbeCached, ProbeLive
<1>2. TypeOK' /\ UrlsKept'
  BY DEF IInv, ProbeCached, ProbeLive, UrlsKept, RecordedUrlFresh
<1>3. (Exclusive /\ AnsweredLast /\ Checked /\ NoteSound)'
  BY <1>1 DEF IInv, ProbeCached, ProbeLive, Exclusive, AnsweredLast, Checked,
              NoteSound, InterceptorRefuses, WebUrl
<1> QED BY <1>2, <1>3 DEF IInv

\* The invariant is inductive: the temporal results below all come from it.
THEOREM NavigationInvariant == Spec => []IInv
<1>1. IInv /\ [Next]_vars => IInv'
  <2> SUFFICES ASSUME IInv, [Next]_vars PROVE IInv'
    OBVIOUS
  <2>1. CASE BrowserStep
    BY <2>1, BrowserKeeps
  <2>2. ASSUME NEW n \in Navigates, NavigateStep(n) PROVE IInv'
    BY <2>2, BeginKeeps, OutcomeKeeps DEF NavigateStep
  <2>3. ASSUME NEW p \in Probes, ProbeCached(p) \/ ProbeLive(p) PROVE IInv'
    BY <2>3, ProbeKeeps
  <2>4. CASE UNCHANGED vars
    BY <2>4 DEF vars, tasks, browser, IInv, TypeOK, Exclusive, AnsweredLast,
                Checked, NoteSound, UrlsKept, RecordedUrlFresh,
                InterceptorRefuses, WebUrl, NavigationRequest, Requests
  <2> QED BY <2>1, <2>2, <2>3, <2>4 DEF Next
<1> QED BY InitInvariant, <1>1, PTL DEF Spec

\* Every variable of navigate keeps its type.
THEOREM NavigationTypeCorrect == Spec => []TypeOK
<1>1. IInv => TypeOK
  BY DEF IInv
<1> QED BY NavigationInvariant, <1>1, PTL

\* For any URLs, and whatever Chromium makes of them: a 400 of the engine names what
\* was refused during that goto, and the navigation that was asked for is among it
\* only if Chromium made another URL of it.
THEOREM BlameOfNavigate == Spec => []BlameJustified
<1>1. IInv => BlameJustified
  BY DEF IInv, NoteSound, BlameJustified
<1> QED BY NavigationInvariant, <1>1, PTL

\* No 200 after a refused navigation, whether or not its abort worked.
THEOREM RefusalsAreTold == Spec => []NoSilentRefusal
<1>1. IInv => NoSilentRefusal
  BY DEF IInv, NoteSound, NoSilentRefusal
<1> QED BY NavigationInvariant, <1>1, PTL

\* The recorded URL is not older than the last navigate answered 200.
THEOREM RecordedUrlKept == Spec => []RecordedUrlFresh
<1>1. IInv => RecordedUrlFresh
  BY DEF IInv, UrlsKept
<1> QED BY NavigationInvariant, <1>1, PTL
=============================================================================
