------------------------------ MODULE Navigation ------------------------------
(***************************************************************************)
(* POST /v1/sessions/{id}/navigate of one session: the check of the URL    *)
(* (ssrf.py), the session's lock, page.goto and what is made of its        *)
(* outcome, together with what goes on meanwhile: the page navigates       *)
(* itself and its frames, the route handler refuses navigations and leaves *)
(* a note in _last_blocked_nav, and GET of the session reads the URL.      *)
(***************************************************************************)
EXTENDS Integers, FiniteSets

CONSTANTS
  Navigates,   \* POST .../navigate requests
  Probes,      \* GET /v1/sessions/{id} requests
  Urls,
  SchemeOf,    \* the scheme of a URL, as urlsplit finds it
  HostOf,      \* what its hostname is
  Canonical,   \* external: the URL Chromium requests for a string, or None
  LandsOn,     \* external: where a server may redirect a request for a URL
  Blank,       \* about:blank
  None,        \* Python's None
  PageStarts   \* bound: navigations that pages start of their own

Schemes == {"missing", "web", "other"}
Hosts == {"missing", "localhost", "private", "public", "name"}
Requests == Navigates \cup Probes

ASSUME UrlParts ==
  /\ SchemeOf \in [Urls -> Schemes] /\ HostOf \in [Urls -> Hosts]
  /\ LandsOn \in [Urls -> SUBSET Urls]
  /\ Canonical \in [Urls -> Urls \cup {None}]
ASSUME DistinctNames ==
  /\ Blank \notin Urls /\ None \notin Urls \cup Requests /\ Blank # None
  /\ Navigates \cap Probes = {}
ASSUME PageStartsAssumption == PageStarts \in Nat

VARIABLES
  allowed,      \* _private_hosts_allowed(): a matter of the settings
  pc,           \* where a request is
  want,         \* the URL a navigate asks for
  reply,        \* how a navigate was answered
  blamed,       \* the URL that a 400 of the engine names
  lock,         \* the navigate that holds the session's lock, or None
  lastBlocked,  \* _last_blocked_nav
  arrived,      \* what became of the goto of the lock's holder
  routed,       \* navigation requests whose route event is not handled yet
  flying,       \* navigation requests that were let through
  page,         \* page.url
  currentUrl,   \* current_url of the record
  starts,       \* how many navigations pages started
  refused,      \* history: what was refused during a navigate's goto
  shown         \* history: what the page showed since the last 200

tasks == <<pc, want, reply, blamed, lock>>
browser == <<routed, flying, page, starts>>
vars == <<allowed, tasks, lastBlocked, arrived, browser, currentUrl, refused,
          shown>>

\* What Chromium may request.
Requestable == {Canonical[u] : u \in Urls} \ {None}

\* A navigation of the page or of one of its frames, and the goto behind it.
NavigationRequest ==
  [url : Urls, main : BOOLEAN, by : Navigates \cup {None}]

TypeOK ==
  /\ allowed \in BOOLEAN
  /\ pc \in [Requests -> {"start", "waiting", "going", "titling", "finished"}]
  /\ want \in [Navigates -> Urls \cup {None}]
  /\ reply \in [Navigates -> {"none", "refused", "busy", "timeout", "blocked",
                              "crash", "failed", "loaded"}]
  /\ blamed \in [Navigates -> Urls \cup {None}]
  /\ lock \in Navigates \cup {None}
  /\ lastBlocked \in Urls \cup {None}
  /\ arrived \in {"nothing", "response", "noLoad", "error"}
  /\ routed \subseteq NavigationRequest /\ flying \subseteq NavigationRequest
  /\ page \in Urls \cup {Blank}
  /\ currentUrl \in Urls \cup {Blank, None}
  /\ starts \in 0..PageStarts
  /\ refused \in [Navigates -> SUBSET Urls]
  /\ shown \subseteq Urls \cup {Blank}

Init ==
  /\ allowed \in BOOLEAN
  /\ pc = [t \in Requests |-> "start"]
  /\ want = [n \in Navigates |-> None]
  /\ reply = [n \in Navigates |-> "none"]
  /\ blamed = [n \in Navigates |-> None]
  /\ lock = None /\ lastBlocked = None /\ arrived = "nothing"
  /\ routed = {} /\ flying = {} /\ starts = 0
  /\ page = Blank /\ currentUrl = None
  /\ refused = [n \in Navigates |-> {}]
  /\ shown = {Blank}

-----------------------------------------------------------------------------
(* ssrf.py *)

\* Both checks: the scheme, then the host, which development may leave alone.
WebUrl(u) == SchemeOf[u] = "web" /\ HostOf[u] # "missing"

\* check_navigate_url raises.  Of a name it asks the resolver, whose answer is
\* a set of addresses; a failure, {}, is left to the browser to report.
CheckRefuses(u, addresses) ==
  \/ ~WebUrl(u)
  \/ /\ ~allowed
     /\ \/ HostOf[u] \in {"localhost", "private"}
        \/ HostOf[u] = "name" /\ "private" \in addresses

\* Mutant: the interceptor does not know the dev escape hatch.
InterceptorStrict(u) == ~WebUrl(u) \/ HostOf[u] \in {"localhost", "private"}

\* navigation_request_is_blocked: the same without the resolver.
InterceptorRefuses(u) ==
  \/ ~WebUrl(u)
  \/ ~allowed /\ HostOf[u] \in {"localhost", "private"}

-----------------------------------------------------------------------------
(* The route handler and the page (external, but for the handler). *)

Goes(n) == lock = n /\ pc[n] = "going"

\* The goto in progress learns what became of its navigation, once.
GotoHears(outcome) ==
  arrived' = IF (\E n \in Navigates : Goes(n)) /\ arrived = "nothing"
             THEN outcome ELSE arrived

\* abort() may fail, which the handler swallows: the request goes on.
Refuse(r, aborted) ==
  /\ r \in routed /\ InterceptorRefuses(r.url)
  /\ lastBlocked' = r.url
  /\ refused' = [n \in Navigates |-> IF Goes(n) THEN refused[n] \cup {r.url}
                                     ELSE refused[n]]
  /\ routed' = routed \ {r}
  /\ flying' = IF aborted THEN flying ELSE flying \cup {r}
  /\ IF aborted /\ r.by = lock THEN GotoHears("error") ELSE UNCHANGED arrived
  /\ UNCHANGED <<allowed, tasks, page, starts, currentUrl, shown>>

LetThrough(r) ==
  /\ r \in routed /\ ~InterceptorRefuses(r.url)
  /\ routed' = routed \ {r}
  /\ flying' = flying \cup {r}
  /\ UNCHANGED <<allowed, tasks, lastBlocked, arrived, page, starts,
                 currentUrl, refused, shown>>

\* The page shows what was requested, or where the server redirected it: a
\* redirect raises no route event.  Another navigation of the page interrupts
\* a goto that has not got its own response.
Commit(r) ==
  /\ r \in flying
  /\ flying' = flying \ {r}
  /\ IF r.main
     THEN /\ page' \in {r.url} \cup LandsOn[r.url]
          /\ shown' = shown \cup {page'}
          /\ GotoHears(IF r.by = lock THEN "response" ELSE "error")
     ELSE UNCHANGED <<page, shown, arrived>>
  /\ UNCHANGED <<allowed, tasks, lastBlocked, routed, starts, currentUrl,
                 refused>>

\* A request that comes to nothing: the network fails, or a later navigation
\* replaces it; a download, which leaves goto with no response.
Fizzle(r, outcome) ==
  /\ r \in flying
  /\ flying' = flying \ {r}
  /\ IF r.main /\ r.by = lock THEN GotoHears(outcome) ELSE UNCHANGED arrived
  /\ UNCHANGED <<allowed, tasks, lastBlocked, routed, page, starts,
                 currentUrl, refused, shown>>

\* A script or a frame of the page navigates, at any moment.  The request has the URL
\* that Chromium made of whatever the page wrote.
PageNavigates(u, main) ==
  /\ page # Blank /\ starts < PageStarts
  /\ starts' = starts + 1
  /\ routed' = routed \cup {[url |-> u, main |-> main, by |-> None]}
  /\ UNCHANGED <<allowed, tasks, lastBlocked, arrived, flying, page,
                 currentUrl, refused, shown>>

-----------------------------------------------------------------------------
(* navigate *)

Answer(n, how) ==
  /\ pc' = [pc EXCEPT ![n] = "finished"]
  /\ reply' = [reply EXCEPT ![n] = how]

\* The URL is checked before the session is looked up and its lock taken.
Check(n, u, addresses) ==
  /\ pc[n] = "start"
  /\ want' = [want EXCEPT ![n] = u]
  /\ IF CheckRefuses(u, addresses)
     THEN Answer(n, "refused")
     ELSE pc' = [pc EXCEPT ![n] = "waiting"] /\ UNCHANGED reply
  /\ UNCHANGED <<allowed, blamed, lock, lastBlocked, arrived, browser,
                 currentUrl, refused, shown>>

Busy(n) ==
  /\ pc[n] = "waiting" /\ lock # None
  /\ Answer(n, "busy")
  /\ UNCHANGED <<allowed, want, blamed, lock, lastBlocked, arrived, browser,
                 currentUrl, refused, shown>>

\* page.goto hands the string to Chromium, which makes a URL of it: its host need not
\* be the one that urlsplit found (an escaped one is not).  Of some strings it makes
\* none, and goto raises without a request.
CallGoto(n) ==
  LET url == Canonical[want[n]] IN
    IF url = None
      THEN arrived' = "error" /\ UNCHANGED routed
      ELSE /\ arrived' = "nothing"
           /\ routed' = routed \cup {[url |-> url, main |-> TRUE, by |-> n]}

\* Mutant: the note of an earlier navigation is not cleared.
BeginUncleared(n) ==
  /\ pc[n] = "waiting" /\ lock = None
  /\ lock' = n
  /\ CallGoto(n)
  /\ pc' = [pc EXCEPT ![n] = "going"]
  /\ UNCHANGED <<allowed, want, reply, blamed, lastBlocked, flying, page,
                 starts, currentUrl, refused, shown>>

\* The lock is taken, the note cleared and goto called, with no await between.
Begin(n) ==
  /\ pc[n] = "waiting" /\ lock = None
  /\ lock' = n
  /\ lastBlocked' = None
  /\ CallGoto(n)
  /\ pc' = [pc EXCEPT ![n] = "going"]
  /\ UNCHANGED <<allowed, want, reply, blamed, flying, page, starts,
                 currentUrl, refused, shown>>

\* The engine raises: an answer without a page.
Raise(n, how, url) ==
  /\ Answer(n, how)
  /\ blamed' = [blamed EXCEPT ![n] = url]
  /\ lock' = None
  /\ UNCHANGED <<allowed, want, lastBlocked, arrived, browser, currentUrl,
                 refused, shown>>

\* Before or after its response, while the page is to reach wait_until.  A
\* timeout comes first: a note of a refused navigation is not looked at.
GotoTimesOut(n) ==
  /\ Goes(n) /\ arrived \in {"nothing", "response"}
  /\ Raise(n, "timeout", None)

\* Any other error of goto; after its response, the browser died.
GotoRaises(n) ==
  /\ Goes(n) /\ arrived \in {"error", "response"}
  /\ IF lastBlocked # None
     THEN Raise(n, "blocked", lastBlocked)
     ELSE \E how \in {"crash", "failed"} : Raise(n, how, None)

\* goto returns, and the note still refuses what it returned.
GotoRefused(n) ==
  /\ Goes(n) /\ arrived \in {"response", "noLoad"} /\ lastBlocked # None
  /\ Raise(n, "blocked", lastBlocked)

\* Mutant: the note is looked at only when goto raises.
ReturnsUnchecked(n) ==
  /\ Goes(n) /\ arrived \in {"response", "noLoad"}
  /\ pc' = [pc EXCEPT ![n] = "titling"]
  /\ UNCHANGED <<allowed, want, reply, blamed, lock, lastBlocked, arrived,
                 browser, currentUrl, refused, shown>>

GotoReturns(n) ==
  /\ Goes(n) /\ arrived \in {"response", "noLoad"} /\ lastBlocked = None
  /\ pc' = [pc EXCEPT ![n] = "titling"]
  /\ UNCHANGED <<allowed, want, reply, blamed, lock, lastBlocked, arrived,
                 browser, currentUrl, refused, shown>>

\* Mutant: navigate does not store the URL it answers.
AnswerUnstored(n) ==
  /\ lock = n /\ pc[n] = "titling"
  /\ Answer(n, "loaded")
  /\ shown' = {page}
  /\ lock' = None
  /\ UNCHANGED <<allowed, want, blamed, lastBlocked, arrived, browser,
                 currentUrl, refused>>

\* page.title() came back, or failed, which is swallowed.  It has no timeout.
\* page.url is read after it: the page may have moved on from the response.
TitleRead(n) ==
  /\ lock = n /\ pc[n] = "titling"
  /\ Answer(n, "loaded")
  /\ currentUrl' = page
  /\ shown' = {page}
  /\ lock' = None
  /\ UNCHANGED <<allowed, want, blamed, lastBlocked, arrived, browser, refused>>

-----------------------------------------------------------------------------
(* GET of the session: the URL it answers is the one in the record after it. *)

ProbeCached(p) ==
  /\ pc[p] = "start" /\ lock # None
  /\ pc' = [pc EXCEPT ![p] = "finished"]
  /\ UNCHANGED <<allowed, want, reply, blamed, lock, lastBlocked, arrived,
                 browser, currentUrl, refused, shown>>

ProbeLive(p) ==
  /\ pc[p] = "start" /\ lock = None
  /\ pc' = [pc EXCEPT ![p] = "finished"]
  /\ currentUrl' = IF page = Blank THEN None ELSE page
  /\ UNCHANGED <<allowed, want, reply, blamed, lock, lastBlocked, arrived,
                 browser, refused, shown>>

NavigateStep(n) ==
  \/ \E u \in Urls, addresses \in SUBSET {"private", "public"} :
       Check(n, u, addresses)
  \/ Busy(n) \/ Begin(n) \/ GotoTimesOut(n) \/ GotoRaises(n) \/ GotoRefused(n)
  \/ GotoReturns(n) \/ TitleRead(n)

BrowserStep ==
  \/ \E r \in routed : LetThrough(r) \/ \E aborted \in BOOLEAN : Refuse(r, aborted)
  \/ \E r \in flying : \/ Commit(r)
                       \/ \E outcome \in {"error", "noLoad"} : Fizzle(r, outcome)
  \/ \E u \in Requestable, main \in BOOLEAN : PageNavigates(u, main)

Next ==
  \/ \E n \in Navigates : NavigateStep(n)
  \/ \E p \in Probes : ProbeCached(p) \/ ProbeLive(p)
  \/ BrowserStep

Spec == Init /\ [][Next]_vars

-----------------------------------------------------------------------------
(* Properties *)

\* A 400 of the engine names a URL that was refused during this very goto, not
\* before it.  That is the request's own navigation only if Chromium made another
\* URL of the string it asked for: the very URL that the check let through the
\* handler does not refuse.
BlameJustified ==
  \A n \in Navigates :
    reply[n] = "blocked" =>
      /\ blamed[n] \in refused[n]
      /\ blamed[n] = Canonical[want[n]] => Canonical[want[n]] # want[n]

\* A navigate is answered 200 only if no navigation was refused between its
\* start and the return of goto, even where the abort failed and the page went
\* to the refused URL.
NoSilentRefusal ==
  \A n \in Navigates :
    pc[n] = "titling" \/ reply[n] = "loaded" => refused[n] = {}

\* The URL that GET answers from the record while an action is running is not
\* older than the last navigate that was answered 200.
RecordedUrlFresh ==
  (IF currentUrl = None THEN Blank ELSE currentUrl) \in shown
=============================================================================
