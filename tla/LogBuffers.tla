------------------------------ MODULE LogBuffers ------------------------------
(***************************************************************************)
(* The console and the network log of one session: two deques of at most   *)
(* max_log_entries, fed by listeners of the page's events, which come at   *)
(* any moment and outside the session's lock, and read by requests that    *)
(* may clear them.  A response says nothing of the log entry it belongs    *)
(* to: the listener looks for one by its URL.                              *)
(***************************************************************************)
EXTENDS Integers, FiniteSets, Sequences

CONSTANTS
  Urls,
  MaxLog,       \* Settings.max_log_entries
  MaxRequests,  \* bound: requests the page makes
  MaxMessages   \* bound: console messages and errors of the page

ASSUME LogLimits ==
  MaxLog \in Nat \ {0} /\ MaxRequests \in Nat /\ MaxMessages \in Nat

VARIABLES
  network,     \* _network; `from` is the request whose response gave the
               \* entry its status, 0 while the status is None
  console,     \* _console
  sent,        \* the URLs of the page's requests, in their order
  flight,      \* the requests with neither a response nor a failure yet
  answered,    \* the requests whose response came
  messages,    \* how many console messages and page errors there were
  cleared,     \* history: the newest request at the last clear
  silenced,    \* history: the newest message at the last clear
  contended    \* history: URLs that had two requests in flight at once

vars == <<network, console, sent, flight, answered, messages, cleared,
          silenced, contended>>

Ids == 1..Len(sent)
Entry == [id : Nat, url : Urls, from : Nat]

TypeOK ==
  /\ network \in Seq(Entry) /\ console \in Seq(Nat)
  /\ sent \in Seq(Urls) /\ messages \in Nat
  /\ flight \subseteq Ids /\ answered \subseteq Ids
  /\ flight \cap answered = {}
  /\ cleared \in 0..Len(sent) /\ silenced \in 0..messages
  /\ contended \subseteq Urls

Init ==
  /\ network = <<>> /\ console = <<>> /\ sent = <<>>
  /\ flight = {} /\ answered = {} /\ contended = {}
  /\ messages = 0 /\ cleared = 0 /\ silenced = 0

-----------------------------------------------------------------------------
(* The listeners *)

\* Mutant: a full buffer takes nothing more.
PushIfRoom(q, e) == IF Len(q) < MaxLog THEN Append(q, e) ELSE q

\* append to a deque(maxlen): a full one drops its oldest entry.
Push(q, e) == Append(IF Len(q) < MaxLog THEN q ELSE Tail(q), e)

OnConsole ==
  /\ messages < MaxMessages
  /\ messages' = messages + 1
  /\ console' = Push(console, messages + 1)
  /\ UNCHANGED <<network, sent, flight, answered, cleared, silenced, contended>>

\* What the page throws is logged with what it prints.
OnPageError == OnConsole

OnRequest(u) ==
  /\ Len(sent) < MaxRequests
  /\ sent' = Append(sent, u)
  /\ network' = Push(network, [id |-> Len(sent) + 1, url |-> u, from |-> 0])
  /\ flight' = flight \cup {Len(sent) + 1}
  /\ contended' = IF \E i \in flight : sent[i] = u THEN contended \cup {u}
                                                   ELSE contended
  /\ UNCHANGED <<console, answered, messages, cleared, silenced>>

\* Mutant: a status that is there already is overwritten.
OpenEvenIfSet(k, u) == network[k].url = u

\* Mutant: the entry is looked for by its status only.
OpenOfAnyUrl(k, u) == network[k].from = 0

\* An entry of this URL that has no status.
Open(k, u) == network[k].url = u /\ network[k].from = 0

\* The newest such entry gets the status, if there is one.
OnResponse(i) ==
  LET open == {k \in DOMAIN network : Open(k, sent[i])} IN
  /\ i \in flight
  /\ flight' = flight \ {i}
  /\ answered' = answered \cup {i}
  /\ network' = [k \in DOMAIN network |->
                   IF k \in open /\ \A m \in open : m <= k
                   THEN [network[k] EXCEPT !.from = i] ELSE network[k]]
  /\ UNCHANGED <<console, sent, messages, cleared, silenced, contended>>

\* A request that fails or is aborted raises neither event.
RequestFailed(i) ==
  /\ i \in flight
  /\ flight' = flight \ {i}
  /\ UNCHANGED <<network, console, sent, answered, messages, cleared, silenced,
                 contended>>

-----------------------------------------------------------------------------
(* The reads.  None of them awaits anything between its copy and its clear. *)

ConsoleLogs(clear) ==
  /\ console' = IF clear THEN <<>> ELSE console
  /\ silenced' = IF clear THEN messages ELSE silenced
  /\ UNCHANGED <<network, sent, flight, answered, messages, cleared, contended>>

NetworkLog(clear) ==
  /\ network' = IF clear THEN <<>> ELSE network
  /\ cleared' = IF clear THEN Len(sent) ELSE cleared
  /\ UNCHANGED <<console, sent, flight, answered, messages, silenced, contended>>

\* Mutant: the filter clears only the entries it returns.
FilterKeepsRest(u, clear) ==
  /\ network' = IF clear THEN SelectSeq(network, LAMBDA e : e.url # u) ELSE network
  /\ cleared' = IF clear THEN Len(sent) ELSE cleared
  /\ UNCHANGED <<console, sent, flight, answered, messages, silenced, contended>>

\* The filter decides what is returned, not what is cleared.
NetworkFilter(u, clear) == NetworkLog(clear)

Next ==
  \/ OnConsole \/ OnPageError
  \/ \E u \in Urls : OnRequest(u)
  \/ \E i \in flight : OnResponse(i) \/ RequestFailed(i)
  \/ \E clear \in BOOLEAN : ConsoleLogs(clear) \/ NetworkLog(clear)
  \/ \E u \in Urls, clear \in BOOLEAN : NetworkFilter(u, clear)

Spec == Init /\ [][Next]_vars

-----------------------------------------------------------------------------
(* Properties *)

\* The events after the one numbered `first`, but at most the last MaxLog.
Since(first, last) ==
  (IF last - first < MaxLog THEN first + 1 ELSE last - MaxLog + 1)..last

\* A read sees exactly the last MaxLog events since the last clear, in their
\* order: no clear lets an older one stay and no overflow drops a newer one.
LogsAreTheTail ==
  /\ {network[k].id : k \in DOMAIN network} = Since(cleared, Len(sent))
  /\ {console[k] : k \in DOMAIN console} = Since(silenced, messages)
  /\ \A j, k \in DOMAIN network : j < k => network[j].id < network[k].id
  /\ \A j, k \in DOMAIN console : j < k => console[j] < console[k]

\* A URL whose requests never overlapped has statuses of their own, whatever
\* failed, was cleared or was pushed out of the log in between.
StatusIsOwn ==
  \A k \in DOMAIN network :
    network[k].url \notin contended => network[k].from \in {0, network[k].id}

\* The entries of a URL that have no status, and its requests without a response.
Unset(u) ==
  {network[k].id : k \in {m \in DOMAIN network :
                            network[m].url = u /\ network[m].from = 0}}
Unanswered(u) == {i \in Ids : sent[i] = u /\ i \notin answered}

\* No status is lost: of each URL, there are no more entries without a status
\* than requests that had no response, although overlapping requests may
\* exchange their statuses.
NoStatusLost ==
  \A u \in Urls : Cardinality(Unset(u)) <= Cardinality(Unanswered(u))
=============================================================================
