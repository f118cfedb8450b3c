---------------------------- MODULE SessionManager ----------------------------
(***************************************************************************)
(* The session registry of api/session_manager.py together with every      *)
(* coroutine that changes it: POST /v1/sessions, the per-session actions,  *)
(* DELETE and GET of a session, the operator's reset-sessions and the idle *)
(* reaper.  All of them run on one asyncio event loop, so an action of     *)
(* this module is the code between two awaits of one coroutine.            *)
(*                                                                         *)
(* A request is a task that runs once.  The session a create request makes *)
(* is named by that request: a session id is a fresh uuid4, and its engine *)
(* session exists before its record does.                                  *)
(***************************************************************************)
EXTENDS Integers, FiniteSets, Sequences, SequencesExt

CONSTANTS
  Creates,      \* POST /v1/sessions requests, and the sessions they create
  Actions,      \* POST /v1/sessions/{id}/<verb> requests
  Deletes,      \* DELETE /v1/sessions/{id} requests
  Probes,       \* GET /v1/sessions/{id} requests
  Resets,       \* POST /v1/admin/reset-sessions requests
  Reaper,       \* the reaper_loop task
  None,         \* Python's None
  MaxSessions,  \* Settings.max_sessions
  EvictWindow,  \* EVICT_RECENT_ACTIVITY_WINDOW_S, in ticks
  IdleMin, IdleMax, IdleDefault,  \* the idle timeouts of __init__, in ticks
  Requested,    \* what a create may ask as idle_timeout_seconds
  IdleCap,      \* bound: an idle time is counted no further than this
  TombstoneMax  \* Settings.tombstone_max

Requests == Creates \cup Actions \cup Deletes \cup Probes \cup Resets
Tasks == Requests \cup {Reaper}

ASSUME FiniteTasks == IsFiniteSet(Requests)
ASSUME DistinctTasks ==
  /\ Reaper \notin Requests /\ None \notin Tasks
  /\ Creates \cap (Actions \cup Deletes \cup Probes \cup Resets) = {}
  /\ Actions \cap (Deletes \cup Probes \cup Resets) = {}
  /\ Deletes \cap (Probes \cup Resets) = {}
  /\ Probes \cap Resets = {}
ASSUME Limits ==
  /\ MaxSessions \in Nat \ {0} /\ TombstoneMax \in Nat \ {0}
  /\ EvictWindow \in Nat /\ IdleMin \in Nat /\ IdleMax \in Nat
  /\ IdleMin <= IdleDefault /\ IdleDefault <= IdleMax /\ IdleDefault \in Nat
  /\ IdleCap \in Nat /\ EvictWindow <= IdleCap /\ IdleMax < IdleCap
  /\ Requested \subseteq Nat \cup {None} /\ None \notin Nat

VARIABLES
  records,      \* the sessions of _records
  born,         \* when a record was inserted: the order of the dict
  idle,         \* clock minus last_used_monotonic, up to IdleCap
  timeout,      \* idle_timeout of a record
  closing,      \* closing flag of a record
  lock,         \* the task that holds a record's lock, or None
  waiters,      \* FIFO queue of a record's lock
  engine,       \* a session's browser: "none", "open" or "closed"
  tombstones,   \* _tombstones, the least recently added first
  stats,        \* the counters of metrics_snapshot
  pc,           \* where a task is suspended
  tgt,          \* the session a task works on; evicted_id of a create
  reply,        \* what a request answered
  todo,         \* what is left of the snapshot a reset or the reaper iterates
  overdue       \* the sessions idle past their timeout at the reaper's `now`

registry == <<records, born, timeout, idle, tombstones>>
locks == <<closing, lock, waiters>>
pass == <<todo, overdue>>
vars == <<registry, locks, engine, stats, pc, tgt, reply, pass>>

Counters == {"created", "reaped", "deleted", "rejected", "evicted",
             "actions", "errors"}
Places == {"start", "evict1", "launch", "evict2", "surplus", "acquire",
           "waiting", "working", "purging", "asleep", "finished"}
Replies == {"none", "created", "capacity", "crash", "ok", "notFound",
            "clientError", "fault", "unknown", "expired", "busy", "deleted",
            "purged"}

TypeOK ==
  /\ records \subseteq Creates
  /\ born \in [Creates -> Nat]
  /\ idle \in [Creates -> 0..IdleCap]
  /\ timeout \in [Creates -> IdleMin..IdleMax]
  /\ closing \in [Creates -> BOOLEAN]
  /\ lock \in [Creates -> Tasks \cup {None}]
  /\ waiters \in [Creates -> Seq(Tasks)]
  /\ engine \in [Creates -> {"none", "open", "closed"}]
  /\ tombstones \in Seq(Creates)
  /\ stats \in [Counters -> Nat]
  /\ pc \in [Tasks -> Places]
  /\ tgt \in [Tasks -> Creates \cup {None}]
  /\ reply \in [Requests -> Replies]
  /\ todo \in [Resets \cup {Reaper} -> SUBSET Creates]
  /\ overdue \subseteq Creates

Init ==
  /\ records = {} /\ overdue = {} /\ tombstones = <<>>
  /\ born = [s \in Creates |-> 0]
  /\ idle = [s \in Creates |-> 0]
  /\ timeout = [s \in Creates |-> IdleDefault]
  /\ closing = [s \in Creates |-> FALSE]
  /\ lock = [s \in Creates |-> None]
  /\ waiters = [s \in Creates |-> <<>>]
  /\ engine = [s \in Creates |-> "none"]
  /\ stats = [k \in Counters |-> 0]
  /\ pc = [t \in Tasks |-> IF t = Reaper THEN "asleep" ELSE "start"]
  /\ tgt = [t \in Tasks |-> None]
  /\ reply = [t \in Requests |-> "none"]
  /\ todo = [t \in Resets \cup {Reaper} |-> {}]

-----------------------------------------------------------------------------
(* Helpers shared by the coroutines. *)

\* Mutant: get() does not look at the closing flag.
LiveIfKnown(s) == s \in records

\* What get() returns and list() shows: a record that is not closing.
Live(s) == s \in records /\ ~closing[s]

Goto(t, place) == pc' = [pc EXCEPT ![t] = place]

\* A request answers.
Finish(t, answer) ==
  /\ Goto(t, "finished")
  /\ reply' = [reply EXCEPT ![t] = answer]

Count(counters) ==
  stats' = [k \in Counters |-> stats[k] + IF k \in counters THEN 1 ELSE 0]

CloseEngine(s) == engine' = [engine EXCEPT ![s] = "closed"]

\* The SessionGone that get() raises: "expired" iff the id has a tombstone.
Gone(s) == IF s \in Range(tombstones) THEN "expired" ELSE "unknown"

\* An id a client may send: some POST answered 201 with it.
Issued == {s \in Creates : reply[s] = "created"}

AtCap == Cardinality(records) >= MaxSessions

\* Mutant: a session somebody closes already is a candidate.
EvictableClosing(s) ==
  s \in records /\ lock[s] = None /\ idle[s] >= EvictWindow

Evictable(s) ==
  /\ Live(s)
  /\ lock[s] = None
  /\ idle[s] >= EvictWindow

\* The candidates with the least last_used_monotonic.  Sessions used in one
\* tick are ordered by a finer clock, so any of them may be the oldest.
OldestEvictable ==
  {s \in records : /\ Evictable(s)
                   /\ \A u \in records : Evictable(u) => idle[u] <= idle[s]}

EffectiveIdleTimeout(requested) ==
  IF requested = None THEN IdleDefault
  ELSE IF requested < IdleMin THEN IdleMin
  ELSE IF requested > IdleMax THEN IdleMax
  ELSE requested

\* The record of a snapshot that the dict holds first, as a singleton.
First(S) == {s \in S : \A u \in S : born[s] <= born[u]}

\* A sequence that holds e at most once, without e.
Without(q, e) ==
  IF e \in Range(q) THEN RemoveAt(q, CHOOSE i \in DOMAIN q : q[i] = e) ELSE q

\* Mutant: the oldest tombstone is never dropped.
TombstoneKeep(s) == tombstones' = Append(Without(tombstones, s), s)

\* An OrderedDict of at most TombstoneMax ids, the newest last.
TombstoneAdd(s) ==
  LET added == Append(Without(tombstones, s), s)
      surplus == Len(added) - TombstoneMax
  IN  tombstones' = IF surplus > 0 THEN SubSeq(added, surplus + 1, Len(added))
                                   ELSE added

Touch(s) ==
  /\ idle' = [idle EXCEPT ![s] = 0]
  /\ overdue' = overdue \ {s}

-----------------------------------------------------------------------------
(* asyncio.Lock, external: a task takes a lock at once only when nobody     *)
(* holds it and nobody waits; release() leaves it free for the first        *)
(* waiter, which takes it when the loop runs that waiter.                   *)

Free(s) == lock[s] = None /\ waiters[s] = <<>>

Take(t, s) ==
  /\ Free(s)
  /\ lock' = [lock EXCEPT ![s] = t]
  /\ Goto(t, "working")
  /\ UNCHANGED waiters

Enqueue(t, s) ==
  /\ ~Free(s)
  /\ waiters' = [waiters EXCEPT ![s] = Append(@, t)]
  /\ Goto(t, "waiting")
  /\ UNCHANGED lock

Release(s) == lock' = [lock EXCEPT ![s] = None]

\* What a task does on getting the lock, before its next await: DELETE marks
\* the record, an action is counted.
Enter(t) ==
  /\ closing' = IF t \in Deletes THEN [closing EXCEPT ![tgt[t]] = TRUE]
                                 ELSE closing
  /\ Count(IF t \in Actions THEN {"actions"} ELSE {})

-----------------------------------------------------------------------------
(* create() *)

StartEviction(c, v, place) ==
  /\ closing' = [closing EXCEPT ![v] = TRUE]
  /\ tgt' = [tgt EXCEPT ![c] = v]
  /\ Goto(c, place)

\* The new record, inserted beside those of `others`.
Insert(c, others) ==
  /\ records' = others \cup {c}
  /\ born' = [born EXCEPT ![c] = stats.created]
  /\ idle' = [idle EXCEPT ![c] = 0]
  /\ \E r \in Requested :
       timeout' = [timeout EXCEPT ![c] = EffectiveIdleTimeout(r)]
  /\ Finish(c, "created")
  /\ UNCHANGED tombstones

CreateAdmit(c) ==
  /\ pc[c] = "start" /\ ~AtCap
  /\ Goto(c, "launch")
  /\ UNCHANGED <<registry, locks, pass, engine, stats, tgt, reply>>

CreateReject(c) ==
  /\ pc[c] = "start" /\ AtCap /\ OldestEvictable = {}
  /\ Count({"rejected"})
  /\ Finish(c, "capacity")
  /\ UNCHANGED <<registry, locks, pass, engine, tgt>>

CreateEvict(c) ==
  /\ pc[c] = "start" /\ AtCap
  /\ \E v \in OldestEvictable : StartEviction(c, v, "evict1")
  /\ UNCHANGED <<registry, pass, lock, waiters, engine, stats, reply>>

\* Mutant: the eviction is not counted.
FirstVictimUncounted(c) ==
  /\ pc[c] = "evict1"
  /\ CloseEngine(tgt[c])
  /\ records' = records \ {tgt[c]}
  /\ Goto(c, "launch")
  /\ UNCHANGED <<locks, pass, born, timeout, idle, tombstones, stats, tgt,
                 reply>>

\* Mutant: the victim's record stays in the dict.
FirstVictimKept(c) ==
  /\ pc[c] = "evict1"
  /\ CloseEngine(tgt[c])
  /\ Count({"evicted"})
  /\ Goto(c, "launch")
  /\ UNCHANGED <<registry, locks, pass, tgt, reply>>

FirstVictimClosed(c) ==
  /\ pc[c] = "evict1"
  /\ CloseEngine(tgt[c])
  /\ records' = records \ {tgt[c]}
  /\ Count({"evicted"})
  /\ Goto(c, "launch")
  /\ UNCHANGED <<locks, pass, born, timeout, idle, tombstones, tgt, reply>>

\* new_session raises; create_session has no handler, so this is a 500.
LaunchFailed(c) ==
  /\ pc[c] = "launch"
  /\ Finish(c, "crash")
  /\ UNCHANGED <<registry, locks, pass, engine, stats, tgt>>

\* Mutant: no check of the cap after new_session.
LaunchUnchecked(c) ==
  /\ pc[c] = "launch"
  /\ engine' = [engine EXCEPT ![c] = "open"]
  /\ Insert(c, records)
  /\ Count({"created"})
  /\ UNCHANGED <<locks, pass, tgt>>

LaunchAdmit(c) ==
  /\ pc[c] = "launch" /\ ~AtCap
  /\ engine' = [engine EXCEPT ![c] = "open"]
  /\ Insert(c, records)
  /\ Count({"created"})
  /\ UNCHANGED <<locks, pass, tgt>>

LaunchSurplus(c) ==
  /\ pc[c] = "launch" /\ AtCap /\ OldestEvictable = {}
  /\ engine' = [engine EXCEPT ![c] = "open"]
  /\ Goto(c, "surplus")
  /\ UNCHANGED <<registry, locks, pass, stats, tgt, reply>>

\* Mutant: the surplus browser is not closed.
SurplusLeaked(c) ==
  /\ pc[c] = "surplus"
  /\ Count({"rejected"})
  /\ Finish(c, "capacity")
  /\ UNCHANGED <<registry, locks, pass, engine, tgt>>

SurplusClosed(c) ==
  /\ pc[c] = "surplus"
  /\ CloseEngine(c)
  /\ Count({"rejected"})
  /\ Finish(c, "capacity")
  /\ UNCHANGED <<registry, locks, pass, tgt>>

LaunchEvict(c) ==
  /\ pc[c] = "launch" /\ AtCap
  /\ engine' = [engine EXCEPT ![c] = "open"]
  /\ \E v \in OldestEvictable : StartEviction(c, v, "evict2")
  /\ UNCHANGED <<registry, pass, lock, waiters, stats, reply>>

\* The second eviction ends and the insert follows without another check.
SecondVictimClosed(c) ==
  /\ pc[c] = "evict2"
  /\ CloseEngine(tgt[c])
  /\ Insert(c, records \ {tgt[c]})
  /\ Count({"evicted", "created"})
  /\ UNCHANGED <<locks, pass, tgt>>

-----------------------------------------------------------------------------
(* _run_action, delete() and the status probe: get(), then the lock. *)

\* get() raises: the request answers 404.
NotLive(t) ==
  /\ pc[t] = "start"
  /\ \E s \in Issued : /\ ~Live(s)
                       /\ Finish(t, Gone(s))
                       /\ tgt' = [tgt EXCEPT ![t] = s]
  /\ UNCHANGED <<registry, locks, pass, engine, stats>>

\* get() returns; wait_for starts lock.acquire() as a task of its own, which
\* the loop runs later.
GetLive(t) ==
  /\ pc[t] = "start"
  /\ \E s \in Issued : Live(s) /\ tgt' = [tgt EXCEPT ![t] = s]
  /\ Goto(t, "acquire")
  /\ UNCHANGED <<registry, locks, pass, engine, stats, reply>>

TryLock(t) ==
  /\ pc[t] = "acquire"
  /\ \/ Take(t, tgt[t]) /\ Enter(t)
     \/ Enqueue(t, tgt[t]) /\ UNCHANGED <<closing, stats>>
  /\ UNCHANGED <<registry, pass, engine, tgt, reply>>

LockGranted(t) ==
  LET s == tgt[t] IN
  /\ pc[t] = "waiting"
  /\ lock[s] = None /\ waiters[s] # <<>> /\ Head(waiters[s]) = t
  /\ lock' = [lock EXCEPT ![s] = t]
  /\ waiters' = [waiters EXCEPT ![s] = Tail(@)]
  /\ Goto(t, "working")
  /\ Enter(t)
  /\ UNCHANGED <<registry, pass, engine, tgt, reply>>

\* Mutant: the request that timed out stays in the queue.
TimeoutStaysQueued(t) ==
  /\ pc[t] = "waiting"
  /\ Finish(t, "busy")
  /\ UNCHANGED <<registry, locks, pass, engine, stats, tgt>>

\* Mutant: the request that timed out goes on without the lock.
TimeoutIgnored(t) ==
  /\ pc[t] = "waiting"
  /\ waiters' = [waiters EXCEPT ![tgt[t]] = Without(@, t)]
  /\ Goto(t, "working")
  /\ UNCHANGED <<registry, pass, closing, lock, engine, stats, tgt, reply>>

\* Mutant: a DELETE that times out takes the mark of its session back.
TimeoutUnmarks(t) ==
  /\ pc[t] = "waiting"
  /\ waiters' = [waiters EXCEPT ![tgt[t]] = Without(@, t)]
  /\ closing' = IF t \in Deletes THEN [closing EXCEPT ![tgt[t]] = FALSE] ELSE closing
  /\ Finish(t, "busy")
  /\ UNCHANGED <<registry, pass, lock, engine, stats, tgt>>

\* lock_acquire_timeout_ms passed: 409.
LockTimeout(t) ==
  /\ pc[t] = "waiting"
  /\ waiters' = [waiters EXCEPT ![tgt[t]] = Without(@, t)]
  /\ Finish(t, "busy")
  /\ UNCHANGED <<registry, pass, closing, lock, engine, stats, tgt>>

\* Mutant: no `finally`, an engine call that fails keeps the lock.
ActionDoneHolding(t, outcome) ==
  /\ pc[t] = "working"
  /\ IF outcome \in {"ok", "notFound"} THEN Touch(tgt[t])
                                       ELSE UNCHANGED <<idle, overdue>>
  /\ Count(IF outcome = "fault" THEN {"errors"} ELSE {})
  /\ IF outcome = "ok" THEN Release(tgt[t]) ELSE UNCHANGED lock
  /\ Finish(t, outcome)
  /\ UNCHANGED <<records, born, timeout, tombstones, closing, waiters,
                 engine, tgt, todo>>

\* The engine coroutine ends: a result, an element not found (404), another
\* error mapped to a 4xx, or a fault mapped to a 5xx.
\* Whether its browser is still open restricts nothing here: the verb may have
\* completed before, and the log reads never ask the browser.
ActionDone(t, outcome) ==
  /\ pc[t] = "working"
  /\ IF outcome \in {"ok", "notFound"} THEN Touch(tgt[t])
                                       ELSE UNCHANGED <<idle, overdue>>
  /\ Count(IF outcome = "fault" THEN {"errors"} ELSE {})
  /\ Release(tgt[t])
  /\ Finish(t, outcome)
  /\ UNCHANGED <<records, born, timeout, tombstones, closing, waiters,
                 engine, tgt, todo>>

DeleteDone(t) ==
  LET s == tgt[t] IN
  /\ pc[t] = "working"
  /\ CloseEngine(s)
  /\ records' = records \ {s}
  /\ Count({"deleted"})
  /\ Release(s)
  /\ Finish(t, "deleted")
  /\ UNCHANGED <<pass, born, timeout, idle, tombstones, closing, waiters, tgt>>

\* The probe answers from the record when the lock is held.
ProbeCached(t) ==
  /\ pc[t] = "start"
  /\ \E s \in Issued : /\ Live(s) /\ lock[s] # None
                       /\ tgt' = [tgt EXCEPT ![t] = s]
  /\ Finish(t, "ok")
  /\ UNCHANGED <<registry, locks, pass, engine, stats>>

\* The lock is not held: `async with`, in the same step and with no timeout.
ProbeLock(t) ==
  /\ pc[t] = "start"
  /\ \E s \in Issued : /\ Live(s) /\ lock[s] = None
                       /\ tgt' = [tgt EXCEPT ![t] = s]
                       /\ Take(t, s) \/ Enqueue(t, s)
  /\ UNCHANGED <<registry, pass, closing, engine, stats, reply>>

\* Mutant: the probe stores its record, which it read before it waited.
ProbeStores(t) ==
  /\ pc[t] = "working"
  /\ records' = records \cup {tgt[t]}
  /\ Release(tgt[t])
  /\ Finish(t, "ok")
  /\ UNCHANGED <<born, timeout, idle, tombstones, pass, closing, waiters, engine,
                 stats, tgt>>

\* Every exception of current_url() is swallowed.  No touch.
ProbeDone(t) ==
  /\ pc[t] = "working"
  /\ Release(tgt[t])
  /\ Finish(t, "ok")
  /\ UNCHANGED <<registry, pass, closing, waiters, engine, stats, tgt>>

-----------------------------------------------------------------------------
(* reset_sessions *)

\* The loop body up to its await, for the first record of `rest`; the answer
\* when there is none.
ResetNext(r, rest) ==
  \/ /\ rest = {}
     /\ Finish(r, "purged")
     /\ UNCHANGED <<closing, tgt, todo>>
  \/ \E s \in First(rest) :
       /\ closing' = [closing EXCEPT ![s] = TRUE]
       /\ tgt' = [tgt EXCEPT ![r] = s]
       /\ todo' = [todo EXCEPT ![r] = rest \ {s}]
       /\ Goto(r, "purging")
       /\ UNCHANGED reply

ResetBegin(r) ==
  /\ pc[r] = "start"
  /\ ResetNext(r, records)
  /\ UNCHANGED <<registry, lock, waiters, engine, stats, overdue>>

ResetClosed(r) ==
  /\ pc[r] = "purging"
  /\ CloseEngine(tgt[r])
  /\ records' = records \ {tgt[r]}
  /\ Count({"deleted"})
  /\ ResetNext(r, todo[r])
  /\ UNCHANGED <<born, timeout, idle, tombstones, lock, waiters, overdue>>

-----------------------------------------------------------------------------
(* reap_pass *)

\* Mutant: the pass does not skip a closing record.
ReapableClosing(s, due) == s \in due /\ lock[s] = None

Reapable(s, due) == s \in due /\ ~closing[s] /\ lock[s] = None

\* The loop body up to its await, for the first record of `rest` it does not
\* skip; the end of the pass when there is none.
ReapNext(rest, due) ==
  LET ripe == {s \in rest : Reapable(s, due)} IN
  \/ /\ ripe = {}
     /\ Goto(Reaper, "asleep")
     /\ tgt' = [tgt EXCEPT ![Reaper] = None]
     /\ todo' = [todo EXCEPT ![Reaper] = {}]
     /\ overdue' = {}
     /\ UNCHANGED locks
  \/ \E s \in First(ripe) :
       /\ closing' = [closing EXCEPT ![s] = TRUE]
       /\ tgt' = [tgt EXCEPT ![Reaper] = s]
       /\ todo' = [todo EXCEPT ![Reaper] = {u \in rest : born[u] > born[s]}]
       /\ overdue' = due
       /\ Take(Reaper, s) \/ Enqueue(Reaper, s)

ReapBegin ==
  /\ pc[Reaper] = "asleep"
  /\ ReapNext(records, {s \in records : idle[s] > timeout[s]})
  /\ UNCHANGED <<registry, engine, stats, reply>>

\* The lock is not released: the reaper still holds it after the record is gone.
ReapClosed ==
  LET s == tgt[Reaper] IN
  /\ pc[Reaper] = "working"
  /\ CloseEngine(s)
  /\ records' = records \ {s}
  /\ TombstoneAdd(s)
  /\ Count({"reaped"})
  /\ ReapNext(todo[Reaper], overdue)
  /\ UNCHANGED <<born, timeout, idle, reply>>

Tick ==
  /\ \E s \in records : idle[s] < IdleCap
  /\ idle' = [s \in Creates |-> IF s \in records /\ idle[s] < IdleCap
                                THEN idle[s] + 1 ELSE idle[s]]
  /\ UNCHANGED <<locks, pass, records, born, timeout, tombstones, engine,
                 stats, pc, tgt, reply>>

-----------------------------------------------------------------------------
CreateStep(c) ==
  \/ CreateAdmit(c) \/ CreateReject(c) \/ CreateEvict(c)
  \/ FirstVictimClosed(c)
  \/ LaunchFailed(c) \/ LaunchAdmit(c) \/ LaunchSurplus(c) \/ LaunchEvict(c)
  \/ SurplusClosed(c) \/ SecondVictimClosed(c)

ActionStep(t) ==
  \/ NotLive(t) \/ GetLive(t) \/ TryLock(t) \/ LockGranted(t) \/ LockTimeout(t)
  \/ \E outcome \in {"ok", "notFound", "clientError", "fault"} :
       ActionDone(t, outcome)

DeleteStep(t) ==
  \/ NotLive(t) \/ GetLive(t) \/ TryLock(t) \/ LockGranted(t) \/ LockTimeout(t)
  \/ DeleteDone(t)

ProbeStep(t) ==
  \/ NotLive(t) \/ ProbeCached(t) \/ ProbeLock(t) \/ LockGranted(t)
  \/ ProbeDone(t)

ResetStep(r) == ResetBegin(r) \/ ResetClosed(r)

ReaperStep == ReapBegin \/ LockGranted(Reaper) \/ ReapClosed

Next ==
  \/ \E c \in Creates : CreateStep(c)
  \/ \E t \in Actions : ActionStep(t)
  \/ \E t \in Deletes : DeleteStep(t)
  \/ \E t \in Probes : ProbeStep(t)
  \/ \E r \in Resets : ResetStep(r)
  \/ ReaperStep
  \/ Tick

Spec == Init /\ [][Next]_vars

(* A request that has arrived is carried on by the event loop; the browser's *)
(* calls return (each has a timeout, the host cuts a request off at 120 s);  *)
(* the reaper's sleep ends and time passes.  Requests need not arrive.       *)
Fairness ==
  /\ \A c \in Creates : WF_vars(pc[c] # "start" /\ CreateStep(c))
  /\ \A t \in Actions : WF_vars(pc[t] # "start" /\ ActionStep(t))
  /\ \A t \in Deletes : WF_vars(pc[t] # "start" /\ DeleteStep(t))
  /\ \A t \in Probes : WF_vars(pc[t] # "start" /\ ProbeStep(t))
  /\ \A r \in Resets : WF_vars(pc[r] # "start" /\ ResetStep(r))
  /\ WF_vars(ReaperStep)
  /\ WF_vars(Tick)

FairSpec == Spec /\ Fairness

-----------------------------------------------------------------------------
(* Properties *)

\* Task t is between marking session s closing and removing its record.
Removing(t, s) ==
  /\ tgt[t] = s
  /\ \/ t \in Creates /\ pc[t] \in {"evict1", "evict2"}
     \/ t \in Deletes /\ pc[t] = "working"
     \/ t \in Resets /\ pc[t] = "purging"
     \/ t = Reaper /\ pc[t] \in {"waiting", "working"}

\* The registry never holds more than MAX_SESSIONS records.  True of creates,
\* actions, probes and the reaper in any order; a DELETE or a reset that frees
\* the slot a create is already evicting for breaks it (CapWithReset).
CapRespected == Cardinality(records) <= MaxSessions

\* What is left of the cap when they come: a slot too many is taken only for a
\* session that a DELETE or a reset removed, however many creates are between
\* their second eviction and their insertion.
OverrunBounded == Cardinality(records) <= MaxSessions + stats.deleted

\* Every session created is live or was counted in exactly one of the three
\* removal counters of GET /metrics.
CountersBalance ==
  stats.created =
    Cardinality(records) + stats.reaped + stats.deleted + stats.evicted

\* No session leaves the registry uncounted, whoever removes it.
NoUncountedRemoval ==
  stats.created <=
    Cardinality(records) + stats.reaped + stats.deleted + stats.evicted

\* Only `deleted` counts what was counted before: whatever a DELETE or a reset
\* removes under the hands of an evictor or the reaper, a session is evicted or
\* reaped once.
EvictedReapedOnce ==
  Cardinality(records) + stats.reaped + stats.evicted <= stats.created

\* Two evicting creates, or one and the reaper, never close one session: a slot
\* freed by an eviction is freed for one create.
VictimsDistinct ==
  \A t, u \in Creates \cup {Reaper} : \A s \in Creates :
    Removing(t, s) /\ Removing(u, s) => t = u

\* A record marked closing is invisible to get() and skipped by evictor and
\* reaper, so some task must still be about to remove it.
ClosingIsOwned ==
  \A s \in records : closing[s] => \E t \in Tasks : Removing(t, s)

\* No browser outlives its session, and a session that get() still returns
\* has its browser.
BrowsersMatchRecords ==
  /\ \A s \in Creates :
       engine[s] = "open" => s \in records \/ pc[s] \in {"surplus", "evict2"}
  /\ \A s \in records : ~closing[s] => engine[s] = "open"

\* A lock is held by a task that is using it and will release it, except the
\* lock of a session the reaper removed, which is never released.
LockSound ==
  \A s \in Creates :
    /\ lock[s] \in Requests => pc[lock[s]] = "working" /\ tgt[lock[s]] = s
    /\ lock[s] = Reaper => \/ pc[Reaper] = "working" /\ tgt[Reaper] = s
                           \/ s \notin records

\* One task at a time works on a session: a task past its lock acquisition
\* holds the lock, whatever timed out or was handed over before.
WorkUnderLock ==
  \A t \in Tasks : pc[t] = "working" => lock[tgt[t]] = t

\* The queue of a lock is made of the tasks that wait for it, each once, so a
\* timed-out request is never handed the lock.
QueueSound ==
  \A s \in Creates :
    /\ Range(waiters[s]) = {t \in Tasks : pc[t] = "waiting" /\ tgt[t] = s}
    /\ IsInjective(waiters[s])

\* A status probe has no timeout and the reaper never releases a lock, so a
\* probe must never queue behind the reaper.
NoProbeBehindReaper ==
  \A s \in Creates : Range(waiters[s]) \cap Probes # {} =>
    /\ lock[s] # Reaper
    /\ \A i, j \in DOMAIN waiters[s] :
         waiters[s][i] = Reaper /\ waiters[s][j] \in Probes => j < i

\* Tombstones are of sessions that are gone, each once, at most TOMBSTONE_MAX.
TombstonesSound ==
  /\ Range(tombstones) \cap records = {}
  /\ IsInjective(tombstones)
  /\ Len(tombstones) <= TombstoneMax

\* What answered 404 to one request is never served to a later one: not while
\* requests that found it still wait for its lock and give up, and not after two
\* tasks have removed it one after the other.
GoneForGood ==
  \A t \in Actions \cup Deletes \cup Probes :
    reply[t] \in {"unknown", "expired"} => ~Live(tgt[t])

\* Every request that arrives is answered, probes behind a lock included.
RequestsAnswered ==
  \A t \in Requests : pc[t] # "start" ~> pc[t] = "finished"

\* A session idle past its timeout is removed unless it is used again.
OverdueReaped ==
  \A s \in Creates : s \in records /\ idle[s] > timeout[s]
                       ~> s \notin records \/ idle[s] <= timeout[s]
=============================================================================
