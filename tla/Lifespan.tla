------------------------------- MODULE Lifespan -------------------------------
(***************************************************************************)
(* The registry of SessionManager when coroutines do not reach their end:  *)
(* a request that is cancelled while it is suspended (its client is gone,  *)
(* or the host's limit for one request is over), and the lifespan of the   *)
(* application, which at shutdown cancels the reaper, closes every session *)
(* and stops Playwright.  CancelledError is no Exception: it passes every  *)
(* suppress(Exception), and what runs after it is what `finally` says.     *)
(***************************************************************************)
EXTENDS SessionManager

CONSTANT MaxCancels  \* bound: requests that are cancelled

ASSUME MaxCancelsAssumption == MaxCancels \in Nat

VARIABLES
  phase,      \* "up", "draining" in close_all, "drained" after it, "stopped"
  cancelled,  \* the tasks that were cancelled
  left        \* what is left of the snapshot close_all iterates

lifespan == <<phase, cancelled, left>>
allVars == <<vars, lifespan>>

LifeInit == Init /\ phase = "up" /\ cancelled = {} /\ left = {}

-----------------------------------------------------------------------------
(* Cancelled requests *)

\* The cancelled close of a browser: it may have been closed already.
CloseCut(s) == engine' = engine \/ CloseEngine(s)

\* Nobody reads the answer of a cancelled request.
Cut(t) ==
  /\ phase = "up" /\ Cardinality(cancelled) < MaxCancels
  /\ cancelled' = cancelled \cup {t}
  /\ Goto(t, "finished")
  /\ UNCHANGED <<phase, left, reply, tgt>>

\* _evict_one: the victim stays in the dict, marked closing.  A browser that
\* was launched before the second eviction is not closed.
CutEviction(c) ==
  /\ pc[c] \in {"evict1", "evict2"}
  /\ Cut(c)
  /\ CloseCut(tgt[c])
  /\ UNCHANGED <<registry, locks, pass, stats>>

\* new_session closes what it launched (BrowserProcesses has its steps).
CutLaunch(c) ==
  /\ pc[c] = "launch"
  /\ Cut(c)
  /\ UNCHANGED <<registry, locks, pass, stats, engine>>

CutSurplus(c) ==
  /\ pc[c] = "surplus"
  /\ Cut(c)
  /\ CloseCut(c)
  /\ UNCHANGED <<registry, locks, pass, stats>>

\* A waiter leaves the queue of the lock.
CutWait(t) ==
  /\ t \in Actions \cup Deletes \cup Probes
  /\ pc[t] \in {"acquire", "waiting"}
  /\ Cut(t)
  /\ waiters' = [waiters EXCEPT ![tgt[t]] = Without(@, t)]
  /\ UNCHANGED <<registry, pass, closing, lock, stats, engine>>

\* Mutant: the lock is released only when the engine call has ended.
CutWorkLocked(t) ==
  /\ t \in Actions \cup Probes /\ pc[t] = "working"
  /\ Cut(t)
  /\ UNCHANGED <<registry, pass, locks, stats, engine>>

\* `finally` and `async with` release; the idle clock is not touched.
CutWork(t) ==
  /\ t \in Actions \cup Probes /\ pc[t] = "working"
  /\ Cut(t)
  /\ Release(tgt[t])
  /\ UNCHANGED <<registry, pass, closing, waiters, stats, engine>>

\* Mutant: DELETE removes and releases only when the close has ended.
CutDeleteBare(d) ==
  /\ d \in Deletes /\ pc[d] = "working"
  /\ Cut(d)
  /\ CloseCut(tgt[d])
  /\ UNCHANGED <<registry, pass, locks, stats>>

\* Mutant: DELETE counts only when the close has ended.
CutDeleteUncounted(d) ==
  LET s == tgt[d] IN
  /\ d \in Deletes /\ pc[d] = "working"
  /\ Cut(d)
  /\ CloseCut(s)
  /\ records' = records \ {s}
  /\ Release(s)
  /\ UNCHANGED <<pass, born, timeout, idle, tombstones, closing, waiters, stats>>

\* `finally` removes and counts the session, whose browser may still run.
CutDelete(d) ==
  LET s == tgt[d] IN
  /\ d \in Deletes /\ pc[d] = "working"
  /\ Cut(d)
  /\ CloseCut(s)
  /\ records' = records \ {s}
  /\ Count({"deleted"})
  /\ Release(s)
  /\ UNCHANGED <<pass, born, timeout, idle, tombstones, closing, waiters>>

CutReset(r) ==
  /\ pc[r] = "purging"
  /\ Cut(r)
  /\ CloseCut(tgt[r])
  /\ UNCHANGED <<registry, locks, pass, stats>>

-----------------------------------------------------------------------------
(* lifespan: the server has answered every request before it gets here. *)

\* Mutant: close_all goes through the sessions that list() shows.
ShutdownLive ==
  /\ phase = "up"
  /\ \A t \in Requests : pc[t] \in {"start", "finished"}
  /\ phase' = "draining"
  /\ cancelled' = cancelled \cup {Reaper}
  /\ Goto(Reaper, "finished")
  /\ left' = {s \in records : Live(s)}
  /\ waiters' = [s \in Creates |-> Without(waiters[s], Reaper)]
  /\ IF pc[Reaper] = "working" THEN CloseCut(tgt[Reaper]) ELSE UNCHANGED engine
  /\ UNCHANGED <<registry, pass, closing, lock, stats, tgt, reply>>

\* The reaper is cancelled where it is suspended, in the sleep, in the queue of
\* a lock or in a close, and close_all takes its snapshot.
Shutdown ==
  /\ phase = "up"
  /\ \A t \in Requests : pc[t] \in {"start", "finished"}
  /\ phase' = "draining"
  /\ cancelled' = cancelled \cup {Reaper}
  /\ Goto(Reaper, "finished")
  /\ left' = records
  /\ waiters' = [s \in Creates |-> Without(waiters[s], Reaper)]
  /\ IF pc[Reaper] = "working" THEN CloseCut(tgt[Reaper]) ELSE UNCHANGED engine
  /\ UNCHANGED <<registry, pass, closing, lock, stats, tgt, reply>>

CloseAllNext ==
  /\ phase = "draining"
  /\ \E s \in First(left) : CloseEngine(s) /\ left' = left \ {s}
  /\ UNCHANGED <<registry, locks, pass, stats, pc, tgt, reply, phase, cancelled>>

CloseAllEnds ==
  /\ phase = "draining" /\ left = {}
  /\ phase' = "drained"
  /\ records' = {}
  /\ UNCHANGED <<born, timeout, idle, tombstones, locks, pass, engine, stats, pc,
                 tgt, reply, cancelled, left>>

\* Engine.close: whatever chromium still runs ends with the driver.
EngineClose ==
  /\ phase = "drained"
  /\ phase' = "stopped"
  /\ engine' = [s \in Creates |-> IF engine[s] = "open" THEN "closed" ELSE engine[s]]
  /\ UNCHANGED <<registry, locks, pass, stats, pc, tgt, reply, cancelled, left>>

Cancellation ==
  \/ \E c \in Creates : CutEviction(c) \/ CutLaunch(c) \/ CutSurplus(c)
  \/ \E t \in Actions \cup Deletes \cup Probes : CutWait(t) \/ CutWork(t)
  \/ \E d \in Deletes : CutDelete(d)
  \/ \E r \in Resets : CutReset(r)

Teardown == Shutdown \/ CloseAllNext \/ CloseAllEnds \/ EngineClose

LifeNext ==
  \/ phase = "up" /\ Next /\ UNCHANGED lifespan
  \/ Cancellation
  \/ Teardown

LifeSpec == LifeInit /\ [][LifeNext]_allVars

-----------------------------------------------------------------------------
(* Properties *)

\* A cancelled request keeps no lock and no place in a queue, so its session can
\* be used, deleted and reaped after it.  It leaves a record closing, with nobody
\* to remove it, only as a create that was evicting or a reset: no other request
\* strands a session, a DELETE with its browser half closed included.
CancelledLetGo ==
  /\ \A t \in cancelled \cap Requests : \A s \in Creates :
       lock[s] # t /\ t \notin Range(waiters[s])
  /\ phase = "up" =>
       \A s \in records : closing[s] =>
         \/ \E t \in Tasks : Removing(t, s)
         \/ \E t \in cancelled \cap (Creates \cup Resets) : tgt[t] = s

\* Before Playwright is stopped close_all has closed every browser, those the
\* evictor, a reset or the reaper left half closed among them, but for those no
\* record leads to: the launch of a create cancelled afterwards, and what a
\* cancelled DELETE removed.
DrainedMeansClosed ==
  phase = "drained" =>
    \A s \in Creates : engine[s] = "open" =>
      s \in cancelled \/ \E d \in cancelled \cap Deletes : tgt[d] = s
=============================================================================
