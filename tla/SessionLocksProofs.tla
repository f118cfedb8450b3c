-------------------------- MODULE SessionLocksProofs --------------------------
(* The locks, their queues, the closing marks, the browsers and the 404s of   *)
(* SessionManager, with every kind of request in any number, and what is left *)
(* of them by the requests that are cut off and by the shutdown of Lifespan.  *)
EXTENDS SessionManagerProofs, Lifespan

-----------------------------------------------------------------------------
(* Leaving a queue. *)

\* What it is to leave a queue.
Left(q, t, r) ==
  /\ IsInjective(r) /\ Range(r) = Range(q) \ {t}
  /\ \A i, j \in DOMAIN r : \E k, l \in DOMAIN q :
       q[k] = r[i] /\ q[l] = r[j] /\ (k < l => i < j)

\* A sequence without its p-th element has no repetitions if it had none, and
\* keeps the order of the others.
LEMMA Skip ==
  ASSUME NEW S, NEW q \in Seq(S), IsInjective(q), NEW p \in 1..Len(q),
         NEW r \in Seq(S), Len(r) = Len(q) - 1,
         \A i \in 1..Len(r) : r[i] = IF i < p THEN q[i] ELSE q[i + 1]
  PROVE  Left(q, q[p], r)
<1> DEFINE n == Len(q)
           at(i) == IF i < p THEN i ELSE i + 1
<1>1. n \in Nat /\ DOMAIN q = 1..n /\ Len(r) = n - 1 /\ DOMAIN r = 1..n - 1
  OBVIOUS
<1>2. \A i \in 1..n - 1 : at(i) \in 1..n /\ at(i) # p /\ r[i] = q[at(i)]
  BY <1>1
<1>3. \A i, j \in 1..n - 1 : (at(i) = at(j) => i = j) /\ (at(i) < at(j) => i < j)
  BY <1>1
<1>4. \A k \in 1..n : k # p => \E i \in 1..n - 1 : at(i) = k
  <2> TAKE k \in 1..n
  <2>1. CASE k < p
    BY <1>1, <2>1
  <2>2. CASE k > p
    <3>1. k - 1 \in 1..n - 1 /\ at(k - 1) = k
      BY <1>1, <2>2
    <3> QED BY <3>1
  <2> QED BY <1>1, <2>1, <2>2
<1>5. \A k, l \in 1..n : q[k] = q[l] => k = l
  BY <1>1 DEF IsInjective
<1> HIDE DEF at, n
<1>6. IsInjective(r)
  BY <1>1, <1>2, <1>3, <1>5 DEF IsInjective
<1>7. \A e : e \in Range(r) <=> e \in Range(q) \ {q[p]}
  <2>1. ASSUME NEW i \in 1..n - 1 PROVE r[i] \in Range(q) /\ r[i] # q[p]
    BY <1>1, <1>2, <1>5 DEF Range, n
  <2>2. ASSUME NEW k \in 1..n, q[k] # q[p] PROVE q[k] \in Range(r)
    <3>1. PICK i \in 1..n - 1 : at(i) = k
      BY <1>4, <2>2
    <3> QED BY <1>1, <1>2, <3>1 DEF Range
  <2> QED BY <1>1, <2>1, <2>2 DEF Range
<1>8. Range(r) = Range(q) \ {q[p]}
  BY <1>7
<1>9. ASSUME NEW i \in DOMAIN r, NEW j \in DOMAIN r
      PROVE  \E k, l \in DOMAIN q :
               q[k] = r[i] /\ q[l] = r[j] /\ (k < l => i < j)
  BY <1>1, <1>2, <1>3
<1> QED BY <1>6, <1>8, <1>9 DEF Left

\* The waiter that is served leaves, and so does one that times out.
LEMMA Leaving ==
  ASSUME NEW S, NEW q \in Seq(S), IsInjective(q), NEW t \in Range(q)
  PROVE  Left(q, t, Without(q, t)) /\ (Head(q) = t => Left(q, t, Tail(q)))
<1> DEFINE p == CHOOSE i \in DOMAIN q : q[i] = t
<1>1. \E i \in DOMAIN q : q[i] = t
  BY DEF Range
<1>2. p \in DOMAIN q /\ q[p] = t
  BY <1>1
<1>3. Without(q, t) = RemoveAt(q, p)
  BY DEF Without
<1> HIDE DEF p
<1>4. p \in 1..Len(q) /\ Len(q) \in Nat
  BY <1>2
<1>5. Left(q, t, RemoveAt(q, p))
  <2> DEFINE a == SubSeq(q, 1, p - 1)
             b == SubSeq(q, p + 1, Len(q))
  <2>1. /\ a \in Seq(S) /\ Len(a) = p - 1 /\ \A i \in 1..p - 1 : a[i] = q[i]
        /\ b \in Seq(S) /\ Len(b) = Len(q) - p
        /\ \A i \in 1..Len(q) - p : b[i] = q[p + i]
    BY <1>4, SubSeqProperties
  <2> HIDE DEF a, b
  <2>2. /\ a \o b \in Seq(S) /\ Len(a \o b) = Len(q) - 1
        /\ \A i \in 1..Len(q) - 1 :
             (a \o b)[i] = IF i < p THEN q[i] ELSE q[i + 1]
    <3>1. /\ a \o b \in Seq(S) /\ Len(a \o b) = Len(a) + Len(b)
          /\ \A i \in 1..Len(a) + Len(b) :
               (a \o b)[i] = IF i <= Len(a) THEN a[i] ELSE b[i - Len(a)]
      BY <2>1, ConcatProperties
    <3>2. Len(a) + Len(b) = Len(q) - 1
      BY <1>4, <2>1
    <3>3. ASSUME NEW i \in 1..Len(q) - 1
          PROVE  (a \o b)[i] = IF i < p THEN q[i] ELSE q[i + 1]
      <4>1. (a \o b)[i] = IF i <= p - 1 THEN a[i] ELSE b[i - (p - 1)]
        BY <2>1, <3>1, <3>2
      <4>2. CASE i < p
        BY <1>4, <2>1, <4>1, <4>2
      <4>3. CASE ~(i < p)
        <5>1. i - (p - 1) \in 1..Len(q) - p /\ p + (i - (p - 1)) = i + 1
          BY <1>4, <4>3
        <5>2. ~(i <= p - 1)
          BY <1>4, <4>3
        <5> QED BY <2>1, <4>1, <4>3, <5>1, <5>2
      <4> QED BY <4>2, <4>3
    <3> QED BY <3>1, <3>2, <3>3
  <2>3. RemoveAt(q, p) = a \o b
    BY DEF RemoveAt, a, b
  <2> DEFINE r == a \o b
  <2>4. /\ r \in Seq(S) /\ Len(r) = Len(q) - 1
        /\ \A i \in 1..Len(r) : r[i] = IF i < p THEN q[i] ELSE q[i + 1]
    BY <2>2
  <2> HIDE DEF r
  <2>5. Left(q, q[p], r)
    BY <1>4, <2>4, Skip
  <2> QED BY <1>2, <2>3, <2>5 DEF r
<1>6. ASSUME Head(q) = t PROVE Left(q, t, Tail(q))
  <2>1. q # <<>> /\ 1 \in 1..Len(q) /\ q[1] = t
    BY <1>4, <1>6
  <2>2. /\ Tail(q) \in Seq(S) /\ Len(Tail(q)) = Len(q) - 1
        /\ \A i \in 1..Len(q) - 1 : Tail(q)[i] = q[i + 1]
    BY <2>1, HeadTailProperties
  <2>3. \A i \in 1..Len(Tail(q)) : Tail(q)[i] = IF i < 1 THEN q[i] ELSE q[i + 1]
    BY <1>4, <2>2
  <2> DEFINE r == Tail(q)
  <2>4. /\ r \in Seq(S) /\ Len(r) = Len(q) - 1
        /\ \A i \in 1..Len(r) : r[i] = IF i < 1 THEN q[i] ELSE q[i + 1]
    BY <2>2, <2>3
  <2> HIDE DEF r
  <2>5. Left(q, q[1], r)
    BY <2>1, <2>4, Skip
  <2> QED BY <2>1, <2>5 DEF r
<1> QED BY <1>3, <1>5, <1>6

-----------------------------------------------------------------------------
(* What a step does to a lock and its queue. *)

\* The locks are left alone, by a task that has none; the reaper has one that
\* it never gives back.
Passes(t) ==
  /\ lock' = lock /\ waiters' = waiters
  /\ pc[t] # "waiting" /\ (pc[t] = "working" => t = Reaper)
  /\ pc'[t] \notin {"waiting", "working"}

\* A lock nobody holds or waits for is taken.
Takes(t) ==
  /\ Free(tgt'[t])
  /\ lock' = [lock EXCEPT ![tgt'[t]] = t] /\ waiters' = waiters
  /\ pc[t] # "waiting" /\ (pc[t] = "working" => t = Reaper)
  /\ pc'[t] = "working"

\* A task joins the queue; a probe only that of a live session.
Joins(t) ==
  /\ ~Free(tgt'[t])
  /\ lock' = lock
  /\ waiters' = [waiters EXCEPT ![tgt'[t]] = Append(@, t)]
  /\ pc[t] # "waiting" /\ (pc[t] = "working" => t = Reaper)
  /\ pc'[t] = "waiting"
  /\ t \in Probes => ~closing[tgt'[t]]

\* The first waiter is served.
Served(t) ==
  /\ tgt'[t] = tgt[t] /\ lock[tgt[t]] = None /\ Head(waiters[tgt[t]]) = t
  /\ lock' = [lock EXCEPT ![tgt[t]] = t]
  /\ waiters' = [waiters EXCEPT ![tgt[t]] = Tail(@)]
  /\ pc[t] = "waiting" /\ pc'[t] = "working"

\* A waiter other than the reaper gives up.
GivesUp(t) ==
  /\ t # Reaper
  /\ lock' = lock
  /\ waiters' = [waiters EXCEPT ![tgt[t]] = Without(@, t)]
  /\ pc[t] = "waiting" /\ pc'[t] = "finished"

\* The holder of a lock gives it back.
GivesBack(t) ==
  /\ t # Reaper
  /\ lock' = [lock EXCEPT ![tgt[t]] = None] /\ waiters' = waiters
  /\ pc[t] = "working" /\ pc'[t] = "finished"

LockMove(t) ==
  Passes(t) \/ Takes(t) \/ Joins(t) \/ Served(t) \/ GivesUp(t) \/ GivesBack(t)

\* Every other task stays where it is.
Alone(t) == \A u \in Tasks : u # t => pc'[u] = pc[u] /\ tgt'[u] = tgt[u]

\* Every step of every task moves a lock in one of these ways.
LEMMA LockMoves ==
  ASSUME Typed, NEW t \in Tasks, TaskStep(t)
  PROVE  LockMove(t)
<1> USE Kinds DEF Typed, TypeOK, Goto, Finish
<1>1. CASE t \in Creates /\ CreateStep(t)
  <2>1. Passes(t)
    BY <1>1 DEF Passes, CreateStep, CreateAdmit, CreateReject, CreateEvict,
       StartEviction, FirstVictimClosed, LaunchFailed, LaunchAdmit,
       LaunchSurplus, LaunchEvict, SurplusClosed, SecondVictimClosed, Insert,
       locks
  <2> QED BY <2>1 DEF LockMove
<1>2. CASE LockGranted(t)
  <2>1. Served(t)
    BY <1>2 DEF LockGranted, Served
  <2> QED BY <2>1 DEF LockMove
<1>3. CASE NotLive(t) \/ GetLive(t) \/ ProbeCached(t)
  <2>1. Passes(t)
    BY <1>3 DEF Passes, NotLive, GetLive, ProbeCached, locks
  <2> QED BY <2>1 DEF LockMove
<1>4. CASE TryLock(t) /\ t \notin Probes
  <2>1. tgt' = tgt /\ pc[t] = "acquire"
    BY <1>4 DEF TryLock
  <2>2. CASE Take(t, tgt[t])
    <3>1. Takes(t)
      BY <2>1, <2>2 DEF Take, Takes, Free
    <3> QED BY <3>1 DEF LockMove
  <2>3. CASE Enqueue(t, tgt[t])
    <3>1. Joins(t)
      BY <1>4, <2>1, <2>3 DEF Enqueue, Joins, Free
    <3> QED BY <3>1 DEF LockMove
  <2> QED BY <1>4, <2>2, <2>3 DEF TryLock
<1>5. CASE ProbeLock(t)
  <2>1. PICK s \in Issued : /\ Live(s) /\ tgt' = [tgt EXCEPT ![t] = s]
                            /\ Take(t, s) \/ Enqueue(t, s)
    BY <1>5 DEF ProbeLock
  <2>2. tgt'[t] = s /\ ~closing[s] /\ pc[t] = "start"
    BY <1>5, <2>1 DEF ProbeLock, Live
  <2>3. CASE Take(t, s)
    <3>1. Takes(t)
      BY <2>2, <2>3 DEF Take, Takes, Free
    <3> QED BY <3>1 DEF LockMove
  <2>4. CASE Enqueue(t, s)
    <3>1. Joins(t)
      BY <2>2, <2>4 DEF Enqueue, Joins, Free
    <3> QED BY <3>1 DEF LockMove
  <2> QED BY <2>1, <2>3, <2>4
<1>6. CASE LockTimeout(t) /\ t \in Actions \cup Deletes
  <2>1. GivesUp(t)
    BY <1>6, DistinctTasks DEF LockTimeout, GivesUp
  <2> QED BY <2>1 DEF LockMove
<1>7. CASE /\ t \in Requests
           /\ \/ DeleteDone(t) \/ ProbeDone(t)
              \/ \E outcome \in {"ok", "notFound", "clientError", "fault"} :
                   ActionDone(t, outcome)
  <2>1. GivesBack(t)
    BY <1>7 DEF DeleteDone, ProbeDone, ActionDone, GivesBack, Release
  <2> QED BY <2>1 DEF LockMove
<1>8. CASE \/ t \in Actions /\ ActionStep(t)
           \/ t \in Deletes /\ DeleteStep(t)
           \/ t \in Probes /\ ProbeStep(t)
  BY <1>2, <1>3, <1>4, <1>5, <1>6, <1>7, <1>8, DistinctTasks
     DEF ActionStep, DeleteStep, ProbeStep
<1>9. CASE t \in Resets /\ ResetStep(t)
  <2>1. ASSUME NEW rest, ResetNext(t, rest)
        PROVE  pc'[t] \notin {"waiting", "working"}
    <3>1. Goto(t, "finished") \/ Goto(t, "purging")
      BY <2>1, Zenon DEF ResetNext, Finish
    <3> QED BY <1>9, <3>1
  <2>2. Passes(t)
    BY <1>9, <2>1 DEF Passes, ResetStep, ResetBegin, ResetClosed
  <2> QED BY <2>2 DEF LockMove
<1>10. CASE t = Reaper /\ ReaperStep
  <2>1. ASSUME NEW rest, NEW due, ReapNext(rest, due),
               rest \subseteq Creates, pc[Reaper] # "waiting"
        PROVE  LockMove(t)
    <3>1. CASE Goto(Reaper, "asleep") /\ UNCHANGED locks
      <4>1. Passes(t)
        BY <1>10, <2>1, <3>1 DEF Passes, locks
      <4> QED BY <4>1 DEF LockMove
    <3>2. ASSUME NEW s \in Creates, tgt' = [tgt EXCEPT ![Reaper] = s],
                 Take(Reaper, s)
          PROVE  LockMove(t)
      <4>1. Takes(t)
        BY <1>10, <2>1, <3>2 DEF Take, Takes, Free
      <4> QED BY <4>1 DEF LockMove
    <3>3. ASSUME NEW s \in Creates, tgt' = [tgt EXCEPT ![Reaper] = s],
                 Enqueue(Reaper, s)
          PROVE  LockMove(t)
      <4>1. Joins(t)
        BY <1>10, <2>1, <3>3 DEF Enqueue, Joins, Free
      <4> QED BY <4>1 DEF LockMove
    <3> QED BY <2>1, <3>1, <3>2, <3>3 DEF ReapNext, First
  <2> QED BY <1>2, <1>10, <2>1 DEF ReaperStep, ReapBegin, ReapClosed
<1> QED BY <1>1, <1>8, <1>9, <1>10 DEF TaskStep

-----------------------------------------------------------------------------
(* The queues and the locks. *)

\* Joining a queue keeps the order, at the end.
LEMMA Joining ==
  ASSUME NEW S, NEW q \in Seq(S), IsInjective(q), NEW t \in S, t \notin Range(q)
  PROVE  /\ IsInjective(Append(q, t)) /\ Range(Append(q, t)) = Range(q) \cup {t}
         /\ DOMAIN Append(q, t) = 1..Len(q) + 1 /\ Len(q) \in Nat
         /\ DOMAIN q = 1..Len(q)
         /\ \A i \in 1..Len(q) : Append(q, t)[i] = q[i]
         /\ Append(q, t)[Len(q) + 1] = t
<1> DEFINE r == Append(q, t)
           n == Len(q)
<1>1. /\ n \in Nat /\ DOMAIN q = 1..n /\ DOMAIN r = 1..n + 1
      /\ \A i \in 1..n : r[i] = q[i] /\ i \in 1..n + 1
      /\ r[n + 1] = t /\ n + 1 \in 1..n + 1
      /\ \A i \in 1..n + 1 : i \in 1..n \/ i = n + 1
  BY AppendProperties
<1> HIDE DEF r, n
<1>2. /\ \A i \in 1..n : q[i] \in Range(q) /\ q[i] # t
      /\ \A i, j \in 1..n : q[i] = q[j] => i = j
  BY <1>1 DEF IsInjective, Range
<1>3. IsInjective(r)
  BY <1>1, <1>2 DEF IsInjective
<1>4. \A e : e \in Range(r) <=> e \in Range(q) \cup {t}
  BY <1>1 DEF Range
<1>5. Range(r) = Range(q) \cup {t}
  BY <1>4
<1> QED BY <1>1, <1>3, <1>5 DEF r, n

\* Who waits for a lock, as QueueSound has it.
WaitersOf(s) == {t \in Tasks : pc[t] = "waiting" /\ tgt[t] = s}

\* Whoever joins, is served or gives up, the queue stays that of the waiters.
LEMMA QueueMove ==
  ASSUME Typed, Placement', QueueSound, NEW t \in Tasks, LockMove(t), Alone(t)
  PROVE  QueueSound'
<1> SUFFICES ASSUME NEW s \in Creates
             PROVE  Range(waiters'[s]) = WaitersOf(s)' /\ IsInjective(waiters'[s])
  BY DEF QueueSound, WaitersOf
<1>1. /\ \A v \in Creates : Range(waiters[v]) = WaitersOf(v) /\ IsInjective(waiters[v])
      /\ waiters \in [Creates -> Seq(Tasks)]
  BY DEF QueueSound, WaitersOf, Typed, TypeOK
<1>2. \A u \in Tasks : u # t => (u \in WaitersOf(s)' <=> u \in WaitersOf(s))
  BY DEF Alone, WaitersOf
<1>3. /\ t \in WaitersOf(s) <=> pc[t] = "waiting" /\ tgt[t] = s
      /\ t \in WaitersOf(s)' <=> pc'[t] = "waiting" /\ tgt'[t] = s
      /\ WaitersOf(s) \subseteq Tasks /\ WaitersOf(s)' \subseteq Tasks
  BY DEF WaitersOf
<1>4. /\ pc[t] = "waiting" => tgt[t] \in Creates
      /\ pc'[t] = "waiting" => tgt'[t] \in Creates
  BY DEF Typed, Placement, Targeted
<1>5. CASE Passes(t) \/ Takes(t) \/ GivesBack(t)
  <2>1. WaitersOf(s)' = WaitersOf(s) /\ waiters' = waiters
    BY <1>2, <1>3, <1>5 DEF Passes, Takes, GivesBack
  <2> QED BY <1>1, <2>1
<1>6. CASE Joins(t)
  <2>1. CASE tgt'[t] = s
    <3>1. t \notin WaitersOf(s) /\ t \in WaitersOf(s)'
      BY <1>3, <1>6, <2>1 DEF Joins
    <3>2. waiters'[s] = Append(waiters[s], t)
      BY <1>1, <1>6, <2>1 DEF Joins
    <3>3. WaitersOf(s)' = WaitersOf(s) \cup {t}
      BY <1>2, <1>3, <3>1
    <3>4. waiters[s] \in Seq(Tasks) /\ t \notin Range(waiters[s])
      BY <1>1, <3>1
    <3>5. /\ IsInjective(Append(waiters[s], t))
          /\ Range(Append(waiters[s], t)) = Range(waiters[s]) \cup {t}
      BY <1>1, <3>4, Joining
    <3> QED BY <1>1, <3>2, <3>3, <3>5
  <2>2. CASE tgt'[t] # s
    <3>1. waiters'[s] = waiters[s]
      BY <1>1, <1>6, <2>2 DEF Joins
    <3>2. t \notin WaitersOf(s) /\ t \notin WaitersOf(s)'
      BY <1>3, <1>6, <2>2 DEF Joins
    <3>3. WaitersOf(s)' = WaitersOf(s)
      BY <1>2, <1>3, <3>2
    <3> QED BY <1>1, <3>1, <3>3
  <2> QED BY <2>1, <2>2
<1>7. CASE Served(t) \/ GivesUp(t)
  <2>1. CASE tgt[t] = s
    <3>1. t \in WaitersOf(s) /\ t \notin WaitersOf(s)'
      BY <1>3, <1>7, <2>1 DEF Served, GivesUp
    <3>2. WaitersOf(s)' = WaitersOf(s) \ {t}
      BY <1>2, <1>3, <3>1
    <3>3. /\ waiters[s] \in Seq(Tasks) /\ IsInjective(waiters[s])
          /\ t \in Range(waiters[s]) /\ Range(waiters[s]) = WaitersOf(s)
      BY <1>1, <3>1
    <3>4. \/ waiters'[s] = Without(waiters[s], t)
          \/ waiters'[s] = Tail(waiters[s]) /\ Head(waiters[s]) = t
      BY <1>1, <1>7, <2>1 DEF Served, GivesUp
    <3>5. Left(waiters[s], t, waiters'[s])
      BY <3>3, <3>4, Leaving
    <3>6. IsInjective(waiters'[s]) /\ Range(waiters'[s]) = Range(waiters[s]) \ {t}
      BY <3>5 DEF Left
    <3> QED BY <3>2, <3>3, <3>6
  <2>2. CASE tgt[t] # s
    <3>1. waiters'[s] = waiters[s]
      BY <1>1, <1>7, <2>2 DEF Served, GivesUp
    <3>2. t \notin WaitersOf(s) /\ t \notin WaitersOf(s)'
      BY <1>3, <1>7, <2>2 DEF Served, GivesUp
    <3>3. WaitersOf(s)' = WaitersOf(s)
      BY <1>2, <1>3, <3>2
    <3> QED BY <1>1, <3>1, <3>3
  <2> QED BY <2>1, <2>2
<1> QED BY <1>5, <1>6, <1>7 DEF LockMove

\* At first nobody waits.
LEMMA QueueInit == Init => QueueSound
BY Kinds DEF Init, QueueSound, Range, IsInjective

\* A task's step is a step of the system.
LEMMA TaskStepIsNext == ASSUME NEW t \in Tasks, TaskStep(t) PROVE Next
BY DEF TaskStep, Next

\* The queues stay those of the waiters after a step of a task.
LEMMA QueueStep ==
  ASSUME Typed, QueueSound, NEW t \in Tasks, TaskStep(t)
  PROVE  QueueSound'
<1>1. Alone(t)
  BY OneTaskMoves DEF Alone
<1>2. Placement'
  BY TypedNext, TaskStepIsNext DEF Typed
<1> QED BY <1>1, <1>2, LockMoves, QueueMove

\* The queue of a lock is its waiters, each once: a request that timed out has
\* left it, whatever was queued or served in the meantime.
THEOREM QueuesKept == Spec => []QueueSound
<1>1. Typed /\ QueueSound /\ [Next]_vars => QueueSound'
  <2>1. CASE Tick \/ UNCHANGED vars
    BY <2>1 DEF QueueSound, Tick, vars, locks
  <2> QED BY <2>1, QueueStep, NextIsTaskStep
<1> QED BY TypedInit, TypedNext, QueueInit, <1>1, PTL DEF Spec

-----------------------------------------------------------------------------
(* What a task works on was issued, and so was what is marked: a create that  *)
(* has not answered is nobody's target.                                       *)

Aimed ==
  /\ \A t \in Tasks : pc[t] \in Targeted => tgt[t] \in Issued
  /\ \A r \in Resets \cup {Reaper} : todo[r] \subseteq Issued
  /\ \A s \in Creates : closing[s] => s \in Issued
  /\ \A s \in Creates : lock[s] = Reaper => closing[s]

\* A task turns to a session that was issued.
LEMMA AimTarget ==
  ASSUME Typed, Settled, Aimed, NEW t \in Tasks, TaskStep(t), pc'[t] \in Targeted
  PROVE  tgt'[t] \in Issued
<1> USE Kinds DEF Typed, TypeOK, Goto, Finish
<1>0. /\ records \subseteq Issued /\ (pc[t] \in Targeted => tgt[t] \in Issued)
      /\ (t \in Resets \cup {Reaper} => todo[t] \subseteq Issued)
  BY DEF Settled, Aimed
<1>1. CASE t \in Creates /\ CreateStep(t)
  <2>1. CASE CreateEvict(t) \/ LaunchEvict(t)
    <3>1. PICK v \in OldestEvictable : tgt' = [tgt EXCEPT ![t] = v]
      BY <2>1 DEF CreateEvict, LaunchEvict, StartEviction
    <3> QED BY <1>0, <3>1 DEF OldestEvictable
  <2>2. CASE pc'[t] \in {"launch", "surplus", "finished"}
    BY <2>2 DEF Targeted
  <2> QED BY <1>1, <2>1, <2>2
     DEF CreateStep, CreateAdmit, CreateReject, FirstVictimClosed, LaunchFailed,
         LaunchAdmit, LaunchSurplus, SurplusClosed, SecondVictimClosed, Insert
<1>2. CASE \/ t \in Actions /\ ActionStep(t)
           \/ t \in Deletes /\ DeleteStep(t)
           \/ t \in Probes /\ ProbeStep(t)
           \/ LockGranted(t)
  <2>1. CASE \E s \in Issued : tgt' = [tgt EXCEPT ![t] = s]
    BY <2>1
  <2>2. CASE tgt' = tgt /\ pc[t] \in Targeted
    BY <1>0, <2>2
  <2>3. CASE pc'[t] = "finished"
    BY <2>3 DEF Targeted
  <2>4. CASE NotLive(t) \/ GetLive(t) \/ ProbeCached(t) \/ ProbeLock(t)
    BY <2>1, <2>4 DEF NotLive, GetLive, ProbeCached, ProbeLock
  <2>5. CASE TryLock(t) \/ LockGranted(t)
    BY <2>2, <2>5 DEF TryLock, LockGranted, Targeted
  <2>6. CASE \/ LockTimeout(t) \/ DeleteDone(t) \/ ProbeDone(t)
             \/ \E outcome \in {"ok", "notFound", "clientError", "fault"} :
                  ActionDone(t, outcome)
    BY <2>3, <2>6 DEF LockTimeout, DeleteDone, ProbeDone, ActionDone
  <2> QED BY <1>2, <2>4, <2>5, <2>6 DEF ActionStep, DeleteStep, ProbeStep
<1>3. CASE t \in Resets /\ ResetStep(t)
  <2>1. ASSUME NEW rest, ResetNext(t, rest), rest \subseteq Issued
        PROVE  tgt'[t] \in Issued
    <3>1. \/ Goto(t, "finished")
          \/ \E s \in First(rest) : tgt' = [tgt EXCEPT ![t] = s]
      BY <2>1, Zenon DEF ResetNext, Finish
    <3> QED BY <2>1, <3>1 DEF First, Targeted
  <2> QED BY <1>0, <1>3, <2>1 DEF ResetStep, ResetBegin, ResetClosed
<1>4. CASE t = Reaper /\ ReaperStep
  <2>1. ASSUME NEW rest, NEW due, ReapNext(rest, due), rest \subseteq Issued
        PROVE  tgt'[t] \in Issued
    <3>1. \/ Goto(Reaper, "asleep")
          \/ \E s \in First({u \in rest : Reapable(u, due)}) :
               tgt' = [tgt EXCEPT ![Reaper] = s]
      BY <2>1, Zenon DEF ReapNext
    <3> QED BY <1>4, <2>1, <3>1 DEF First, Targeted
  <2> QED BY <1>0, <1>2, <1>4, <2>1 DEF ReaperStep, ReapBegin, ReapClosed
<1> QED BY <1>1, <1>2, <1>3, <1>4 DEF TaskStep

\* A snapshot is of records.
LEMMA AimSnapshot ==
  ASSUME Typed, NEW t \in Tasks, TaskStep(t), NEW r \in Resets \cup {Reaper}
  PROVE  todo'[r] \subseteq todo[r] \cup records
<1> USE Kinds DEF Typed, TypeOK
<1>1. CASE todo' = todo
  BY <1>1
<1>2. CASE t \in Creates /\ CreateStep(t)
  BY <1>1, <1>2
     DEF CreateStep, CreateAdmit, CreateReject, CreateEvict,
         FirstVictimClosed, LaunchFailed, LaunchAdmit, LaunchSurplus,
         LaunchEvict, SurplusClosed, SecondVictimClosed, pass
<1>3. CASE ActionStep(t) \/ DeleteStep(t) \/ ProbeStep(t) \/ LockGranted(t)
  BY <1>1, <1>3
     DEF ActionStep, DeleteStep, ProbeStep, NotLive, GetLive, TryLock,
         LockGranted, LockTimeout, ActionDone, DeleteDone, ProbeCached,
         ProbeLock, ProbeDone, pass
<1>4. CASE t \in Resets /\ ResetStep(t)
  <2>1. ASSUME NEW rest, ResetNext(t, rest), rest = records \/ rest = todo[t]
        PROVE  todo'[r] \subseteq todo[r] \cup records
    <3>1. \/ todo' = todo
          \/ \E s : todo' = [todo EXCEPT ![t] = rest \ {s}]
      BY <2>1, Zenon DEF ResetNext
    <3>2. ASSUME NEW s, todo' = [todo EXCEPT ![t] = rest \ {s}]
          PROVE  todo'[r] \subseteq todo[r] \cup records
      <4>1. todo'[r] = todo[r] \/ (r = t /\ todo'[r] = rest \ {s})
        BY <1>4, <3>2
      <4> QED BY <2>1, <4>1
    <3> QED BY <1>1, <3>1, <3>2
  <2> QED BY <1>4, <2>1 DEF ResetStep, ResetBegin, ResetClosed
<1>5. CASE t = Reaper /\ ReaperStep
  <2>1. ASSUME NEW rest, NEW due, ReapNext(rest, due),
               rest = records \/ rest = todo[Reaper]
        PROVE  todo'[r] \subseteq todo[r] \cup records
    <3>1. \/ todo' = [todo EXCEPT ![Reaper] = {}]
          \/ \E s : todo' = [todo EXCEPT ![Reaper] = {u \in rest : born[u] > born[s]}]
      BY <2>1, Zenon DEF ReapNext
    <3> QED BY <2>1, <3>1
  <2> QED BY <1>3, <1>5, <2>1 DEF ReaperStep, ReapBegin, ReapClosed
<1> QED BY <1>2, <1>3, <1>4, <1>5 DEF TaskStep

\* A mark is put by the task that is going to remove the session; a task that
\* is removing one goes on or has removed it.
LEMMA RemovingEffects ==
  ASSUME Typed, NEW t \in Tasks, TaskStep(t), NEW s \in Creates
  PROVE  /\ closing'[s] => closing[s] \/ Removing(t, s)'
         /\ Removing(t, s) => Removing(t, s)' \/ s \notin records' \/ s = t
<1> USE Kinds DEF Typed, TypeOK, Goto, Finish
<1>1. CASE t \in Creates /\ CreateStep(t)
  <2>1. CASE CreateEvict(t) \/ LaunchEvict(t)
    <3>1. PICK v \in OldestEvictable, p \in {"evict1", "evict2"} :
            StartEviction(t, v, p)
      BY <2>1 DEF CreateEvict, LaunchEvict
    <3>2. pc[t] \in {"start", "launch"}
      BY <2>1 DEF CreateEvict, LaunchEvict
    <3> QED BY <1>1, <3>1, <3>2, DistinctTasks
            DEF StartEviction, Removing, OldestEvictable, Requests
  <2>2. CASE /\ closing' = closing
             /\ pc[t] \in {"start", "launch", "surplus"}
    BY <1>1, <2>2, DistinctTasks DEF Removing, Requests
  <2>3. CASE FirstVictimClosed(t) \/ SecondVictimClosed(t)
    BY <1>1, <2>3
       DEF FirstVictimClosed, SecondVictimClosed, Insert, Removing, locks
  <2> QED BY <1>1, <2>1, <2>2, <2>3
     DEF CreateStep, CreateAdmit, CreateReject, LaunchFailed,
         LaunchAdmit, LaunchSurplus, SurplusClosed, locks
<1>2. CASE t \in Actions \cup Probes /\ (ActionStep(t) \/ ProbeStep(t))
  <2>1. ~Removing(t, s)
    BY <1>2, DistinctTasks DEF Removing
  <2>2. closing' = closing
    BY <1>2, DistinctTasks
       DEF ActionStep, ProbeStep, NotLive, GetLive, TryLock, LockGranted, Enter,
           LockTimeout, ActionDone, ProbeCached, ProbeLock, ProbeDone, locks
  <2> QED BY <2>1, <2>2
<1>3. CASE t \in Deletes /\ DeleteStep(t)
  <2>0. Removing(t, s) <=> tgt[t] = s /\ pc[t] = "working"
    BY <1>3, DistinctTasks DEF Removing, Requests
  <2>1. Removing(t, s)' <=> tgt'[t] = s /\ pc'[t] = "working"
    BY <1>3, DistinctTasks DEF Removing, Requests
  <2>2. CASE DeleteDone(t)
    BY <2>0, <2>2 DEF DeleteDone
  <2>3. CASE NotLive(t) \/ GetLive(t) \/ LockTimeout(t)
    BY <2>0, <2>3 DEF NotLive, GetLive, LockTimeout, locks
  <2>4. CASE TryLock(t) \/ LockGranted(t)
    <3>1. pc[t] # "working" /\ tgt' = tgt
      BY <2>4 DEF TryLock, LockGranted
    <3>2. closing' = closing \/ (Enter(t) /\ pc'[t] = "working")
      BY <2>4 DEF TryLock, LockGranted, Take
    <3> QED BY <1>3, <2>0, <2>1, <3>1, <3>2 DEF Enter
  <2> QED BY <1>3, <2>2, <2>3, <2>4 DEF DeleteStep
<1>4. CASE t \in Resets /\ ResetStep(t)
  <2>0. Removing(t, s) <=> tgt[t] = s /\ pc[t] = "purging"
    BY <1>4, DistinctTasks DEF Removing, Requests
  <2>1. Removing(t, s)' <=> tgt'[t] = s /\ pc'[t] = "purging"
    BY <1>4, DistinctTasks DEF Removing, Requests
  <2>2. ASSUME NEW rest, ResetNext(t, rest)
        PROVE  closing'[s] => closing[s] \/ Removing(t, s)'
    <3>1. \/ closing' = closing
          \/ \E v : /\ closing' = [closing EXCEPT ![v] = TRUE]
                    /\ tgt' = [tgt EXCEPT ![t] = v] /\ Goto(t, "purging")
      BY <2>2, Zenon DEF ResetNext
    <3> QED BY <1>4, <2>1, <3>1
  <2> QED BY <1>4, <2>0, <2>2 DEF ResetStep, ResetBegin, ResetClosed
<1>5. CASE t = Reaper /\ ReaperStep
  <2>0. Removing(t, s) <=> tgt[t] = s /\ pc[t] \in {"waiting", "working"}
    BY <1>5, DistinctTasks DEF Removing, Requests
  <2>1. Removing(t, s)' <=> tgt'[t] = s /\ pc'[t] \in {"waiting", "working"}
    BY <1>5, DistinctTasks DEF Removing, Requests
  <2>2. ASSUME NEW rest, NEW due, ReapNext(rest, due)
        PROVE  closing'[s] => closing[s] \/ Removing(t, s)'
    <3>1. \/ closing' = closing
          \/ \E v : /\ closing' = [closing EXCEPT ![v] = TRUE]
                    /\ tgt' = [tgt EXCEPT ![Reaper] = v]
                    /\ Goto(Reaper, "working") \/ Goto(Reaper, "waiting")
      BY <2>2, Zenon DEF ReapNext, locks, Take, Enqueue
    <3> QED BY <1>5, <2>1, <3>1
  <2>3. CASE LockGranted(Reaper)
    BY <1>5, <2>0, <2>1, <2>3, DistinctTasks DEF LockGranted, Enter
  <2> QED BY <1>5, <2>0, <2>2, <2>3 DEF ReaperStep, ReapBegin, ReapClosed
<1> QED BY <1>1, <1>2, <1>3, <1>4, <1>5 DEF TaskStep

-----------------------------------------------------------------------------
(* The invariant that the locks and the marks rest on. *)

Sound == /\ Typed /\ Marked /\ VictimsDistinct /\ Answered /\ Settled /\ Aimed
         /\ QueueSound

\* A record that is new is of a create that has just answered.
LEMMA NewRecord ==
  ASSUME Sound, NEW t \in Tasks, TaskStep(t)
  PROVE  /\ \A s \in Creates : s \in Issued /\ s \notin records => s \notin records'
         /\ \A s \in records' : s \in records \/ (s = t /\ t \in Creates)
         /\ t \in Creates => t \notin Issued
<1> USE Kinds DEF Sound
<1>1. t \in Creates => t \notin Issued
  BY ReplyEffects DEF ReplyEffect, Issued, Settled
<1>2. \A s \in records' : s \in records \/ (s = t /\ t \in Creates)
  BY Books DEF NoChange, Removed, Inserted, Swapped
<1> QED BY <1>1, <1>2

\* Targets, snapshots and marks stay within what was issued.
LEMMA AimedStep ==
  ASSUME Sound, NEW t \in Tasks, TaskStep(t)
  PROVE  Aimed'
<1> USE Kinds DEF Sound
<1>1. Issued \subseteq Issued' /\ records \subseteq Issued
  BY IssuedStep DEF Settled
<1>2. ASSUME NEW u \in Tasks, pc'[u] \in Targeted PROVE tgt'[u] \in Issued
  BY <1>2, AimTarget, OneTaskMoves DEF Aimed
<1>3. ASSUME NEW r \in Resets \cup {Reaper} PROVE todo'[r] \subseteq Issued
  BY <1>1, <1>3, AimSnapshot DEF Aimed
<1>4. ASSUME NEW s \in Creates, closing'[s] PROVE s \in Issued
  <2>1. CASE closing[s]
    BY <2>1 DEF Aimed
  <2>2. CASE Removing(t, s)'
    <3>1. tgt'[t] = s /\ pc'[t] \in Targeted
      BY <2>2 DEF Removing, Targeted
    <3> QED BY <1>2, <3>1
  <2> QED BY <1>4, <2>1, <2>2, RemovingEffects
<1>5. ASSUME NEW s \in Creates, lock'[s] = Reaper PROVE closing'[s]
  <2>1. CASE lock[s] = Reaper
    BY <2>1, MarkEffects DEF Aimed, MarkEffect
  <2>2. CASE lock[s] # Reaper
    <3>1. t = Reaper /\ tgt'[t] = s /\ pc'[t] = "working"
      BY <1>5, <2>2, LockMoves
         DEF LockMove, Passes, Takes, Joins, Served, GivesUp, GivesBack, Typed,
             TypeOK
    <3>2. Removing(Reaper, s)'
      BY <3>1 DEF Removing
    <3> QED BY <3>2, ApartStep, TaskStepIsNext DEF Marked
  <2> QED BY <2>1, <2>2
<1> QED BY <1>1, <1>2, <1>3, <1>4, <1>5 DEF Aimed

\* The invariant holds at first.
LEMMA SoundInit == Init => Sound
<1> SUFFICES ASSUME Init PROVE Sound
  OBVIOUS
<1>1. Aimed
  BY Kinds DEF Init, Aimed, Targeted
<1>2. Answered
  BY DEF Init, Answered
<1> QED BY <1>1, <1>2, TypedInit, ApartInit, SettledInit, QueueInit DEF Sound

\* The invariant holds after every step.
LEMMA SoundStep == Sound /\ [Next]_vars => Sound'
<1> SUFFICES ASSUME Sound, [Next]_vars PROVE Sound'
  OBVIOUS
<1> USE DEF Sound
<1>1. Typed' /\ Marked' /\ VictimsDistinct'
  BY TypedNext, ApartStep
<1>2. CASE Tick \/ UNCHANGED vars
  <2>1. Settled' /\ Answered' /\ QueueSound' /\ Aimed'
    BY <1>2
       DEF Settled, Answered, QueueSound, Aimed, Issued, Removing, Tick, vars,
           registry, locks, pass
  <2> QED BY <1>1, <2>1
<1>3. ASSUME NEW t \in Tasks, TaskStep(t) PROVE Sound'
  BY <1>1, <1>3, SettledStep, AnsweredStep, QueueStep, AimedStep
<1> QED BY <1>2, <1>3, NextIsTaskStep

-----------------------------------------------------------------------------
(* The theorems. *)

\* A lock has a holder that works, before and after a step.
LEMMA HolderStep ==
  ASSUME Sound, LockSound, [Next]_vars
  PROVE  LockSound'
<1> USE Kinds
<1>1. CASE Tick \/ UNCHANGED vars
  BY <1>1 DEF LockSound, Tick, vars, locks, registry
<1>2. ASSUME NEW t \in Tasks, TaskStep(t) PROVE LockSound'
  <2> SUFFICES ASSUME NEW s \in Creates
               PROVE  /\ lock'[s] \in Requests =>
                           pc'[lock'[s]] = "working" /\ tgt'[lock'[s]] = s
                      /\ lock'[s] = Reaper =>
                           \/ pc'[Reaper] = "working" /\ tgt'[Reaper] = s
                           \/ s \notin records'
    BY DEF LockSound
  <2>1. /\ lock[s] \in Requests => pc[lock[s]] = "working" /\ tgt[lock[s]] = s
        /\ lock[s] = Reaper => \/ pc[Reaper] = "working" /\ tgt[Reaper] = s
                               \/ s \notin records
        /\ lock[s] \in Tasks \cup {None}
    BY DEF LockSound, Sound, Typed, TypeOK
  <2>2. CASE lock'[s] = lock[s] /\ lock[s] \in Tasks /\ lock[s] # t
    <3>1. pc'[lock[s]] = pc[lock[s]] /\ tgt'[lock[s]] = tgt[lock[s]]
      BY <1>2, <2>2, OneTaskMoves DEF Sound
    <3>2. ASSUME lock[s] = Reaper, s \notin records PROVE s \notin records'
      BY <1>2, <3>2, NewRecord DEF Sound, Aimed
    <3> QED BY <2>1, <2>2, <3>1, <3>2
  <2>3. CASE lock'[s] = lock[s] /\ lock[s] = t
    <3>1. CASE t = Reaper
      <4>1. ASSUME pc[Reaper] = "working", tgt[Reaper] = s
            PROVE  s \notin records'
        BY <1>2, <3>1, <4>1, DistinctTasks
           DEF TaskStep, ReaperStep, ReapBegin, LockGranted, ReapClosed
      <4>2. ASSUME s \notin records PROVE s \notin records'
        BY <1>2, <2>3, <3>1, <4>2, NewRecord DEF Sound, Aimed
      <4> QED BY <2>1, <2>3, <3>1, <4>1, <4>2
    <3>2. CASE t # Reaper
      <4>1. t \in Requests /\ pc[t] = "working" /\ tgt[t] = s /\ t # None
        BY <2>1, <2>3, <3>2 DEF Tasks
      <4>2. GivesBack(t)
        BY <1>2, <3>2, <4>1, LockMoves
           DEF Sound, LockMove, Passes, Takes, Joins, Served, GivesUp
      <4>3. lock'[s] = None
        BY <4>1, <4>2 DEF GivesBack, Sound, Typed, TypeOK
      <4> QED BY <2>3, <4>1, <4>3
    <3> QED BY <3>1, <3>2
  <2>4. CASE lock'[s] = None
    BY <2>4
  <2>5. CASE lock'[s] # lock[s] /\ lock'[s] # None
    <3>1. lock'[s] = t /\ pc'[t] = "working" /\ tgt'[t] = s
      BY <1>2, <2>5, LockMoves
         DEF LockMove, Passes, Takes, Joins, Served, GivesUp, GivesBack, Sound,
             Typed, TypeOK
    <3> QED BY <3>1
  <2> QED BY <2>1, <2>2, <2>3, <2>4, <2>5
<1> QED BY <1>1, <1>2, NextIsTaskStep

\* The holder of a lock works on its session and gives the lock back when it
\* ends; only the reaper keeps one, of a session that it has removed for good.
THEOREM LocksKept == Spec => []LockSound
<1>1. Init => LockSound
  BY Kinds DEF Init, LockSound
<1>2. Sound /\ LockSound /\ [Next]_vars => LockSound'
  BY HolderStep
<1> QED BY SoundInit, SoundStep, <1>1, <1>2, PTL DEF Spec

\* Every record that is marked has a task that is about to remove it.
THEOREM MarksOwned == Spec => []ClosingIsOwned
<1>1. Init => ClosingIsOwned
  BY DEF Init, ClosingIsOwned
<1>2. ASSUME Sound, ClosingIsOwned, [Next]_vars PROVE ClosingIsOwned'
  <2>1. CASE Tick \/ UNCHANGED vars
    BY <1>2, <2>1 DEF ClosingIsOwned, Removing, Tick, vars, locks, registry
  <2>2. ASSUME NEW t \in Tasks, TaskStep(t) PROVE ClosingIsOwned'
    <3> SUFFICES ASSUME NEW s \in records', closing'[s]
                 PROVE  \E u \in Tasks : Removing(u, s)'
      BY DEF ClosingIsOwned
    <3>1. /\ s \in records \/ (s = t /\ t \in Creates /\ t \notin Issued)
          /\ s \in Creates
      BY <1>2, <2>2, NewRecord, TypedNext DEF Sound, Typed, TypeOK
    <3>2. closing[s] \/ Removing(t, s)'
      BY <1>2, <2>2, <3>1, RemovingEffects DEF Sound
    <3>3. CASE closing[s]
      <4>1. s \in Issued /\ s \in records
        BY <1>2, <3>1, <3>3 DEF Sound, Aimed
      <4>2. PICK u \in Tasks : Removing(u, s)
        BY <1>2, <3>3, <4>1 DEF ClosingIsOwned
      <4>3. CASE u = t
        BY <1>2, <2>2, <3>1, <4>1, <4>2, <4>3, NewRecord, RemovingEffects DEF Sound
      <4>4. CASE u # t
        BY <1>2, <2>2, <4>2, <4>4, OneTaskMoves DEF Removing, Sound
      <4> QED BY <4>3, <4>4
    <3> QED BY <2>2, <3>2, <3>3
  <2> QED BY <1>2, <2>1, <2>2, NextIsTaskStep
<1> QED BY SoundInit, SoundStep, <1>1, <1>2, PTL DEF Spec

-----------------------------------------------------------------------------
(* The browsers. *)

\* No browser is opened or closed, and no record comes or goes.
Leaves(t) ==
  /\ engine' = engine /\ records' = records
  /\ t \in Creates => pc[t] \notin {"surplus", "evict2"} /\ pc'[t] # "evict2"

\* A session is closed and its record removed.
Closes(t) ==
  /\ tgt[t] \in Creates /\ pc[t] \in Targeted
  /\ engine' = [engine EXCEPT ![tgt[t]] = "closed"]
  /\ records' = records \ {tgt[t]}
  /\ t \in Creates => pc[t] = "evict1" /\ pc'[t] = "launch"

\* A browser is launched, for a record or while it must wait for a slot.
Opens(t) ==
  /\ t \in Creates /\ pc[t] = "launch"
  /\ engine' = [engine EXCEPT ![t] = "open"]
  /\ \/ records' = records \cup {t} /\ pc'[t] = "finished"
     \/ records' = records /\ pc'[t] \in {"surplus", "evict2"}

\* A browser that got no slot is closed.
Discards(t) ==
  /\ t \in Creates /\ pc[t] = "surplus" /\ pc'[t] = "finished"
  /\ engine' = [engine EXCEPT ![t] = "closed"] /\ records' = records

\* A session takes the place of one that is closed.
Replaces(t) ==
  /\ t \in Creates /\ pc[t] = "evict2" /\ pc'[t] = "finished"
  /\ tgt[t] \in Creates
  /\ engine' = [engine EXCEPT ![tgt[t]] = "closed"]
  /\ records' = (records \ {tgt[t]}) \cup {t}

\* Every step of every task treats browsers and records in one of these ways.
LEMMA EngineEffects ==
  ASSUME Typed, NEW t \in Tasks, TaskStep(t)
  PROVE  Leaves(t) \/ Closes(t) \/ Opens(t) \/ Discards(t) \/ Replaces(t)
<1> USE Kinds DEF Typed, TypeOK, Goto, Finish
<1>0. pc[t] \in Targeted => tgt[t] \in Creates
  BY DEF Placement
<1>1. CASE t \in Creates /\ CreateStep(t)
  <2>1. CASE \/ CreateAdmit(t) \/ CreateReject(t) \/ CreateEvict(t)
             \/ LaunchFailed(t)
    <3>1. Leaves(t)
      BY <1>1, <2>1
         DEF CreateAdmit, CreateReject, CreateEvict, StartEviction, LaunchFailed,
             registry, Leaves
    <3> QED BY <3>1
  <2>2. CASE FirstVictimClosed(t)
    <3>1. Closes(t)
      BY <1>0, <1>1, <2>2 DEF FirstVictimClosed, CloseEngine, Closes, Targeted
    <3> QED BY <3>1
  <2>3. CASE LaunchAdmit(t) \/ LaunchSurplus(t) \/ LaunchEvict(t)
    <3>1. Opens(t)
      BY <1>1, <2>3
         DEF LaunchAdmit, Insert, LaunchSurplus, LaunchEvict, StartEviction,
             registry, Opens
    <3> QED BY <3>1
  <2>4. CASE SurplusClosed(t)
    <3>1. Discards(t)
      BY <1>1, <2>4 DEF SurplusClosed, CloseEngine, registry, Discards
    <3> QED BY <3>1
  <2>5. CASE SecondVictimClosed(t)
    <3>1. Replaces(t)
      BY <1>0, <1>1, <2>5
         DEF SecondVictimClosed, Insert, CloseEngine, Replaces, Targeted
    <3> QED BY <3>1
  <2> QED BY <1>1, <2>1, <2>2, <2>3, <2>4, <2>5 DEF CreateStep
<1>2. CASE t \notin Creates /\ engine' = engine /\ records' = records
  BY <1>2 DEF Leaves
<1>3. CASE /\ t \notin Creates /\ pc[t] \in Targeted
           /\ CloseEngine(tgt[t]) /\ records' = records \ {tgt[t]}
  BY <1>0, <1>3 DEF CloseEngine, Closes
<1>4. CASE \/ t \in Actions /\ ActionStep(t)
           \/ t \in Deletes /\ DeleteStep(t)
           \/ t \in Probes /\ ProbeStep(t)
           \/ t = Reaper /\ LockGranted(t)
  <2>1. t \notin Creates
    BY <1>4, DistinctTasks
  <2>2. CASE DeleteDone(t)
    BY <1>3, <2>1, <2>2 DEF DeleteDone, Targeted
  <2>3. CASE ~DeleteDone(t)
    BY <1>2, <1>4, <2>1, <2>3
       DEF ActionStep, DeleteStep, ProbeStep, NotLive, GetLive, TryLock,
           LockGranted, LockTimeout, ActionDone, ProbeCached, ProbeLock,
           ProbeDone, registry
  <2> QED BY <2>2, <2>3
<1>5. CASE t \in Resets /\ ResetStep(t)
  BY <1>2, <1>3, <1>5, DistinctTasks
     DEF ResetStep, ResetBegin, ResetClosed, registry, Targeted
<1>6. CASE t = Reaper /\ ReaperStep
  BY <1>2, <1>3, <1>4, <1>6, DistinctTasks
     DEF ReaperStep, ReapBegin, ReapClosed, registry, Targeted, Requests
<1> QED BY <1>1, <1>4, <1>5, <1>6 DEF TaskStep

\* A session whose second eviction is under way has its browser.
Launched == \A c \in Creates : pc[c] = "evict2" => engine[c] = "open"

\* Only what nobody can reach is closed, and only what has a browser is inserted.
LEMMA BrowserStep ==
  ASSUME Sound, Launched, BrowsersMatchRecords, NEW t \in Tasks, TaskStep(t)
  PROVE  Launched' /\ BrowsersMatchRecords'
<1> USE Kinds
<1>1. /\ \A u \in Tasks : u # t => pc'[u] = pc[u]
      /\ t \in Creates => t \notin Issued
      /\ records \subseteq Issued /\ (pc[t] \in Targeted => tgt[t] \in Issued)
      /\ \A c \in Issued : pc[c] = "finished"
  <2>1. ASSUME NEW c \in Issued PROVE pc[c] = "finished"
    <3>1. c \in Requests /\ reply[c] # "none"
      BY DEF Issued
    <3> QED BY <3>1 DEF Sound, Settled
  <2>2. \A u \in Tasks : u # t => pc'[u] = pc[u]
    BY OneTaskMoves DEF Sound
  <2> QED BY <2>1, <2>2, NewRecord DEF Sound, Settled, Aimed
<1> USE DEF Sound, Typed, TypeOK
<1>2. ASSUME NEW s \in Creates
      PROVE  /\ engine[s] = "open" => s \in records \/ pc[s] \in {"surplus", "evict2"}
             /\ s \in records /\ ~closing[s] => engine[s] = "open"
             /\ pc[s] = "evict2" => engine[s] = "open"
             /\ closing[s] => closing'[s]
  BY MarkEffects DEF BrowsersMatchRecords, Launched, MarkEffect
<1>3. ASSUME NEW s \in Creates
      PROVE  /\ engine'[s] = "open" =>
                  s \in records' \/ pc'[s] \in {"surplus", "evict2"}
             /\ s \in records' /\ ~closing'[s] => engine'[s] = "open"
             /\ pc'[s] = "evict2" => engine'[s] = "open"
  <2>1. CASE Leaves(t)
    BY <1>1, <1>2, <2>1 DEF Leaves
  <2>2. CASE Closes(t)
    <3>1. s \in records' => s # tgt[t] /\ s \in records
      BY <2>2 DEF Closes
    <3>2. pc'[s] = "evict2" => s # tgt[t] /\ pc[s] = "evict2"
      BY <1>1, <2>2 DEF Closes
    <3>3. engine'[s] = IF s = tgt[t] THEN "closed" ELSE engine[s]
      BY <2>2 DEF Closes
    <3>4. engine'[s] = "open" => s \in records' \/ pc'[s] \in {"surplus", "evict2"}
      BY <1>1, <1>2, <2>2, <3>3 DEF Closes
    <3> QED BY <1>2, <3>1, <3>2, <3>3, <3>4
  <2>3. CASE Opens(t)
    BY <1>1, <1>2, <2>3 DEF Opens
  <2>4. CASE Discards(t)
    BY <1>1, <1>2, <2>4 DEF Discards
  <2>5. CASE Replaces(t)
    <3>1. tgt[t] # t /\ engine'[t] = "open"
      BY <1>1, <1>2, <2>5 DEF Replaces, Targeted
    <3>2. CASE s = t
      BY <2>5, <3>1, <3>2 DEF Replaces
    <3>3. CASE s # t
      <4>1. s \in records' <=> s \in records /\ s # tgt[t]
        BY <2>5, <3>3 DEF Replaces
      <4>2. engine'[s] = IF s = tgt[t] THEN "closed" ELSE engine[s]
        BY <2>5 DEF Replaces
      <4>3. pc'[s] = pc[s]
        BY <1>1, <3>3
      <4>4. s = tgt[t] => pc[s] = "finished"
        BY <1>1, <2>5 DEF Replaces, Targeted
      <4> QED BY <1>2, <4>1, <4>2, <4>3, <4>4
    <3> QED BY <3>2, <3>3
  <2> QED BY <2>1, <2>2, <2>3, <2>4, <2>5, EngineEffects
<1>4. records' \subseteq Creates
  BY TypedNext, TaskStepIsNext
<1> QED BY <1>3, <1>4 DEF Launched, BrowsersMatchRecords

\* No browser outlives its session, and a session that is not being removed has
\* its browser, whoever creates, evicts, deletes and reaps at once.
THEOREM BrowsersKept == Spec => []BrowsersMatchRecords
<1>1. Init => Launched /\ BrowsersMatchRecords
  BY Kinds DEF Init, Launched, BrowsersMatchRecords
<1>2. Sound /\ Launched /\ BrowsersMatchRecords /\ [Next]_vars
        => Launched' /\ BrowsersMatchRecords'
  <2>1. CASE Tick \/ UNCHANGED vars
    BY <2>1 DEF Launched, BrowsersMatchRecords, Tick, vars, locks, registry
  <2> QED BY <2>1, BrowserStep, NextIsTaskStep
<1> QED BY SoundInit, SoundStep, <1>1, <1>2, PTL DEF Spec

-----------------------------------------------------------------------------
(* Probes and the reaper. *)

\* No probe is behind the reaper in a queue q.
ProbesFirst(q) ==
  \A i, j \in DOMAIN q : q[i] = Reaper /\ q[j] \in Probes => j < i

\* Those that stay in a queue keep their order.
LEMMA ProbesStayFirst ==
  ASSUME NEW q \in Seq(Tasks), NEW r \in Seq(Tasks), NEW t, Left(q, t, r),
         ProbesFirst(q)
  PROVE  ProbesFirst(r)
<1> SUFFICES ASSUME NEW i \in DOMAIN r, NEW j \in DOMAIN r,
                    r[i] = Reaper, r[j] \in Probes
             PROVE  j < i
  BY DEF ProbesFirst
<1>1. PICK k \in DOMAIN q, l \in DOMAIN q :
        q[k] = r[j] /\ q[l] = r[i] /\ (k < l => j < i)
  BY DEF Left
<1>2. k < l
  BY <1>1 DEF ProbesFirst
<1> QED BY <1>1, <1>2

\* A queue without the reaper, or without a probe, is in order.
LEMMA ProbesAlone ==
  ASSUME NEW q \in Seq(Tasks),
         Reaper \notin Range(q) \/ Range(q) \cap Probes = {}
  PROVE  ProbesFirst(q)
BY DEF ProbesFirst, Range

\* A probe joins the queue of a live session, where the reaper is not.
LEMMA ProbeOrder ==
  ASSUME Sound, Sound', NoProbeBehindReaper, NEW t \in Tasks, LockMove(t)
  PROVE  NoProbeBehindReaper'
<1> USE Kinds
<1> SUFFICES ASSUME NEW s \in Creates, Range(waiters'[s]) \cap Probes # {}
             PROVE  lock'[s] # Reaper /\ ProbesFirst(waiters'[s])
  BY DEF NoProbeBehindReaper, ProbesFirst
<1> DEFINE q == waiters[s]
           r == waiters'[s]
<1>0. Reaper \notin Probes /\ None # Reaper
  BY DistinctTasks
<1>1. /\ waiters \in [Creates -> Seq(Tasks)] /\ lock \in [Creates -> Tasks \cup {None}]
      /\ q \in Seq(Tasks) /\ r \in Seq(Tasks)
      /\ IsInjective(q) /\ IsInjective(r)
      /\ Range(q) = WaitersOf(s) /\ Range(r) = WaitersOf(s)'
  BY DEF Sound, Typed, TypeOK, QueueSound, WaitersOf
<1>2. Range(q) \cap Probes # {} => lock[s] # Reaper /\ ProbesFirst(q)
  BY DEF NoProbeBehindReaper, ProbesFirst
<1>3. ~closing[s] => lock[s] # Reaper /\ Reaper \notin Range(q)
  <2>1. lock[s] = Reaper => closing[s]
    BY DEF Sound, Aimed
  <2>2. Reaper \in Range(q) => Removing(Reaper, s)
    BY <1>1 DEF WaitersOf, Removing
  <2> QED BY <2>1, <2>2 DEF Sound, Marked
<1>4. CASE r = q /\ (lock'[s] = lock[s] \/ lock'[s] = None)
  BY <1>0, <1>2, <1>4
<1>5. CASE Takes(t) /\ tgt'[t] = s
  <2>1. r = <<>>
    BY <1>5 DEF Takes, Free
  <2> QED BY <2>1 DEF Range
<1>6. CASE Joins(t) /\ tgt'[t] = s
  <2>1. r = Append(q, t) /\ lock' = lock /\ pc[t] # "waiting"
    BY <1>1, <1>6 DEF Joins
  <2>2. t \notin Range(q)
    BY <1>1, <2>1 DEF WaitersOf
  <2>3. /\ Range(r) = Range(q) \cup {t} /\ Len(q) \in Nat
        /\ DOMAIN r = 1..Len(q) + 1 /\ DOMAIN q = 1..Len(q)
        /\ \A i \in 1..Len(q) : r[i] = q[i]
        /\ r[Len(q) + 1] = t
    BY <1>1, <2>1, <2>2, Joining
  <2>4. CASE t \in Probes
    <3>1. lock[s] # Reaper /\ Reaper \notin Range(q)
      BY <1>3, <1>6, <2>4 DEF Joins
    <3>2. Reaper \notin Range(r)
      BY <1>0, <2>3, <2>4, <3>1
    <3> QED BY <1>1, <2>1, <3>1, <3>2, ProbesAlone
  <2>5. CASE t \notin Probes
    <3>1. lock[s] # Reaper /\ ProbesFirst(q)
      BY <1>2, <2>3, <2>5
    <3>2. ASSUME NEW i \in DOMAIN r, NEW j \in DOMAIN r,
                 r[i] = Reaper, r[j] \in Probes
          PROVE  j < i
      <4>1. j \in 1..Len(q) /\ q[j] \in Probes
        BY <2>3, <2>5, <3>2
      <4>2. CASE i \in 1..Len(q)
        BY <2>3, <3>1, <3>2, <4>1, <4>2 DEF ProbesFirst
      <4>3. CASE i \notin 1..Len(q)
        BY <2>3, <4>1, <4>3
      <4> QED BY <4>2, <4>3
    <3> QED BY <2>1, <3>1, <3>2 DEF ProbesFirst
  <2> QED BY <2>4, <2>5
<1>7. CASE (Served(t) \/ GivesUp(t)) /\ tgt[t] = s
  <2>1. t \in Range(q) /\ pc[t] = "waiting"
    BY <1>1, <1>7 DEF Served, GivesUp, WaitersOf
  <2>2. \/ r = Without(q, t) /\ GivesUp(t) /\ lock' = lock
        \/ /\ r = Tail(q) /\ Head(q) = t
           /\ lock'[s] = t
    BY <1>1, <1>7 DEF Served, GivesUp
  <2>3. Left(q, t, r)
    <3>1. /\ q \in Seq(Tasks) /\ IsInjective(q) /\ t \in Range(q)
          /\ r = Without(q, t) \/ (r = Tail(q) /\ Head(q) = t)
      BY <1>1, <2>1, <2>2
    <3> HIDE DEF q, r
    <3> QED BY <3>1, Leaving
  <2>4. Range(r) = Range(q) \ {t}
    BY <2>3 DEF Left
  <2>5. lock[s] # Reaper /\ ProbesFirst(q)
    BY <1>2, <2>4
  <2>6. ProbesFirst(r)
    BY <1>1, <2>3, <2>5, ProbesStayFirst
  <2>7. ASSUME r = Tail(q), Head(q) = t PROVE t # Reaper
    <3>1. PICK p \in DOMAIN q : q[p] \in Probes
      BY <2>4 DEF Range
    <3>2. 1 \in DOMAIN q /\ q[1] = t /\ p \in 1..Len(q) /\ Len(q) \in Nat
      BY <1>1, <2>7, <3>1
    <3>3. t = Reaper => p < 1
      BY <2>5, <3>1, <3>2 DEF ProbesFirst
    <3> QED BY <3>2, <3>3
  <2> QED BY <2>2, <2>5, <2>6, <2>7
<1>8. CASE Passes(t) \/ GivesBack(t)
  BY <1>1, <1>4, <1>8 DEF Passes, GivesBack
<1>9. CASE (Takes(t) \/ Joins(t)) /\ tgt'[t] # s
  BY <1>1, <1>4, <1>9 DEF Takes, Joins
<1>10. CASE (Served(t) \/ GivesUp(t)) /\ tgt[t] # s
  BY <1>1, <1>4, <1>10 DEF Served, GivesUp
<1> QED BY <1>5, <1>6, <1>7, <1>8, <1>9, <1>10 DEF LockMove

\* A status probe, which waits without a timeout, never waits for the reaper,
\* which never gives its lock back.
THEOREM ProbesAhead == Spec => []NoProbeBehindReaper
<1>1. Init => NoProbeBehindReaper
  BY DEF Init, NoProbeBehindReaper, Range
<1>2. Sound /\ NoProbeBehindReaper /\ [Next]_vars => NoProbeBehindReaper'
  <2>1. CASE Tick \/ UNCHANGED vars
    BY <2>1 DEF NoProbeBehindReaper, Tick, vars, locks
  <2> QED BY <2>1, SoundStep, ProbeOrder, LockMoves, NextIsTaskStep DEF Sound
<1> QED BY SoundInit, SoundStep, <1>1, <1>2, PTL DEF Spec

-----------------------------------------------------------------------------
(* Marks come first. *)

\* Whoever is between a mark and a removal has put the mark, or found it: a DELETE
\* and a reset mark without looking.
MarkedFirst == \A t \in Tasks : \A s \in Creates : Removing(t, s) => closing[s]

\* Whoever turns to a session finds it live, and marks it in the same step.
LEMMA MarkedFirstStep ==
  ASSUME Typed, MarkedFirst, NEW t \in Tasks, TaskStep(t)
  PROVE  MarkedFirst'
<1> USE Kinds
<1> SUFFICES ASSUME NEW u \in Tasks, NEW s \in Creates, Removing(u, s)'
             PROVE  closing'[s]
  BY DEF MarkedFirst
<1>0. MarkEffect(t) /\ closing \in [Creates -> BOOLEAN]
  BY MarkEffects DEF Typed, TypeOK
<1>1. CASE Removing(u, s)
  BY <1>0, <1>1 DEF MarkedFirst, MarkEffect
<1>2. CASE ~Removing(u, s) /\ u # t
  BY <1>2, OneTaskMoves DEF Removing
<1>3. CASE ~Removing(u, s) /\ u = t /\ t \in Creates \cup {Reaper}
  BY <1>0, <1>3 DEF MarkEffect
<1>4. CASE ~Removing(u, s) /\ u = t /\ t \in Deletes
  <2>1. tgt'[t] = s /\ pc'[t] = "working" /\ ~(tgt[t] = s /\ pc[t] = "working")
    BY <1>4, DistinctTasks DEF Removing, Requests
  <2>2. TryLock(t) \/ LockGranted(t)
    BY <1>4, <2>1, DistinctTasks
       DEF TaskStep, DeleteStep, NotLive, GetLive, LockTimeout, DeleteDone,
           Finish, Goto, Requests, Typed, TypeOK
  <2>3. tgt' = tgt /\ Enter(t)
    BY <1>4, <2>1, <2>2 DEF TryLock, LockGranted, Enqueue, Goto, Typed, TypeOK
  <2> QED BY <1>0, <1>4, <2>1, <2>3 DEF Enter
<1>5. CASE ~Removing(u, s) /\ u = t /\ t \in Resets
  <2>1. tgt'[t] = s /\ pc'[t] = "purging"
    BY <1>5, DistinctTasks DEF Removing, Requests
  <2>2. PICK rest : ResetNext(t, rest)
    BY <1>5, DistinctTasks DEF TaskStep, ResetStep, ResetBegin, ResetClosed, Requests
  <2>3. PICK v : /\ closing' = [closing EXCEPT ![v] = TRUE]
                 /\ tgt' = [tgt EXCEPT ![t] = v]
    BY <2>1, <2>2, Zenon DEF ResetNext, Finish, Goto, Typed, TypeOK
  <2> QED BY <1>0, <2>1, <2>3 DEF Typed, TypeOK
<1>6. CASE ~Removing(u, s) /\ u = t /\ t \in Actions \cup Probes
  BY <1>6, DistinctTasks DEF Removing, Requests
<1> QED BY <1>1, <1>2, <1>3, <1>4, <1>5, <1>6 DEF Tasks, Requests

\* At first nobody removes anything.
LEMMA MarkedFirstInit == Init => MarkedFirst
BY Kinds, DistinctTasks DEF Init, MarkedFirst, Removing

\* Time passing takes no mark back.
LEMMA MarkedFirstKept == Typed /\ MarkedFirst /\ [Next]_vars => MarkedFirst'
<1>1. CASE Tick \/ UNCHANGED vars
  BY <1>1 DEF MarkedFirst, Removing, Tick, vars, locks
<1> QED BY <1>1, MarkedFirstStep, NextIsTaskStep

\* A session leaves the registry marked.
LEMMA LeavesMarked ==
  ASSUME Typed, MarkedFirst, NEW t \in Tasks, TaskStep(t),
         NEW s \in records, s \notin records'
  PROVE  closing[s]
<1>1. s \in Creates
  BY DEF Typed, TypeOK
<1>2. Removing(t, s)
  <2>1. CASE Removed(t)
    BY <2>1 DEF Removed
  <2>2. CASE Swapped(t)
    BY <2>2 DEF Swapped, Removing
  <2> QED BY <1>1, <2>1, <2>2, Books DEF NoChange, Inserted
<1> QED BY <1>1, <1>2 DEF MarkedFirst

-----------------------------------------------------------------------------
(* The books with DELETE and reset. *)

\* The sessions that an evictor or the reaper is closing, and will count, though
\* somebody else has removed their records and counted them.
Lost ==
  {s \in Creates : /\ s \notin records
                   /\ \E t \in Creates \cup {Reaper} : Removing(t, s)}

\* Whoever has left the registry since the reaper's snapshot is marked.
Tracked == \A s \in todo[Reaper] : closing[s] \/ s \in records

Outs == stats.reaped + stats.evicted

\* No session that is to be counted once more has been evicted or reaped.
Booked == Cardinality(records) + Cardinality(Lost) + Outs <= stats.created

\* Whoever leaves does so marked, and the snapshot is never renewed with it.
LEMMA TrackedStep ==
  ASSUME Typed, MarkedFirst, Tracked, NEW t \in Tasks, TaskStep(t)
  PROVE  Tracked'
<1> SUFFICES ASSUME NEW s \in todo'[Reaper], s \notin records' PROVE closing'[s]
  BY DEF Tracked
<1>1. MarkEffect(t) /\ TombEffect(t)
  BY MarkEffects, TombEffects
<1>2. s \in todo[Reaper] \cup records
  BY <1>1 DEF TombEffect
<1>3. s \in Creates
  BY <1>2 DEF Typed, TypeOK
<1>4. closing[s]
  BY <1>2, LeavesMarked DEF Tracked
<1> QED BY <1>1, <1>3, <1>4 DEF MarkEffect

\* A session is lost to the tasks that close it when another one removes it.
LEMMA LosingStep ==
  ASSUME Typed, MarkedFirst, Tracked, NEW t \in Tasks, TaskStep(t),
         NEW s \in Lost', s \notin Lost
  PROVE  /\ s \in records /\ s \notin records' /\ s \in Creates
         /\ \E u \in Creates \cup {Reaper} : u # t /\ Removing(u, s)
<1> USE Kinds
<1>1. PICK u \in Creates \cup {Reaper} : Removing(u, s)'
  BY DEF Lost
<1>2. s \in Creates /\ s \notin records'
  BY DEF Lost
<1>3. CASE u # t
  <2>1. Removing(u, s)
    BY <1>1, <1>3, OneTaskMoves DEF Removing
  <2> QED BY <1>2, <1>3, <2>1 DEF Lost
<1>4. CASE u = t
  <2>1. TargetEffect(t)
    BY <1>4, TargetEffects
  <2>2. CASE Removing(t, s) /\ records' = records
    BY <1>2, <1>4, <2>2 DEF Lost
  <2>3. CASE ~closing[s] /\ s \in records \cup todo[Reaper]
    BY <1>2, <2>3, LeavesMarked DEF Tracked
  <2> QED BY <1>1, <1>2, <1>4, <2>1, <2>2, <2>3 DEF TargetEffect
<1> QED BY <1>3, <1>4

\* What the two counters come to in each of the four kinds of step.
LEMMA OutsMove ==
  ASSUME Typed, NEW t \in Tasks, TaskStep(t)
  PROVE  /\ Outs \in Nat /\ Outs' \in Nat
         /\ NoChange \/ Inserted(t) => Outs' <= Outs
         /\ Removed(t) \/ Swapped(t) => Outs' <= Outs + 1
         /\ Removed(t) /\ t \in Deletes \cup Resets => Outs' <= Outs
<1>1. /\ stats.reaped \in Nat /\ stats.evicted \in Nat /\ stats.deleted \in Nat
      /\ stats'.reaped \in Nat /\ stats'.evicted \in Nat /\ stats'.deleted \in Nat
  BY TypedNext, TaskStepIsNext DEF Typed, TypeOK, Counters
<1>2. /\ Outs \in Nat /\ Outs' \in Nat
      /\ Removals = Outs + stats.deleted /\ Removals' = Outs' + stats'.deleted
      /\ Removals \in Nat
  BY <1>1 DEF Outs, Removals
<1>3. /\ stats'.deleted = stats.deleted \/ stats'.deleted = stats.deleted + 1
      /\ t \in Deletes \cup Resets =>
           Removals' = Removals \/ stats'.deleted = stats.deleted + 1
  BY Deletions
<1>4. NoChange \/ Inserted(t) => Removals' = Removals
  BY DEF NoChange, Inserted
<1>5. Removed(t) \/ Swapped(t) => Removals' = Removals + 1
  BY DEF Removed, Swapped
<1> HIDE DEF Outs
<1>6. PICK o, p, d, e : o = Outs /\ p = Outs' /\ d = stats.deleted /\ e = stats'.deleted
  OBVIOUS
<1> QED BY <1>1, <1>2, <1>3, <1>4, <1>5, <1>6

\* An evictor or the reaper that has removed its session turns to another.
LEMMA VictimDone ==
  ASSUME Typed, Marked, NEW t \in Creates \cup {Reaper}, TaskStep(t),
         Removed(t) \/ Swapped(t)
  PROVE  \E v \in Creates : v = tgt[t] /\ Removing(t, v) /\ ~Removing(t, v)'
<1> USE Kinds
<1>1. PICK v \in Creates : v = tgt[t] /\ Removing(t, v)
  BY DEF Removed, Swapped, Removing
<1>2. Removals' # Removals
  <2>1. Removals \in Nat
    <3>1. /\ stats.deleted \in Nat /\ stats.reaped \in Nat
          /\ stats.evicted \in Nat
      BY DEF Typed, TypeOK, Counters
    <3> QED BY <3>1 DEF Removals
  <2> QED BY <2>1 DEF Removed, Swapped
<1>3. CASE t \in Creates
  <2>1. CreateStep(t)
    BY <1>3, DistinctTasks, Zenon DEF TaskStep
  <2>2. pc[t] \in {"evict1", "evict2"}
    BY <1>1, <1>3, DistinctTasks DEF Removing
  <2>3. FirstVictimClosed(t) \/ SecondVictimClosed(t)
    BY <2>1, <2>2
       DEF CreateStep, CreateAdmit, CreateReject, CreateEvict, LaunchFailed,
           LaunchAdmit, LaunchSurplus, LaunchEvict, SurplusClosed
  <2>4. pc'[t] \in {"launch", "finished"}
    BY <1>3, <2>3
       DEF FirstVictimClosed, SecondVictimClosed, Insert, Finish, Goto, Typed, TypeOK
  <2> QED BY <1>1, <1>3, <2>4, DistinctTasks DEF Removing
<1>4. CASE t = Reaper
  <2>1. ReapClosed
    <3>1. ReaperStep
      BY <1>4, DistinctTasks, Zenon DEF TaskStep
    <3>2. ~ReapBegin
      BY <1>2 DEF ReapBegin, Removals
    <3>3. CASE LockGranted(Reaper)
      <4>1. Count({})
        BY <3>3, DistinctTasks DEF LockGranted, Enter
      <4> QED BY <1>2, <4>1, CountOther
    <3> QED BY <3>1, <3>2, <3>3 DEF ReaperStep
  <2>2. PICK rest, due : ReapNext(rest, due)
    BY <2>1 DEF ReapClosed
  <2>3. closing[v]
    BY <1>1 DEF Marked
  <2>4. CASE Goto(Reaper, "asleep")
    BY <1>1, <1>4, <2>4, DistinctTasks DEF Goto, Removing, Typed, TypeOK
  <2>5. CASE \E s \in First({u \in rest : Reapable(u, due)}) :
               tgt' = [tgt EXCEPT ![Reaper] = s]
    <3>1. PICK s : ~closing[s] /\ tgt' = [tgt EXCEPT ![Reaper] = s]
      BY <2>5 DEF First, Reapable
    <3>2. tgt'[Reaper] = s /\ s # v
      BY <2>3, <3>1 DEF Typed, TypeOK
    <3> QED BY <1>1, <1>4, <3>2 DEF Removing
  <2> QED BY <2>2, <2>4, <2>5 DEF ReapNext
<1> QED BY <1>1, <1>3, <1>4

\* Whose session a step takes away, whoever takes it.
LEMMA LostMoves ==
  ASSUME Typed, Marked, VictimsDistinct, MarkedFirst, Tracked,
         NEW t \in Tasks, TaskStep(t)
  PROVE  /\ records \subseteq records' => Lost' \subseteq Lost
         /\ Removed(t) => Lost' \subseteq Lost \cup {tgt[t]}
         /\ t \in Creates \cup {Reaper} /\ (Removed(t) \/ Swapped(t)) =>
              /\ Lost' \subseteq Lost \ {tgt[t]}
              /\ tgt[t] \in Lost \/ tgt[t] \in records
<1> USE Kinds
<1>1. records \subseteq records' => Lost' \subseteq Lost
  BY LosingStep
<1>2. Removed(t) => Lost' \subseteq Lost \cup {tgt[t]}
  BY LosingStep DEF Removed
<1>3. ASSUME t \in Creates \cup {Reaper}, Removed(t) \/ Swapped(t)
      PROVE  /\ Lost' \subseteq Lost \ {tgt[t]}
             /\ tgt[t] \in Lost \/ tgt[t] \in records
  <2>1. PICK v \in Creates : v = tgt[t] /\ Removing(t, v) /\ ~Removing(t, v)'
    BY <1>3, VictimDone
  <2>2. v \in Lost \/ v \in records
    BY <1>3, <2>1 DEF Lost
  <2>3. \A u \in Creates \cup {Reaper} : u # t => ~Removing(u, v) /\ ~Removing(u, v)'
    BY <1>3, <2>1, OneTaskMoves DEF VictimsDistinct, Removing
  <2>4. v \notin Lost'
    BY <1>3, <2>1, <2>3 DEF Lost
  <2>5. \A s \in records : s \notin records' => s = v
    BY <1>3, <2>1 DEF Removed, Swapped
  <2>6. Lost' \subseteq Lost
    BY <2>3, <2>5, LosingStep
  <2> QED BY <2>1, <2>2, <2>4, <2>6
<1> QED BY <1>1, <1>2, <1>3

\* Neither kind of step in which nobody is evicted or reaped upsets the books.
LEMMA BookedBy ==
  ASSUME Typed, Booked, stats'.created = stats.created,
         Outs \in Nat, Outs' \in Nat, Outs' <= Outs,
         \/ records' \subseteq records /\ Lost' \subseteq Lost
         \/ \E v \in records : /\ records' \subseteq records \ {v}
                              /\ Lost' \subseteq Lost \cup {v}
  PROVE  Booked'
<1>1. IsFiniteSet(records) /\ IsFiniteSet(Lost) /\ stats.created \in Nat
  <2>1. Lost \subseteq Requests
    BY Kinds DEF Lost
  <2> QED BY <2>1, FiniteRecords, FiniteTasks, FS_Subset DEF Typed, TypeOK, Counters
<1> DEFINE r == Cardinality(records)   l == Cardinality(Lost)
           x == Cardinality(records')  k == Cardinality(Lost')
           o == Outs                   p == Outs'
           n == stats.created          m == stats'.created
<1>2. /\ r \in Nat /\ l \in Nat /\ n \in Nat /\ o \in Nat /\ p \in Nat
      /\ r + l + o <= n /\ p <= o /\ m = n
  BY <1>1, FS_CardinalityType DEF Booked
<1>3. SUFFICES x + k + p <= m
  BY DEF Booked
<1>4. CASE records' \subseteq records /\ Lost' \subseteq Lost
  <2>1. x \in Nat /\ x <= r /\ k \in Nat /\ k <= l
    BY <1>1, <1>4, Counts
  <2> HIDE DEF r, l, x, k, o, p, n, m
  <2> QED BY <1>2, <2>1
<1>5. ASSUME NEW v \in records, records' \subseteq records \ {v},
             Lost' \subseteq Lost \cup {v}
      PROVE  x + k + p <= m
  <2>1. x \in Nat /\ x <= r - 1 /\ k \in Nat /\ k <= l + 1
    BY <1>1, <1>5, Counts
  <2> HIDE DEF r, l, x, k, o, p, n, m
  <2> QED BY <1>2, <2>1
<1> QED BY <1>4, <1>5

\* A step keeps the books: what is lost to one task is counted by another.
LEMMA BookedStep ==
  ASSUME Typed, Marked, VictimsDistinct, Answered, MarkedFirst, Tracked, Booked,
         NEW t \in Tasks, TaskStep(t)
  PROVE  Booked'
<1>1. IsFiniteSet(records) /\ IsFiniteSet(Lost)
  <2>1. Lost \subseteq Requests
    BY Kinds DEF Lost
  <2> QED BY <2>1, FiniteRecords, FiniteTasks, FS_Subset
<1> DEFINE r == Cardinality(records)   l == Cardinality(Lost)
           x == Cardinality(records')  k == Cardinality(Lost')
           o == Outs                   p == Outs'
           n == stats.created          m == stats'.created
<1>2. /\ r \in Nat /\ l \in Nat /\ n \in Nat /\ o \in Nat /\ p \in Nat
      /\ r + l + o <= n
  BY <1>1, OutsMove, FS_CardinalityType DEF Booked, Typed, TypeOK, Counters
<1>3. SUFFICES x + k + p <= m
  BY DEF Booked
<1>4. records \subseteq records' => k \in Nat /\ k <= l
  BY <1>1, Counts, LostMoves
<1>5. CASE NoChange
  BY <1>5, OutsMove, LostMoves, BookedBy DEF NoChange, Booked
<1>6. CASE Removed(t) /\ t \in Deletes \cup Resets
  <2>1. CASE tgt[t] \in records
    BY <1>6, <2>1, OutsMove, LostMoves, BookedBy DEF Removed, Booked
  <2>2. CASE tgt[t] \notin records
    BY <1>6, <2>2, OutsMove, LostMoves, BookedBy DEF Removed, Booked
  <2> QED BY <2>1, <2>2
<1>7. CASE Removed(t) /\ t \notin Deletes \cup Resets
  <2>1. t \in Creates \cup {Reaper}
    BY <1>7 DEF Removed, Removing
  <2>2. p <= o + 1 /\ m = n
    BY <1>7, OutsMove DEF Removed
  <2>3. Lost' \subseteq Lost \ {tgt[t]} /\ (tgt[t] \in Lost \/ tgt[t] \in records)
    BY <1>7, <2>1, LostMoves
  <2>4. CASE tgt[t] \in records
    <3>1. records' \subseteq records \ {tgt[t]} /\ Lost' \subseteq Lost
      BY <1>7, <2>3 DEF Removed
    <3>2. x \in Nat /\ x <= r - 1 /\ k \in Nat /\ k <= l
      BY <1>1, <2>4, <3>1, Counts
    <3> HIDE DEF r, l, x, k, o, p, n, m
    <3> QED BY <1>2, <2>2, <3>2
  <2>5. CASE tgt[t] \in Lost
    <3>1. records' \subseteq records
      BY <1>7 DEF Removed
    <3>2. x \in Nat /\ x <= r /\ k \in Nat /\ k <= l - 1
      BY <1>1, <2>3, <2>5, <3>1, Counts
    <3> HIDE DEF r, l, x, k, o, p, n, m
    <3> QED BY <1>2, <2>2, <3>2
  <2> QED BY <2>3, <2>4, <2>5
<1>8. CASE Inserted(t)
  <2>1. /\ records \subseteq records' /\ records' \subseteq records \cup {t}
        /\ p <= o /\ m = n + 1
    BY <1>8, OutsMove DEF Inserted
  <2>2. x \in Nat /\ x <= r + 1
    BY <1>1, <2>1, Counts
  <2> HIDE DEF r, l, x, k, o, p, n, m
  <2> QED BY <1>2, <1>4, <2>1, <2>2
<1>9. CASE Swapped(t)
  <2>1. p <= o + 1 /\ m = n + 1
    BY <1>9, OutsMove DEF Swapped
  <2>2. Lost' \subseteq Lost \ {tgt[t]} /\ (tgt[t] \in Lost \/ tgt[t] \in records)
    BY <1>9, LostMoves DEF Swapped
  <2>3. CASE tgt[t] \in records
    <3>1. PICK rest : rest = records \ {tgt[t]}
      OBVIOUS
    <3>2. Cardinality(rest) \in Nat /\ Cardinality(rest) <= r - 1 /\ IsFiniteSet(rest)
      BY <1>1, <2>3, <3>1, Counts, FS_Subset
    <3>3. records' \subseteq rest \cup {t} /\ Lost' \subseteq Lost
      BY <1>9, <2>2, <3>1 DEF Swapped
    <3>4. x \in Nat /\ x <= Cardinality(rest) + 1 /\ k \in Nat /\ k <= l
      BY <1>1, <3>2, <3>3, Counts
    <3> HIDE DEF r, l, x, k, o, p, n, m
    <3> QED BY <1>2, <2>1, <3>2, <3>4
  <2>4. CASE tgt[t] \in Lost
    <3>1. records' \subseteq records \cup {t}
      BY <1>9 DEF Swapped
    <3>2. x \in Nat /\ x <= r + 1
      BY <1>1, <3>1, Counts
    <3>3. k \in Nat /\ k <= l - 1
      BY <1>1, <2>2, <2>4, Counts
    <3> HIDE DEF r, l, x, k, o, p, n, m
    <3> QED BY <1>2, <2>1, <3>2, <3>3
  <2> QED BY <2>2, <2>3, <2>4
<1> QED BY <1>5, <1>6, <1>7, <1>8, <1>9, Books

\* All that the counters of GET /metrics can be held to.
Accounts == MarkedFirst /\ Tracked /\ Booked /\ Paid /\ NoUncountedRemoval

\* At first nothing has been counted.
LEMMA AccountsInit == Init => Accounts
<1> SUFFICES ASSUME Init PROVE Accounts
  OBVIOUS
<1>1. MarkedFirst /\ Paid /\ Tracked
  BY MarkedFirstInit, PaidInit DEF Init, Tracked
<1>2. records = {} /\ Lost = {} /\ Outs = 0 /\ stats.created = 0
  BY Kinds, DistinctTasks DEF Init, Lost, Removing, Counters, Outs
<1>3. NoUncountedRemoval
  BY FS_EmptySet DEF Init, NoUncountedRemoval, Counters
<1> QED BY <1>1, <1>2, <1>3, FS_EmptySet DEF Booked, Accounts

\* Every step of the registry keeps them.
LEMMA AccountsStep ==
  ASSUME Sound, Accounts, [Next]_vars
  PROVE  Accounts'
<1> USE DEF Sound, Accounts
<1>1. MarkedFirst' /\ Paid' /\ NoUncountedRemoval'
  BY MarkedFirstKept, PaidNext, CountedStep
<1>2. CASE Tick \/ UNCHANGED vars
  <2>1. Tracked' /\ Booked'
    BY <1>2 DEF Tracked, Booked, Lost, Outs, Removing, Tick, vars, registry,
                locks, pass
  <2> QED BY <1>1, <2>1
<1>3. CASE \E t \in Tasks : TaskStep(t)
  BY <1>1, <1>3, TrackedStep, BookedStep
<1> QED BY <1>2, <1>3, NextIsTaskStep

\* Where the books are kept no session is evicted or reaped twice.
LEMMA BookedBounds == ASSUME Typed, Booked PROVE EvictedReapedOnce
<1>1. IsFiniteSet(Lost)
  BY Kinds, FiniteTasks, FS_Subset DEF Lost
<1>2. /\ Cardinality(Lost) \in Nat /\ Cardinality(records) \in Nat
      /\ stats.created \in Nat /\ stats.reaped \in Nat /\ stats.evicted \in Nat
  BY <1>1, FiniteRecords, FS_CardinalityType DEF Typed, TypeOK, Counters
<1>3. Cardinality(records) + Cardinality(Lost) + (stats.reaped + stats.evicted)
        <= stats.created
  BY DEF Booked, Outs
<1> QED BY <1>2, <1>3 DEF EvictedReapedOnce

\* With every kind of request in any number, no session is counted as evicted or
\* reaped twice, or while it is in the registry: of the counters of GET /metrics
\* only `deleted` may count what another one counts.
THEOREM EvictedOrReapedOnce == Spec => []EvictedReapedOnce
<1>1. Sound /\ Accounts => EvictedReapedOnce
  BY BookedBounds DEF Sound, Accounts
<1> QED BY SoundInit, SoundStep, AccountsInit, AccountsStep, <1>1, PTL DEF Spec

-----------------------------------------------------------------------------
(* An id that answered 404. *)

\* An id that was issued and that get() does not return is never returned again:
\* no task takes a mark back, and only a create puts in a record, its own.
LEMMA StaysGone ==
  ASSUME Sound, NEW t \in Tasks, TaskStep(t), NEW s \in Issued, ~Live(s)
  PROVE  s \in Issued' /\ ~Live(s)'
<1>1. s \in Creates /\ s \in Issued'
  BY IssuedStep DEF Issued, Sound
<1>2. closing[s] => closing'[s]
  BY <1>1, MarkEffects DEF MarkEffect, Sound
<1>3. s \notin records => s \notin records'
  BY <1>1, NewRecord
<1> QED BY <1>1, <1>2, <1>3 DEF Live

\* GoneForGood, of ids that were issued.
Hidden ==
  \A t \in Actions \cup Deletes \cup Probes :
    reply[t] \in {"unknown", "expired"} => tgt[t] \in Issued /\ ~Live(tgt[t])

\* A request that hears 404 names such an id, and keeps to it.
LEMMA HiddenStep ==
  ASSUME Sound, Hidden, NEW t \in Tasks, TaskStep(t)
  PROVE  Hidden'
<1> USE Kinds
<1> SUFFICES ASSUME NEW u \in Actions \cup Deletes \cup Probes,
                    reply'[u] \in {"unknown", "expired"}
             PROVE  \E s \in Issued : tgt'[u] = s /\ ~Live(s)
  <2>1. \A s \in Issued : ~Live(s) => s \in Issued' /\ ~Live(s)'
    BY StaysGone
  <2> QED BY <2>1 DEF Hidden, Live
<1>0. Typed /\ u \in Requests /\ u \in Tasks
  BY DEF Sound
<1>1. CASE u # t
  <2>1. reply'[u] = reply[u] /\ tgt'[u] = tgt[u]
    BY <1>0, <1>1, ReplyEffects, OneTaskMoves DEF ReplyEffect
  <2>2. tgt[u] \in Issued /\ ~Live(tgt[u])
    BY <2>1 DEF Hidden
  <2> QED BY <2>1, <2>2
<1>2. CASE u = t
  <2>1. reply[t] = "none"
    BY <1>0, <1>2, ReplyEffects DEF ReplyEffect, Sound, Settled
  <2>2. NotLive(t)
    BY <1>0, <1>2, <2>1, DistinctTasks
       DEF Typed, TypeOK, TaskStep, ActionStep, DeleteStep, ProbeStep, GetLive,
           TryLock, LockGranted, LockTimeout, ActionDone, DeleteDone, ProbeCached,
           ProbeLock, ProbeDone, Finish
  <2>3. PICK s \in Issued : ~Live(s) /\ tgt' = [tgt EXCEPT ![t] = s]
    BY <2>2 DEF NotLive
  <2>4. tgt'[u] = s
    BY <1>0, <1>2, <2>3 DEF Typed, TypeOK
  <2> QED BY <2>3, <2>4
<1> QED BY <1>1, <1>2

\* A session that one request was told is gone is served to no later one.
THEOREM GoneStaysGone == Spec => []GoneForGood
<1>1. Init => Hidden
  BY Kinds DEF Init, Hidden
<1>2. Sound /\ Hidden /\ [Next]_vars => Hidden'
  <2>1. CASE Tick \/ UNCHANGED vars
    BY <2>1 DEF Hidden, Issued, Live, Tick, vars, registry, locks
  <2> QED BY <2>1, HiddenStep, NextIsTaskStep
<1>3. Hidden => GoneForGood
  BY DEF Hidden, GoneForGood
<1> QED BY SoundInit, SoundStep, <1>1, <1>2, <1>3, PTL DEF Spec

-----------------------------------------------------------------------------
(* Requests that are cut off (Lifespan).  A coroutine that is cancelled does  *)
(* part of what its step would have done, and then none of its later steps.   *)

\* A cancelled request gives up its lock or its place in a queue.  It answers
\* nothing, puts no mark and opens no browser; a DELETE removes its session and
\* counts it.
Quits(t) ==
  /\ Goto(t, "finished") /\ (Passes(t) \/ GivesUp(t) \/ GivesBack(t))
  /\ UNCHANGED <<closing, tombstones, todo, tgt, reply>>
  /\ \A s \in Creates : engine'[s] = "open" => engine[s] = "open"
  /\ IF t \in Deletes /\ pc[t] = "working"
     THEN records' = records \ {tgt[t]} /\ Count({"deleted"})
     ELSE records' = records /\ stats' = stats

\* What a cancelled close leaves of the browsers.
LEMMA CutClose ==
  ASSUME Typed, NEW s \in Creates, CloseCut(s)
  PROVE  /\ engine' \in [Creates -> {"none", "open", "closed"}]
         /\ \A u \in Creates : engine'[u] = "open" => engine[u] = "open"
BY DEF Typed, TypeOK, CloseCut, CloseEngine

\* A request without a lock that is cut off keeps the types and quits.
LEMMA CutIdle ==
  ASSUME Typed, NEW t \in Requests, phase = "up" /\ Cut(t), Passes(t),
         ~(t \in Deletes /\ pc[t] = "working"),
         UNCHANGED <<registry, locks, pass, stats>>,
         engine' = engine \/ \E s \in Creates : CloseCut(s)
  PROVE  Typed' /\ Quits(t)
<1> USE Kinds DEF Cut
<1>1. /\ engine' \in [Creates -> {"none", "open", "closed"}]
      /\ \A u \in Creates : engine'[u] = "open" => engine[u] = "open"
  BY CutClose DEF Typed, TypeOK
<1>2. Quits(t)
  BY <1>1 DEF Quits, registry, locks, pass
<1>3. TypeOK'
  BY <1>1 DEF Typed, TypeOK, Goto, Places, registry, locks, pass
<1>4. "finished" \in PlacesOf(t)
  BY PlacesOfKinds DEF Requests
<1>5. Placement'
  BY <1>4, PlacementStep DEF Targeted
<1> QED BY <1>2, <1>3, <1>5 DEF Typed

\* Every cancellation is of one request, which quits.
LEMMA Cuts ==
  ASSUME Typed, QueueSound, Cancellation
  PROVE  /\ Typed' /\ phase = "up" /\ UNCHANGED <<phase, left>>
         /\ \E t \in Requests : Quits(t) /\ cancelled' = cancelled \cup {t}
<1> USE Kinds
<1>0. ASSUME NEW t \in Requests, Cut(t), Typed' /\ Quits(t)
      PROVE  /\ Typed' /\ phase = "up" /\ UNCHANGED <<phase, left>>
             /\ \E u \in Requests : Quits(u) /\ cancelled' = cancelled \cup {u}
  BY <1>0 DEF Cut
<1>1. ASSUME NEW t \in Requests, Cut(t) PROVE pc'[t] = "finished" /\ tgt' = tgt
  BY <1>1 DEF Cut, Goto, Typed, TypeOK
<1>2. ASSUME NEW c \in Creates, CutEviction(c) \/ CutLaunch(c) \/ CutSurplus(c)
      PROVE  Typed' /\ Quits(c) /\ Cut(c)
  <2>1. Cut(c) /\ UNCHANGED <<registry, locks, pass, stats>>
    BY <1>2 DEF CutEviction, CutLaunch, CutSurplus
  <2>2. engine' = engine \/ \E s \in Creates : CloseCut(s)
    BY <1>2 DEF CutEviction, CutLaunch, CutSurplus, Typed, Placement, Targeted
  <2>3. Passes(c) /\ ~(c \in Deletes)
    BY <1>1, <1>2, <2>1, DistinctTasks
       DEF CutEviction, CutLaunch, CutSurplus, Passes, locks
  <2>4. phase = "up"
    BY <2>1 DEF Cut
  <2> QED BY <2>1, <2>2, <2>3, <2>4, CutIdle
<1>3. ASSUME NEW r \in Resets, CutReset(r)
      PROVE  Typed' /\ Quits(r) /\ Cut(r)
  <2>1. Cut(r) /\ UNCHANGED <<registry, locks, pass, stats>> /\ phase = "up"
    BY <1>3 DEF CutReset, Cut
  <2>2. engine' = engine \/ \E s \in Creates : CloseCut(s)
    BY <1>3 DEF CutReset, Typed, Placement, Targeted
  <2>3. Passes(r) /\ ~(r \in Deletes)
    BY <1>1, <1>3, <2>1, DistinctTasks DEF CutReset, Passes, locks
  <2> QED BY <2>1, <2>2, <2>3, CutIdle
<1>4. ASSUME NEW t \in Requests, Cut(t), tgt[t] \in Creates,
             UNCHANGED <<born, timeout, idle, tombstones, closing, pass>>,
             records' \subseteq records,
             lock' \in [Creates -> Tasks \cup {None}],
             waiters' \in [Creates -> Seq(Tasks)],
             engine' \in [Creates -> {"none", "open", "closed"}],
             stats' \in [Counters -> Nat]
      PROVE  Typed'
  <2>1. TypeOK'
    BY <1>4 DEF Cut, Goto, Typed, TypeOK, Places, pass
  <2>2. "finished" \in PlacesOf(t)
    BY PlacesOfKinds DEF Requests
  <2>3. Placement'
    BY <1>4, <2>2, PlacementStep DEF Cut, Targeted
  <2> QED BY <2>1, <2>3 DEF Typed
<1>5. ASSUME NEW t \in Actions \cup Deletes \cup Probes, CutWait(t)
      PROVE  Typed' /\ Quits(t) /\ Cut(t)
  <2>0. /\ t \in Requests /\ Cut(t) /\ tgt[t] \in Creates /\ t # Reaper
        /\ UNCHANGED <<registry, pass, closing, lock, stats, engine>>
        /\ waiters' = [waiters EXCEPT ![tgt[t]] = Without(waiters[tgt[t]], t)]
        /\ pc[t] \in {"acquire", "waiting"}
    BY <1>5 DEF CutWait, Typed, Placement, Targeted
  <2>1. Typed'
    <3>1. waiters' \in [Creates -> Seq(Tasks)]
      BY <2>0, QueueTypes DEF Typed, TypeOK
    <3> QED BY <1>4, <2>0, <3>1 DEF Typed, TypeOK, registry, pass
  <2>2. Passes(t) \/ GivesUp(t)
    <3>1. CASE pc[t] = "waiting"
      <4>1. GivesUp(t)
        BY <1>1, <2>0, <3>1 DEF GivesUp
      <4> QED BY <4>1
    <3>2. CASE pc[t] = "acquire"
      <4>1. t \notin Range(waiters[tgt[t]])
        BY <2>0, <3>2 DEF QueueSound
      <4>2. waiters' = waiters
        BY <2>0, <4>1 DEF Without, Typed, TypeOK
      <4>3. Passes(t)
        BY <1>1, <2>0, <3>2, <4>2 DEF Passes
      <4> QED BY <4>3
    <3> QED BY <2>0, <3>1, <3>2
  <2>3. Quits(t)
    BY <2>0, <2>2 DEF Quits, Cut, registry, pass
  <2> QED BY <2>0, <2>1, <2>3
<1>6. ASSUME NEW t \in Actions \cup Probes, CutWork(t)
      PROVE  Typed' /\ Quits(t) /\ Cut(t)
  <2>0. /\ t \in Requests /\ Cut(t) /\ tgt[t] \in Creates /\ t # Reaper
        /\ UNCHANGED <<registry, pass, closing, waiters, stats, engine>>
        /\ lock' = [lock EXCEPT ![tgt[t]] = None]
        /\ pc[t] = "working" /\ t \notin Deletes
    BY <1>6, DistinctTasks DEF CutWork, Release, Typed, Placement, Targeted
  <2>1. Typed'
    BY <1>4, <2>0 DEF Typed, TypeOK, registry, pass
  <2>2. GivesBack(t)
    BY <1>1, <2>0 DEF GivesBack
  <2>3. Quits(t)
    BY <2>0, <2>2 DEF Quits, Cut, registry, pass
  <2> QED BY <2>0, <2>1, <2>3
<1>7. ASSUME NEW d \in Deletes, CutDelete(d)
      PROVE  Typed' /\ Quits(d) /\ Cut(d)
  <2>0. /\ d \in Requests /\ Cut(d) /\ tgt[d] \in Creates /\ d # Reaper
        /\ UNCHANGED <<pass, born, timeout, idle, tombstones, closing, waiters>>
        /\ lock' = [lock EXCEPT ![tgt[d]] = None]
        /\ records' = records \ {tgt[d]} /\ CloseCut(tgt[d]) /\ Count({"deleted"})
        /\ pc[d] = "working"
    BY <1>7 DEF CutDelete, Release, Typed, Placement, Targeted
  <2>1. /\ engine' \in [Creates -> {"none", "open", "closed"}]
        /\ \A u \in Creates : engine'[u] = "open" => engine[u] = "open"
        /\ stats' \in [Counters -> Nat]
    BY <2>0, CutClose, CountType
  <2>2. Typed'
    BY <1>4, <2>0, <2>1 DEF Typed, TypeOK
  <2>3. GivesBack(d)
    BY <1>1, <2>0 DEF GivesBack
  <2>4. Quits(d)
    BY <1>7, <2>0, <2>1, <2>3 DEF Quits, Cut, pass
  <2> QED BY <2>0, <2>2, <2>4
<1>8. ASSUME NEW t \in Actions \cup Deletes \cup Probes, CutWork(t)
      PROVE  t \in Actions \cup Probes
  BY <1>8 DEF CutWork
<1> QED BY <1>0, <1>2, <1>3, <1>5, <1>6, <1>7, <1>8 DEF Cancellation

\* What holds of the registry while the application is up.
Running == Sound /\ LockSound /\ WorkUnderLock /\ NoProbeBehindReaper

\* Whoever is cut off, the locks, queues, marks and tombstones stay sound.
LEMMA QuitKeeps ==
  ASSUME Running, Typed', NEW t \in Requests, Quits(t)
  PROVE  Running'
<1> USE Kinds DEF Running, Sound
<1>1. /\ Alone(t) /\ LockMove(t) /\ pc'[t] = "finished" /\ tgt' = tgt
      /\ t # Reaper /\ t # None /\ records' \subseteq records
  BY DEF Quits, Goto, Alone, LockMove, Typed, TypeOK
<1>2. ASSUME NEW s \in Creates
      PROVE  \/ lock'[s] = lock[s] /\ (lock[s] = t => pc[t] # "working")
             \/ lock'[s] = None /\ s = tgt[t] /\ pc[t] = "working"
             \/ lock'[s] = lock[s] /\ s # tgt[t] /\ pc[t] = "working"
  BY <1>1 DEF Quits, Passes, GivesUp, GivesBack, Typed, TypeOK
<1>3. ASSUME NEW u \in Tasks, NEW s \in Creates, Removing(u, s)'
      PROVE  Removing(u, s)
  BY <1>1, <1>3 DEF Alone, Removing
<1>4. Marked' /\ VictimsDistinct' /\ Answered'
  <2>1. Marked' /\ VictimsDistinct'
    BY <1>3 DEF Marked, VictimsDistinct, Quits
  <2>2. ASSUME NEW s \in records' PROVE pc'[s] = "finished"
    <3>1. s \in records /\ s \in Tasks /\ pc[s] = "finished"
      BY <1>1 DEF Answered, Typed, TypeOK
    <3> QED BY <1>1, <3>1 DEF Alone
  <2> QED BY <2>1, <2>2 DEF Answered
<1>5. Settled'
  <2>1. ASSUME NEW u \in Requests, pc'[u] # "finished" PROVE reply'[u] = "none"
    BY <1>1, <2>1 DEF Quits, Alone, Settled
  <2> QED BY <1>1, <1>3, <2>1 DEF Settled, Quits, Issued
<1>6. Aimed'
  <2>1. ASSUME NEW u \in Tasks, pc'[u] \in Targeted PROVE tgt'[u] \in Issued'
    BY <1>1, <2>1 DEF Quits, Alone, Aimed, Targeted, Issued
  <2>2. ASSUME NEW s \in Creates, lock'[s] = Reaper PROVE closing'[s]
    BY <1>2, <2>2 DEF Aimed, Quits
  <2> QED BY <2>1, <2>2 DEF Aimed, Quits, Issued
<1>7. QueueSound'
  BY <1>1, QueueMove DEF Typed
<1>8. Sound'
  BY <1>4, <1>5, <1>6, <1>7
<1>9. LockSound'
  <2> SUFFICES ASSUME NEW s \in Creates
               PROVE  /\ lock'[s] \in Requests =>
                           pc'[lock'[s]] = "working" /\ tgt'[lock'[s]] = s
                      /\ lock'[s] = Reaper =>
                           \/ pc'[Reaper] = "working" /\ tgt'[Reaper] = s
                           \/ s \notin records'
    BY DEF LockSound
  <2>1. /\ lock[s] \in Requests => pc[lock[s]] = "working" /\ tgt[lock[s]] = s
        /\ lock[s] = Reaper => \/ pc[Reaper] = "working" /\ tgt[Reaper] = s
                               \/ s \notin records
        /\ lock[s] \in Tasks \cup {None}
    BY DEF LockSound, Typed, TypeOK
  <2>2. lock'[s] = None \/ (lock'[s] = lock[s] /\ lock[s] # t)
    BY <1>2, <2>1
  <2> QED BY <1>1, <2>1, <2>2 DEF Alone
<1>10. WorkUnderLock'
  <2> SUFFICES ASSUME NEW u \in Tasks, pc'[u] = "working"
               PROVE  lock'[tgt'[u]] = u
    BY DEF WorkUnderLock
  <2>1. u # t /\ pc[u] = "working" /\ tgt[u] \in Creates /\ lock[tgt[u]] = u
    BY <1>1 DEF Alone, WorkUnderLock, Typed, Placement, Targeted
  <2>2. pc[t] = "working" => tgt[t] # tgt[u]
    BY <2>1 DEF WorkUnderLock
  <2> QED BY <1>1, <1>2, <2>1, <2>2
<1>11. NoProbeBehindReaper'
  BY <1>1, <1>8, ProbeOrder
<1> QED BY <1>8, <1>9, <1>10, <1>11

\* The registry runs on through every step of its own.
LEMMA RunningStep == Running /\ [Next]_vars => Running'
<1>1. NoProbeBehindReaper /\ Sound /\ [Next]_vars => NoProbeBehindReaper'
  <2>1. CASE Tick \/ UNCHANGED vars
    BY <2>1 DEF NoProbeBehindReaper, Tick, vars, locks
  <2> QED BY <2>1, SoundStep, ProbeOrder, LockMoves, NextIsTaskStep DEF Sound
<1> QED BY <1>1, SoundStep, HolderStep, WorkStep DEF Running, Sound

\* A request that is cut off takes no session out of the books: it removes none,
\* or it is a DELETE and counts it.
LEMMA QuitAccounts ==
  ASSUME Running, Accounts, Typed', NEW t \in Requests, Quits(t)
  PROVE  Accounts'
<1> USE Kinds DEF Accounts
<1>0. Typed /\ VictimsDistinct /\ Answered /\ t \in Tasks
  BY DEF Running, Sound
<1>1. /\ Alone(t) /\ tgt' = tgt /\ closing' = closing /\ todo' = todo
      /\ pc'[t] = "finished"
  BY <1>0 DEF Quits, Goto, Alone, Typed, TypeOK
<1>2. \A u \in Tasks : \A s \in Creates : Removing(u, s)' => Removing(u, s)
  BY <1>1 DEF Alone, Removing
<1>3. MarkedFirst'
  BY <1>1, <1>2 DEF MarkedFirst
<1>4. stats.created \in Nat /\ stats.deleted \in Nat /\ Outs \in Nat
  <2>1. stats \in [Counters -> Nat]
    BY <1>0 DEF Typed, TypeOK
  <2> QED BY <2>1 DEF Counters, Outs
<1>5. CASE records' = records /\ stats' = stats
  <2>1. Tracked'
    BY <1>1, <1>5 DEF Tracked
  <2>2. /\ Lost' \subseteq Lost /\ Orphans' \subseteq Orphans
        /\ Outs' = Outs
    BY <1>1, <1>2, <1>5 DEF Lost, Orphans, Outs, Alone
  <2>3. Booked'
    BY <1>0, <1>4, <1>5, <2>2, BookedBy
  <2>4. Paid'
    BY <1>0, <1>5, <2>2, PaidBy
  <2>5. NoUncountedRemoval'
    BY <1>5 DEF NoUncountedRemoval
  <2> QED BY <1>3, <2>1, <2>3, <2>4, <2>5
<1>6. CASE /\ t \in Deletes /\ pc[t] = "working"
           /\ records' = records \ {tgt[t]} /\ Count({"deleted"})
  <2>1. /\ stats'.created = stats.created /\ stats'.deleted = stats.deleted + 1
        /\ Outs' = Outs /\ Removals' = Removals + 1
    <3>1. /\ stats'.created = stats.created /\ stats'.deleted = stats.deleted + 1
          /\ stats'.reaped = stats.reaped /\ stats'.evicted = stats.evicted
      BY <1>0, <1>6 DEF Count, Typed, TypeOK, Counters
    <3> QED BY <1>0, <1>6, <3>1, CountRemoval DEF Outs
  <2>2. PICK v \in Creates : v = tgt[t] /\ Removing(t, v)
    BY <1>0, <1>6 DEF Removing, Typed, Placement, Targeted
  <2>3. Removed(t)
    BY <1>6, <2>1, <2>2 DEF Removed
  <2>4. closing[v]
    BY <1>0, <2>2 DEF MarkedFirst
  <2>5. Tracked'
    BY <1>1, <1>6, <2>2, <2>4 DEF Tracked
  <2>6. Lost' \subseteq Lost \cup {v} /\ (v \notin records => Lost' \subseteq Lost)
    BY <1>2, <1>6, <2>2 DEF Lost
  <2>7. v \notin records => records' = records /\ Orphans' \subseteq Orphans
    BY <1>1, <1>6, <2>2 DEF Orphans, Alone
  <2>8. \E c : Orphans' \subseteq Orphans \cup {c}
    <3>1. ASSUME NEW c \in Orphans', c \notin Orphans
          PROVE  c \in Creates /\ Removing(c, v)
      BY <1>1, <1>6, <2>2, <3>1 DEF Orphans, Alone, Removing
    <3>2. \A c, d \in Orphans' : c \notin Orphans /\ d \notin Orphans => c = d
      BY <1>0, <3>1 DEF VictimsDistinct
    <3>3. CASE \E c \in Orphans' : c \notin Orphans
      BY <3>2, <3>3
    <3> QED BY <3>3
  <2>9. Booked'
    <3>1. CASE v \in records
      BY <1>0, <1>4, <1>6, <2>1, <2>2, <2>6, <3>1, BookedBy
    <3>2. CASE v \notin records
      BY <1>0, <1>4, <2>1, <2>6, <2>7, <3>2, BookedBy
    <3> QED BY <3>1, <3>2
  <2>10. Paid'
    <3>1. CASE v \in records
      BY <1>0, <1>6, <2>1, <2>2, <2>8, <3>1, PaidBy
    <3>2. CASE v \notin records
      BY <1>0, <2>1, <2>7, <3>2, PaidBy
    <3> QED BY <3>1, <3>2
  <2>11. NoUncountedRemoval'
    BY <1>0, <1>6, <2>3, DistinctTasks, CountedKeeps
  <2> QED BY <1>3, <2>5, <2>9, <2>10, <2>11
<1> QED BY <1>5, <1>6 DEF Quits

\* A browser no record leads to: the launch of a create that was cut off, or
\* what a DELETE that was cut off has removed.
Stray(s) == s \in cancelled \/ \E d \in cancelled \cap Deletes : tgt[d] = s

\* Whose every mark is: that of a task that removes, or of one cut off in it.
MarksTraced ==
  \A s \in records : closing[s] =>
    \/ \E t \in Tasks : Removing(t, s)
    \/ \E t \in cancelled \cap (Creates \cup Resets) : tgt[t] = s

\* Where every browser belongs while the application is up.
BrowsersTraced ==
  \A s \in Creates : engine[s] = "open" =>
    s \in records \/ pc[s] \in {"surplus", "evict2"} \/ Stray(s)

\* A request that was cancelled has ended.
Ended == \A t \in cancelled \cap Requests : pc[t] = "finished"

\* Nothing runs any more, or waits.
Quiet ==
  /\ \A t \in Tasks : pc[t] \in {"start", "finished"}
  /\ \A s \in Creates : Range(waiters[s]) = {} /\ lock[s] \in {None, Reaper}
  /\ TombstonesSound

Life ==
  /\ TypeOK /\ left \subseteq Creates /\ Ended
  /\ CASE phase = "up" -> Running /\ MarksTraced /\ BrowsersTraced
       [] phase = "draining" ->
            Quiet /\ \A s \in Creates : engine[s] = "open" => s \in left \/ Stray(s)
       [] phase = "drained" ->
            Quiet /\ \A s \in Creates : engine[s] = "open" => Stray(s)
       [] phase = "stopped" -> Quiet
       [] OTHER -> FALSE

\* A cancelled request takes no step, so what it leaves is traced to it.
LEMMA TracedStep ==
  ASSUME Running, Ended, MarksTraced, BrowsersTraced, Next, cancelled' = cancelled
  PROVE  Ended' /\ MarksTraced' /\ BrowsersTraced'
<1> USE Kinds DEF Running
<1>1. CASE Tick
  BY <1>1 DEF Tick, Ended, MarksTraced, BrowsersTraced, Removing, Stray, locks
<1>2. ASSUME NEW t \in Tasks, TaskStep(t)
      PROVE  Ended' /\ MarksTraced' /\ BrowsersTraced'
  <2>1. \A u \in Tasks : u # t => pc'[u] = pc[u] /\ tgt'[u] = tgt[u]
    BY <1>2, OneTaskMoves DEF Sound
  <2>2. t \in Requests => t \notin cancelled
    BY <1>2, ReplyEffects DEF ReplyEffect, Sound, Ended
  <2>3. Ended'
    BY <2>1, <2>2 DEF Ended
  <2>4. /\ \A u \in cancelled \cap Requests : tgt'[u] = tgt[u] /\ pc'[u] = pc[u]
        /\ Creates \cup Resets \cup Deletes \subseteq Requests
    BY <2>1, <2>2 DEF Requests
  <2>5. MarksTraced'
    <3> SUFFICES ASSUME NEW s \in records', closing'[s]
                 PROVE  \/ \E u \in Tasks : Removing(u, s)'
                        \/ \E u \in cancelled \cap (Creates \cup Resets) : tgt'[u] = s
      BY DEF MarksTraced
    <3>1. /\ s \in records \/ (s = t /\ t \in Creates /\ t \notin Issued)
          /\ s \in Creates
      BY <1>2, NewRecord, TypedNext, TaskStepIsNext DEF Sound, Typed, TypeOK
    <3>2. closing[s] \/ Removing(t, s)'
      BY <1>2, <3>1, RemovingEffects DEF Sound
    <3>3. CASE closing[s]
      <4>1. s \in Issued /\ s \in records
        BY <3>1, <3>3 DEF Sound, Aimed
      <4>2. CASE \E u \in cancelled \cap (Creates \cup Resets) : tgt[u] = s
        BY <2>4, <4>2
      <4>3. ASSUME NEW u \in Tasks, Removing(u, s)
            PROVE  \E v \in Tasks : Removing(v, s)'
        <5>1. CASE u = t
          BY <1>2, <3>1, <4>1, <4>3, <5>1, NewRecord, RemovingEffects DEF Sound
        <5>2. CASE u # t
          BY <2>1, <4>3, <5>2 DEF Removing
        <5> QED BY <5>1, <5>2
      <4> QED BY <3>3, <4>1, <4>2, <4>3 DEF MarksTraced
    <3> QED BY <3>2, <3>3
  <2>6. BrowsersTraced'
    <3> SUFFICES ASSUME NEW s \in Creates, engine'[s] = "open"
                 PROVE  s \in records' \/ pc'[s] \in {"surplus", "evict2"} \/ Stray(s)'
      BY DEF BrowsersTraced
    <3>1. Stray(s) => Stray(s)'
      BY <2>4 DEF Stray
    <3>2. /\ engine \in [Creates -> {"none", "open", "closed"}]
          /\ s # t => pc'[s] = pc[s]
      BY <2>1 DEF Sound, Typed, TypeOK
    <3>3. engine[s] = "open" =>
            s \in records \/ pc[s] \in {"surplus", "evict2"} \/ Stray(s)
      BY DEF BrowsersTraced
    <3>4. CASE Leaves(t)
      BY <3>1, <3>2, <3>3, <3>4 DEF Leaves
    <3>5. CASE Closes(t)
      BY <3>1, <3>2, <3>3, <3>5 DEF Closes
    <3>6. CASE Opens(t)
      BY <3>1, <3>2, <3>3, <3>6 DEF Opens
    <3>7. CASE Discards(t)
      BY <3>1, <3>2, <3>3, <3>7 DEF Discards
    <3>8. CASE Replaces(t)
      BY <3>1, <3>2, <3>3, <3>8 DEF Replaces
    <3> QED BY <1>2, <3>4, <3>5, <3>6, <3>7, <3>8, EngineEffects DEF Sound
  <2> QED BY <2>3, <2>5, <2>6
<1> QED BY <1>1, <1>2, NextIsTaskStep

\* What a request leaves that is cut off now is traced to it.
LEMMA TracedQuit ==
  ASSUME Running, Typed', Ended, MarksTraced, BrowsersTraced,
         NEW t \in Requests, Quits(t), cancelled' = cancelled \cup {t}
  PROVE  Ended' /\ MarksTraced' /\ BrowsersTraced'
<1> USE Kinds
<1>1. /\ \A u \in Tasks : u # t => pc'[u] = pc[u]
      /\ pc'[t] = "finished" /\ tgt' = tgt /\ closing' = closing
  BY DEF Quits, Goto, Running, Sound, Typed, TypeOK
<1>2. Ended'
  BY <1>1 DEF Ended
<1>3. ASSUME NEW s \in records', closing'[s]
      PROVE  \/ \E u \in Tasks : Removing(u, s)'
             \/ \E u \in cancelled' \cap (Creates \cup Resets) : tgt'[u] = s
  <2>1. s \in records /\ closing[s] /\ ~(t \in Deletes /\ Removing(t, s))
    BY <1>1, <1>3, DistinctTasks DEF Quits, Removing, Requests
  <2>2. CASE \E u \in cancelled \cap (Creates \cup Resets) : tgt[u] = s
    BY <1>1, <2>2
  <2>3. ASSUME NEW u \in Tasks, Removing(u, s)
        PROVE  \/ \E v \in Tasks : Removing(v, s)'
               \/ \E v \in cancelled' \cap (Creates \cup Resets) : tgt'[v] = s
    <3>1. CASE u # t
      BY <1>1, <2>3, <3>1 DEF Removing
    <3>2. CASE u = t
      BY <1>1, <2>1, <2>3, <3>2 DEF Removing
    <3> QED BY <3>1, <3>2
  <2> QED BY <2>1, <2>2, <2>3 DEF MarksTraced
<1>4. ASSUME NEW s \in Creates, engine'[s] = "open"
      PROVE  s \in records' \/ pc'[s] \in {"surplus", "evict2"} \/ Stray(s)'
  <2>1. \/ s \in records /\ ~(t \in Deletes /\ tgt[t] = s)
        \/ t \in Deletes /\ tgt[t] = s
        \/ pc[s] \in {"surplus", "evict2"} \/ Stray(s)
    BY <1>4 DEF BrowsersTraced, Quits
  <2>2. Stray(s) \/ (t \in Deletes /\ tgt[t] = s) \/ s = t => Stray(s)'
    BY <1>1 DEF Stray
  <2>3. s # t => pc'[s] = pc[s]
    BY <1>1
  <2> QED BY <2>1, <2>2, <2>3 DEF Quits
<1> QED BY <1>2, <1>3, <1>4 DEF MarksTraced, BrowsersTraced

\* Before any request nothing is left of one.
LEMMA LifeStart == LifeInit => Life
<1> SUFFICES ASSUME LifeInit PROVE Life
  OBVIOUS
<1>1. Sound
  BY SoundInit DEF LifeInit
<1>2. LockSound /\ WorkUnderLock /\ NoProbeBehindReaper
  BY Kinds DEF LifeInit, Init, LockSound, WorkUnderLock, NoProbeBehindReaper, Range
<1>3. MarksTraced /\ BrowsersTraced /\ Ended
  BY DEF LifeInit, Init, MarksTraced, BrowsersTraced, Ended
<1> QED BY <1>1, <1>2, <1>3 DEF LifeInit, Life, Running, Sound, Typed

\* When the server has answered every request only the reaper is left to stop.
LEMMA ShutdownLife == ASSUME Life, Shutdown PROVE Life'
<1> USE Kinds
<1>1. /\ phase = "up" /\ Running /\ BrowsersTraced /\ Ended /\ Typed
      /\ \A t \in Requests : pc[t] \in {"start", "finished"}
      /\ cancelled' = cancelled \cup {Reaper} /\ phase' = "draining"
      /\ left' = records /\ tgt' = tgt
  BY DEF Life, Shutdown, Running, Sound
<1>2. /\ \A t \in Requests : pc'[t] = pc[t]
      /\ pc'[Reaper] = "finished" /\ pc' \in [Tasks -> Places]
  BY <1>1 DEF Shutdown, Goto, Typed, TypeOK, Places
<1>3. /\ engine' \in [Creates -> {"none", "open", "closed"}]
      /\ \A s \in Creates : engine'[s] = "open" => engine[s] = "open"
  <2>1. pc[Reaper] = "working" => tgt[Reaper] \in Creates
    BY <1>1 DEF Typed, Placement, Targeted
  <2>2. engine' = engine \/ (tgt[Reaper] \in Creates /\ CloseCut(tgt[Reaper]))
    BY <2>1 DEF Shutdown
  <2> QED BY <1>1, <2>2, CutClose DEF Typed, TypeOK
<1>4. waiters' \in [Creates -> Seq(Tasks)]
  BY <1>1, QueueTypes DEF Shutdown
<1>5. TypeOK'
  BY <1>1, <1>2, <1>3, <1>4 DEF Shutdown, Typed, TypeOK, registry, pass
<1>6. Ended'
  BY <1>1, <1>2 DEF Ended
<1>7. ASSUME NEW s \in Creates
      PROVE  Range(waiters'[s]) = {} /\ lock'[s] \in {None, Reaper}
  <2>1. waiters'[s] = Without(waiters[s], Reaper)
    BY DEF Shutdown
  <2>2. /\ waiters[s] \in Seq(Tasks) /\ IsInjective(waiters[s])
        /\ \A t \in Range(waiters[s]) : t \in Tasks /\ pc[t] = "waiting"
    BY <1>1 DEF Running, Sound, QueueSound, Typed, TypeOK
  <2>3. Range(waiters[s]) \subseteq {Reaper}
    BY <1>1, <2>2 DEF Tasks
  <2>4. Range(waiters'[s]) = {}
    <3>1. CASE Reaper \in Range(waiters[s])
      BY <2>1, <2>2, <2>3, <3>1, Leaving DEF Left
    <3>2. CASE Reaper \notin Range(waiters[s])
      BY <2>1, <2>3, <3>2 DEF Without
    <3> QED BY <3>1, <3>2
  <2>5. lock[s] \in {None, Reaper}
    <3>1. lock[s] \in Requests => pc[lock[s]] = "working"
      BY <1>1 DEF Running, LockSound
    <3>2. lock[s] \in Requests \cup {Reaper, None}
      BY <1>1 DEF Typed, TypeOK, Tasks
    <3> QED BY <1>1, <3>1, <3>2
  <2> QED BY <2>4, <2>5 DEF Shutdown
<1>8. TombstonesSound'
  BY <1>1 DEF Running, Sound, Settled, Shutdown, registry, TombstonesSound
<1>9. Quiet'
  <2>1. \A t \in Tasks : pc'[t] \in {"start", "finished"}
    BY <1>1, <1>2 DEF Tasks
  <2> QED BY <1>7, <1>8, <2>1 DEF Quiet
<1>10. ASSUME NEW s \in Creates, engine'[s] = "open"
       PROVE  s \in left' \/ Stray(s)'
  <2>1. Stray(s) => Stray(s)'
    BY <1>1 DEF Stray
  <2> QED BY <1>1, <1>3, <1>10, <2>1 DEF BrowsersTraced
<1>11. left' \subseteq Creates
  BY <1>1 DEF Typed, TypeOK
<1> QED BY <1>1, <1>5, <1>6, <1>9, <1>10, <1>11 DEF Life

\* close_all and Engine.close go on where nothing else runs.
LEMMA TeardownLife ==
  ASSUME Life, CloseAllNext \/ CloseAllEnds \/ EngineClose
  PROVE  Life'
<1> USE DEF Life
<1>1. CASE CloseAllNext
  <2>1. PICK s \in First(left) : CloseEngine(s) /\ left' = left \ {s}
    BY <1>1 DEF CloseAllNext
  <2>2. s \in Creates /\ left' \subseteq Creates
    BY <2>1 DEF First
  <2>3. TypeOK' /\ Ended'
    BY <1>1, <2>1
       DEF CloseAllNext, CloseEngine, TypeOK, Ended, registry, locks, pass
  <2>4. Quiet'
    BY <1>1 DEF CloseAllNext, Quiet, TombstonesSound, registry, locks
  <2>5. ASSUME NEW u \in Creates, engine'[u] = "open"
        PROVE  u \in left' \/ Stray(u)'
    <3>1. engine[u] = "open" /\ u # s
      BY <2>1, <2>2, <2>5 DEF CloseEngine, TypeOK
    <3> QED BY <1>1, <2>1, <3>1 DEF CloseAllNext, Stray
  <2> QED BY <1>1, <2>2, <2>3, <2>4, <2>5 DEF CloseAllNext
<1>2. CASE CloseAllEnds
  <2>1. TypeOK' /\ Ended' /\ left' \subseteq Creates
    BY <1>2 DEF CloseAllEnds, TypeOK, Ended, locks, pass
  <2>2. Quiet'
    BY <1>2 DEF CloseAllEnds, Quiet, TombstonesSound, locks
  <2> QED BY <1>2, <2>1, <2>2 DEF CloseAllEnds, Stray
<1>3. CASE EngineClose
  <2>1. TypeOK' /\ Ended' /\ left' \subseteq Creates
    BY <1>3 DEF EngineClose, TypeOK, Ended, registry, locks, pass
  <2>2. Quiet'
    BY <1>3 DEF EngineClose, Quiet, TombstonesSound, registry, locks
  <2> QED BY <1>3, <2>1, <2>2 DEF EngineClose
<1> QED BY <1>1, <1>2, <1>3

\* Whatever is cut off, and however the application ends, Life holds.
LEMMA LifeStep == Life /\ [LifeNext]_allVars => Life'
<1> SUFFICES ASSUME Life, [LifeNext]_allVars PROVE Life'
  OBVIOUS
<1>1. CASE UNCHANGED allVars
  <2>1. /\ UNCHANGED <<vars, phase, left, cancelled>> /\ Life
        /\ Running => Running'
    BY <1>1, RunningStep DEF allVars, lifespan
  <2>2. TypeOK' /\ Ended' /\ left' \subseteq Creates
    BY <2>1 DEF Life, TypeOK, Ended, vars, registry, locks, pass
  <2>3. /\ MarksTraced => MarksTraced'
        /\ BrowsersTraced => BrowsersTraced'
        /\ \A s \in Creates : Stray(s) => Stray(s)'
        /\ Quiet => Quiet'
    BY <2>1
       DEF MarksTraced, BrowsersTraced, Removing, Stray, Quiet, TombstonesSound,
           vars, registry, locks
  <2>4. CASE phase = "up"
    BY <2>1, <2>2, <2>3, <2>4 DEF Life
  <2>5. CASE phase # "up"
    BY <2>1, <2>2, <2>3, <2>5 DEF Life, vars
  <2> QED BY <2>4, <2>5
<1>2. CASE phase = "up" /\ Next /\ UNCHANGED lifespan
  <2>1. /\ phase' = "up" /\ left' = left /\ cancelled' = cancelled
        /\ Running /\ Ended /\ MarksTraced /\ BrowsersTraced /\ left \subseteq Creates
    BY <1>2 DEF lifespan, Life
  <2>2. Running' /\ Ended' /\ MarksTraced' /\ BrowsersTraced'
    BY <1>2, <2>1, RunningStep, TracedStep
  <2> QED BY <2>1, <2>2 DEF Life, Running, Sound, Typed
<1>3. CASE Cancellation
  <2>1. /\ phase = "up" /\ phase' = phase /\ left' = left /\ Typed'
        /\ Running /\ Ended /\ MarksTraced /\ BrowsersTraced /\ left \subseteq Creates
    <3>1. phase = "up"
      BY <1>3 DEF Cancellation, CutEviction, CutLaunch, CutSurplus, CutWait,
         CutWork, CutDelete, CutReset, Cut
    <3> QED BY <1>3, <3>1, Cuts DEF Life, Running, Sound
  <2>2. PICK t \in Requests : Quits(t) /\ cancelled' = cancelled \cup {t}
    BY <1>3, <2>1, Cuts DEF Running, Sound
  <2>3. Running' /\ Ended' /\ MarksTraced' /\ BrowsersTraced'
    BY <2>1, <2>2, QuitKeeps, TracedQuit
  <2> QED BY <2>1, <2>3 DEF Life, Typed
<1> QED BY <1>1, <1>2, <1>3, ShutdownLife, TeardownLife DEF LifeNext, Teardown

\* A request that is cut off keeps no lock and no place in a queue, and leaves a
\* record that nobody will remove only if it was evicting or resetting.
THEOREM CancelledLetsGo == LifeSpec => []CancelledLetGo
<1>1. ASSUME Life PROVE CancelledLetGo
  <2> USE Kinds
  <2>1. ASSUME NEW t \in cancelled \cap Requests, NEW s \in Creates
        PROVE  lock[s] # t /\ t \notin Range(waiters[s])
    <3>1. pc[t] = "finished" /\ t # None /\ t # Reaper
      BY <1>1 DEF Life, Ended
    <3>2. CASE phase = "up"
      BY <1>1, <3>1, <3>2 DEF Life, Running, Sound, LockSound, QueueSound
    <3>3. CASE phase # "up"
      BY <1>1, <3>1, <3>3 DEF Life, Quiet
    <3> QED BY <3>2, <3>3
  <2> QED BY <1>1, <2>1 DEF Life, MarksTraced, CancelledLetGo
<1> QED BY LifeStart, LifeStep, <1>1, PTL DEF LifeSpec

\* close_all has closed every browser that a record led to, whatever was left
\* half closed before it.
THEOREM BrowsersDrained == LifeSpec => []DrainedMeansClosed
<1>1. Life => DrainedMeansClosed
  BY DEF Life, DrainedMeansClosed, Stray
<1> QED BY LifeStart, LifeStep, <1>1, PTL DEF LifeSpec

\* No cancellation and no step of the shutdown takes a mark back or puts in a
\* record, so what is hidden stays hidden.
LEMMA HiddenLife == Life /\ Hidden /\ [LifeNext]_allVars => Hidden'
<1> SUFFICES ASSUME Life, Hidden, [LifeNext]_allVars PROVE Hidden'
  OBVIOUS
<1>1. CASE /\ closing' = closing /\ tgt' = tgt /\ reply' = reply
           /\ records' \subseteq records
  BY <1>1 DEF Hidden, Issued, Live
<1>2. CASE UNCHANGED allVars
  BY <1>1, <1>2 DEF allVars, vars, registry, locks
<1>3. CASE phase = "up" /\ Next
  <2>1. Sound
    BY <1>3 DEF Life, Running
  <2>2. CASE Tick
    BY <1>1, <2>2 DEF Tick, locks
  <2> QED BY <1>3, <2>1, <2>2, HiddenStep, NextIsTaskStep
<1>4. CASE Cancellation
  <2>1. phase = "up"
    BY <1>4 DEF Cancellation, CutEviction, CutLaunch, CutSurplus, CutWait,
       CutWork, CutDelete, CutReset, Cut
  <2>2. PICK t \in Requests : Quits(t)
    BY <1>4, <2>1, Cuts DEF Life, Running, Sound
  <2> QED BY <1>1, <2>2 DEF Quits
<1>5. CASE Shutdown \/ CloseAllNext \/ EngineClose
  BY <1>1, <1>5 DEF Shutdown, CloseAllNext, EngineClose, registry, locks
<1>6. CASE CloseAllEnds
  BY <1>1, <1>6 DEF CloseAllEnds, locks
<1> QED BY <1>2, <1>3, <1>4, <1>5, <1>6 DEF LifeNext, Teardown

\* Whatever is cut off the accounts are kept, and from the shutdown on they are
\* closed.
LifeAccounts ==
  IF phase = "up" THEN Accounts ELSE EvictedReapedOnce /\ OverrunBounded

\* What no longer counts after the shutdown is bounded still: close_all empties
\* the registry.
LEMMA ClosedAccounts ==
  ASSUME TypeOK, EvictedReapedOnce, OverrunBounded, stats' = stats,
         records' = records \/ records' = {}
  PROVE  EvictedReapedOnce' /\ OverrunBounded'
<1>1. Cardinality(records) \in Nat
  BY Kinds, FiniteTasks, FS_Subset, FS_CardinalityType DEF TypeOK
<1>2. records' = {} => Cardinality(records') = 0
  BY FS_EmptySet
<1>3. /\ stats.created \in Nat /\ stats.reaped \in Nat /\ stats.evicted \in Nat
      /\ stats.deleted \in Nat
  BY DEF TypeOK, Counters
<1>4. Cardinality(records') \in {0, Cardinality(records)}
  BY <1>2
<1> QED BY <1>1, <1>3, <1>4, Limits DEF EvictedReapedOnce, OverrunBounded

\* The accounts are kept by every step and every cancellation.
LEMMA LifeAccountsStep == Life /\ LifeAccounts /\ [LifeNext]_allVars => LifeAccounts'
<1> SUFFICES ASSUME Life, LifeAccounts, [LifeNext]_allVars PROVE LifeAccounts'
  OBVIOUS
<1> USE DEF LifeAccounts
<1>1. ASSUME Typed, Accounts PROVE EvictedReapedOnce /\ OverrunBounded
  BY <1>1, BookedBounds, PaidBounds DEF Accounts
<1>2. EvictedReapedOnce /\ OverrunBounded /\ TypeOK
  BY <1>1 DEF Life, Running, Sound
<1>3. CASE phase = "up" /\ phase' = "up" /\ [Next]_vars
  BY <1>3, AccountsStep DEF Life, Running
<1>4. CASE Cancellation
  <2>1. phase = "up"
    BY <1>4 DEF Cancellation, CutEviction, CutLaunch, CutSurplus, CutWait,
       CutWork, CutDelete, CutReset, Cut
  <2>2. Running
    BY <2>1 DEF Life
  <2>3. Typed' /\ phase' = phase /\ \E t \in Requests : Quits(t)
    BY <1>4, <2>2, Cuts DEF Running, Sound
  <2> QED BY <2>1, <2>2, <2>3, QuitAccounts
<1>5. CASE phase' # "up" /\ stats' = stats /\ (records' = records \/ records' = {})
  BY <1>2, <1>5, ClosedAccounts
<1>6. CASE Teardown
  <2>1. phase' # "up" /\ stats' = stats /\ (records' = records \/ records' = {})
    BY <1>6 DEF Teardown, Shutdown, CloseAllNext, CloseAllEnds, EngineClose, registry
  <2> QED BY <1>5, <2>1
<1>7. CASE UNCHANGED allVars
  <2>1. phase' = phase /\ UNCHANGED vars /\ stats' = stats /\ records' = records
    BY <1>7 DEF allVars, lifespan, vars, registry
  <2> QED BY <1>3, <1>5, <2>1
<1>8. CASE phase = "up" /\ Next /\ UNCHANGED lifespan
  BY <1>3, <1>8 DEF lifespan
<1> QED BY <1>4, <1>6, <1>7, <1>8 DEF LifeNext

\* However many requests are cut off, no session leaves the registry uncounted
\* until the shutdown, which counts nothing; none is ever evicted or reaped twice,
\* and the cap is exceeded by deletions only.
THEOREM BooksSurvive ==
  LifeSpec => [](/\ phase = "up" => NoUncountedRemoval
                 /\ EvictedReapedOnce /\ OverrunBounded)
<1>1. LifeInit => LifeAccounts
  BY AccountsInit DEF LifeInit, LifeAccounts
<1>2. Life /\ LifeAccounts => /\ phase = "up" => NoUncountedRemoval
                              /\ EvictedReapedOnce /\ OverrunBounded
  BY BookedBounds, PaidBounds DEF Life, LifeAccounts, Running, Sound, Accounts
<1> QED BY LifeStart, LifeStep, LifeAccountsStep, <1>1, <1>2, PTL DEF LifeSpec

\* The types, the mutual exclusion and the queues of the locks, the victims, the
\* tombstones and the 404s of SessionManager outlive every cancellation and the
\* end; the locks keep their owners until the reaper is cancelled in a close.
THEOREM LocksSurvive ==
  LifeSpec => [](/\ TypeOK /\ WorkUnderLock /\ QueueSound /\ NoProbeBehindReaper
                 /\ VictimsDistinct /\ TombstonesSound /\ GoneForGood
                 /\ (phase = "up" => LockSound))
<1>1. ASSUME Life
      PROVE  /\ TypeOK /\ WorkUnderLock /\ QueueSound /\ NoProbeBehindReaper
             /\ VictimsDistinct /\ TombstonesSound /\ (phase = "up" => LockSound)
  <2>1. CASE phase = "up"
    BY <1>1, <2>1 DEF Life, Running, Sound, Settled, TombstonesSound
  <2>2. CASE phase # "up"
    <3>1. TypeOK /\ Quiet
      BY <1>1, <2>2 DEF Life
    <3>2. WorkUnderLock /\ VictimsDistinct /\ TombstonesSound
      BY <3>1, Kinds DEF Quiet, WorkUnderLock, VictimsDistinct, Removing
    <3>3. ASSUME NEW s \in Creates
          PROVE  /\ Range(waiters[s]) = {t \in Tasks : pc[t] = "waiting" /\ tgt[t] = s}
                 /\ IsInjective(waiters[s])
      BY <3>1 DEF Quiet, Range, IsInjective
    <3>4. QueueSound /\ NoProbeBehindReaper
      BY <3>1, <3>3 DEF QueueSound, Quiet, NoProbeBehindReaper
    <3> QED BY <2>2, <3>1, <3>2, <3>4
  <2> QED BY <2>1, <2>2
<1>2. LifeInit => Hidden
  BY Kinds DEF LifeInit, Init, Hidden
<1>3. Hidden => GoneForGood
  BY DEF Hidden, GoneForGood
<1> QED BY LifeStart, LifeStep, HiddenLife, <1>1, <1>2, <1>3, PTL DEF LifeSpec
=============================================================================
