------------------------- MODULE SessionManagerProofs -------------------------
(* Theorems of SessionManager for every number of requests and sessions and *)
(* every value of the limits.                                               *)
EXTENDS SessionManager, FiniteSetTheorems, SequenceTheorems, TLAPS

-----------------------------------------------------------------------------
(* Facts about the operators. *)

\* A timed-out or re-tombstoned element leaves a sequence of the same kind.
LEMMA WithoutType ==
  ASSUME NEW S, NEW q \in Seq(S), NEW e
  PROVE  Without(q, e) \in Seq(S)
<1>1. CASE e \notin Range(q)
  BY <1>1 DEF Without
<1>2. CASE e \in Range(q)
  <2> DEFINE i == CHOOSE i \in DOMAIN q : q[i] = e
  <2>1. \E k \in DOMAIN q : q[k] = e
    BY <1>2 DEF Range
  <2>2. i \in DOMAIN q
    BY <2>1
  <2>3. i \in 1..Len(q)
    BY <2>2
  <2> HIDE DEF i
  <2>4. SubSeq(q, 1, i - 1) \in Seq(S) /\ SubSeq(q, i + 1, Len(q)) \in Seq(S)
    BY <2>3, SubSeqProperties
  <2>5. RemoveAt(q, i) \in Seq(S)
    BY <2>4, ConcatProperties DEF RemoveAt
  <2> QED
    BY <1>2, <2>5 DEF Without, i
<1> QED
  BY <1>1, <1>2

\* Whatever a client asks, the idle timeout of a session is within the bounds.
LEMMA EffectiveIdleTimeoutRange ==
  ASSUME NEW r \in Requested
  PROVE  EffectiveIdleTimeout(r) \in IdleMin..IdleMax
BY Limits, SMT DEF EffectiveIdleTimeout

-----------------------------------------------------------------------------
(* Type correctness.  TypeOK alone is not inductive: the reaper tombstones   *)
(* tgt[Reaper], which is a session only while the reaper works on one.       *)

\* Each kind of task visits its own places, and has a target where it needs one.
PlacesOf(t) ==
  CASE t \in Creates ->
         {"start", "evict1", "launch", "evict2", "surplus", "finished"}
    [] t \in Actions \cup Deletes ->
         {"start", "acquire", "waiting", "working", "finished"}
    [] t \in Probes -> {"start", "waiting", "working", "finished"}
    [] t \in Resets -> {"start", "purging", "finished"}
    [] t = Reaper -> {"asleep", "waiting", "working"}

Targeted ==
  {"evict1", "evict2", "acquire", "waiting", "working", "purging"}

Placement ==
  \A t \in Tasks : /\ pc[t] \in PlacesOf(t)
                   /\ pc[t] \in Targeted => tgt[t] \in Creates

Typed == TypeOK /\ Placement

\* What the kinds of tasks are to each other.
LEMMA Kinds ==
  /\ Requests \subseteq Tasks /\ Reaper \in Tasks /\ Reaper \notin Requests
  /\ Creates \subseteq Requests /\ Actions \subseteq Requests
  /\ Deletes \subseteq Requests /\ Probes \subseteq Requests
  /\ Resets \subseteq Requests /\ None \notin Tasks
BY DistinctTasks DEF Tasks, Requests

\* The CASE of PlacesOf, kind by kind.
LEMMA PlacesOfKinds ==
  /\ \A t \in Creates : PlacesOf(t) =
       {"start", "evict1", "launch", "evict2", "surplus", "finished"}
  /\ \A t \in Actions \cup Deletes : PlacesOf(t) =
       {"start", "acquire", "waiting", "working", "finished"}
  /\ \A t \in Probes : PlacesOf(t) = {"start", "waiting", "working", "finished"}
  /\ \A t \in Resets : PlacesOf(t) = {"start", "purging", "finished"}
  /\ PlacesOf(Reaper) = {"asleep", "waiting", "working"}
BY DistinctTasks DEF PlacesOf, Requests

\* Before any request nothing is out of place.
LEMMA TypedInit == Init => Typed
<1> SUFFICES ASSUME Init PROVE Typed
  OBVIOUS
<1>1. TypeOK
  BY Kinds, Limits, EmptySeq DEF Init, TypeOK, Counters, Places, Replies
<1>2. Placement
  BY Kinds, PlacesOfKinds DEF Init, Placement, Tasks, Requests, Targeted
<1> QED
  BY <1>1, <1>2 DEF Typed

\* The counters stay natural numbers.
LEMMA CountType ==
  ASSUME Typed, NEW K, Count(K)
  PROVE  stats' \in [Counters -> Nat]
<1>1. stats \in [Counters -> Nat]
  BY DEF Typed, TypeOK
<1>2. \A k \in Counters : stats[k] + (IF k \in K THEN 1 ELSE 0) \in Nat
  BY <1>1
<1> QED
  BY <1>2 DEF Count

\* One task moves, to a place of its kind and with a target if it needs one.
LEMMA PlacementStep ==
  ASSUME Typed, NEW t \in Tasks, NEW p \in PlacesOf(t), Goto(t, p),
         \A u \in Tasks : u # t => tgt'[u] = tgt[u],
         p \in Targeted => tgt'[t] \in Creates
  PROVE  Placement'
BY DEF Typed, TypeOK, Placement, Goto

\* A new record is well typed.
LEMMA InsertType ==
  ASSUME Typed, NEW c \in Creates, NEW others \in SUBSET Creates,
         Insert(c, others)
  PROVE  /\ records' \subseteq Creates
         /\ born' \in [Creates -> Nat]
         /\ idle' \in [Creates -> 0..IdleCap]
         /\ timeout' \in [Creates -> IdleMin..IdleMax]
         /\ UNCHANGED tombstones
         /\ Goto(c, "finished")
         /\ reply' = [reply EXCEPT ![c] = "created"]
<1> USE DEF Typed, TypeOK
<1>1. PICK r \in Requested :
        timeout' = [timeout EXCEPT ![c] = EffectiveIdleTimeout(r)]
  BY DEF Insert
<1>2. timeout' \in [Creates -> IdleMin..IdleMax]
  BY <1>1, EffectiveIdleTimeoutRange
<1>3. stats.created \in Nat
  BY DEF Counters
<1> QED
  BY <1>2, <1>3, Limits DEF Insert, Finish

\* A create keeps the types, at each of its awaits.
LEMMA TypedCreate ==
  ASSUME Typed, NEW c \in Creates, CreateStep(c)
  PROVE  Typed'
<1> USE Kinds
<1>1. CASE CreateAdmit(c)
  <2>1. TypeOK'
    BY <1>1 DEF CreateAdmit, Typed, TypeOK, registry, locks, pass, Goto, Places
  <2>2. Placement'
    BY <1>1, PlacementStep, PlacesOfKinds DEF CreateAdmit, Targeted
  <2> QED BY <2>1, <2>2 DEF Typed
<1>2. CASE CreateReject(c)
  <2>1. TypeOK'
    BY <1>2, CountType
       DEF CreateReject, Finish, Replies, Typed, TypeOK, registry, locks, pass,
           Goto, Places
  <2>2. Placement'
    BY <1>2, PlacementStep, PlacesOfKinds DEF CreateReject, Finish, Targeted
  <2> QED BY <2>1, <2>2 DEF Typed
<1>3. CASE CreateEvict(c)
  <2>0. PICK v \in Creates : StartEviction(c, v, "evict1")
    BY <1>3 DEF CreateEvict, OldestEvictable, Typed, TypeOK
  <2>1. TypeOK'
    BY <2>0, <1>3
       DEF CreateEvict, StartEviction, Typed, TypeOK, registry, locks, pass,
           Goto, Places
  <2>2. Placement'
    BY <2>0, <1>3, PlacementStep, PlacesOfKinds
       DEF CreateEvict, StartEviction, Typed, TypeOK, Targeted
  <2> QED BY <2>1, <2>2 DEF Typed
<1>4. CASE FirstVictimClosed(c)
  <2>1. TypeOK'
    BY <1>4, CountType
       DEF FirstVictimClosed, CloseEngine, Typed, TypeOK, registry, locks,
           pass, Goto, Places
  <2>2. Placement'
    BY <1>4, PlacementStep, PlacesOfKinds DEF FirstVictimClosed, Targeted
  <2> QED BY <2>1, <2>2 DEF Typed
<1>5. CASE LaunchFailed(c)
  <2>1. TypeOK'
    BY <1>5
       DEF LaunchFailed, Finish, Replies, Typed, TypeOK, registry, locks, pass,
           Goto, Places
  <2>2. Placement'
    BY <1>5, PlacementStep, PlacesOfKinds DEF LaunchFailed, Finish, Targeted
  <2> QED BY <2>1, <2>2 DEF Typed
<1>6. CASE LaunchAdmit(c)
  <2>1. TypeOK'
    BY <1>6, InsertType, CountType
       DEF LaunchAdmit, Replies, Typed, TypeOK, registry, locks, pass, Goto,
           Places
  <2>2. Placement'
    BY <1>6, PlacementStep, PlacesOfKinds
       DEF LaunchAdmit, Insert, Finish, Targeted
  <2> QED BY <2>1, <2>2 DEF Typed
<1>7. CASE LaunchSurplus(c)
  <2>1. TypeOK'
    BY <1>7
       DEF LaunchSurplus, Typed, TypeOK, registry, locks, pass, Goto, Places
  <2>2. Placement'
    BY <1>7, PlacementStep, PlacesOfKinds DEF LaunchSurplus, Targeted
  <2> QED BY <2>1, <2>2 DEF Typed
<1>8. CASE LaunchEvict(c)
  <2>0. PICK v \in Creates : StartEviction(c, v, "evict2")
    BY <1>8 DEF LaunchEvict, OldestEvictable, Typed, TypeOK
  <2>1. TypeOK'
    BY <2>0, <1>8
       DEF LaunchEvict, StartEviction, Typed, TypeOK, registry, locks, pass,
           Goto, Places
  <2>2. Placement'
    BY <2>0, <1>8, PlacementStep, PlacesOfKinds
       DEF LaunchEvict, StartEviction, Typed, TypeOK, Targeted
  <2> QED BY <2>1, <2>2 DEF Typed
<1>9. CASE SurplusClosed(c)
  <2>1. TypeOK'
    BY <1>9, CountType
       DEF SurplusClosed, Finish, Replies, CloseEngine, Typed, TypeOK,
           registry, locks, pass, Goto, Places
  <2>2. Placement'
    BY <1>9, PlacementStep, PlacesOfKinds DEF SurplusClosed, Finish, Targeted
  <2> QED BY <2>1, <2>2 DEF Typed
<1>10. CASE SecondVictimClosed(c)
  <2>1. TypeOK'
    BY <1>10, InsertType, CountType
       DEF SecondVictimClosed, CloseEngine, Replies, Typed, TypeOK, registry,
           locks, pass, Goto, Places
  <2>2. Placement'
    BY <1>10, PlacementStep, PlacesOfKinds
       DEF SecondVictimClosed, Insert, Finish, Targeted
  <2> QED BY <2>1, <2>2 DEF Typed
<1> QED
  BY <1>1, <1>2, <1>3, <1>4, <1>5, <1>6, <1>7, <1>8, <1>9, <1>10 DEF CreateStep

\* Queue operations keep the queue of a lock a sequence of tasks.
LEMMA QueueTypes ==
  ASSUME Typed, NEW s \in Creates, NEW t \in Tasks
  PROVE  /\ Append(waiters[s], t) \in Seq(Tasks)
         /\ waiters[s] # <<>> => Tail(waiters[s]) \in Seq(Tasks)
         /\ Without(waiters[s], t) \in Seq(Tasks)
<1>1. waiters[s] \in Seq(Tasks)
  BY DEF Typed, TypeOK
<1> QED
  BY <1>1, AppendProperties, HeadTailProperties, WithoutType

\* Taking a lock, or queueing for it, changes only well-typed parts.
LEMMA AcquireType ==
  ASSUME Typed, NEW t \in Tasks, NEW s \in Creates,
         Take(t, s) \/ Enqueue(t, s)
  PROVE  /\ lock' \in [Creates -> Tasks \cup {None}]
         /\ waiters' \in [Creates -> Seq(Tasks)]
         /\ pc' \in [Tasks -> Places]
<1> USE DEF Typed, TypeOK, Goto, Places
<1>1. CASE Take(t, s)
  BY <1>1 DEF Take
<1>2. CASE Enqueue(t, s)
  <2>1. waiters' = [waiters EXCEPT ![s] = Append(waiters[s], t)]
    BY <1>2 DEF Enqueue
  <2>2. waiters' \in [Creates -> Seq(Tasks)]
    BY <2>1, QueueTypes
  <2> QED
    BY <1>2, <2>2 DEF Enqueue
<1> QED
  BY <1>1, <1>2

\* Marking the record and counting the action keep the types.
LEMMA EnterType ==
  ASSUME Typed, NEW t, Enter(t)
  PROVE  closing' \in [Creates -> BOOLEAN] /\ stats' \in [Counters -> Nat]
<1>1. Count(IF t \in Actions THEN {"actions"} ELSE {})
  BY DEF Enter
<1>2. stats' \in [Counters -> Nat]
  BY <1>1, CountType
<1>3. closing' \in [Creates -> BOOLEAN]
  BY DEF Enter, Typed, TypeOK
<1> QED
  BY <1>2, <1>3

\* get(), waiting for a lock, being granted it and timing out keep the types.
LEMMA TypedLock ==
  ASSUME Typed, NEW t \in Tasks \ (Creates \cup Resets),
         \/ t # Reaper /\ NotLive(t)
         \/ t \in Actions \cup Deletes /\ GetLive(t)
         \/ t \in Actions \cup Deletes /\ TryLock(t)
         \/ LockGranted(t)
         \/ t # Reaper /\ LockTimeout(t)
  PROVE  Typed'
<1> USE Kinds DEF Typed
<1>0. t \in Actions \cup Deletes \cup Probes \cup {Reaper}
  BY DEF Tasks, Requests
<1>1. ASSUME t # Reaper, NotLive(t) PROVE Typed'
  <2>1. PICK s \in Creates : Finish(t, Gone(s)) /\ tgt' = [tgt EXCEPT ![t] = s]
    BY <1>1 DEF NotLive, Issued
  <2>2. TypeOK'
    BY <1>0, <1>1, <2>1
       DEF NotLive, Finish, Gone, Replies, TypeOK, registry, locks, pass, Goto,
           Places
  <2>3. Placement'
    BY <1>0, <1>1, <2>1, PlacementStep, PlacesOfKinds
       DEF Finish, Targeted, TypeOK
  <2> QED BY <2>2, <2>3
<1>2. ASSUME t \in Actions \cup Deletes, GetLive(t) PROVE Typed'
  <2>1. PICK s \in Creates : tgt' = [tgt EXCEPT ![t] = s]
    BY <1>2 DEF GetLive, Issued
  <2>2. TypeOK'
    BY <1>2, <2>1 DEF GetLive, TypeOK, registry, locks, pass, Goto, Places
  <2>3. Placement'
    BY <1>2, <2>1, PlacementStep, PlacesOfKinds DEF GetLive, TypeOK
  <2> QED BY <2>2, <2>3
<1>3. ASSUME t \in Actions \cup Deletes, TryLock(t) PROVE Typed'
  <2>1. tgt[t] \in Creates /\ UNCHANGED tgt
    BY <1>3 DEF TryLock, Placement, Targeted
  <2>2. closing' \in [Creates -> BOOLEAN] /\ stats' \in [Counters -> Nat]
    BY <1>3, EnterType DEF TryLock, TypeOK
  <2>3. TypeOK'
    BY <1>3, <2>1, <2>2, AcquireType DEF TryLock, TypeOK, registry, pass
  <2>4. Goto(t, "working") \/ Goto(t, "waiting")
    BY <1>3 DEF TryLock, Take, Enqueue
  <2>5. Placement'
    BY <1>3, <2>1, <2>4, PlacementStep, PlacesOfKinds
  <2> QED BY <2>3, <2>5
<1>4. ASSUME LockGranted(t) PROVE Typed'
  <2>1. tgt[t] \in Creates /\ UNCHANGED tgt
    BY <1>4 DEF LockGranted, Placement, Targeted
  <2>2. closing' \in [Creates -> BOOLEAN] /\ stats' \in [Counters -> Nat]
    BY <1>4, EnterType DEF LockGranted
  <2>3. TypeOK'
    BY <1>4, <2>1, <2>2, QueueTypes
       DEF LockGranted, TypeOK, registry, pass, Goto, Places
  <2>4. Placement'
    BY <1>0, <1>4, <2>1, PlacementStep, PlacesOfKinds DEF LockGranted
  <2> QED BY <2>3, <2>4
<1>5. ASSUME t # Reaper, LockTimeout(t) PROVE Typed'
  <2>1. tgt[t] \in Creates /\ UNCHANGED tgt
    BY <1>5 DEF LockTimeout, Placement, Targeted
  <2>2. TypeOK'
    BY <1>0, <1>5, <2>1, QueueTypes
       DEF LockTimeout, Finish, Replies, TypeOK, registry, pass, Goto, Places
  <2>3. Placement'
    BY <1>0, <1>5, <2>1, PlacementStep, PlacesOfKinds
       DEF LockTimeout, Finish, Targeted
  <2> QED BY <2>2, <2>3
<1> QED
  BY <1>1, <1>2, <1>3, <1>4, <1>5

\* What an action, a DELETE and a probe do to finish keeps the types.
LEMMA TypedWork ==
  ASSUME Typed, NEW t \in Tasks,
         \/ t \in Actions /\ \E outcome \in {"ok", "notFound", "clientError",
                                              "fault"} : ActionDone(t, outcome)
         \/ t \in Deletes /\ DeleteDone(t)
         \/ t \in Probes /\ (ProbeCached(t) \/ ProbeLock(t) \/ ProbeDone(t))
  PROVE  Typed'
<1> USE Kinds DEF Typed
<1>1. ASSUME t \in Actions,
             NEW outcome \in {"ok", "notFound", "clientError", "fault"},
             ActionDone(t, outcome)
      PROVE  Typed'
  <2>1. stats' \in [Counters -> Nat]
    BY <1>1, CountType DEF ActionDone
  <2>2. idle' \in [Creates -> 0..IdleCap] /\ overdue' \subseteq Creates
    <3>1. 0 \in 0..IdleCap
      BY Limits
    <3>2. Touch(tgt[t]) \/ UNCHANGED <<idle, overdue>>
      BY <1>1 DEF ActionDone
    <3>3. CASE Touch(tgt[t])
      BY <3>1, <3>3, Limits DEF Touch, TypeOK
    <3>4. CASE UNCHANGED <<idle, overdue>>
      BY <3>4 DEF TypeOK
    <3> QED
      BY <3>2, <3>3, <3>4
  <2>3. TypeOK'
    BY <1>1, <2>1, <2>2
       DEF ActionDone, Release, Finish, Replies, TypeOK, Goto, Places
  <2>4. Placement'
    BY <1>1, PlacementStep, PlacesOfKinds DEF ActionDone, Finish, Targeted
  <2> QED BY <2>3, <2>4
<1>2. ASSUME t \in Deletes, DeleteDone(t) PROVE Typed'
  <2>1. TypeOK'
    BY <1>2, CountType
       DEF DeleteDone, Release, CloseEngine, Finish, Replies, TypeOK, pass,
           Goto,
           Places
  <2>2. Placement'
    BY <1>2, PlacementStep, PlacesOfKinds DEF DeleteDone, Finish, Targeted
  <2> QED BY <2>1, <2>2
<1>3. ASSUME t \in Probes, ProbeCached(t) PROVE Typed'
  <2>1. PICK s \in Creates : tgt' = [tgt EXCEPT ![t] = s]
    BY <1>3 DEF ProbeCached, Issued
  <2>2. TypeOK'
    BY <1>3, <2>1
       DEF ProbeCached, Finish, Replies, TypeOK, registry, locks, pass, Goto,
           Places
  <2>3. Placement'
    BY <1>3, <2>1, PlacementStep, PlacesOfKinds
       DEF ProbeCached, Finish, Targeted, TypeOK
  <2> QED BY <2>2, <2>3
<1>4. ASSUME t \in Probes, ProbeLock(t) PROVE Typed'
  <2>1. PICK s \in Creates : /\ tgt' = [tgt EXCEPT ![t] = s]
                             /\ Take(t, s) \/ Enqueue(t, s)
    BY <1>4 DEF ProbeLock, Issued
  <2>2. TypeOK'
    BY <1>4, <2>1, AcquireType DEF ProbeLock, TypeOK, registry, pass
  <2>3. Goto(t, "working") \/ Goto(t, "waiting")
    BY <2>1 DEF Take, Enqueue
  <2>4. Placement'
    BY <1>4, <2>1, <2>3, PlacementStep, PlacesOfKinds DEF TypeOK
  <2> QED BY <2>2, <2>4
<1>5. ASSUME t \in Probes, ProbeDone(t) PROVE Typed'
  <2>1. TypeOK'
    BY <1>5
       DEF ProbeDone, Release, Finish, Replies, TypeOK, registry, pass, Goto,
           Places
  <2>2. Placement'
    BY <1>5, PlacementStep, PlacesOfKinds DEF ProbeDone, Finish, Targeted
  <2> QED BY <2>1, <2>2
<1> QED
  BY <1>1, <1>2, <1>3, <1>4, <1>5

\* A reset keeps the types: each record of its snapshot is a session.
LEMMA TypedReset ==
  ASSUME Typed, NEW r \in Resets, ResetStep(r)
  PROVE  Typed'
<1> USE Kinds DEF Typed
<1> DEFINE Moved ==
             /\ closing' \in [Creates -> BOOLEAN]
             /\ tgt' \in [Tasks -> Creates \cup {None}]
             /\ todo' \in [Resets \cup {Reaper} -> SUBSET Creates]
             /\ pc' \in [Tasks -> Places] /\ reply' \in [Requests -> Replies]
             /\ Placement'
<1>1. ASSUME NEW rest \in SUBSET Creates, ResetNext(r, rest)
      PROVE  Moved
  <2>1. CASE rest = {} /\ Finish(r, "purged") /\ UNCHANGED <<closing, tgt, todo>>
    <3>1. Placement'
      BY <2>1, PlacementStep, PlacesOfKinds DEF Finish, Targeted
    <3> QED
      BY <2>1, <3>1 DEF Finish, Goto, TypeOK, Places, Replies
  <2>2. ASSUME NEW s \in First(rest),
               closing' = [closing EXCEPT ![s] = TRUE],
               tgt' = [tgt EXCEPT ![r] = s],
               todo' = [todo EXCEPT ![r] = rest \ {s}],
               Goto(r, "purging"), UNCHANGED reply
        PROVE  Moved
    <3>1. s \in Creates
      BY DEF First
    <3>2. Placement'
      BY <2>2, <3>1, PlacementStep, PlacesOfKinds DEF TypeOK
    <3> QED
      BY <2>2, <3>1, <3>2 DEF Goto, TypeOK, Places
  <2> QED
    BY <1>1, <2>1, <2>2 DEF ResetNext
<1>2. CASE ResetBegin(r)
  BY <1>1, <1>2 DEF ResetBegin, TypeOK, registry
<1>3. CASE ResetClosed(r)
  BY <1>1, <1>3, CountType DEF ResetClosed, CloseEngine, TypeOK
<1> QED
  BY <1>2, <1>3 DEF ResetStep

\* The tombstone set stays a sequence of sessions.
LEMMA TombstoneType ==
  ASSUME Typed, NEW s \in Creates, TombstoneAdd(s)
  PROVE  tombstones' \in Seq(Creates)
<1> DEFINE added == Append(Without(tombstones, s), s)
<1>1. added \in Seq(Creates)
  BY WithoutType, AppendProperties DEF Typed, TypeOK
<1>2. Len(added) \in Nat
  BY <1>1, LenProperties
<1> HIDE DEF added
<1>3. CASE Len(added) - TombstoneMax > 0
  <2>1. \A i \in Len(added) - TombstoneMax + 1 .. Len(added) : i \in 1..Len(added)
    BY <1>2, <1>3, Limits
  <2>2. SubSeq(added, Len(added) - TombstoneMax + 1, Len(added)) \in Seq(Creates)
    BY <1>1, <1>2, <1>3, <2>1, Limits, SubSeqProperties
  <2> QED
    BY <1>3, <2>2 DEF TombstoneAdd, added
<1>4. CASE ~(Len(added) - TombstoneMax > 0)
  BY <1>1, <1>4 DEF TombstoneAdd, added
<1> QED
  BY <1>3, <1>4

\* The reaper keeps the types, and tombstones only sessions.
LEMMA TypedReap ==
  ASSUME Typed, ReapBegin \/ ReapClosed
  PROVE  Typed'
<1> USE Kinds DEF Typed
<1> DEFINE Moved ==
             /\ closing' \in [Creates -> BOOLEAN]
             /\ lock' \in [Creates -> Tasks \cup {None}]
             /\ waiters' \in [Creates -> Seq(Tasks)]
             /\ pc' \in [Tasks -> Places]
             /\ tgt' \in [Tasks -> Creates \cup {None}]
             /\ todo' \in [Resets \cup {Reaper} -> SUBSET Creates]
             /\ overdue' \subseteq Creates
             /\ Placement'
<1>1. ASSUME NEW rest \in SUBSET Creates, NEW due \in SUBSET Creates,
             ReapNext(rest, due)
      PROVE  Moved
  <2>1. CASE /\ Goto(Reaper, "asleep")
             /\ tgt' = [tgt EXCEPT ![Reaper] = None]
             /\ todo' = [todo EXCEPT ![Reaper] = {}]
             /\ overdue' = {}
             /\ UNCHANGED locks
    <3>1. Placement'
      BY <2>1, PlacementStep, PlacesOfKinds DEF Targeted, TypeOK
    <3> QED
      BY <2>1, <3>1 DEF Goto, TypeOK, Places, locks
  <2>2. ASSUME NEW s \in First({u \in rest : Reapable(u, due)}),
               closing' = [closing EXCEPT ![s] = TRUE],
               tgt' = [tgt EXCEPT ![Reaper] = s],
               todo' = [todo EXCEPT ![Reaper] = {u \in rest : born[u] > born[s]}],
               overdue' = due,
               Take(Reaper, s) \/ Enqueue(Reaper, s)
        PROVE  Moved
    <3>1. s \in Creates
      BY DEF First
    <3>2. Goto(Reaper, "working") \/ Goto(Reaper, "waiting")
      BY <2>2 DEF Take, Enqueue
    <3>3. Placement'
      BY <2>2, <3>1, <3>2, PlacementStep, PlacesOfKinds DEF TypeOK
    <3>4. /\ lock' \in [Creates -> Tasks \cup {None}]
          /\ waiters' \in [Creates -> Seq(Tasks)]
          /\ pc' \in [Tasks -> Places]
      BY <2>2, <3>1, AcquireType
    <3> QED
      BY <2>2, <3>1, <3>3, <3>4 DEF TypeOK
  <2> QED
    BY <1>1, <2>1, <2>2 DEF ReapNext
<1>2. CASE ReapBegin
  <2>1. Moved
    BY <1>1, <1>2 DEF ReapBegin, TypeOK
  <2> QED
    BY <1>2, <2>1 DEF ReapBegin, TypeOK, registry
<1>3. CASE ReapClosed
  <2>1. tgt[Reaper] \in Creates
    BY <1>3 DEF ReapClosed, Placement, Targeted
  <2>2. Moved
    BY <1>1, <1>3 DEF ReapClosed, TypeOK
  <2>3. tombstones' \in Seq(Creates) /\ stats' \in [Counters -> Nat]
    BY <1>3, <2>1, TombstoneType, CountType DEF ReapClosed
  <2> QED
    BY <1>3, <2>1, <2>2, <2>3 DEF ReapClosed, CloseEngine, TypeOK
<1> QED
  BY <1>2, <1>3

\* Time passing keeps the types: idle times stop at their bound.
LEMMA TypedTick ==
  ASSUME Typed, Tick
  PROVE  Typed'
<1>1. idle' \in [Creates -> 0..IdleCap]
  BY Limits DEF Tick, Typed, TypeOK
<1>2. TypeOK'
  BY <1>1 DEF Tick, Typed, TypeOK, registry, locks, pass
<1>3. Placement'
  BY DEF Tick, Typed, Placement
<1> QED
  BY <1>2, <1>3 DEF Typed

\* Every step keeps the types.
LEMMA TypedNext ==
  ASSUME Typed, [Next]_vars
  PROVE  Typed'
<1>1. CASE UNCHANGED vars
  BY <1>1 DEF Typed, TypeOK, Placement, vars, registry, locks, pass
<1>2. ASSUME NEW t \in Actions, ActionStep(t) PROVE Typed'
  BY <1>2, DistinctTasks, Kinds, TypedLock, TypedWork DEF ActionStep
<1>3. ASSUME NEW t \in Deletes, DeleteStep(t) PROVE Typed'
  BY <1>3, DistinctTasks, Kinds, TypedLock, TypedWork DEF DeleteStep
<1>4. ASSUME NEW t \in Probes, ProbeStep(t) PROVE Typed'
  BY <1>4, DistinctTasks, Kinds, TypedLock, TypedWork DEF ProbeStep
<1>5. CASE ReaperStep
  BY <1>5, Kinds, TypedLock, TypedReap DEF ReaperStep
<1> QED
  BY <1>1, <1>2, <1>3, <1>4, <1>5, TypedCreate, TypedReset, TypedTick DEF Next

\* Every variable keeps its type, and a task that acts on a session has one.
THEOREM TypeCorrect == Spec => []TypeOK
<1>1. Typed /\ [Next]_vars => Typed'
  BY TypedNext
<1>2. Typed => TypeOK
  BY DEF Typed
<1> QED
  BY TypedInit, <1>1, <1>2, PTL DEF Spec

-----------------------------------------------------------------------------
(* Every step but a tick is the step of one task. *)

TaskStep(t) ==
  \/ t \in Creates /\ CreateStep(t)
  \/ t \in Actions /\ ActionStep(t)
  \/ t \in Deletes /\ DeleteStep(t)
  \/ t \in Probes /\ ProbeStep(t)
  \/ t \in Resets /\ ResetStep(t)
  \/ t = Reaper /\ ReaperStep

\* A step is time passing or a step of one task.
LEMMA NextIsTaskStep == Next => Tick \/ \E t \in Tasks : TaskStep(t)
BY Kinds DEF Next, TaskStep

\* The other tasks stay where they are.
LEMMA OneTaskMoves ==
  ASSUME Typed, NEW t \in Tasks, TaskStep(t)
  PROVE  \A u \in Tasks : u # t => pc'[u] = pc[u] /\ tgt'[u] = tgt[u]
<1> USE DEF Typed, TypeOK, Goto, Finish
<1>1. CASE t \in Creates /\ CreateStep(t)
  BY <1>1 DEF CreateStep, CreateAdmit, CreateReject, CreateEvict, StartEviction,
     FirstVictimClosed, LaunchFailed, LaunchAdmit, LaunchSurplus, LaunchEvict,
     SurplusClosed, SecondVictimClosed, Insert
<1>2. CASE t \in Actions /\ ActionStep(t)
  BY <1>2 DEF ActionStep, NotLive, GetLive, TryLock, Take, Enqueue, LockGranted,
     LockTimeout, ActionDone
<1>3. CASE t \in Deletes /\ DeleteStep(t)
  BY <1>3 DEF DeleteStep, NotLive, GetLive, TryLock, Take, Enqueue, LockGranted,
     LockTimeout, DeleteDone
<1>4. CASE t \in Probes /\ ProbeStep(t)
  BY <1>4 DEF ProbeStep, NotLive, ProbeCached, ProbeLock, Take, Enqueue,
     LockGranted, ProbeDone
<1>5. CASE t \in Resets /\ ResetStep(t)
  BY <1>5 DEF ResetStep, ResetBegin, ResetClosed, ResetNext
<1>6. CASE t = Reaper /\ ReaperStep
  BY <1>6 DEF ReaperStep, ReapBegin, LockGranted, ReapClosed, ReapNext, Take,
     Enqueue
<1> QED
  BY <1>1, <1>2, <1>3, <1>4, <1>5, <1>6 DEF TaskStep

\* A step changes locks in one of three ways: not at all, with no task starting
\* to work; by taking a lock nobody holds; by releasing the lock of its session.
LockEffect(t) ==
  \/ lock' = lock /\ pc'[t] # "working"
  \/ /\ lock[tgt'[t]] = None
     /\ lock' = [lock EXCEPT ![tgt'[t]] = t]
  \/ /\ pc[t] = "working" /\ pc'[t] # "working"
     /\ lock' = [lock EXCEPT ![tgt[t]] = None]

\* Every step of every task changes locks in one of these ways.
LEMMA LockEffects ==
  ASSUME Typed, NEW t \in Tasks, TaskStep(t)
  PROVE  LockEffect(t)
<1> USE Kinds DEF Typed, TypeOK, Goto, Finish, LockEffect
<1>1. CASE t \in Creates /\ CreateStep(t)
  BY <1>1 DEF CreateStep, CreateAdmit, CreateReject, CreateEvict, StartEviction,
     FirstVictimClosed, LaunchFailed, LaunchAdmit, LaunchSurplus, LaunchEvict,
     SurplusClosed, SecondVictimClosed, Insert, locks
<1>2. CASE t \in Actions \cup Deletes \cup Probes \cup {Reaper} /\ LockGranted(t)
  BY <1>2 DEF LockGranted
<1>3. CASE t \in Actions /\ ActionStep(t)
  BY <1>2, <1>3 DEF ActionStep, NotLive, GetLive, TryLock, Take, Free, Enqueue,
     LockTimeout, ActionDone, Release, locks
<1>4. CASE t \in Deletes /\ DeleteStep(t)
  BY <1>2, <1>4 DEF DeleteStep, NotLive, GetLive, TryLock, Take, Free, Enqueue,
     LockTimeout, DeleteDone, Release, locks
<1>5. CASE t \in Probes /\ ProbeStep(t)
  BY <1>2, <1>5 DEF ProbeStep, NotLive, ProbeCached, ProbeLock, Take, Free,
     Enqueue, ProbeDone, Release, locks
<1>6. CASE t \in Resets /\ ResetStep(t)
  BY <1>6 DEF ResetStep, ResetBegin, ResetClosed, ResetNext
<1>7. CASE t = Reaper /\ ReaperStep
  <2>1. ASSUME NEW rest, NEW due, ReapNext(rest, due),
               rest \subseteq Creates
        PROVE  LockEffect(t)
    <3>1. CASE Goto(Reaper, "asleep") /\ UNCHANGED locks
      BY <1>7, <3>1 DEF locks
    <3>2. ASSUME NEW s \in Creates, tgt' = [tgt EXCEPT ![Reaper] = s],
                 Take(Reaper, s) \/ Enqueue(Reaper, s)
          PROVE  LockEffect(t)
      BY <1>7, <3>2 DEF Take, Free, Enqueue
    <3> QED
      BY <2>1, <3>1, <3>2 DEF ReapNext, First
  <2> QED
    BY <1>2, <1>7, <2>1 DEF ReaperStep, ReapBegin, ReapClosed
<1> QED
  BY <1>1, <1>3, <1>4, <1>5, <1>6, <1>7 DEF TaskStep

\* Whoever works holds the lock of its session, before and after a step.
LEMMA WorkStep ==
  ASSUME Typed, WorkUnderLock, [Next]_vars
  PROVE  WorkUnderLock'
<1>1. CASE Tick \/ UNCHANGED vars
  BY <1>1 DEF WorkUnderLock, Tick, vars, locks
<1>2. ASSUME NEW t \in Tasks, TaskStep(t) PROVE WorkUnderLock'
  <2> SUFFICES ASSUME NEW u \in Tasks, pc'[u] = "working"
               PROVE  lock'[tgt'[u]] = u
    BY DEF WorkUnderLock
  <2>1. Typed' /\ tgt'[u] \in Creates
    BY TypedNext DEF Typed, Placement, Targeted
  <2>2. CASE u = t
    BY <1>2, <2>1, <2>2, LockEffects DEF LockEffect, Typed, TypeOK
  <2>3. CASE u # t
    <3>1. pc[u] = "working" /\ tgt'[u] = tgt[u] /\ lock[tgt[u]] = u
      BY <1>2, <2>3, OneTaskMoves DEF WorkUnderLock
    <3>2. u # None
      BY Kinds
    <3>3. LockEffect(t)
      BY <1>2, LockEffects
    <3>4. CASE lock' = lock
      BY <3>1, <3>4
    <3>5. CASE /\ lock[tgt'[t]] = None
               /\ lock' = [lock EXCEPT ![tgt'[t]] = t]
      <4>1. tgt'[t] # tgt[u]
        BY <3>1, <3>2, <3>5
      <4> QED
        BY <3>1, <3>5, <4>1, <2>1 DEF Typed, TypeOK
    <3>6. CASE pc[t] = "working" /\ lock' = [lock EXCEPT ![tgt[t]] = None]
      <4>1. lock[tgt[t]] = t
        BY <3>6 DEF WorkUnderLock
      <4>2. tgt[t] # tgt[u]
        BY <2>3, <3>1, <4>1
      <4> QED
        BY <3>1, <3>6, <4>2, <2>1 DEF Typed, TypeOK
    <3> QED
      BY <3>3, <3>4, <3>5, <3>6 DEF LockEffect
  <2> QED
    BY <2>2, <2>3
<1> QED
  BY <1>1, <1>2, NextIsTaskStep

\* One task at a time works on a session: it holds the session's lock.
THEOREM MutualExclusion == Spec => []WorkUnderLock
<1>1. Init => WorkUnderLock
  BY Kinds DEF Init, WorkUnderLock
<1>2. Typed /\ WorkUnderLock /\ [Next]_vars => WorkUnderLock'
  BY WorkStep
<1> QED
  BY TypedInit, TypedNext, <1>1, <1>2, PTL DEF Spec

-----------------------------------------------------------------------------
(* Who removes a session.  An evictor or the reaper marks its session closing *)
(* and no mark is ever taken back, so the next one passes the session over.   *)

Marked ==
  \A t \in Creates \cup {Reaper} : \A s \in Creates :
    Removing(t, s) => closing[s]

\* Marks stay, and an evictor or the reaper starts on an unmarked record only.
MarkEffect(t) ==
  /\ \A s \in Creates : closing[s] => closing'[s]
  /\ t \in Creates \cup {Reaper} =>
       \A s \in Creates : Removing(t, s)' =>
         Removing(t, s) \/ (~closing[s] /\ closing'[s])

\* Every step of every task treats marks so.
LEMMA MarkEffects ==
  ASSUME Typed, NEW t \in Tasks, TaskStep(t)
  PROVE  MarkEffect(t)
<1> USE Kinds DEF Typed, TypeOK, Goto, Finish
<1>1. CASE t \in Creates /\ CreateStep(t)
  <2>1. ASSUME NEW v \in OldestEvictable, NEW p \in {"evict1", "evict2"},
               StartEviction(t, v, p)
        PROVE  MarkEffect(t)
    <3>1. v \in records /\ ~closing[v]
      BY DEF OldestEvictable, Evictable, Live
    <3> QED
      BY <1>1, <2>1, <3>1 DEF MarkEffect, StartEviction, Removing
  <2>2. CASE CreateEvict(t) \/ LaunchEvict(t)
    BY <2>1, <2>2 DEF CreateEvict, LaunchEvict
  <2>3. CASE ~(CreateEvict(t) \/ LaunchEvict(t))
    BY <1>1, <2>3, DistinctTasks, Zenon
       DEF CreateStep, CreateAdmit, CreateReject, FirstVictimClosed,
           LaunchFailed, LaunchAdmit, LaunchSurplus, SurplusClosed,
           SecondVictimClosed, Insert, locks, MarkEffect, Removing
  <2> QED
    BY <2>2, <2>3
<1>0. ASSUME Enter(t)
      PROVE  /\ \A s \in Creates : closing[s] => closing'[s]
             /\ t = Reaper => closing' = closing
  <2>1. CASE t \in Deletes
    <3>1. closing' = [closing EXCEPT ![tgt[t]] = TRUE]
      BY <1>0, <2>1 DEF Enter
    <3> QED
      BY <2>1, <3>1
  <2>2. CASE t \notin Deletes
    BY <1>0, <2>2 DEF Enter
  <2> QED
    BY <2>1, <2>2
<1>2. CASE t \in Actions \cup Deletes \cup Probes \cup {Reaper} /\ LockGranted(t)
  <2>1. /\ \A s \in Creates : closing[s] => closing'[s]
        /\ tgt' = tgt /\ pc[t] = "waiting" /\ t \notin Creates
    BY <1>0, <1>2, DistinctTasks DEF LockGranted
  <2>2. \A s \in Creates : t = Reaper /\ Removing(t, s)' => Removing(t, s)
    BY <2>1, DistinctTasks DEF Removing
  <2> QED
    BY <2>1, <2>2 DEF MarkEffect
<1>3. CASE t \in Actions \cup Deletes /\ ~LockGranted(t)
        /\ (ActionStep(t) \/ DeleteStep(t))
  <2>1. t \notin Creates \cup {Reaper}
    BY <1>3, DistinctTasks
  <2>2. closing' = closing \/ Enter(t)
    BY <1>3 DEF ActionStep, DeleteStep, NotLive, GetLive, TryLock, LockTimeout,
                ActionDone, DeleteDone, locks
  <2> QED
    BY <1>0, <2>1, <2>2 DEF MarkEffect
<1>5. CASE t \in Probes /\ ProbeStep(t)
  BY <1>2, <1>5, DistinctTasks
     DEF ProbeStep, NotLive, ProbeCached, ProbeLock, ProbeDone, locks,
         MarkEffect
<1>6. CASE t \in Resets /\ ResetStep(t)
  <2>1. t \notin Creates \cup {Reaper}
    BY <1>6, DistinctTasks
  <2>2. \/ closing' = closing
        \/ \E s : closing' = [closing EXCEPT ![s] = TRUE]
    BY <1>6, Zenon DEF ResetStep, ResetBegin, ResetClosed, ResetNext
  <2>3. \A s \in Creates : closing[s] => closing'[s]
    BY <2>2
  <2> QED
    BY <2>1, <2>3 DEF MarkEffect
<1>7. CASE t = Reaper /\ ReaperStep
  <2>1. ASSUME NEW rest, NEW due, ReapNext(rest, due), rest \subseteq Creates
        PROVE  MarkEffect(t)
    <3>1. CASE Goto(Reaper, "asleep") /\ UNCHANGED locks
      BY <1>7, <3>1, DistinctTasks DEF locks, MarkEffect, Removing
    <3>2. ASSUME NEW s \in First({u \in rest : Reapable(u, due)}),
                 closing' = [closing EXCEPT ![s] = TRUE],
                 tgt' = [tgt EXCEPT ![Reaper] = s]
          PROVE  MarkEffect(t)
      <4>1. s \in Creates /\ ~closing[s]
        BY <2>1 DEF First, Reapable
      <4> QED
        BY <1>7, <3>2, <4>1, DistinctTasks DEF MarkEffect, Removing
    <3> QED
      BY <2>1, <3>1, <3>2 DEF ReapNext
  <2> QED
    BY <1>2, <1>7, <2>1 DEF ReaperStep, ReapBegin, ReapClosed
<1> QED
  BY <1>1, <1>2, <1>3, <1>5, <1>6, <1>7 DEF TaskStep

\* At first nobody removes anything.
LEMMA ApartInit == Init => Marked /\ VictimsDistinct
BY Kinds, DistinctTasks DEF Init, Marked, VictimsDistinct, Removing

\* A step keeps sessions marked, and starts no second removal of one.
LEMMA ApartStep ==
  ASSUME Typed, Marked, VictimsDistinct, [Next]_vars
  PROVE  Marked' /\ VictimsDistinct'
<1>1. CASE Tick \/ UNCHANGED vars
  BY <1>1 DEF Marked, VictimsDistinct, Removing, Tick, vars, locks
<1>2. ASSUME NEW t \in Tasks, TaskStep(t) PROVE Marked' /\ VictimsDistinct'
  <2>1. MarkEffect(t)
    BY <1>2, MarkEffects
  <2>2. ASSUME NEW u \in Creates \cup {Reaper}, u # t, NEW s \in Creates
        PROVE  Removing(u, s)' <=> Removing(u, s)
    BY <1>2, <2>2, Kinds, OneTaskMoves DEF Removing
  <2>3. Marked'
    BY <2>1, <2>2 DEF Marked, MarkEffect
  <2>4. VictimsDistinct'
    BY <2>1, <2>2 DEF Marked, MarkEffect, VictimsDistinct
  <2> QED
    BY <2>3, <2>4
<1> QED
  BY <1>1, <1>2, NextIsTaskStep

\* No two evictors, and no evictor and the reaper, remove one session.
THEOREM EvictorsApart == Spec => []VictimsDistinct
<1>1. Typed /\ Marked /\ VictimsDistinct /\ [Next]_vars
        => Marked' /\ VictimsDistinct'
  BY ApartStep
<1> QED
  BY TypedInit, TypedNext, ApartInit, <1>1, PTL DEF Spec

-----------------------------------------------------------------------------
(* The books of the registry: what a step does to the records and to the     *)
(* counters of GET /metrics.                                                 *)

\* What the three removal counters of GET /metrics add up to.
Removals == stats.reaped + stats.deleted + stats.evicted

NoChange == records' = records /\ stats'.created = stats.created
              /\ Removals' = Removals

Removed(t) ==
  /\ Removing(t, tgt[t]) /\ tgt[t] \in Creates
  /\ records' = records \ {tgt[t]}
  /\ stats'.created = stats.created /\ Removals' = Removals + 1

Inserted(c) ==
  /\ c \in Creates /\ pc[c] = "launch" /\ ~AtCap
  /\ records' = records \cup {c}
  /\ stats'.created = stats.created + 1 /\ Removals' = Removals

Swapped(c) ==
  /\ c \in Creates /\ pc[c] = "evict2" /\ tgt[c] \in Creates
  /\ records' = (records \ {tgt[c]}) \cup {c}
  /\ stats'.created = stats.created + 1 /\ Removals' = Removals + 1

\* A counter moves by one when its event is counted and stays otherwise.
LEMMA CountEffect ==
  ASSUME Typed, NEW K, Count(K)
  PROVE  /\ stats'.created = stats.created + IF "created" \in K THEN 1 ELSE 0
         /\ stats'.reaped = stats.reaped + IF "reaped" \in K THEN 1 ELSE 0
         /\ stats'.deleted = stats.deleted + IF "deleted" \in K THEN 1 ELSE 0
         /\ stats'.evicted = stats.evicted + IF "evicted" \in K THEN 1 ELSE 0
         /\ stats.created \in Nat /\ stats.reaped \in Nat
         /\ stats.deleted \in Nat /\ stats.evicted \in Nat
<1>1. {"created", "reaped", "deleted", "evicted"} \subseteq Counters
  BY DEF Counters
<1>2. \A k \in Counters : stats'[k] = stats[k] + IF k \in K THEN 1 ELSE 0
  BY DEF Count
<1>3. \A k \in Counters : stats[k] \in Nat
  BY DEF Typed, TypeOK
<1> QED
  BY <1>1, <1>2, <1>3

\* An event that is neither a create nor a removal moves none of those counters.
LEMMA CountOther ==
  ASSUME Typed, NEW K,
         K \cap {"created", "reaped", "deleted", "evicted"} = {},
         Count(K)
  PROVE  stats'.created = stats.created /\ Removals' = Removals
<1>1. /\ stats.created \in Nat /\ stats.reaped \in Nat
      /\ stats.deleted \in Nat /\ stats.evicted \in Nat
  BY CountEffect
<1>2. /\ stats'.created = stats.created /\ stats'.reaped = stats.reaped
      /\ stats'.deleted = stats.deleted /\ stats'.evicted = stats.evicted
  BY <1>1, CountEffect
<1> QED
  BY <1>2 DEF Removals

\* A removal is counted once.
LEMMA CountRemoval ==
  ASSUME Typed, NEW k \in {"reaped", "deleted", "evicted"}, Count({k})
  PROVE  stats'.created = stats.created /\ Removals' = Removals + 1
BY CountEffect DEF Removals

\* Every step of every task is one of the four.
LEMMA Books ==
  ASSUME Typed, NEW t \in Tasks, TaskStep(t)
  PROVE  NoChange \/ Removed(t) \/ Inserted(t) \/ Swapped(t)
<1> USE Kinds
<1>1. CASE t \in Creates /\ CreateStep(t)
  <2>1. CASE FirstVictimClosed(t)
    BY <1>1, <2>1, CountRemoval
       DEF FirstVictimClosed, Removed, Removing, Typed, Placement, Targeted
  <2>2. CASE LaunchAdmit(t)
    BY <1>1, <2>2, CountEffect DEF LaunchAdmit, Insert, Inserted, Removals
  <2>3. CASE SecondVictimClosed(t)
    BY <1>1, <2>3, CountEffect
       DEF SecondVictimClosed, Insert, Swapped, Removals, Typed, Placement,
           Targeted
  <2>4. CASE CreateReject(t) \/ SurplusClosed(t)
    BY <2>4, CountOther DEF CreateReject, SurplusClosed, registry, NoChange
  <2>5. CASE \/ CreateAdmit(t) \/ CreateEvict(t) \/ LaunchFailed(t)
             \/ LaunchSurplus(t) \/ LaunchEvict(t)
    BY <2>5 DEF CreateAdmit, CreateEvict, LaunchFailed, LaunchSurplus,
                LaunchEvict, registry, NoChange, Removals
  <2> QED
    BY <1>1, <2>1, <2>2, <2>3, <2>4, <2>5 DEF CreateStep
<1>2. CASE Enter(t) /\ UNCHANGED registry
  BY <1>2, CountOther DEF Enter, registry, NoChange
<1>3. CASE UNCHANGED stats /\ UNCHANGED records
  BY <1>3 DEF NoChange, Removals
<1>4. CASE t \in Actions /\ \E outcome \in {"ok", "notFound", "clientError",
                                            "fault"} : ActionDone(t, outcome)
  BY <1>4, CountOther DEF ActionDone, NoChange
<1>5. CASE t \in Deletes /\ DeleteDone(t)
  BY <1>5, CountRemoval
     DEF DeleteDone, Removed, Removing, Typed, Placement, Targeted
<1>6. CASE t \in Resets /\ ResetClosed(t)
  BY <1>6, CountRemoval
     DEF ResetClosed, Removed, Removing, Typed, Placement, Targeted
<1>7. CASE t = Reaper /\ ReapClosed
  BY <1>7, CountRemoval
     DEF ReapClosed, Removed, Removing, Typed, Placement, Targeted
<1>8. CASE \/ NotLive(t) \/ GetLive(t) \/ TryLock(t) \/ LockGranted(t)
           \/ LockTimeout(t) \/ ProbeCached(t) \/ ProbeLock(t) \/ ProbeDone(t)
           \/ ResetBegin(t) \/ (t = Reaper /\ ReapBegin)
  <2>1. CASE TryLock(t) \/ LockGranted(t)
    BY <1>2, <1>3, <2>1 DEF TryLock, LockGranted, registry
  <2>2. CASE \/ NotLive(t) \/ GetLive(t) \/ LockTimeout(t) \/ ProbeCached(t)
             \/ ProbeLock(t) \/ ProbeDone(t) \/ ResetBegin(t)
             \/ t = Reaper /\ ReapBegin
    BY <1>3, <2>2
       DEF NotLive, GetLive, LockTimeout, ProbeCached, ProbeLock, ProbeDone,
           ResetBegin, ReapBegin, registry
  <2> QED
    BY <1>8, <2>1, <2>2
<1>9. CASE t \in Actions /\ ActionStep(t)
  BY <1>4, <1>8, <1>9 DEF ActionStep
<1>10. CASE t \in Deletes /\ DeleteStep(t)
  BY <1>5, <1>8, <1>10 DEF DeleteStep
<1>11. CASE t \in Probes /\ ProbeStep(t)
  BY <1>8, <1>11 DEF ProbeStep
<1>12. CASE t \in Resets /\ ResetStep(t)
  BY <1>6, <1>8, <1>12 DEF ResetStep
<1>13. CASE t = Reaper /\ ReaperStep
  BY <1>7, <1>8, <1>13 DEF ReaperStep
<1> QED
  BY <1>1, <1>9, <1>10, <1>11, <1>12, <1>13 DEF TaskStep

\* The records are finitely many, before and after a step.
LEMMA FiniteRecords ==
  ASSUME Typed
  PROVE  IsFiniteSet(records) /\ Cardinality(records) \in Nat
BY Kinds, FiniteTasks, FS_Subset, FS_CardinalityType DEF Typed, TypeOK

\* A session has a record only once its create has answered.
Answered == \A s \in records : pc[s] = "finished"

\* Only the create itself inserts its record, and it answers with that.
LEMMA AnsweredStep ==
  ASSUME Typed, Answered, NEW t \in Tasks, TaskStep(t)
  PROVE  Answered' /\ (t \in Creates => t \notin records)
<1> USE Kinds
<1>1. t \in Creates => pc[t] # "finished"
  BY DistinctTasks
     DEF TaskStep, CreateStep, CreateAdmit, CreateReject, CreateEvict,
         FirstVictimClosed, LaunchFailed, LaunchAdmit, LaunchSurplus,
         LaunchEvict, SurplusClosed, SecondVictimClosed
<1>2. t \in Creates => t \notin records
  BY <1>1 DEF Answered
<1>3. t \in records' => t \in Creates /\ pc'[t] = "finished"
  <2>1. CASE t \in Creates
    BY <1>2, <2>1, DistinctTasks
       DEF TaskStep, CreateStep, CreateAdmit, CreateReject, CreateEvict,
           FirstVictimClosed, LaunchFailed, LaunchAdmit, LaunchSurplus,
           LaunchEvict, SurplusClosed, SecondVictimClosed, Insert, Finish, Goto,
           registry, Typed, TypeOK
  <2>2. CASE t \notin Creates
    BY <2>2, TypedNext DEF TaskStep, Next, Typed, TypeOK
  <2> QED
    BY <2>1, <2>2
<1>4. \A s \in records' : s # t => s \in records
  BY Books DEF NoChange, Removed, Inserted, Swapped
<1>5. \A s \in records' : s # t => pc'[s] = "finished"
  BY <1>4, OneTaskMoves DEF Answered, Typed, TypeOK
<1> QED
  BY <1>2, <1>3, <1>5 DEF Answered

\* Records and counters move together in each of the four.
LEMMA CountedKeeps ==
  ASSUME Typed, Typed', NoUncountedRemoval, NEW t, t \in Creates => t \notin records,
         NoChange \/ Removed(t) \/ Inserted(t) \/ Swapped(t)
  PROVE  NoUncountedRemoval'
<1>1. IsFiniteSet(records) /\ Cardinality(records) \in Nat
  BY FiniteRecords
<1>0. /\ stats.created \in Nat /\ stats.reaped \in Nat
      /\ stats.deleted \in Nat /\ stats.evicted \in Nat
  <2>1. stats \in [Counters -> Nat]
    BY DEF Typed, TypeOK
  <2> QED BY <2>1 DEF Counters
<1>2. stats.created \in Nat /\ Removals \in Nat
  BY <1>0 DEF Removals
<1>3. stats.created <= Cardinality(records) + Removals
  BY <1>0, <1>1 DEF NoUncountedRemoval, Removals
<1>4. stats'.created <= Cardinality(records') + Removals'
  <2>1. CASE NoChange
    BY <2>1, <1>3 DEF NoChange
  <2>2. CASE Removed(t)
    <3>1. PICK rest : rest = records \ {tgt[t]}
      OBVIOUS
    <3>2. /\ Cardinality(rest) >= Cardinality(records) - 1
          /\ Cardinality(rest) \in Int
      BY <1>1, <3>1, FS_RemoveElement
    <3>3. records' = rest
      BY <2>2, <3>1 DEF Removed
    <3>4. stats'.created = stats.created /\ Removals' = Removals + 1
      BY <2>2 DEF Removed
    <3>5. Cardinality(records') >= Cardinality(records) - 1
      BY <3>2, <3>3
    <3>6. Cardinality(records') \in Int
      BY <3>2, <3>3
    <3> HIDE <2>2
    <3> QED
      BY <1>1, <1>2, <1>3, <3>4, <3>5, <3>6
  <2>3. CASE Inserted(t)
    <3>1. Cardinality(records') = Cardinality(records) + 1
      BY <2>3, <1>1, FS_AddElement DEF Inserted
    <3> QED
      BY <2>3, <1>1, <1>2, <1>3, <3>1 DEF Inserted
  <2>4. CASE Swapped(t)
    <3>1. PICK rest : rest = records \ {tgt[t]}
      OBVIOUS
    <3>2. IsFiniteSet(rest) /\ t \notin rest
      BY <2>4, <1>1, <3>1, FS_RemoveElement DEF Swapped
    <3>3. /\ Cardinality(rest) >= Cardinality(records) - 1
          /\ Cardinality(rest) \in Int
      BY <1>1, <3>1, FS_RemoveElement
    <3>4. records' = rest \cup {t}
      BY <2>4, <3>1 DEF Swapped
    <3>5. Cardinality(records') = Cardinality(rest) + 1
      BY <3>2, <3>4, FS_AddElement
    <3> QED
      BY <2>4, <1>1, <1>2, <1>3, <3>3, <3>5 DEF Swapped
  <2> QED
    BY <2>1, <2>2, <2>3, <2>4
<1>5. /\ stats'.reaped \in Nat /\ stats'.deleted \in Nat
      /\ stats'.evicted \in Nat
  <2>1. stats' \in [Counters -> Nat]
    BY DEF Typed, TypeOK
  <2> QED BY <2>1 DEF Counters
<1>6. Cardinality(records') \in Nat
  BY Kinds, FiniteTasks, FS_Subset, FS_CardinalityType DEF Typed, TypeOK
<1> QED
  BY <1>4, <1>5, <1>6 DEF Removals, NoUncountedRemoval

\* No step of the registry takes a session out of the books.
LEMMA CountedStep ==
  ASSUME Typed, Answered, NoUncountedRemoval, [Next]_vars
  PROVE  Answered' /\ NoUncountedRemoval'
<1>1. CASE Tick \/ UNCHANGED vars
  BY <1>1 DEF Answered, NoUncountedRemoval, Tick, vars, registry
<1>2. ASSUME NEW t \in Tasks, TaskStep(t)
      PROVE  Answered' /\ NoUncountedRemoval'
  <2>1. Answered' /\ (t \in Creates => t \notin records)
    BY <1>2, AnsweredStep
  <2>2. Typed' /\ (NoChange \/ Removed(t) \/ Inserted(t) \/ Swapped(t))
    BY <1>2, TypedNext, Books
  <2> QED BY <2>1, <2>2, CountedKeeps
<1> QED
  BY <1>1, <1>2, NextIsTaskStep

\* No session leaves the registry without one of the removal counters moving,
\* whoever removes it and however removals overlap.
THEOREM EveryRemovalCounted == Spec => []NoUncountedRemoval
<1>1. Init => Answered /\ NoUncountedRemoval
  BY FS_EmptySet DEF Init, Answered, NoUncountedRemoval, Counters
<1>2. Typed /\ Answered /\ NoUncountedRemoval /\ [Next]_vars
        => Answered' /\ NoUncountedRemoval'
  BY CountedStep
<1> QED
  BY TypedInit, TypedNext, <1>1, <1>2, PTL DEF Spec

-----------------------------------------------------------------------------
(* The cap.  A slot is counted on while its session is being closed, so what *)
(* the cap rests on is that an evictor's victim stays a record until the      *)
(* evictor itself removes it.  That needs the two removals that look at       *)
(* nothing, a DELETE and a reset, to be away.                                 *)

\* What an evictor or the reaper turns to: a session that was live.
TargetEffect(t) ==
  \A s \in Creates : Removing(t, s)' =>
    \/ Removing(t, s) /\ records' = records
    \/ ~closing[s] /\ s \in records \cup todo[Reaper]

\* An evictor picks its victim among the live records, the reaper in its
\* snapshot.
LEMMA TargetEffects ==
  ASSUME Typed, NEW t \in Creates \cup {Reaper}, TaskStep(t)
  PROVE  TargetEffect(t)
<1> USE Kinds DEF Typed, TypeOK, Goto, Finish
<1>1. CASE t \in Creates
  <2>1. CreateStep(t) /\ t # Reaper
    BY <1>1, DistinctTasks DEF TaskStep, Requests
  <2>2. ASSUME NEW v \in OldestEvictable, NEW p, StartEviction(t, v, p)
        PROVE  TargetEffect(t)
    BY <1>1, <2>2
       DEF TargetEffect, StartEviction, Removing, OldestEvictable, Evictable,
           Live
  <2>3. CASE CreateEvict(t) \/ LaunchEvict(t)
    BY <2>2, <2>3 DEF CreateEvict, LaunchEvict
  <2>4. CASE pc'[t] \in {"launch", "surplus", "finished"}
    BY <1>1, <2>4, DistinctTasks DEF TargetEffect, Removing, Requests
  <2> QED
    BY <1>1, <2>1, <2>3, <2>4
       DEF CreateStep, CreateAdmit, CreateReject, FirstVictimClosed,
           LaunchFailed, LaunchAdmit, LaunchSurplus, SurplusClosed,
           SecondVictimClosed, Insert
<1>2. CASE t = Reaper
  <2>1. ReaperStep
    BY <1>2, DistinctTasks DEF TaskStep, Requests
  <2>2. ASSUME NEW rest, NEW due, ReapNext(rest, due),
               rest \subseteq records \cup todo[Reaper]
        PROVE  TargetEffect(t)
    <3>1. CASE Goto(Reaper, "asleep")
      BY <1>2, <3>1, DistinctTasks DEF TargetEffect, Removing, Requests
    <3>2. ASSUME NEW s \in First({u \in rest : Reapable(u, due)}),
                 tgt' = [tgt EXCEPT ![Reaper] = s]
          PROVE  TargetEffect(t)
      <4>1. s \in records \cup todo[Reaper] /\ ~closing[s]
        BY <2>2 DEF First, Reapable
      <4> QED
        BY <1>2, <3>2, <4>1 DEF TargetEffect, Removing
    <3> QED
      BY <2>2, <3>1, <3>2 DEF ReapNext
  <2>3. CASE LockGranted(Reaper)
    BY <1>2, <2>3, DistinctTasks
       DEF LockGranted, registry, TargetEffect, Removing, Requests
  <2> QED
    BY <2>1, <2>2, <2>3 DEF ReaperStep, ReapBegin, ReapClosed
<1> QED
  BY <1>1, <1>2

\* The reaper's snapshot is of records.
LEMMA SnapshotStep ==
  ASSUME Typed, Resets = {}, NEW t \in Tasks, TaskStep(t)
  PROVE  todo'[Reaper] \subseteq todo[Reaper] \cup records
<1> USE Kinds DEF Typed, TypeOK
<1>1. CASE t \in Creates /\ CreateStep(t)
  BY <1>1 DEF CreateStep, CreateAdmit, CreateReject, CreateEvict,
     FirstVictimClosed, LaunchFailed, LaunchAdmit, LaunchSurplus, LaunchEvict,
     SurplusClosed, SecondVictimClosed, pass
<1>2. CASE LockGranted(t)
  BY <1>2 DEF LockGranted, pass
<1>3. CASE \/ t \in Actions /\ ActionStep(t)
           \/ t \in Deletes /\ DeleteStep(t)
           \/ t \in Probes /\ ProbeStep(t)
  BY <1>2, <1>3
     DEF ActionStep, DeleteStep, ProbeStep, NotLive, GetLive, TryLock,
     LockTimeout, ActionDone, DeleteDone, ProbeCached, ProbeLock, ProbeDone, pass
<1>4. CASE t = Reaper /\ ReaperStep
  <2>1. ASSUME NEW rest, NEW due, ReapNext(rest, due)
        PROVE  todo'[Reaper] \subseteq rest
    <3>1. \/ todo' = [todo EXCEPT ![Reaper] = {}]
          \/ \E s : todo' = [todo EXCEPT ![Reaper] =
                                {u \in rest : born[u] > born[s]}]
      BY <2>1, Zenon DEF ReapNext
    <3> QED
      BY <3>1
  <2>2. CASE LockGranted(Reaper)
    BY <2>2 DEF LockGranted, pass
  <2>3. CASE ReapBegin
    BY <2>1, <2>3 DEF ReapBegin
  <2>4. CASE ReapClosed
    BY <2>1, <2>4 DEF ReapClosed
  <2> QED
    BY <1>4, <2>2, <2>3, <2>4 DEF ReaperStep
<1> QED
  BY <1>1, <1>3, <1>4 DEF TaskStep

\* The session an evictor or the reaper is closing still has its record, and so
\* has every session of the reaper's snapshot that nobody is closing.
Held ==
  /\ \A t \in Creates \cup {Reaper} : \A s \in Creates :
       Removing(t, s) => s \in records
  /\ \A s \in todo[Reaper] : closing[s] \/ s \in records

\* With no DELETE and no reset, only the task that marked a session removes it.
LEMMA HeldStep ==
  ASSUME Typed, Marked, VictimsDistinct, Held, Deletes = {}, Resets = {},
         NEW t \in Tasks, TaskStep(t)
  PROVE  Held'
<1> USE Kinds
<1>1. ASSUME NEW s \in records, s \notin records'
      PROVE  t \in Creates \cup {Reaper} /\ Removing(t, s) /\ closing[s]
  <2>1. Removing(t, tgt[t]) /\ tgt[t] \in Creates /\ s = tgt[t]
    BY <1>1, Books
       DEF NoChange, Removed, Inserted, Swapped, Removing
  <2>2. t \in Creates \cup {Reaper}
    BY <2>1 DEF Removing
  <2> QED
    BY <2>1, <2>2 DEF Marked
<1>2. MarkEffect(t) /\ \A s \in Creates : closing[s] => closing'[s]
  BY MarkEffects DEF MarkEffect
<1>3. ASSUME NEW u \in Creates \cup {Reaper}, NEW s \in Creates,
             Removing(u, s)'
      PROVE  s \in records'
  <2>1. CASE u # t
    <3>1. Removing(u, s)
      BY <1>3, <2>1, OneTaskMoves DEF Removing
    <3> QED
      BY <1>1, <2>1, <3>1 DEF Held, VictimsDistinct
  <2>2. CASE u = t
    <3>1. \/ Removing(t, s) /\ records' = records
          \/ ~closing[s] /\ s \in records \cup todo[Reaper]
      BY <1>3, <2>2, TargetEffects DEF TargetEffect
    <3> QED
      BY <1>1, <1>3, <2>2, <3>1 DEF Held
  <2> QED
    BY <2>1, <2>2
<1>4. ASSUME NEW s \in todo'[Reaper] PROVE closing'[s] \/ s \in records'
  <2>1. (closing[s] \/ s \in records) /\ s \in Creates
    BY <1>4, SnapshotStep DEF Held, Typed, TypeOK
  <2> QED
    BY <1>1, <1>2, <2>1
<1> QED
  BY <1>3, <1>4 DEF Held

\* How many records a step leaves, when victims still have their records.
LEMMA RecordCount ==
  ASSUME Typed, Answered, Held, Deletes = {}, Resets = {},
         NEW t \in Tasks, TaskStep(t)
  PROVE  /\ Removed(t) => Cardinality(records') = Cardinality(records) - 1
         /\ Inserted(t) => Cardinality(records') = Cardinality(records) + 1
         /\ Swapped(t) => Cardinality(records') = Cardinality(records)
         /\ IsFiniteSet(records) /\ Cardinality(records) \in Nat
<1>1. IsFiniteSet(records) /\ Cardinality(records) \in Nat
  BY FiniteRecords
<1>2. t \in Creates => t \notin records
  BY AnsweredStep
<1>3. ASSUME Removing(t, tgt[t]), tgt[t] \in Creates
      PROVE  /\ Cardinality(records \ {tgt[t]}) = Cardinality(records) - 1
             /\ IsFiniteSet(records \ {tgt[t]})
  <2>1. tgt[t] \in records
    BY <1>3 DEF Removing, Held
  <2> QED
    BY <1>1, <2>1, FS_RemoveElement
<1>5. Inserted(t) => Cardinality(records') = Cardinality(records) + 1
  <2>1. SUFFICES ASSUME Inserted(t)
                 PROVE  Cardinality(records') = Cardinality(records) + 1
    OBVIOUS
  <2>2. records' = records \cup {t} /\ t \notin records
    BY <1>2, <2>1 DEF Inserted
  <2> QED
    BY <1>1, <2>2, FS_AddElement
<1>6. Swapped(t) => Cardinality(records') = Cardinality(records)
  <2>1. SUFFICES ASSUME Swapped(t)
                 PROVE  Cardinality(records') = Cardinality(records)
    OBVIOUS
  <2>2. PICK rest : rest = records \ {tgt[t]}
    OBVIOUS
  <2>3. Removing(t, tgt[t]) /\ tgt[t] \in Creates
    BY <2>1 DEF Swapped, Removing
  <2>4. Cardinality(rest) = Cardinality(records) - 1 /\ IsFiniteSet(rest)
    BY <1>3, <2>2, <2>3
  <2>5. records' = rest \cup {t} /\ t \notin rest
    BY <1>2, <2>1, <2>2 DEF Swapped
  <2>6. Cardinality(records') = Cardinality(rest) + 1
    BY <2>4, <2>5, FS_AddElement
  <2> QED
    BY <1>1, <2>4, <2>6
<1>7. Removed(t) => Cardinality(records') = Cardinality(records) - 1
  <2>1. SUFFICES ASSUME Removed(t)
                 PROVE  Cardinality(records') = Cardinality(records) - 1
    OBVIOUS
  <2>2. records' = records \ {tgt[t]}
    BY <2>1 DEF Removed
  <2>3. Cardinality(records \ {tgt[t]}) = Cardinality(records) - 1
    BY <1>3, <2>1 DEF Removed
  <2> QED
    BY <2>2, <2>3
<1> QED
  BY <1>1, <1>5, <1>6, <1>7

\* What the two theorems below share.
Base == Typed /\ Marked /\ VictimsDistinct /\ Answered /\ Held

\* The invariants both theorems rest on hold at first.
LEMMA BaseInit == Init => Base
BY Kinds, DistinctTasks, TypedInit, ApartInit
   DEF Init, Base, Answered, Held, Removing

\* They hold after every step.
LEMMA BaseStep ==
  ASSUME Base, Deletes = {}, Resets = {}, [Next]_vars
  PROVE  Base'
<1> USE DEF Base
<1>1. Typed' /\ Marked' /\ VictimsDistinct'
  BY TypedNext, ApartStep
<1>2. CASE Tick \/ UNCHANGED vars
  BY <1>1, <1>2
     DEF Tick, vars, registry, locks, pass, Answered, Held, Removing
<1>3. ASSUME NEW t \in Tasks, TaskStep(t) PROVE Base'
  BY <1>1, <1>3, AnsweredStep, HeldStep
<1> QED
  BY <1>2, <1>3, NextIsTaskStep

\* Without a DELETE or a reset, whatever creates, actions, probes and the reaper
\* interleave, the registry never holds more than MAX_SESSIONS records.
THEOREM CapKept ==
  ASSUME Deletes = {}, Resets = {}
  PROVE  Spec => []CapRespected
<1>1. Init => CapRespected
  BY Limits, FS_EmptySet DEF Init, CapRespected
<1>2. ASSUME Base, CapRespected, [Next]_vars PROVE CapRespected'
  <2>1. CASE Tick \/ UNCHANGED vars
    BY <1>2, <2>1 DEF CapRespected, Tick, vars, registry
  <2>2. ASSUME NEW t \in Tasks, TaskStep(t) PROVE CapRespected'
    <3>1. NoChange \/ Removed(t) \/ Inserted(t) \/ Swapped(t)
      BY <1>2, <2>2, Books DEF Base
    <3>2. /\ Removed(t) => Cardinality(records') = Cardinality(records) - 1
          /\ Inserted(t) => Cardinality(records') = Cardinality(records) + 1
          /\ Swapped(t) => Cardinality(records') = Cardinality(records)
          /\ Cardinality(records) \in Nat
      BY <1>2, <2>2, RecordCount DEF Base
    <3>3. Inserted(t) => Cardinality(records) < MaxSessions
      BY <3>2, Limits DEF Inserted, AtCap
    <3>4. NoChange => Cardinality(records') = Cardinality(records)
      BY DEF NoChange
    <3>5. Cardinality(records) <= MaxSessions
      BY <1>2 DEF CapRespected
    <3>6. Cardinality(records') <= MaxSessions
      BY <3>1, <3>2, <3>3, <3>4, <3>5, Limits
    <3> QED
      BY <3>6 DEF CapRespected
  <2> QED
    BY <1>2, <2>1, <2>2, NextIsTaskStep
<1>3. Base /\ [Next]_vars => Base'
  BY BaseStep
<1> QED
  BY <1>1, <1>2, <1>3, BaseInit, PTL DEF Spec

\* Without a DELETE or a reset, every session created is live or was counted in
\* exactly one removal counter.
THEOREM BooksBalance ==
  ASSUME Deletes = {}, Resets = {}
  PROVE  Spec => []CountersBalance
<1>1. Init => CountersBalance
  BY FS_EmptySet DEF Init, CountersBalance, Counters
<1>2. ASSUME Base, CountersBalance, [Next]_vars PROVE CountersBalance'
  <2>1. CASE Tick \/ UNCHANGED vars
    BY <1>2, <2>1 DEF CountersBalance, Tick, vars, registry
  <2>2. ASSUME NEW t \in Tasks, TaskStep(t) PROVE CountersBalance'
    <3>1. NoChange \/ Removed(t) \/ Inserted(t) \/ Swapped(t)
      BY <1>2, <2>2, Books DEF Base
    <3>2. /\ Removed(t) => Cardinality(records') = Cardinality(records) - 1
          /\ Inserted(t) => Cardinality(records') = Cardinality(records) + 1
          /\ Swapped(t) => Cardinality(records') = Cardinality(records)
          /\ Cardinality(records) \in Nat
      BY <1>2, <2>2, RecordCount DEF Base
    <3>3. NoChange => Cardinality(records') = Cardinality(records)
      BY DEF NoChange
    <3>4. /\ stats.created \in Nat /\ stats.reaped \in Nat
          /\ stats.deleted \in Nat /\ stats.evicted \in Nat
      BY <1>2 DEF Base, Typed, TypeOK, Counters
    <3>5. stats.created = Cardinality(records) + Removals /\ Removals \in Nat
      BY <1>2, <3>2, <3>4 DEF CountersBalance, Removals
    <3>6. stats'.created = Cardinality(records') + Removals'
      BY <3>1, <3>2, <3>3, <3>4, <3>5
         DEF NoChange, Removed, Inserted, Swapped
    <3>7. Typed'
      BY <1>2, TypedNext DEF Base
    <3>8. /\ stats'.reaped \in Nat /\ stats'.deleted \in Nat
          /\ stats'.evicted \in Nat /\ Cardinality(records') \in Nat
      BY <3>7, Kinds, FiniteTasks, FS_Subset, FS_CardinalityType
         DEF Typed, TypeOK, Counters
    <3> QED
      BY <3>6, <3>8 DEF Removals, CountersBalance
  <2> QED
    BY <1>2, <2>1, <2>2, NextIsTaskStep
<1>3. Base /\ [Next]_vars => Base'
  BY BaseStep
<1> QED
  BY <1>1, <1>2, <1>3, BaseInit, PTL DEF Spec
-----------------------------------------------------------------------------
(* The cap with DELETE and reset. *)

\* The creates whose second victim somebody else removed: they will insert with
\* no slot of their own.
Orphans == {c \in Creates : pc[c] = "evict2" /\ tgt[c] \notin records}

\* Each of them is paid for by a removal that was counted as a deletion.
Paid ==
  /\ Cardinality(Orphans) <= stats.deleted
  /\ Cardinality(records) + Cardinality(Orphans) <= MaxSessions + stats.deleted

\* What DELETE and reset remove they count as deleted, and nobody takes a
\* deletion back.
LEMMA Deletions ==
  ASSUME Typed, NEW t \in Tasks, TaskStep(t)
  PROVE  /\ stats.deleted \in Nat
         /\ stats'.deleted = stats.deleted \/ stats'.deleted = stats.deleted + 1
         /\ t \in Deletes \cup Resets =>
              \/ records' = records /\ Removals' = Removals
              \/ stats'.deleted = stats.deleted + 1
<1> USE Kinds
<1>1. stats.deleted \in Nat
  BY DEF Typed, TypeOK, Counters
<1>3. stats' = stats \/ \E K : Count(K)
  BY DEF TaskStep, CreateStep, CreateAdmit, CreateReject, CreateEvict,
     FirstVictimClosed, LaunchFailed, LaunchAdmit, LaunchSurplus, LaunchEvict,
     SurplusClosed, SecondVictimClosed, ActionStep, DeleteStep, ProbeStep,
     NotLive, GetLive, TryLock, LockGranted, LockTimeout, Enter, ActionDone,
     DeleteDone, ProbeCached, ProbeLock, ProbeDone, ResetStep, ResetBegin,
     ResetClosed, ReaperStep, ReapBegin, ReapClosed
<1>4. stats'.deleted = stats.deleted \/ stats'.deleted = stats.deleted + 1
  BY <1>1, <1>3, CountEffect
<1>5. CASE t \in Deletes
  <2>1. DeleteStep(t)
    BY <1>5, DistinctTasks, Zenon DEF TaskStep
  <2>2. CASE DeleteDone(t)
    <3>1. Count({"deleted"})
      BY <2>2 DEF DeleteDone
    <3> QED BY <1>1, <1>4, <3>1, CountEffect
  <2>3. CASE ~DeleteDone(t)
    <3>1. records' = records /\ (stats' = stats \/ Enter(t))
      BY <2>1, <2>3
         DEF DeleteStep, NotLive, GetLive, TryLock, LockGranted, LockTimeout, registry
    <3>2. Removals' = Removals
      BY <3>1, CountOther DEF Enter, Removals
    <3> QED BY <1>1, <1>4, <3>1, <3>2
  <2> QED BY <2>2, <2>3
<1>6. CASE t \in Resets
  <2>1. ResetBegin(t) \/ ResetClosed(t)
    BY <1>6, DistinctTasks, Zenon DEF TaskStep, ResetStep
  <2>2. CASE ResetBegin(t)
    BY <1>1, <1>4, <2>2 DEF ResetBegin, registry, Removals
  <2>3. CASE ResetClosed(t)
    <3>1. Count({"deleted"})
      BY <2>3 DEF ResetClosed
    <3> QED BY <1>1, <1>4, <3>1, CountEffect
  <2> QED BY <2>1, <2>2, <2>3
<1> QED BY <1>1, <1>4, <1>5, <1>6

\* A create begins its second eviction with a victim that has its record.
LEMMA NoOrphanBegins ==
  ASSUME Typed, NEW t \in Creates, TaskStep(t)
  PROVE  t \notin Orphans'
<1> USE Kinds
<1>1. CreateStep(t)
  BY DistinctTasks DEF TaskStep, Requests
<1>2. pc \in [Tasks -> Places] /\ tgt \in [Tasks -> Creates \cup {None}]
  BY DEF Typed, TypeOK
<1>3. CASE LaunchEvict(t)
  <2>1. PICK v \in OldestEvictable : StartEviction(t, v, "evict2")
    BY <1>3 DEF LaunchEvict
  <2>2. tgt'[t] = v /\ v \in records /\ records' = records
    BY <1>2, <1>3, <2>1
       DEF LaunchEvict, StartEviction, OldestEvictable, registry
  <2> QED BY <2>2 DEF Orphans
<1>4. CASE CreateEvict(t)
  BY <1>2, <1>4 DEF CreateEvict, StartEviction, Goto, Orphans
<1>5. CASE ~LaunchEvict(t) /\ ~CreateEvict(t)
  <2>1. pc'[t] # "evict2"
    BY <1>1, <1>2, <1>5
       DEF CreateStep, CreateAdmit, CreateReject, FirstVictimClosed, LaunchFailed,
           LaunchAdmit, LaunchSurplus, SurplusClosed, SecondVictimClosed, Insert,
           Finish, Goto
  <2> QED BY <2>1 DEF Orphans
<1> QED BY <1>3, <1>4, <1>5

\* A step orphans nobody, unless a DELETE or a reset removes a record: then one
\* create at most, since no two have one victim.
LEMMA OrphansStep ==
  ASSUME Typed, VictimsDistinct, NEW t \in Tasks, TaskStep(t)
  PROVE  /\ t \notin Deletes \cup Resets \/ records' = records =>
              Orphans' \subseteq Orphans
         /\ \E c : Orphans' \subseteq Orphans \cup {c}
         /\ t \in Creates => t \notin Orphans'
<1> USE Kinds
<1>1. t \in Creates => t \notin Orphans'
  BY NoOrphanBegins
<1>2. ASSUME NEW c \in Orphans', c \notin Orphans
      PROVE  /\ c \in Creates /\ Removing(c, tgt[c]) /\ tgt[c] \in Creates
             /\ tgt[c] \in records /\ tgt[c] \notin records' /\ c # t
  <2>1. c \in Creates /\ c # t
    BY <1>1 DEF Orphans
  <2>2. pc'[c] = pc[c] /\ tgt'[c] = tgt[c]
    BY <2>1, OneTaskMoves
  <2>3. pc[c] = "evict2" /\ tgt[c] \in records /\ tgt[c] \notin records'
    BY <1>2, <2>1, <2>2 DEF Orphans
  <2> QED BY <2>1, <2>3 DEF Removing, Typed, TypeOK
<1>3. ASSUME NEW v \in records, v \notin records' PROVE v = tgt[t] /\ Removing(t, v)
  <2>1. CASE Removed(t)
    BY <1>3, <2>1 DEF Removed
  <2>2. CASE Swapped(t)
    BY <1>3, <2>2 DEF Swapped, Removing
  <2> QED BY <1>3, <2>1, <2>2, Books DEF NoChange, Inserted
<1>4. ASSUME t \notin Deletes \cup Resets \/ records' = records,
             NEW c \in Orphans', c \notin Orphans
      PROVE  FALSE
  <2>1. Removing(c, tgt[c]) /\ Removing(t, tgt[c]) /\ c \in Creates /\ c # t
        /\ tgt[c] \in Creates /\ t \notin Deletes \cup Resets
    BY <1>2, <1>3, <1>4
  <2>2. t \in Creates \cup {Reaper}
    BY <2>1 DEF Removing
  <2> QED BY <2>1, <2>2 DEF VictimsDistinct
<1>5. \A c, d \in Orphans' : c \notin Orphans /\ d \notin Orphans => c = d
  <2> SUFFICES ASSUME NEW c \in Orphans', NEW d \in Orphans',
                      c \notin Orphans, d \notin Orphans
               PROVE  c = d
    OBVIOUS
  <2>1. tgt[c] = tgt[t] /\ tgt[d] = tgt[t]
    BY <1>2, <1>3
  <2> QED BY <1>2, <2>1 DEF VictimsDistinct
<1>6. \E c : Orphans' \subseteq Orphans \cup {c}
  <2>1. CASE Orphans' \subseteq Orphans
    BY <2>1
  <2>2. ASSUME NEW c \in Orphans', c \notin Orphans
        PROVE  Orphans' \subseteq Orphans \cup {c}
    BY <1>5, <2>2
  <2> QED BY <2>1, <2>2
<1> QED BY <1>1, <1>4, <1>6

\* A smaller set, a set with at most one more, and one with one less.
LEMMA Counts ==
  ASSUME NEW A, NEW B, NEW e, IsFiniteSet(A)
  PROVE  /\ Cardinality(A) \in Nat
         /\ B \subseteq A => Cardinality(B) \in Nat /\ Cardinality(B) <= Cardinality(A)
         /\ B \subseteq A \cup {e} =>
              Cardinality(B) \in Nat /\ Cardinality(B) <= Cardinality(A) + 1
         /\ e \in A /\ B \subseteq A \ {e} =>
              Cardinality(B) \in Nat /\ Cardinality(B) <= Cardinality(A) - 1
<1>1. Cardinality(A) \in Nat
  BY FS_CardinalityType
<1>2. \A S, T : IsFiniteSet(T) /\ S \subseteq T =>
        Cardinality(S) \in Nat /\ Cardinality(S) <= Cardinality(T)
  BY FS_Subset, FS_CardinalityType
<1>3. PICK C : C = A \cup {e}
  OBVIOUS
<1>4. IsFiniteSet(C) /\ Cardinality(C) <= Cardinality(A) + 1 /\ Cardinality(C) \in Nat
  <2>1. CASE e \in A
    <3>1. C = A
      BY <1>3, <2>1
    <3> QED BY <1>1, <3>1
  <2>2. CASE e \notin A
    <3>1. IsFiniteSet(C) /\ Cardinality(C) = Cardinality(A) + 1
      BY <1>3, <2>2, FS_AddElement
    <3> QED BY <1>1, <3>1
  <2> QED BY <2>1, <2>2
<1>5. PICK D : D = A \ {e}
  OBVIOUS
<1>6. e \in A =>
        IsFiniteSet(D) /\ Cardinality(D) = Cardinality(A) - 1 /\ Cardinality(D) \in Nat
  BY <1>1, <1>5, FS_RemoveElement, FS_CardinalityType
<1>7. B \subseteq C => Cardinality(B) \in Nat /\ Cardinality(B) <= Cardinality(C)
  BY <1>2, <1>4
<1>8. e \in A /\ B \subseteq D => Cardinality(B) \in Nat /\ Cardinality(B) <= Cardinality(D)
  BY <1>2, <1>6
<1>9. B \subseteq A \cup {e} =>
        Cardinality(B) \in Nat /\ Cardinality(B) <= Cardinality(A) + 1
  BY <1>1, <1>3, <1>4, <1>7
<1>10. e \in A /\ B \subseteq A \ {e} =>
         Cardinality(B) \in Nat /\ Cardinality(B) <= Cardinality(A) - 1
  BY <1>1, <1>5, <1>6, <1>8
<1> QED BY <1>1, <1>2, <1>9, <1>10

\* A deletion pays for one orphan more, since it frees a slot.
LEMMA PaidBy ==
  ASSUME Typed, Paid,
         \/ /\ records' \subseteq records /\ Orphans' \subseteq Orphans
            /\ stats'.deleted \in {stats.deleted, stats.deleted + 1}
         \/ \E v \in records : \E c :
              /\ records' \subseteq records \ {v} /\ Orphans' \subseteq Orphans \cup {c}
              /\ stats'.deleted = stats.deleted + 1
  PROVE  Paid'
<1>1. IsFiniteSet(records) /\ IsFiniteSet(Orphans) /\ stats.deleted \in Nat
  <2>1. Orphans \subseteq Requests
    BY Kinds DEF Orphans
  <2> QED BY <2>1, FiniteRecords, FiniteTasks, FS_Subset DEF Typed, TypeOK, Counters
<1> DEFINE r == Cardinality(records)   o == Cardinality(Orphans)
           x == Cardinality(records')  p == Cardinality(Orphans')
           n == stats.deleted          m == stats'.deleted
<1>2. /\ r \in Nat /\ o \in Nat /\ n \in Nat /\ MaxSessions \in Nat
      /\ o <= n /\ r + o <= MaxSessions + n
  BY <1>1, FS_CardinalityType, Limits DEF Paid
<1>3. SUFFICES p <= m /\ x + p <= MaxSessions + m
  BY DEF Paid
<1>4. CASE /\ records' \subseteq records /\ Orphans' \subseteq Orphans
           /\ m \in {n, n + 1}
  <2>1. x \in Nat /\ x <= r /\ p \in Nat /\ p <= o
    BY <1>1, <1>4, Counts
  <2> HIDE DEF r, o, x, p, n, m
  <2> QED BY <1>2, <1>4, <2>1
<1>5. ASSUME NEW v \in records, NEW c, records' \subseteq records \ {v},
             Orphans' \subseteq Orphans \cup {c}, m = n + 1
      PROVE  p <= m /\ x + p <= MaxSessions + m
  <2>1. x \in Nat /\ x <= r - 1 /\ p \in Nat /\ p <= o + 1
    BY <1>1, <1>5, Counts
  <2> HIDE DEF r, o, x, p, n, m
  <2> QED BY <1>2, <1>5, <2>1
<1> QED BY <1>4, <1>5

\* A step keeps every orphan paid for.
LEMMA PaidStep ==
  ASSUME Typed, VictimsDistinct, Paid, NEW t \in Tasks, TaskStep(t)
  PROVE  Paid'
<1> USE Kinds
<1>1. IsFiniteSet(records) /\ IsFiniteSet(Orphans)
  <2>1. Orphans \subseteq Requests
    BY DEF Orphans
  <2> QED BY <2>1, FiniteRecords, FiniteTasks, FS_Subset
<1> DEFINE r == Cardinality(records)   o == Cardinality(Orphans)
           x == Cardinality(records')  p == Cardinality(Orphans')
           n == stats.deleted          m == stats'.deleted
<1>2. /\ r \in Nat /\ o \in Nat /\ n \in Nat /\ MaxSessions \in Nat
      /\ o <= n /\ r + o <= MaxSessions + n /\ (m = n \/ m = n + 1)
  BY <1>1, Deletions, FS_CardinalityType, Limits DEF Paid
<1>3. SUFFICES p <= m /\ x + p <= MaxSessions + m
  BY DEF Paid
<1>4. Orphans' \subseteq Orphans => p \in Nat /\ p <= o
  BY <1>1, Counts
<1>6. CASE NoChange
  BY <1>2, <1>6, OrphansStep, PaidBy DEF NoChange, Paid
<1>7. CASE Removed(t) /\ (t \notin Deletes \cup Resets \/ records' = records)
  BY <1>2, <1>7, OrphansStep, PaidBy DEF Removed, Paid
<1>8. CASE Removed(t) /\ t \in Deletes \cup Resets /\ records' # records
  <2>1. PICK c : Orphans' \subseteq Orphans \cup {c}
    BY OrphansStep
  <2>2. tgt[t] \in records /\ records' \subseteq records \ {tgt[t]} /\ m = n + 1
    BY <1>8, Deletions DEF Removed
  <2> QED BY <2>1, <2>2, PaidBy DEF Paid
<1>9. CASE Inserted(t)
  <2>1. Orphans' \subseteq Orphans
    BY <1>9, DistinctTasks, OrphansStep DEF Inserted
  <2>2. r < MaxSessions
    BY <1>9, FiniteRecords, Limits DEF Inserted, AtCap
  <2>3. records' \subseteq records \cup {t}
    BY <1>9 DEF Inserted
  <2>4. x \in Nat /\ x <= r + 1
    BY <1>1, <2>3, Counts
  <2> HIDE DEF r, o, x, p, n, m
  <2> QED BY <1>2, <1>4, <2>1, <2>2, <2>4
<1>10. CASE Swapped(t)
  <2>1. Orphans' \subseteq Orphans /\ t \notin Orphans' /\ t \in Creates
    BY <1>10, DistinctTasks, OrphansStep DEF Swapped
  <2>2. CASE tgt[t] \in records
    <3>1. PICK rest : rest = records \ {tgt[t]}
      OBVIOUS
    <3>2. Cardinality(rest) \in Nat /\ Cardinality(rest) <= r - 1 /\ IsFiniteSet(rest)
      BY <1>1, <2>2, <3>1, Counts, FS_Subset
    <3>3. records' \subseteq rest \cup {t}
      BY <1>10, <3>1 DEF Swapped
    <3>4. x \in Nat /\ x <= Cardinality(rest) + 1
      BY <3>2, <3>3, Counts
    <3> HIDE DEF r, o, x, p, n, m
    <3> QED BY <1>2, <1>4, <2>1, <3>2, <3>4
  <2>3. CASE tgt[t] \notin records
    <3>1. t \in Orphans /\ Orphans' \subseteq Orphans \ {t}
      BY <1>10, <2>1, <2>3 DEF Swapped, Orphans
    <3>2. p \in Nat /\ p <= o - 1
      BY <1>1, <3>1, Counts
    <3>3. records' \subseteq records \cup {t}
      BY <1>10 DEF Swapped
    <3>4. x \in Nat /\ x <= r + 1
      BY <1>1, <3>3, Counts
    <3> HIDE DEF r, o, x, p, n, m
    <3> QED BY <1>2, <3>2, <3>4
  <2> QED BY <2>2, <2>3
<1> QED BY <1>6, <1>7, <1>8, <1>9, <1>10, Books

\* Where every orphan is paid for the cap is exceeded by deletions only.
LEMMA PaidBounds == ASSUME Typed, Paid PROVE OverrunBounded
<1>1. IsFiniteSet(Orphans)
  BY Kinds, FiniteTasks, FS_Subset DEF Orphans
<1>2. /\ Cardinality(Orphans) \in Nat /\ Cardinality(records) \in Nat
      /\ stats.deleted \in Nat /\ MaxSessions \in Nat
  BY <1>1, FiniteRecords, FS_CardinalityType, Limits DEF Typed, TypeOK, Counters
<1> QED BY <1>2 DEF Paid, OverrunBounded

\* At first no create is orphaned.
LEMMA PaidInit == Init => Paid
<1> SUFFICES ASSUME Init PROVE Paid
  OBVIOUS
<1>1. records = {} /\ Orphans = {} /\ stats.deleted = 0
  BY Kinds, DistinctTasks DEF Init, Orphans, Counters
<1> QED BY <1>1, FS_EmptySet, Limits DEF Paid

\* Time passing orphans nobody.
LEMMA PaidNext ==
  ASSUME Typed, VictimsDistinct, Paid, [Next]_vars
  PROVE  Paid'
<1>1. CASE Tick \/ UNCHANGED vars
  BY <1>1 DEF Paid, Orphans, Tick, vars, registry
<1> QED BY <1>1, PaidStep, NextIsTaskStep

\* With every kind of request in any number, the registry exceeds MAX_SESSIONS by
\* no more than what DELETE and reset have removed.
THEOREM OverrunKept == Spec => []OverrunBounded
<1>1. Typed /\ Marked /\ VictimsDistinct /\ Paid /\ [Next]_vars =>
        Typed' /\ Marked' /\ VictimsDistinct' /\ Paid'
  BY TypedNext, ApartStep, PaidNext
<1>2. Typed /\ Paid => OverrunBounded
  BY PaidBounds
<1> QED BY TypedInit, ApartInit, PaidInit, <1>1, <1>2, PTL DEF Spec

-----------------------------------------------------------------------------
(* The tombstones. *)

\* A tombstone that is added is the newest, and at most the oldest is dropped,
\* when the memory was full.
LEMMA TombstoneEffect ==
  ASSUME tombstones \in Seq(Creates), IsInjective(tombstones),
         Len(tombstones) <= TombstoneMax,
         NEW s \in Creates, s \notin Range(tombstones), TombstoneAdd(s)
  PROVE  /\ IsInjective(tombstones') /\ Len(tombstones') <= TombstoneMax
         /\ \/ /\ Len(tombstones) < TombstoneMax
               /\ Range(tombstones') = Range(tombstones) \cup {s}
            \/ /\ Len(tombstones) = TombstoneMax
               /\ \E u \in Range(tombstones) :
                    Range(tombstones') = (Range(tombstones) \ {u}) \cup {s}
<1> DEFINE n == Len(tombstones)
           added == Append(tombstones, s)
<1>1. Without(tombstones, s) = tombstones
  BY DEF Without
<1>2. /\ n \in Nat /\ n <= TombstoneMax /\ TombstoneMax \in Nat \ {0}
      /\ DOMAIN tombstones = 1..n
  BY Limits
<1>3. /\ added \in Seq(Creates) /\ Len(added) = n + 1 /\ DOMAIN added = 1..n + 1
      /\ \A i \in 1..n : added[i] = tombstones[i]
      /\ added[n + 1] = s
  BY <1>2, AppendProperties
<1>4. tombstones' = IF Len(added) - TombstoneMax > 0
                    THEN SubSeq(added, Len(added) - TombstoneMax + 1, Len(added))
                    ELSE added
  BY <1>1 DEF TombstoneAdd
<1>5. /\ \A i \in 1..n : tombstones[i] \in Range(tombstones) /\ tombstones[i] # s
      /\ \A i, j \in 1..n : tombstones[i] = tombstones[j] => i = j
      /\ \A u \in Range(tombstones) : \E i \in 1..n : u = tombstones[i]
  BY <1>2 DEF IsInjective, Range
<1> HIDE DEF added, n
<1>6. CASE n < TombstoneMax
  <2>1. tombstones' = added
    BY <1>2, <1>3, <1>4, <1>6
  <2>2. IsInjective(added)
    BY <1>2, <1>3, <1>5 DEF IsInjective
  <2>3. \A u : u \in Range(added) <=> u \in Range(tombstones) \cup {s}
    <3>1. ASSUME NEW i \in 1..n + 1 PROVE added[i] \in Range(tombstones) \cup {s}
      BY <1>2, <1>3, <1>5
    <3>2. ASSUME NEW i \in 1..n PROVE tombstones[i] \in Range(added)
      <4>1. i \in 1..n + 1
        BY <1>2
      <4> QED BY <1>3, <4>1 DEF Range
    <3>3. s \in Range(added)
      <4>1. n + 1 \in 1..n + 1
        BY <1>2
      <4> QED BY <1>3, <4>1 DEF Range
    <3>4. \A u \in Range(added) : \E i \in 1..n + 1 : u = added[i]
      BY <1>3 DEF Range
    <3> QED BY <1>5, <3>1, <3>2, <3>3, <3>4
  <2>4. Range(added) = Range(tombstones) \cup {s}
    BY <2>3
  <2>5. Len(tombstones') <= TombstoneMax
    BY <1>2, <1>3, <1>6, <2>1
  <2>6. IsInjective(tombstones') /\ Range(tombstones') = Range(tombstones) \cup {s}
    BY <2>1, <2>2, <2>4
  <2> QED BY <1>6, <2>5, <2>6 DEF n
<1>7. CASE n = TombstoneMax
  <2>1. tombstones' = SubSeq(added, 2, n + 1)
    BY <1>2, <1>3, <1>4, <1>7
  <2>2. /\ tombstones' \in Seq(Creates) /\ Len(tombstones') = n
        /\ DOMAIN tombstones' = 1..n
        /\ \A i \in 1..n : tombstones'[i] = added[i + 1]
    <3>1. \A i \in 2..n + 1 : added[i] \in Creates
      BY <1>2, <1>3
    <3>2. 2 <= n + 1 /\ (n + 1) - 2 + 1 = n
      BY <1>2, <1>7
    <3>3. \A i \in 1..n : 2 + i - 1 = i + 1
      OBVIOUS
    <3> QED BY <1>2, <2>1, <3>1, <3>2, <3>3, SubSeqProperties
  <2>3. /\ \A i \in 1..n : i < n => tombstones'[i] = tombstones[i + 1]
        /\ tombstones'[n] = s /\ 1 \in 1..n /\ n \in 1..n
    BY <1>2, <1>3, <1>7, <2>2
  <2>4. IsInjective(tombstones')
    <3> SUFFICES ASSUME NEW i \in 1..n, NEW j \in 1..n,
                        tombstones'[i] = tombstones'[j]
                 PROVE  i = j
      BY <2>2 DEF IsInjective
    <3>1. CASE i < n /\ j < n
      BY <1>2, <1>5, <2>3, <3>1
    <3>2. CASE ~(i < n /\ j < n)
      <4>1. i = n \/ j = n
        BY <1>2, <3>2
      <4>2. \A k \in 1..n : k < n => tombstones'[k] # s
        BY <1>2, <1>5, <2>3
      <4> QED BY <1>2, <2>3, <4>1, <4>2
    <3> QED BY <3>1, <3>2
  <2>5. \A u : u \in Range(tombstones')
                 <=> u \in (Range(tombstones) \ {tombstones[1]}) \cup {s}
    <3>1. ASSUME NEW i \in 1..n
          PROVE  tombstones'[i] \in (Range(tombstones) \ {tombstones[1]}) \cup {s}
      <4>1. CASE i < n
        <5>1. i + 1 \in 1..n /\ i + 1 # 1
          BY <1>2, <4>1
        <5> QED BY <1>5, <2>3, <4>1, <5>1
      <4>2. CASE ~(i < n)
        BY <1>2, <2>3, <4>2
      <4> QED BY <4>1, <4>2
    <3>2. ASSUME NEW i \in 1..n, i # 1 PROVE tombstones[i] \in Range(tombstones')
      <4>1. i - 1 \in 1..n /\ i - 1 < n /\ (i - 1) + 1 = i
        BY <1>2, <3>2
      <4>2. tombstones'[i - 1] = tombstones[i]
        BY <2>3, <4>1
      <4> QED BY <2>2, <4>1, <4>2 DEF Range
    <3>3. s \in Range(tombstones')
      BY <2>2, <2>3 DEF Range
    <3>4. \A u \in Range(tombstones') : \E i \in 1..n : u = tombstones'[i]
      BY <2>2 DEF Range
    <3> QED BY <1>5, <3>1, <3>2, <3>3, <3>4
  <2>6. Range(tombstones') = (Range(tombstones) \ {tombstones[1]}) \cup {s}
    BY <2>5
  <2>7. tombstones[1] \in Range(tombstones)
    BY <1>5, <2>3
  <2> QED BY <1>2, <1>7, <2>2, <2>4, <2>6, <2>7 DEF n
<1> QED BY <1>2, <1>6, <1>7

\* A sequence without repetitions has as many elements as places.
LEMMA RangeCount ==
  ASSUME NEW S, NEW q \in Seq(S), IsInjective(q)
  PROVE  /\ Cardinality(Range(q)) = Len(q) /\ Len(q) \in Nat
         /\ IsFiniteSet(Range(q))
<1>1. Len(q) \in Nat /\ DOMAIN q = 1..Len(q)
  OBVIOUS
<1>2. q \in [1..Len(q) -> Range(q)]
  BY <1>1 DEF Range
<1>3. q \in Bijection(1..Len(q), Range(q))
  BY <1>1, <1>2 DEF Bijection, Injection, Surjection, Range, IsInjective
<1>4. ExistsBijection(1..Len(q), Range(q))
  BY <1>3 DEF ExistsBijection
<1> QED BY <1>1, <1>4, FS_CountingElements, FS_NatBijection

-----------------------------------------------------------------------------
(* What was answered, and what has a tombstone. *)

Settled ==
  /\ \A t \in Requests : pc[t] # "finished" => reply[t] = "none"
  /\ records \subseteq Issued /\ todo[Reaper] \subseteq Issued
  /\ \A s \in Creates : Removing(Reaper, s) => s \in Issued
  /\ \A s \in Range(tombstones) :
       s \in Issued /\ s \notin records /\ closing[s] /\ ~Removing(Reaper, s)
  /\ IsInjective(tombstones) /\ Len(tombstones) <= TombstoneMax

LEMMA SettledInit == Init => Settled
<1> SUFFICES ASSUME Init PROVE Settled
  OBVIOUS
<1>1. Range(tombstones) = {} /\ IsInjective(tombstones) /\ Len(tombstones) = 0
  BY DEF Init, Range, IsInjective
<1>2. \A s \in Creates : ~Removing(Reaper, s)
  BY Kinds, DistinctTasks DEF Init, Removing
<1> QED BY <1>1, <1>2, Kinds, Limits DEF Init, Settled

\* A request answers once, when it finishes, and an id that gets a record is
\* answered with that.
ReplyEffect(t) ==
  /\ \A u \in Requests : u # t => reply'[u] = reply[u]
  /\ t \in Requests =>
       /\ pc[t] # "finished"
       /\ \/ reply'[t] = reply[t] /\ pc'[t] # "finished"
          \/ reply'[t] # "none" /\ pc'[t] = "finished"
  /\ t \in Creates /\ t \in records' => t \in records \/ reply'[t] = "created"

\* What a step that answers, or does not, comes to.
LEMMA ReplyShapes ==
  ASSUME Typed, NEW t \in Requests, pc[t] # "finished",
         \/ /\ reply' = reply
            /\ \E p \in Places \ {"finished"} : Goto(t, p)
         \/ \E answer \in Replies \ {"none"} : Finish(t, answer),
         t \in Creates /\ t \in records' => t \in records \/ reply'[t] = "created"
  PROVE  ReplyEffect(t)
BY Kinds DEF ReplyEffect, Typed, TypeOK, Goto, Finish

LEMMA ReplyEffects ==
  ASSUME Typed, NEW t \in Tasks, TaskStep(t)
  PROVE  ReplyEffect(t)
<1> USE Kinds
<1>1. CASE t \in Creates /\ CreateStep(t)
  <2>1. CASE \/ CreateAdmit(t) \/ CreateEvict(t) \/ FirstVictimClosed(t)
             \/ LaunchSurplus(t) \/ LaunchEvict(t)
    <3>1. reply' = reply /\ pc[t] # "finished" /\ records' \subseteq records
      BY <2>1 DEF CreateAdmit, CreateEvict, FirstVictimClosed, LaunchSurplus,
                  LaunchEvict, registry
    <3>2. \E p \in Places \ {"finished"} : Goto(t, p)
      BY <2>1 DEF CreateAdmit, CreateEvict, FirstVictimClosed, LaunchSurplus,
                  LaunchEvict, StartEviction, Places
    <3> QED BY <1>1, <3>1, <3>2, ReplyShapes
  <2>2. CASE CreateReject(t) \/ LaunchFailed(t) \/ SurplusClosed(t)
    <3>1. pc[t] # "finished" /\ records' = records
      BY <2>2 DEF CreateReject, LaunchFailed, SurplusClosed, registry
    <3>2. \E answer \in Replies \ {"none"} : Finish(t, answer)
      BY <2>2 DEF CreateReject, LaunchFailed, SurplusClosed, Replies
    <3> QED BY <1>1, <3>1, <3>2, ReplyShapes
  <2>3. CASE LaunchAdmit(t) \/ SecondVictimClosed(t)
    <3>1. pc[t] # "finished" /\ Finish(t, "created")
      BY <2>3 DEF LaunchAdmit, SecondVictimClosed, Insert
    <3>2. reply'[t] = "created"
      BY <1>1, <3>1 DEF Finish, Typed, TypeOK
    <3>3. \E answer \in Replies \ {"none"} : Finish(t, answer)
      BY <3>1 DEF Replies
    <3> QED BY <1>1, <3>1, <3>2, <3>3, ReplyShapes
  <2> QED BY <1>1, <2>1, <2>2, <2>3 DEF CreateStep
<1>2. CASE t \in Actions \cup Deletes \cup Probes
  <2>0. t \in Requests /\ t \notin Creates
    BY <1>2, DistinctTasks
  <2>1. CASE GetLive(t) \/ TryLock(t) \/ LockGranted(t) \/ ProbeLock(t)
    <3>1. reply' = reply /\ pc[t] # "finished"
      BY <2>1 DEF GetLive, TryLock, LockGranted, ProbeLock
    <3>2. \E p \in Places \ {"finished"} : Goto(t, p)
      BY <2>1 DEF GetLive, TryLock, LockGranted, ProbeLock, Take, Enqueue, Places
    <3> QED BY <2>0, <3>1, <3>2, ReplyShapes
  <2>2. CASE \/ NotLive(t) \/ LockTimeout(t) \/ ProbeCached(t) \/ ProbeDone(t)
             \/ DeleteDone(t)
             \/ \E outcome \in {"ok", "notFound", "clientError", "fault"} :
                  ActionDone(t, outcome)
    <3>1. pc[t] # "finished"
      BY <2>2 DEF NotLive, LockTimeout, ProbeCached, ProbeDone, DeleteDone, ActionDone
    <3>2. \E answer \in Replies \ {"none"} : Finish(t, answer)
      BY <2>2 DEF NotLive, LockTimeout, ProbeCached, ProbeDone, DeleteDone,
                  ActionDone, Gone, Replies
    <3> QED BY <2>0, <3>1, <3>2, ReplyShapes
  <2>3. ActionStep(t) \/ DeleteStep(t) \/ ProbeStep(t)
    BY <1>2, DistinctTasks DEF TaskStep
  <2> QED BY <2>1, <2>2, <2>3 DEF ActionStep, DeleteStep, ProbeStep
<1>3. CASE t \in Resets /\ ResetStep(t)
  <2>0. t \in Requests /\ t \notin Creates
    BY <1>3, DistinctTasks
  <2>1. pc[t] # "finished"
    BY <1>3 DEF ResetStep, ResetBegin, ResetClosed
  <2>2. ASSUME NEW rest, ResetNext(t, rest)
        PROVE  \/ /\ reply' = reply
                  /\ \E p \in Places \ {"finished"} : Goto(t, p)
               \/ \E answer \in Replies \ {"none"} : Finish(t, answer)
    <3>1. Finish(t, "purged") \/ (Goto(t, "purging") /\ reply' = reply)
      BY <2>2, Zenon DEF ResetNext
    <3> QED BY <3>1 DEF Replies, Places
  <2> QED BY <1>3, <2>0, <2>1, <2>2, ReplyShapes DEF ResetStep, ResetBegin, ResetClosed
<1>4. CASE t = Reaper /\ ReaperStep
  BY <1>4, DistinctTasks DEF ReaperStep, ReapBegin, LockGranted, ReapClosed, ReplyEffect
<1> QED BY <1>1, <1>2, <1>3, <1>4 DEF TaskStep

\* Only the reaper adds tombstones, of the session it has just closed, and it
\* turns to a live session of its snapshot or of the registry.
TombEffect(t) ==
  /\ todo'[Reaper] \subseteq todo[Reaper] \cup records
  /\ \/ /\ tombstones' = tombstones
        /\ \A s \in Creates : Removing(Reaper, s)' =>
             Removing(Reaper, s) \/ (~closing[s] /\ s \in records)
     \/ /\ Removing(Reaper, tgt[Reaper]) /\ tgt[Reaper] \in Creates
        /\ TombstoneAdd(tgt[Reaper]) /\ records' = records \ {tgt[Reaper]}
        /\ \A s \in Creates : Removing(Reaper, s)' =>
             ~closing[s] /\ s \in todo[Reaper]

LEMMA TombEffects ==
  ASSUME Typed, NEW t \in Tasks, TaskStep(t)
  PROVE  TombEffect(t)
<1> USE Kinds
<1>1. CASE t # Reaper
  <2>1. tombstones' = tombstones
    BY <1>1
       DEF TaskStep, CreateStep, CreateAdmit, CreateReject, CreateEvict,
           FirstVictimClosed, LaunchFailed, LaunchAdmit, LaunchSurplus,
           LaunchEvict, SurplusClosed, SecondVictimClosed, Insert, ActionStep,
           DeleteStep, ProbeStep, NotLive, GetLive, TryLock, LockGranted,
           LockTimeout, ActionDone, DeleteDone, ProbeCached, ProbeLock,
           ProbeDone, ResetStep, ResetBegin, ResetClosed, registry
  <2>2. todo'[Reaper] = todo[Reaper]
    <3>1. CASE t \in Creates /\ CreateStep(t)
      BY <3>1
         DEF CreateStep, CreateAdmit, CreateReject, CreateEvict,
             FirstVictimClosed, LaunchFailed, LaunchAdmit, LaunchSurplus,
             LaunchEvict, SurplusClosed, SecondVictimClosed, pass
    <3>2. CASE ActionStep(t) \/ DeleteStep(t) \/ ProbeStep(t)
      BY <3>2
         DEF ActionStep, DeleteStep, ProbeStep, NotLive, GetLive, TryLock,
             LockGranted, LockTimeout, ActionDone, DeleteDone, ProbeCached,
             ProbeLock, ProbeDone, pass
    <3>3. CASE t \in Resets /\ ResetStep(t)
      <4>1. todo' = todo \/ \E q : todo' = [todo EXCEPT ![t] = q]
        BY <3>3, Zenon DEF ResetStep, ResetBegin, ResetClosed, ResetNext
      <4> QED BY <1>1, <4>1 DEF Typed, TypeOK
    <3> QED BY <1>1, <3>1, <3>2, <3>3 DEF TaskStep
  <2>3. \A s : Removing(Reaper, s)' => Removing(Reaper, s)
    <3>1. pc'[Reaper] = pc[Reaper] /\ tgt'[Reaper] = tgt[Reaper]
      BY <1>1, OneTaskMoves
    <3>2. Reaper \notin Creates \cup Deletes \cup Resets
      BY DistinctTasks
    <3> QED BY <3>1, <3>2 DEF Removing
  <2> QED BY <2>1, <2>2, <2>3 DEF TombEffect
<1>2. CASE t = Reaper /\ ReaperStep
  <2>1. ASSUME NEW rest, NEW due, ReapNext(rest, due), rest \subseteq Creates
        PROVE  /\ todo'[Reaper] \subseteq rest
               /\ \A s \in Creates : Removing(Reaper, s)' =>
                    ~closing[s] /\ s \in rest
    <3>1. CASE Goto(Reaper, "asleep") /\ todo' = [todo EXCEPT ![Reaper] = {}]
      BY <3>1, DistinctTasks DEF Goto, Removing, Typed, TypeOK
    <3>2. ASSUME NEW s \in First({u \in rest : Reapable(u, due)}),
                 todo' = [todo EXCEPT ![Reaper] = {u \in rest : born[u] > born[s]}],
                 tgt' = [tgt EXCEPT ![Reaper] = s]
          PROVE  /\ todo'[Reaper] \subseteq rest
                 /\ \A u \in Creates : Removing(Reaper, u)' =>
                      ~closing[u] /\ u \in rest
      BY <3>2 DEF First, Reapable, Removing, Typed, TypeOK
    <3> QED BY <2>1, <3>1, <3>2 DEF ReapNext
  <2>2. CASE ReapBegin
    <3>1. records \subseteq Creates
      BY DEF Typed, TypeOK
    <3>2. /\ todo'[Reaper] \subseteq records
          /\ \A s \in Creates : Removing(Reaper, s)' => ~closing[s] /\ s \in records
      BY <2>1, <2>2, <3>1 DEF ReapBegin
    <3>3. tombstones' = tombstones
      BY <2>2 DEF ReapBegin, registry
    <3> QED BY <3>2, <3>3 DEF TombEffect
  <2>3. CASE LockGranted(Reaper)
    BY <2>3, DistinctTasks DEF LockGranted, registry, pass, TombEffect, Removing
  <2>4. CASE ReapClosed
    <3>1. todo[Reaper] \subseteq Creates
      BY DEF Typed, TypeOK
    <3>2. Removing(Reaper, tgt[Reaper]) /\ tgt[Reaper] \in Creates
      BY <2>4 DEF ReapClosed, Removing, Typed, Placement, Targeted
    <3> QED BY <2>1, <2>4, <3>1, <3>2 DEF ReapClosed, TombEffect
  <2> QED BY <1>2, <2>2, <2>3, <2>4 DEF ReaperStep
<1> QED BY <1>1, <1>2, DistinctTasks DEF TaskStep

\* Ids that were issued stay so, and every record is of one.
LEMMA IssuedStep ==
  ASSUME Typed, Settled, NEW t \in Tasks, TaskStep(t)
  PROVE  Issued \subseteq Issued' /\ records' \subseteq Issued'
<1> USE Kinds
<1>1. ReplyEffect(t)
  BY ReplyEffects
<1>2. ASSUME NEW s \in Creates, reply[s] = "created" PROVE reply'[s] = "created"
  <2>1. s \in Requests /\ reply[s] # "none"
    BY <1>2
  <2>2. pc[s] = "finished"
    BY <2>1 DEF Settled
  <2> QED BY <1>1, <1>2, <2>1, <2>2 DEF ReplyEffect
<1>3. Issued \subseteq Issued'
  BY <1>2 DEF Issued
<1>4. ASSUME NEW s \in records', s \notin records
      PROVE  s = t /\ s \in Creates
  BY <1>4, Books DEF NoChange, Removed, Inserted, Swapped
<1>5. \A s \in records' : s \notin records => s \in Issued'
  BY <1>1, <1>4 DEF ReplyEffect, Issued
<1> QED BY <1>3, <1>5 DEF Settled

LEMMA SettledStep ==
  ASSUME Typed, Marked, Settled, NEW t \in Tasks, TaskStep(t)
  PROVE  Settled'
<1> USE Kinds
<1>1. ReplyEffect(t) /\ TombEffect(t) /\ MarkEffect(t)
  BY ReplyEffects, TombEffects, MarkEffects
<1>2. Issued \subseteq Issued' /\ records' \subseteq Issued'
  BY IssuedStep
<1>3. ASSUME NEW u \in Requests, pc'[u] # "finished" PROVE reply'[u] = "none"
  <2>1. CASE u # t
    <3>1. pc'[u] = pc[u] /\ reply'[u] = reply[u]
      BY <1>1, <2>1, OneTaskMoves DEF ReplyEffect
    <3> QED BY <1>3, <3>1 DEF Settled
  <2>2. CASE u = t
    <3>1. pc[t] # "finished" /\ reply[t] = "none"
      BY <1>1, <2>2 DEF ReplyEffect, Settled
    <3> QED BY <1>1, <1>3, <2>2, <3>1 DEF ReplyEffect
  <2> QED BY <2>1, <2>2
<1>4. todo'[Reaper] \subseteq Issued'
  BY <1>1, <1>2 DEF TombEffect, Settled
<1>5. \A s \in Creates : Removing(Reaper, s)' => s \in Issued'
  BY <1>1, <1>2 DEF TombEffect, Settled
<1>6. ASSUME NEW s \in Creates, s \in Issued, s \notin records
      PROVE  s \notin records'
  <2>1. pc[s] = "finished"
    BY <1>6 DEF Issued, Settled
  <2>2. s # t
    BY <1>1, <1>6, <2>1 DEF ReplyEffect
  <2> QED BY <1>6, <2>2, Books DEF NoChange, Removed, Inserted, Swapped
<1>7. /\ \A s \in Range(tombstones') : /\ s \in Issued' /\ s \notin records'
                                        /\ closing'[s] /\ ~Removing(Reaper, s)'
      /\ IsInjective(tombstones') /\ Len(tombstones') <= TombstoneMax
  <2>1. CASE /\ tombstones' = tombstones
             /\ \A s \in Creates : Removing(Reaper, s)' =>
                  Removing(Reaper, s) \/ (~closing[s] /\ s \in records)
    <3>1. ASSUME NEW s \in Range(tombstones)
          PROVE  /\ s \in Issued' /\ s \notin records'
                 /\ closing'[s] /\ ~Removing(Reaper, s)'
      <4>1. /\ s \in Creates /\ s \in Issued /\ s \notin records
            /\ closing[s] /\ ~Removing(Reaper, s)
        BY DEF Settled, Issued
      <4> QED BY <1>1, <1>2, <1>6, <2>1, <4>1 DEF MarkEffect
    <3> QED BY <2>1, <3>1 DEF Settled
  <2>2. CASE /\ Removing(Reaper, tgt[Reaper]) /\ tgt[Reaper] \in Creates
             /\ TombstoneAdd(tgt[Reaper]) /\ records' = records \ {tgt[Reaper]}
             /\ \A s \in Creates : Removing(Reaper, s)' =>
                  ~closing[s] /\ s \in todo[Reaper]
    <3> DEFINE v == tgt[Reaper]
    <3>1. v \in Issued /\ v \notin Range(tombstones)
      BY <2>2 DEF Settled
    <3>2. closing[v]
      BY <2>2 DEF Marked
    <3>3. /\ tombstones \in Seq(Creates) /\ IsInjective(tombstones)
          /\ Len(tombstones) <= TombstoneMax
      BY DEF Typed, TypeOK, Settled
    <3>4. /\ IsInjective(tombstones') /\ Len(tombstones') <= TombstoneMax
          /\ Range(tombstones') \subseteq Range(tombstones) \cup {v}
      BY <2>2, <3>1, <3>3, TombstoneEffect
    <3>5. ASSUME NEW s \in Range(tombstones) \cup {v}
          PROVE  /\ s \in Issued' /\ s \notin records'
                 /\ closing'[s] /\ ~Removing(Reaper, s)'
      <4>1. CASE s \in Range(tombstones)
        <5>1. s \in Creates /\ s \in Issued /\ s \notin records /\ closing[s]
          BY <4>1 DEF Settled, Issued
        <5> QED BY <1>1, <1>2, <1>6, <2>2, <5>1 DEF MarkEffect
      <4>2. CASE s = v
        BY <1>1, <1>2, <2>2, <3>1, <3>2, <4>2 DEF MarkEffect
      <4> QED BY <4>1, <4>2
    <3> QED BY <3>4, <3>5
  <2> QED BY <1>1, <2>1, <2>2 DEF TombEffect
<1> QED BY <1>2, <1>3, <1>4, <1>5, <1>7 DEF Settled

\* Tombstones are of sessions that are gone, each once, and never more than
\* TOMBSTONE_MAX, whoever else removes sessions.
THEOREM TombstonesKept == Spec => []TombstonesSound
<1> DEFINE Inv == Typed /\ Marked /\ VictimsDistinct /\ Settled
<1>1. Init => Inv
  BY TypedInit, ApartInit, SettledInit
<1>2. Inv /\ [Next]_vars => Inv'
  <2> SUFFICES ASSUME Inv, [Next]_vars PROVE Inv'
    OBVIOUS
  <2>1. Typed' /\ Marked' /\ VictimsDistinct'
    BY TypedNext, ApartStep
  <2>2. CASE Tick \/ UNCHANGED vars
    BY <2>1, <2>2 DEF Settled, Issued, Removing, Tick, vars, registry, locks, pass
  <2>3. CASE \E t \in Tasks : TaskStep(t)
    BY <2>1, <2>3, SettledStep
  <2> QED BY <2>2, <2>3, NextIsTaskStep
<1>3. Inv => TombstonesSound
  BY DEF Settled, TombstonesSound
<1> QED BY <1>1, <1>2, <1>3, PTL DEF Spec
=============================================================================
