------------------------ MODULE SessionRefinementProofs ------------------------
(* Without a DELETE or a reset the registry of SessionManager implements      *)
(* SessionDirectory; with them an id still lives once.                        *)
EXTENDS SessionLocksProofs, SessionRefinement

-----------------------------------------------------------------------------
(* The refinement.  A DELETE leaves its session live until it holds the lock *)
(* and a reset or a DELETE may remove what another task is closing, so the    *)
(* directory's promise is one of the other tasks.                             *)

\* A mark is put on a session that was issued.
Fresh == \A s \in Creates : closing[s] => s \in Issued

\* With no DELETE and no reset a step marks at most one session, of the
\* registry or the reaper's snapshot.
LEMMA OneMark ==
  ASSUME Typed, Deletes = {}, Resets = {}, NEW t \in Tasks, TaskStep(t)
  PROVE  \/ closing' = closing
         \/ \E s \in records \cup todo[Reaper] :
              ~closing[s] /\ closing' = [closing EXCEPT ![s] = TRUE]
<1> USE Kinds
<1>1. CASE t \in Creates /\ CreateStep(t)
  <2>1. CASE CreateEvict(t) \/ LaunchEvict(t)
    <3>1. PICK v \in OldestEvictable : closing' = [closing EXCEPT ![v] = TRUE]
      BY <2>1 DEF CreateEvict, LaunchEvict, StartEviction
    <3> QED BY <3>1 DEF OldestEvictable, Evictable, Live
  <2>2. CASE ~(CreateEvict(t) \/ LaunchEvict(t))
    BY <1>1, <2>2
       DEF CreateStep, CreateAdmit, CreateReject, FirstVictimClosed, LaunchFailed,
           LaunchAdmit, LaunchSurplus, SurplusClosed, SecondVictimClosed, locks
  <2> QED BY <2>1, <2>2
<1>2. CASE \/ t \in Actions /\ ActionStep(t)
           \/ t \in Probes /\ ProbeStep(t)
           \/ LockGranted(t)
  BY <1>2 DEF ActionStep, ProbeStep, NotLive, GetLive, TryLock, LockGranted,
     Enter, LockTimeout, ActionDone, ProbeCached, ProbeLock, ProbeDone, locks
<1>3. CASE t = Reaper /\ ReaperStep
  <2>1. ASSUME NEW rest, NEW due, ReapNext(rest, due),
               rest \subseteq records \cup todo[Reaper]
        PROVE  \/ closing' = closing
               \/ \E s \in records \cup todo[Reaper] :
                    ~closing[s] /\ closing' = [closing EXCEPT ![s] = TRUE]
    <3>1. \/ closing' = closing
          \/ \E s \in First({u \in rest : Reapable(u, due)}) :
               closing' = [closing EXCEPT ![s] = TRUE]
      BY <2>1, Zenon DEF ReapNext, locks
    <3>2. \A s \in First({u \in rest : Reapable(u, due)}) :
            s \in records \cup todo[Reaper] /\ ~closing[s]
      BY <2>1 DEF First, Reapable
    <3> QED BY <3>1, <3>2
  <2> QED BY <1>2, <1>3, <2>1 DEF ReaperStep, ReapBegin, ReapClosed
<1> QED BY <1>1, <1>2, <1>3 DEF TaskStep

\* What the refinement rests on.
Ready == Base /\ Settled /\ Fresh

LEMMA ReadyInit == Init => Ready
BY BaseInit, SettledInit DEF Init, Ready, Fresh

LEMMA ReadyStep ==
  ASSUME Ready, Deletes = {}, Resets = {}, [Next]_vars
  PROVE  Ready'
<1> USE DEF Ready, Base
<1>1. Base'
  BY BaseStep
<1>2. CASE Tick \/ UNCHANGED vars
  BY <1>1, <1>2
     DEF Settled, Fresh, Issued, Removing, Tick, vars, registry, locks, pass
<1>3. ASSUME NEW t \in Tasks, TaskStep(t) PROVE Ready'
  <2>1. Settled' /\ Issued \subseteq Issued'
    BY <1>3, SettledStep, IssuedStep
  <2>2. Fresh'
    <3>1. \A s \in records \cup todo[Reaper] : s \in Issued
      BY DEF Settled
    <3>2. ASSUME NEW s \in Creates, closing'[s] PROVE s \in Issued
      BY <1>3, <3>1, <3>2, OneMark DEF Fresh, Typed, TypeOK
    <3> QED BY <2>1, <3>2 DEF Fresh
  <2> QED BY <1>1, <2>1, <2>2
<1> QED BY <1>2, <1>3, NextIsTaskStep

\* The places of a life, read off the registry.
LEMMA LifeTable ==
  ASSUME Ready, NEW s \in Creates
  PROVE  /\ LifeOf(s) = "live" <=> s \in records /\ ~closing[s]
         /\ LifeOf(s) = "leaving" <=> s \in records /\ closing[s]
         /\ LifeOf(s) = "expired" <=> s \in Range(tombstones)
         /\ LifeOf(s) = "unborn" <=> s \notin Issued
         /\ Lives[s] = LifeOf(s)
<1>1. s \in records => s \in Issued /\ s \notin Range(tombstones)
  BY DEF Ready, Settled
<1>2. s \in Range(tombstones) => s \in Issued
  BY DEF Ready, Settled
<1>3. s \in Issued <=> reply[s] = "created"
  BY DEF Issued
<1> QED BY <1>1, <1>2, <1>3 DEF LifeOf, Lives

LEMMA SameCardinality == ASSUME NEW S
                         PROVE  Directory!Cardinality(S) = Cardinality(S)
BY DEF Directory!Cardinality, Cardinality

\* A full registry is a directory without room.
LEMMA RoomTable ==
  ASSUME Ready
  PROVE  /\ Directory!Room <=> ~AtCap
         /\ Directory!Are("expired") = Range(tombstones)
         /\ Directory!Are("live") \cup Directory!Are("leaving") = records
<1>1. records \subseteq Creates /\ Range(tombstones) \subseteq Creates
  BY DEF Ready, Base, Typed, TypeOK, Settled, Issued
<1>2. Directory!Are("expired") = Range(tombstones)
  BY <1>1, LifeTable DEF Directory!Are
<1>3. Directory!Are("live") \cup Directory!Are("leaving") = records
  BY <1>1, LifeTable DEF Directory!Are
<1>4. Cardinality(records) \in Nat /\ MaxSessions \in Nat
  BY FiniteRecords, Limits DEF Ready, Base
<1> QED BY <1>2, <1>3, <1>4, SameCardinality DEF Directory!Room, AtCap

-----------------------------------------------------------------------------
(* What a step does to the three parts of the directory. *)

LEMMA LivesSame ==
  ASSUME records' = records, closing' = closing, tombstones' = tombstones,
         \A s \in Creates : reply'[s] = "created" <=> reply[s] = "created"
  PROVE  Lives' = Lives
<1>1. \A s \in Creates : LifeOf(s)' = LifeOf(s)
  BY DEF LifeOf
<1> QED BY <1>1 DEF Lives

LEMMA LivesLeave ==
  ASSUME Ready, NEW v \in records, ~closing[v],
         closing' = [closing EXCEPT ![v] = TRUE],
         records' = records, tombstones' = tombstones, reply' = reply
  PROVE  v \in Creates /\ Lives[v] = "live" /\ Lives' = [Lives EXCEPT ![v] = "leaving"]
<1>1. v \in Creates /\ closing \in [Creates -> BOOLEAN]
  BY DEF Ready, Base, Typed, TypeOK
<1>2. Lives[v] = "live"
  BY <1>1, LifeTable
<1>3. ASSUME NEW s \in Creates
      PROVE  LifeOf(s)' = IF s = v THEN "leaving" ELSE LifeOf(s)
  BY <1>1 DEF LifeOf
<1>4. Lives' = [Lives EXCEPT ![v] = "leaving"]
  BY <1>1, <1>3 DEF Lives
<1> QED BY <1>1, <1>2, <1>4

LEMMA LivesGo ==
  ASSUME Ready, NEW v \in records, closing[v], closing' = closing,
         records' = records \ {v}, tombstones' = tombstones, reply' = reply
  PROVE  /\ v \in Creates /\ Lives[v] = "leaving"
         /\ Lives' = [Lives EXCEPT ![v] = "gone"]
<1>1. v \in Creates /\ reply[v] = "created" /\ v \notin Range(tombstones)
  BY DEF Ready, Base, Typed, TypeOK, Settled, Issued
<1>2. Lives[v] = "leaving"
  BY <1>1, LifeTable
<1>3. ASSUME NEW s \in Creates
      PROVE  LifeOf(s)' = IF s = v THEN "gone" ELSE LifeOf(s)
  BY <1>1 DEF LifeOf
<1>4. Lives' = [Lives EXCEPT ![v] = "gone"]
  BY <1>1, <1>3 DEF Lives
<1> QED BY <1>1, <1>2, <1>4

LEMMA LivesBegin ==
  ASSUME Ready, NEW c \in Creates, pc[c] # "finished",
         NEW V \in SUBSET records, \A v \in V : closing[v],
         closing' = closing, records' = (records \ V) \cup {c},
         tombstones' = tombstones, reply' = [reply EXCEPT ![c] = "created"]
  PROVE  /\ Lives[c] = "unborn" /\ \A v \in V : Lives[v] = "leaving"
         /\ Lives' = [s \in Creates |-> IF s = c THEN "live"
                                        ELSE IF s \in V THEN "gone" ELSE Lives[s]]
<1> USE Kinds
<1>1. /\ reply[c] = "none" /\ c \notin Issued /\ ~closing[c] /\ c \notin records
      /\ reply \in [Requests -> Replies] /\ c \in Requests
  BY DEF Ready, Base, Typed, TypeOK, Settled, Fresh, Issued
<1>2. \A v \in records : /\ v \in Creates /\ v \in Requests /\ reply[v] = "created"
                          /\ v \notin Range(tombstones)
  BY DEF Ready, Base, Typed, TypeOK, Settled, Issued
<1>3. Lives[c] = "unborn" /\ \A v \in V : Lives[v] = "leaving"
  BY <1>1, <1>2, LifeTable
<1>4. ASSUME NEW s \in Creates
      PROVE  LifeOf(s)' = IF s = c THEN "live" ELSE IF s \in V THEN "gone" ELSE LifeOf(s)
  <2>1. CASE s = c
    BY <1>1, <2>1 DEF LifeOf
  <2>2. CASE s # c /\ s \in V
    <3>1. s \notin records' /\ s \notin Range(tombstones') /\ reply'[s] = "created"
      BY <1>1, <1>2, <2>2
    <3> QED BY <2>2, <3>1 DEF LifeOf
  <2>3. CASE s # c /\ s \notin V
    <3>1. /\ s \in records' <=> s \in records
          /\ reply'[s] = reply[s]
      BY <1>1, <2>3
    <3> QED BY <2>3, <3>1 DEF LifeOf
  <2> QED BY <2>1, <2>2, <2>3
<1>5. Lives' = [s \in Creates |-> IF s = c THEN "live"
                                 ELSE IF s \in V THEN "gone" ELSE Lives[s]]
  BY <1>4 DEF Lives
<1> QED BY <1>3, <1>5

\* Only a client hears, and only a create is refused.
LEMMA HeardSame ==
  ASSUME Typed, NEW t \in Tasks, TaskStep(t), t \notin Actions \cup Probes
  PROVE  Heard' = Heard
<1> USE Kinds
<1>1. ASSUME NEW u \in Actions \cup Probes PROVE HeardBy(u)' = HeardBy(u)
  <2>1. u \in Tasks /\ u \in Requests /\ u # t
    OBVIOUS
  <2>2. pc'[u] = pc[u] /\ reply'[u] = reply[u]
    BY <2>1, OneTaskMoves, ReplyEffects DEF ReplyEffect
  <2> QED BY <2>2 DEF HeardBy
<1> QED BY <1>1 DEF Heard

LEMMA RefusedOthers ==
  ASSUME Typed, NEW t \in Tasks, TaskStep(t)
  PROVE  /\ \A c \in Creates : c # t => (c \in Refused' <=> c \in Refused)
         /\ Refused \subseteq Creates /\ Refused' \subseteq Creates
<1> USE Kinds
<1>1. ASSUME NEW c \in Creates, c # t PROVE c \in Refused' <=> c \in Refused
  <2>1. c \in Tasks /\ c \in Requests
    OBVIOUS
  <2>2. pc'[c] = pc[c] /\ reply'[c] = reply[c]
    BY <1>1, <2>1, OneTaskMoves, ReplyEffects DEF ReplyEffect
  <2> QED BY <2>2 DEF Refused
<1> QED BY <1>1 DEF Refused

-----------------------------------------------------------------------------
(* The simulation, task by task. *)

Stutters == UNCHANGED <<Lives, Refused, Heard>>

LEMMA CreateSimulates ==
  ASSUME Ready, Deletes = {}, Resets = {}, NEW c \in Creates, CreateStep(c)
  PROVE  Directory!Next \/ Stutters
<1> USE Kinds
<1>0. /\ c \in Tasks /\ c \in Requests /\ TaskStep(c) /\ Typed
      /\ c \notin Actions \cup Probes
  BY DistinctTasks DEF TaskStep, Ready, Base
<1>1. Heard' = Heard
  BY <1>0, HeardSame
<1>2. /\ \A d \in Creates : d # c => (d \in Refused' <=> d \in Refused)
      /\ Refused \subseteq Creates /\ Refused' \subseteq Creates
  BY <1>0, RefusedOthers
<1>3. /\ pc[c] # "finished" /\ reply[c] = "none"
      /\ c \in Refused <=> pc[c] = "surplus"
  <2>1. pc[c] # "finished"
    BY <1>0, ReplyEffects DEF ReplyEffect
  <2>2. reply[c] = "none"
    BY <1>0, <2>1 DEF Ready, Settled
  <2> QED BY <2>1, <2>2 DEF Refused
<1>4. /\ pc \in [Tasks -> Places] /\ reply \in [Requests -> Replies]
      /\ records \subseteq Creates
  BY <1>0 DEF Typed, TypeOK
<1>5. ASSUME pc[c] # "surplus", ~(pc'[c] = "surplus" \/ reply'[c] = "capacity")
      PROVE  Refused' = Refused
  <2>1. c \notin Refused /\ c \notin Refused'
    BY <1>3, <1>5 DEF Refused
  <2> QED BY <1>2, <2>1
<1>6. ASSUME pc'[c] = "surplus" \/ reply'[c] = "capacity"
      PROVE  Refused' = Refused \cup {c}
  <2>1. c \in Refused'
    BY <1>6 DEF Refused
  <2> QED BY <1>2, <2>1
<1>7. CASE CreateAdmit(c) \/ LaunchFailed(c)
  <2>1. /\ records' = records /\ closing' = closing /\ tombstones' = tombstones
        /\ \A s \in Creates : reply'[s] = "created" <=> reply[s] = "created"
        /\ pc[c] # "surplus" /\ pc'[c] # "surplus" /\ reply'[c] # "capacity"
    BY <1>3, <1>4, <1>7
       DEF CreateAdmit, LaunchFailed, Finish, Goto, registry, locks
  <2> QED BY <1>1, <1>5, <2>1, LivesSame DEF Stutters
<1>8. CASE CreateReject(c) \/ LaunchSurplus(c)
  <2>1. /\ records' = records /\ closing' = closing /\ tombstones' = tombstones
        /\ \A s \in Creates : reply'[s] = "created" <=> reply[s] = "created"
        /\ pc[c] # "surplus"
        /\ pc'[c] = "surplus" \/ reply'[c] = "capacity"
        /\ AtCap
    BY <1>3, <1>4, <1>8
       DEF CreateReject, LaunchSurplus, Finish, Goto, registry, locks
  <2>2. Lives' = Lives /\ Refused' = Refused \cup {c}
    BY <1>6, <2>1, LivesSame
  <2>3. Lives[c] = "unborn" /\ c \notin Refused /\ ~Directory!Room
    BY <1>3, <2>1, LifeTable, RoomTable DEF Issued
  <2>4. Directory!Refuse(c)
    BY <1>1, <2>2, <2>3 DEF Directory!Refuse, Directory!Unborn
  <2> QED BY <2>4 DEF Directory!Next
<1>9. CASE CreateEvict(c) \/ LaunchEvict(c)
  <2>1. PICK v \in OldestEvictable : closing' = [closing EXCEPT ![v] = TRUE]
    BY <1>9 DEF CreateEvict, LaunchEvict, StartEviction
  <2>2. v \in records /\ ~closing[v]
    BY DEF OldestEvictable, Evictable, Live
  <2>3. /\ records' = records /\ tombstones' = tombstones /\ reply' = reply
        /\ pc[c] # "surplus" /\ pc'[c] # "surplus" /\ reply'[c] # "capacity"
    BY <1>3, <1>4, <1>9
       DEF CreateEvict, LaunchEvict, StartEviction, Goto, registry
  <2>4. v \in Creates /\ Lives[v] = "live" /\ Lives' = [Lives EXCEPT ![v] = "leaving"]
    BY <2>1, <2>2, <2>3, LivesLeave
  <2>5. Directory!Leave(v)
    BY <1>1, <1>5, <2>3, <2>4 DEF Directory!Leave
  <2> QED BY <2>4, <2>5 DEF Directory!Next
<1>10. CASE FirstVictimClosed(c)
  <2> DEFINE v == tgt[c]
  <2>1. v \in records /\ closing[v]
    <3>1. v \in Creates /\ Removing(c, v)
      BY <1>0, <1>10 DEF FirstVictimClosed, Removing, Typed, Placement, Targeted
    <3> QED BY <3>1 DEF Ready, Base, Held, Marked
  <2>2. /\ records' = records \ {v} /\ closing' = closing
        /\ tombstones' = tombstones /\ reply' = reply
        /\ pc[c] # "surplus" /\ pc'[c] # "surplus" /\ reply'[c] # "capacity"
    BY <1>3, <1>4, <1>10 DEF FirstVictimClosed, Goto, locks
  <2>3. /\ v \in Creates /\ Lives[v] = "leaving"
        /\ Lives' = [Lives EXCEPT ![v] = "gone"]
    BY <2>1, <2>2, LivesGo
  <2>4. Directory!Retire(v)
    BY <1>1, <1>5, <2>2, <2>3 DEF Directory!Retire
  <2> QED BY <2>3, <2>4 DEF Directory!Next
<1>11. CASE LaunchAdmit(c)
  <2>1. /\ records' = (records \ {}) \cup {c} /\ closing' = closing
        /\ tombstones' = tombstones /\ reply' = [reply EXCEPT ![c] = "created"]
        /\ pc[c] # "surplus" /\ pc'[c] # "surplus" /\ reply'[c] # "capacity"
        /\ ~AtCap
    BY <1>3, <1>4, <1>11 DEF LaunchAdmit, Insert, Finish, Goto, locks
  <2>2. /\ Lives[c] = "unborn"
        /\ Lives' = [s \in Creates |-> IF s = c THEN "live"
                                       ELSE IF s \in {} THEN "gone" ELSE Lives[s]]
    BY <1>3, <2>1, LivesBegin
  <2>3. Lives' = [Lives EXCEPT ![c] = "live"]
    BY <2>2 DEF Lives
  <2>4. c \notin Refused /\ Refused' = Refused /\ Directory!Room
    BY <1>3, <1>5, <2>1, RoomTable
  <2>5. Directory!Admit(c)
    BY <1>1, <2>2, <2>3, <2>4 DEF Directory!Admit, Directory!Unborn
  <2> QED BY <2>5 DEF Directory!Next
<1>12. CASE SurplusClosed(c)
  <2>1. /\ records' = records /\ closing' = closing /\ tombstones' = tombstones
        /\ \A s \in Creates : reply'[s] = "created" <=> reply[s] = "created"
        /\ pc[c] = "surplus" /\ reply'[c] = "capacity"
    BY <1>3, <1>4, <1>12 DEF SurplusClosed, Finish, Goto, registry, locks
  <2>2. Refused' = Refused
    BY <1>3, <1>6, <2>1
  <2> QED BY <1>1, <2>1, <2>2, LivesSame DEF Stutters
<1>13. CASE SecondVictimClosed(c)
  <2> DEFINE v == tgt[c]
  <2>1. v \in records /\ closing[v]
    <3>1. v \in Creates /\ Removing(c, v)
      BY <1>0, <1>13 DEF SecondVictimClosed, Removing, Typed, Placement, Targeted
    <3> QED BY <3>1 DEF Ready, Base, Held, Marked
  <2>2. /\ records' = (records \ {v}) \cup {c} /\ closing' = closing
        /\ tombstones' = tombstones /\ reply' = [reply EXCEPT ![c] = "created"]
        /\ pc[c] # "surplus" /\ pc'[c] # "surplus" /\ reply'[c] # "capacity"
    BY <1>3, <1>4, <1>13 DEF SecondVictimClosed, Insert, Finish, Goto, locks
  <2>3. /\ Lives[c] = "unborn" /\ Lives[v] = "leaving"
        /\ Lives' = [s \in Creates |-> IF s = c THEN "live"
                                       ELSE IF s \in {v} THEN "gone" ELSE Lives[s]]
    <3> HIDE DEF v
    <3>1. PICK V : V = {v}
      OBVIOUS
    <3>2. /\ V \in SUBSET records /\ \A u \in V : closing[u]
          /\ records' = (records \ V) \cup {c}
      BY <2>1, <2>2, <3>1
    <3>3. /\ Lives[c] = "unborn" /\ \A u \in V : Lives[u] = "leaving"
          /\ Lives' = [s \in Creates |-> IF s = c THEN "live"
                                         ELSE IF s \in V THEN "gone" ELSE Lives[s]]
      BY <1>3, <2>2, <3>2, LivesBegin
    <3> QED BY <3>1, <3>3
  <2>4. Lives' = [Lives EXCEPT ![v] = "gone", ![c] = "live"] /\ v \in Creates
    <3> HIDE DEF v
    <3> QED BY <1>4, <2>1, <2>3 DEF Lives
  <2>5. c \notin Refused /\ Refused' = Refused
    BY <1>3, <1>5, <2>2
  <2>6. Directory!Swap(v, c)
    BY <1>1, <2>3, <2>4, <2>5 DEF Directory!Swap, Directory!Unborn
  <2> QED BY <2>4, <2>6 DEF Directory!Next
<1> QED BY <1>7, <1>8, <1>9, <1>10, <1>11, <1>12, <1>13 DEF CreateStep

\* The reaper makes its session leave, or one expire and the next one leave.
LEMMA ReaperSimulates ==
  ASSUME Ready, Deletes = {}, Resets = {}, ReaperStep
  PROVE  Directory!Next \/ Stutters
<1> USE Kinds
<1>0. /\ Reaper \in Tasks /\ TaskStep(Reaper) /\ Typed
      /\ Reaper \notin Actions \cup Probes \cup Creates
  BY DistinctTasks DEF TaskStep, Ready, Base
<1>1. Heard' = Heard
  BY <1>0, HeardSame
<1>2. Refused' = Refused
  BY <1>0, RefusedOthers
<1>3. reply' = reply
  BY DEF ReaperStep, ReapBegin, LockGranted, ReapClosed
<1>4. records \subseteq Creates /\ todo[Reaper] \subseteq Creates
      /\ closing \in [Creates -> BOOLEAN]
  BY <1>0 DEF Typed, TypeOK
<1>5. ASSUME NEW rest, NEW due, ReapNext(rest, due)
      PROVE  \/ closing' = closing
             \/ \E s \in rest : ~closing[s] /\ closing' = [closing EXCEPT ![s] = TRUE]
  <2>1. \/ closing' = closing
        \/ \E s \in First({u \in rest : Reapable(u, due)}) :
             closing' = [closing EXCEPT ![s] = TRUE]
    BY <1>5, Zenon DEF ReapNext, locks
  <2>2. \A s \in First({u \in rest : Reapable(u, due)}) : s \in rest /\ ~closing[s]
    BY DEF First, Reapable
  <2> QED BY <2>1, <2>2
<1>6. CASE LockGranted(Reaper)
  <2>1. records' = records /\ tombstones' = tombstones /\ closing' = closing
    BY <1>6 DEF LockGranted, Enter, registry
  <2> QED BY <1>1, <1>2, <1>3, <2>1, LivesSame DEF Stutters
<1>7. CASE ReapBegin
  <2>1. /\ records' = records /\ tombstones' = tombstones
        /\ \/ closing' = closing
           \/ \E s \in records : ~closing[s] /\ closing' = [closing EXCEPT ![s] = TRUE]
    BY <1>5, <1>7 DEF ReapBegin, registry
  <2>2. CASE closing' = closing
    BY <1>1, <1>2, <1>3, <2>1, <2>2, LivesSame DEF Stutters
  <2>3. ASSUME NEW s \in records, ~closing[s], closing' = [closing EXCEPT ![s] = TRUE]
        PROVE  Directory!Next
    <3>1. /\ s \in Creates /\ Lives[s] = "live"
          /\ Lives' = [Lives EXCEPT ![s] = "leaving"]
      BY <1>3, <2>1, <2>3, LivesLeave
    <3>2. Directory!Leave(s)
      BY <1>1, <1>2, <3>1 DEF Directory!Leave
    <3> QED BY <3>1, <3>2 DEF Directory!Next
  <2> QED BY <2>1, <2>2, <2>3
<1>8. CASE ReapClosed
  <2> DEFINE v == tgt[Reaper]
  <2>1. v \in records /\ closing[v] /\ v \in Creates
    <3>1. v \in Creates /\ Removing(Reaper, v)
      BY <1>0, <1>8 DEF ReapClosed, Removing, Typed, Placement, Targeted
    <3> QED BY <3>1 DEF Ready, Base, Held, Marked
  <2>2. /\ records' = records \ {v} /\ TombstoneAdd(v)
        /\ \/ closing' = closing
           \/ \E s \in todo[Reaper] :
                ~closing[s] /\ closing' = [closing EXCEPT ![s] = TRUE]
    BY <1>5, <1>8 DEF ReapClosed
  <2> HIDE DEF v
  <2>3. PICK next : /\ next \subseteq records /\ v \notin next
                    /\ \A s \in next : ~closing[s]
                    /\ \A s, u \in next : s = u
                    /\ \A s \in Creates : closing'[s] <=> closing[s] \/ s \in next
    <3>1. CASE closing' = closing
      <4> WITNESS {}
      <4> QED BY <3>1
    <3>2. ASSUME NEW s \in todo[Reaper], ~closing[s],
                 closing' = [closing EXCEPT ![s] = TRUE]
          PROVE  \E next : /\ next \subseteq records /\ v \notin next
                           /\ \A w \in next : ~closing[w]
                           /\ \A x, w \in next : x = w
                           /\ \A w \in Creates : closing'[w] <=> closing[w] \/ w \in next
      <4>1. s \in records /\ s # v
        BY <2>1, <3>2 DEF Ready, Base, Held
      <4>2. PICK N : N = {s}
        OBVIOUS
      <4>3. /\ N \subseteq records /\ v \notin N /\ \A u \in N : ~closing[u]
            /\ \A x, u \in N : x = u
        BY <3>2, <4>1, <4>2
      <4>4. \A u \in Creates : closing'[u] <=> closing[u] \/ u \in N
        BY <1>4, <3>2, <4>1, <4>2
      <4> QED BY <4>3, <4>4
    <3> QED BY <2>2, <3>1, <3>2
  <2>4. /\ tombstones \in Seq(Creates) /\ IsInjective(tombstones)
        /\ Len(tombstones) <= TombstoneMax /\ v \notin Range(tombstones)
    BY <1>0, <2>1 DEF Typed, TypeOK, Ready, Settled
  <2>5. Cardinality(Range(tombstones)) = Len(tombstones)
        /\ IsFiniteSet(Range(tombstones)) /\ Len(tombstones) \in Nat
    BY <2>4, RangeCount
  <2>6. PICK lost : /\ lost \subseteq Range(tombstones)
                    /\ Range(tombstones') = (Range(tombstones) \ lost) \cup {v}
                    /\ lost # {} => Len(tombstones) = TombstoneMax
                    /\ Cardinality(Range(tombstones) \ lost) < TombstoneMax
    <3>1. CASE /\ Len(tombstones) < TombstoneMax
               /\ Range(tombstones') = Range(tombstones) \cup {v}
      <4>1. Range(tombstones) \ {} = Range(tombstones)
        OBVIOUS
      <4> WITNESS {}
      <4> QED BY <2>5, <3>1, <4>1
    <3>2. ASSUME Len(tombstones) = TombstoneMax, NEW u \in Range(tombstones),
                 Range(tombstones') = (Range(tombstones) \ {u}) \cup {v}
          PROVE  \E lost : /\ lost \subseteq Range(tombstones)
                           /\ Range(tombstones') = (Range(tombstones) \ lost) \cup {v}
                           /\ lost # {} => Len(tombstones) = TombstoneMax
                           /\ Cardinality(Range(tombstones) \ lost) < TombstoneMax
      <4>1. Cardinality(Range(tombstones) \ {u}) = Len(tombstones) - 1
        BY <2>5, FS_RemoveElement
      <4>2. Cardinality(Range(tombstones) \ {u}) < TombstoneMax
        BY <2>5, <3>2, <4>1
      <4>3. PICK L : L = {u}
        OBVIOUS
      <4>4. /\ L \subseteq Range(tombstones)
            /\ Range(tombstones') = (Range(tombstones) \ L) \cup {v}
            /\ Cardinality(Range(tombstones) \ L) < TombstoneMax
        BY <3>2, <4>2, <4>3
      <4> QED BY <3>2, <4>4
    <3> QED BY <2>1, <2>2, <2>4, <3>1, <3>2, TombstoneEffect
  <2>7. ASSUME NEW s \in Creates
        PROVE  LifeOf(s)' = IF s = v THEN "expired" ELSE IF s \in lost THEN "gone"
                            ELSE IF s \in next THEN "leaving" ELSE LifeOf(s)
    <3>1. /\ s \in Range(tombstones) => s \notin records /\ reply[s] = "created"
          /\ s \in Range(tombstones') <=> s = v \/ (s \in Range(tombstones) /\ s \notin lost)
      BY <2>6 DEF Ready, Settled, Issued
    <3>2. /\ s \in records' <=> s \in records /\ s # v
          /\ reply'[s] = reply[s]
      BY <1>3, <2>2
    <3>3. CASE s = v
      BY <3>1, <3>2, <3>3 DEF LifeOf
    <3>4. CASE s # v /\ s \in lost
      <4>1. s \in Range(tombstones) /\ s \notin records /\ reply[s] = "created"
        BY <2>6, <3>1, <3>4
      <4> QED BY <3>1, <3>2, <3>4, <4>1 DEF LifeOf
    <3>5. CASE s # v /\ s \notin lost /\ s \in next
      <4>1. s \in records /\ closing'[s]
        BY <2>3, <3>5
      <4> QED BY <3>2, <3>5, <4>1 DEF LifeOf
    <3>6. CASE s # v /\ s \notin lost /\ s \notin next
      <4>1. closing'[s] <=> closing[s]
        BY <2>3, <3>6
      <4> QED BY <3>1, <3>2, <3>6, <4>1 DEF LifeOf
    <3> QED BY <3>3, <3>4, <3>5, <3>6
  <2>8. Lives' = [s \in Creates |-> IF s = v THEN "expired"
                                   ELSE IF s \in lost THEN "gone"
                                   ELSE IF s \in next THEN "leaving" ELSE Lives[s]]
    BY <2>7 DEF Lives
  <2>9. Lives[v] = "leaving" /\ next \subseteq Directory!Are("live")
    BY <1>4, <2>1, <2>3, LifeTable DEF Directory!Are
  <2>10. /\ lost \subseteq Directory!Are("expired")
         /\ lost # {} => Directory!Cardinality(Directory!Are("expired")) = TombstoneMax
         /\ Directory!Cardinality(Directory!Are("expired") \ lost) < TombstoneMax
    BY <2>5, <2>6, RoomTable, SameCardinality
  <2>11. Directory!Expire(v, lost, next)
    BY <1>1, <1>2, <2>3, <2>8, <2>9, <2>10 DEF Directory!Expire
  <2> QED BY <2>1, <2>9, <2>10, <2>11 DEF Directory!Next
<1> QED BY <1>6, <1>7, <1>8 DEF ReaperStep

\* A client asks once, and hears nothing else while it waits and works.
LEMMA ClientSimulates ==
  ASSUME Ready, Deletes = {}, Resets = {}, NEW t \in Actions \cup Probes,
         ActionStep(t) \/ ProbeStep(t), TaskStep(t)
  PROVE  Directory!Next \/ Stutters
<1> USE Kinds
<1>0. /\ t \in Tasks /\ t \in Requests /\ t \notin Creates /\ Typed
      /\ t \notin Deletes
  BY DistinctTasks DEF Ready, Base
<1>1. /\ records' = records /\ closing' = closing /\ tombstones' = tombstones
  BY <1>0 DEF ActionStep, ProbeStep, NotLive, GetLive, TryLock, LockGranted,
     LockTimeout, ActionDone, ProbeCached, ProbeLock, ProbeDone, Enter,
     registry, locks
<1>2. \A u \in Requests : u # t => reply'[u] = reply[u] /\ pc'[u] = pc[u]
  BY <1>0, ReplyEffects, OneTaskMoves DEF ReplyEffect
<1>3. Lives' = Lives
  BY <1>0, <1>1, <1>2, LivesSame
<1>4. Refused' = Refused
  BY <1>0, RefusedOthers
<1>5. \A u \in Actions \cup Probes : u # t => HeardBy(u)' = HeardBy(u)
  BY <1>2 DEF HeardBy
<1>6. /\ pc[t] # "finished" /\ reply[t] = "none"
      /\ pc \in [Tasks -> Places] /\ reply \in [Requests -> Replies]
  <2>1. pc[t] # "finished"
    BY <1>0, ReplyEffects DEF ReplyEffect
  <2> QED BY <1>0, <2>1 DEF Ready, Settled, Typed, TypeOK
<1>7. ASSUME HeardBy(t)' = HeardBy(t) PROVE Stutters
  <2>1. Heard' = Heard
    BY <1>5, <1>7 DEF Heard
  <2> QED BY <1>3, <1>4, <2>1 DEF Stutters
<1>8. ASSUME pc[t] = "start", NEW s \in Issued, HeardBy(t)' = Directory!Truth(s)
      PROVE  Directory!Next
  <2>1. s \in Creates /\ Lives[s] # "unborn"
    BY LifeTable DEF Issued
  <2>2. Heard[t] = "nothing"
    BY <1>8 DEF Heard, HeardBy
  <2>3. Heard' = [Heard EXCEPT ![t] = Directory!Truth(s)]
    BY <1>5, <1>8 DEF Heard
  <2>4. Directory!Ask(t, s)
    BY <1>3, <1>4, <2>1, <2>2, <2>3 DEF Directory!Ask
  <2> QED BY <2>1, <2>4 DEF Directory!Next
<1>9. ASSUME NEW s \in Issued
      PROVE  Directory!Truth(s) = IF Live(s) THEN "served" ELSE Gone(s)
  <2>1. s \in Creates /\ (s \in Range(tombstones) => s \notin records)
    BY DEF Issued, Ready, Settled
  <2> QED BY <2>1, LifeTable DEF Directory!Truth, Live, Gone
<1>10. CASE NotLive(t)
  <2>1. PICK s \in Issued : ~Live(s) /\ Finish(t, Gone(s))
    BY <1>10 DEF NotLive
  <2>2. pc[t] = "start" /\ pc'[t] = "finished" /\ reply'[t] = Gone(s)
    BY <1>0, <1>6, <1>10, <2>1 DEF NotLive, Finish, Goto
  <2>3. HeardBy(t)' = Gone(s)
    BY <2>2 DEF HeardBy, Gone
  <2> QED BY <1>8, <1>9, <2>1, <2>2, <2>3
<1>11. CASE GetLive(t) \/ ProbeCached(t) \/ ProbeLock(t)
  <2>1. PICK s \in Issued : Live(s)
    BY <1>11 DEF GetLive, ProbeCached, ProbeLock
  <2>2. /\ pc[t] = "start" /\ pc'[t] # "start"
        /\ reply'[t] = reply[t] \/ reply'[t] = "ok"
    BY <1>0, <1>6, <1>11
       DEF GetLive, ProbeCached, ProbeLock, Take, Enqueue, Finish, Goto
  <2>3. HeardBy(t)' = "served"
    BY <1>6, <2>2 DEF HeardBy
  <2> QED BY <1>8, <1>9, <2>1, <2>2, <2>3
<1>12. CASE \/ TryLock(t) \/ LockGranted(t) \/ LockTimeout(t) \/ ProbeDone(t)
            \/ \E outcome \in {"ok", "notFound", "clientError", "fault"} :
                 ActionDone(t, outcome)
  <2>1. /\ pc[t] # "start" /\ pc'[t] # "start"
        /\ reply'[t] \notin {"unknown", "expired"}
    <3>1. CASE TryLock(t) \/ LockGranted(t)
      BY <1>0, <1>6, <3>1 DEF TryLock, LockGranted, Take, Enqueue, Goto
    <3>2. CASE \/ LockTimeout(t) \/ ProbeDone(t)
               \/ \E outcome \in {"ok", "notFound", "clientError", "fault"} :
                    ActionDone(t, outcome)
      BY <1>0, <1>6, <3>2 DEF LockTimeout, ProbeDone, ActionDone, Finish, Goto
    <3> QED BY <1>12, <3>1, <3>2
  <2>2. HeardBy(t)' = HeardBy(t)
    BY <1>6, <2>1 DEF HeardBy
  <2> QED BY <1>7, <2>2
<1> QED BY <1>10, <1>11, <1>12 DEF ActionStep, ProbeStep

\* Without a DELETE or a reset, the registry implements the directory: it holds
\* no more ids than there is room for, admits one only into room or in the place
\* of one that goes, forgets an expired id only when its memory is full, and
\* tells every client the truth of the moment it asks.
THEOREM RegistryIsADirectory ==
  ASSUME Deletes = {}, Resets = {}
  PROVE  Spec => ImplementsDirectory
<1>1. Init => Directory!Init
  <2> SUFFICES ASSUME Init PROVE Directory!Init
    OBVIOUS
  <2>1. \A s \in Creates : LifeOf(s) = "unborn"
    BY Kinds DEF Init, LifeOf, Range
  <2>2. \A c \in Creates : pc[c] # "surplus" /\ reply[c] # "capacity"
    BY Kinds, DistinctTasks DEF Init
  <2>3. \A t \in Actions \cup Probes : HeardBy(t) = "nothing"
    BY Kinds, DistinctTasks DEF Init, HeardBy
  <2> QED BY <2>1, <2>2, <2>3 DEF Directory!Init, Lives, Refused, Heard
<1>2. Ready /\ [Next]_vars => [Directory!Next]_(Directory!vars)
  <2> SUFFICES ASSUME Ready, [Next]_vars PROVE Directory!Next \/ Stutters
    BY DEF Directory!vars, Stutters
  <2>1. CASE Tick \/ UNCHANGED vars
    <3>1. /\ records' = records /\ closing' = closing /\ tombstones' = tombstones
          /\ reply' = reply /\ pc' = pc
      BY <2>1 DEF Tick, vars, registry, locks
    <3>2. Refused' = Refused /\ Heard' = Heard
      BY <3>1 DEF Refused, Heard, HeardBy
    <3> QED BY <3>1, <3>2, LivesSame DEF Stutters
  <2>2. ASSUME NEW t \in Tasks, TaskStep(t) PROVE Directory!Next \/ Stutters
    BY <2>2, CreateSimulates, ReaperSimulates, ClientSimulates DEF TaskStep
  <2> QED BY <2>1, <2>2, NextIsTaskStep
<1>3. Ready /\ [Next]_vars => Ready'
  BY ReadyStep
<1> QED BY ReadyInit, <1>1, <1>2, <1>3, PTL DEF Spec, ImplementsDirectory, Directory!Spec

-----------------------------------------------------------------------------
(* The lives with DELETE and reset. *)

\* A create answers 201 when it puts in its record, which nobody has marked.
LEMMA BornLive ==
  ASSUME Sound, NEW t \in Tasks, TaskStep(t), NEW s \in Issued', s \notin Issued
  PROVE  s \in records' /\ ~closing'[s]
<1> USE Kinds
<1>0. Typed /\ s \in Creates
  BY DEF Sound, Issued
<1>1. s = t /\ reply'[t] = "created" /\ reply[t] # "created"
  BY <1>0, ReplyEffects DEF ReplyEffect, Issued
<1>2. t \in records'
  BY <1>0, <1>1, DistinctTasks
     DEF TaskStep, CreateStep, CreateAdmit, CreateReject, CreateEvict,
         StartEviction, FirstVictimClosed, LaunchFailed, LaunchAdmit,
         LaunchSurplus, LaunchEvict, SurplusClosed, SecondVictimClosed, Insert,
         Finish, Typed, TypeOK, Requests
<1>3. pc'[t] = "finished"
  BY <1>0, <1>1, ReplyEffects DEF ReplyEffect
<1>4. ~closing[s] /\ ~Removing(t, s)'
  BY <1>0, <1>3 DEF Sound, Aimed, Removing
<1> QED BY <1>0, <1>1, <1>2, <1>4, RemovingEffects

\* What a step does to the life of one id.
LEMMA LifeMoves ==
  ASSUME Sound, Sound', MarkedFirst, NEW t \in Tasks, TaskStep(t), NEW s \in Creates
  PROVE  LifeOf(s)' = LifeOf(s) \/ <<LifeOf(s), LifeOf(s)'>> \in Onward
<1>1. /\ s \in records => s \in Issued
      /\ s \in Range(tombstones) => s \in Issued /\ s \notin records
      /\ s \in Issued <=> reply[s] = "created"
  BY DEF Sound, Settled, Issued
<1>2. /\ s \in records' => s \in Issued'
      /\ s \in Range(tombstones') => s \in Issued' /\ s \notin records'
      /\ s \in Issued' <=> reply'[s] = "created"
  BY DEF Sound, Settled, Issued
<1>3. /\ s \in Issued => s \in Issued'
      /\ s \in Issued /\ s \notin records => s \notin records'
      /\ closing[s] => closing'[s]
  BY IssuedStep, NewRecord, MarkEffects DEF Sound, MarkEffect
<1>4. CASE s \in records /\ ~closing[s]
  <2>1. s \in records'
    BY <1>4, LeavesMarked DEF Sound
  <2> QED BY <1>4, <2>1 DEF LifeOf, Onward
<1>5. CASE s \in records /\ closing[s]
  BY <1>1, <1>2, <1>3, <1>5 DEF LifeOf, Onward
<1>6. CASE s \in Issued /\ s \notin records
  BY <1>1, <1>2, <1>3, <1>6 DEF LifeOf, Onward
<1>7. CASE s \notin Issued /\ s \in Issued'
  BY <1>1, <1>7, BornLive DEF LifeOf, Onward
<1>8. CASE s \notin Issued /\ s \notin Issued'
  BY <1>1, <1>2, <1>8 DEF LifeOf
<1> QED BY <1>4, <1>5, <1>6, <1>7, <1>8

\* With every kind of request, an id lives once: it is marked before it goes, and
\* what is marked or gone is never live again.
THEOREM LivesGoOneWay == Spec => LivesOneWay
<1>1. Init => MarkedFirst
  BY MarkedFirstInit
<1>2. Sound /\ MarkedFirst /\ [Next]_vars => MarkedFirst'
  BY MarkedFirstKept DEF Sound
<1>3. Sound /\ Sound' /\ MarkedFirst /\ [Next]_vars => [AllOnward]_vars
  <2> SUFFICES ASSUME Sound, Sound', MarkedFirst, Next, NEW s \in Creates
               PROVE  \/ LifeOf(s)' = LifeOf(s)
                      \/ <<LifeOf(s), LifeOf(s)'>> \in Onward
    BY DEF AllOnward
  <2>1. CASE Tick
    BY <2>1 DEF LifeOf, Tick, locks
  <2>2. ASSUME NEW t \in Tasks, TaskStep(t)
        PROVE  \/ LifeOf(s)' = LifeOf(s)
               \/ <<LifeOf(s), LifeOf(s)'>> \in Onward
    BY <2>2, LifeMoves
  <2> QED BY <2>1, <2>2, NextIsTaskStep
<1> QED BY SoundInit, SoundStep, <1>1, <1>2, <1>3, PTL DEF Spec, LivesOneWay
=============================================================================
