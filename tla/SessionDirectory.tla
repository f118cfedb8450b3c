--------------------------- MODULE SessionDirectory ---------------------------
(***************************************************************************)
(* What the service promises about session ids, without tasks, locks,      *)
(* browsers or clocks.  A session is admitted when there is room, or in    *)
(* the same instant as another one goes; it leaves once and never returns; *)
(* it is remembered as expired for a while if it left for being idle.  A   *)
(* client is told the truth of the moment it asks about.                   *)
(***************************************************************************)
EXTENDS Integers, FiniteSets

CONSTANTS
  Sessions,  \* the sessions there may be
  Clients,   \* requests that name a session
  Capacity,  \* how many sessions may be held
  Memory     \* how many expired sessions are remembered

VARIABLES
  life,      \* "unborn", "live", "leaving", "gone" or "expired"
  refused,   \* the sessions that were refused for want of room
  heard      \* what a client was told: "nothing" until it asks

vars == <<life, refused, heard>>

Are(state) == {s \in Sessions : life[s] = state}

Room == Cardinality(Are("live") \cup Are("leaving")) < Capacity

Init ==
  /\ life = [s \in Sessions |-> "unborn"]
  /\ refused = {}
  /\ heard = [t \in Clients |-> "nothing"]

Unborn(s) == life[s] = "unborn" /\ s \notin refused

Admit(s) ==
  /\ Unborn(s) /\ Room
  /\ life' = [life EXCEPT ![s] = "live"]
  /\ UNCHANGED <<refused, heard>>

\* The session v that is leaving makes room for s and for nobody else.
Swap(v, s) ==
  /\ life[v] = "leaving" /\ Unborn(s)
  /\ life' = [life EXCEPT ![v] = "gone", ![s] = "live"]
  /\ UNCHANGED <<refused, heard>>

Refuse(s) ==
  /\ Unborn(s) /\ ~Room
  /\ refused' = refused \cup {s}
  /\ UNCHANGED <<life, heard>>

Leave(s) ==
  /\ life[s] = "live"
  /\ life' = [life EXCEPT ![s] = "leaving"]
  /\ UNCHANGED <<refused, heard>>

Retire(s) ==
  /\ life[s] = "leaving"
  /\ life' = [life EXCEPT ![s] = "gone"]
  /\ UNCHANGED <<refused, heard>>

\* s expires and at most one more begins to leave.  Expired sessions are
\* forgotten only when the memory is full.
Expire(s, lost, next) ==
  /\ life[s] = "leaving"
  /\ lost # {} => Cardinality(Are("expired")) = Memory
  /\ Cardinality(Are("expired") \ lost) < Memory
  /\ \A u, v \in next : u = v
  /\ life' = [u \in Sessions |-> IF u = s THEN "expired"
                                 ELSE IF u \in lost THEN "gone"
                                 ELSE IF u \in next THEN "leaving"
                                 ELSE life[u]]
  /\ UNCHANGED <<refused, heard>>

\* What a client that asks for s now is told.
Truth(s) ==
  CASE life[s] = "live" -> "served"
    [] life[s] = "expired" -> "expired"
    [] OTHER -> "unknown"

Ask(t, s) ==
  /\ heard[t] = "nothing" /\ life[s] # "unborn"
  /\ heard' = [heard EXCEPT ![t] = Truth(s)]
  /\ UNCHANGED <<life, refused>>

Next ==
  \/ \E s \in Sessions : Admit(s) \/ Refuse(s) \/ Leave(s) \/ Retire(s)
  \/ \E v, s \in Sessions : Swap(v, s)
  \/ \E s \in Sessions, lost \in SUBSET Are("expired"),
        next \in SUBSET Are("live") : Expire(s, lost, next)
  \/ \E t \in Clients, s \in Sessions : Ask(t, s)

Spec == Init /\ [][Next]_vars
=============================================================================
