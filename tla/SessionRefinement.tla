-------------------------- MODULE SessionRefinement --------------------------
(* The registry of SessionManager seen as a SessionDirectory: where each id  *)
(* is in its life, and what each request was told of the id it named.        *)
EXTENDS SessionManager

\* The life of an id: its record, its tombstone, or that it was issued.
LifeOf(s) ==
  IF s \in records THEN IF closing[s] THEN "leaving" ELSE "live"
  ELSE IF s \in Range(tombstones) THEN "expired"
  ELSE IF reply[s] = "created" THEN "gone"
  ELSE "unborn"

\* A request is served from the moment get() returned its record, whatever
\* becomes of the session while the request waits or works.
HeardBy(t) ==
  IF pc[t] = "start" THEN "nothing"
  ELSE IF reply[t] \in {"unknown", "expired"} THEN reply[t]
  ELSE "served"

\* A create is refused when it finds the registry full, although a surplus
\* browser is closed before the answer.
Refused == {c \in Creates : pc[c] = "surplus" \/ reply[c] = "capacity"}

Lives == [s \in Creates |-> LifeOf(s)]
Heard == [t \in Actions \cup Probes |-> HeardBy(t)]

Directory == INSTANCE SessionDirectory WITH
  Sessions <- Creates,
  Clients <- Actions \cup Probes,
  Capacity <- MaxSessions,
  Memory <- TombstoneMax,
  life <- Lives,
  refused <- Refused,
  heard <- Heard

\* The registry keeps the directory's promise: creates that race for slots,
\* evict, are turned away or fail, the reaper and its bounded tombstones, and
\* requests that come at any moment between them.
ImplementsDirectory == Directory!Spec

\* What becomes of an id in one step.  A DELETE and the reaper may both remove a
\* session, which is then remembered as expired although it was gone.
Onward == {<<"unborn", "live">>, <<"live", "leaving">>, <<"leaving", "gone">>,
           <<"leaving", "expired">>, <<"gone", "expired">>, <<"expired", "gone">>}

AllOnward ==
  \A s \in Creates : LifeOf(s)' = LifeOf(s) \/ <<LifeOf(s), LifeOf(s)'>> \in Onward

\* Where DELETE and reset break the directory's promise this is left of it: an id
\* lives once.  Nothing that was read before an await and is used after it makes
\* one that leaves live again, brings one that is gone back, or ends a session
\* that was not marked before.
LivesOneWay == [][AllOnward]_vars
=============================================================================
