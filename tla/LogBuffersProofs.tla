--------------------------- MODULE LogBuffersProofs ---------------------------
(* The invariants of LogBuffers, for any URLs, any size of the logs and any  *)
(* number of events.                                                         *)
EXTENDS LogBuffers, FiniteSetTheorems, WellFoundedInduction, TLAPS

\* How many of the events after the one numbered `first` a log still holds.
Held(first, last) == IF last - first < MaxLog THEN last - first ELSE MaxLog

\* The k-th entry of a log is a certain event, and an entry carries the URL of
\* its request.
Aligned ==
  /\ Len(network) = Held(cleared, Len(sent))
  /\ Len(console) = Held(silenced, messages)
  /\ \A k \in DOMAIN network :
       /\ network[k].id = Len(sent) - Len(network) + k
       /\ network[k].url = sent[network[k].id]
  /\ \A k \in DOMAIN console : console[k] = messages - Len(console) + k

\* Of a URL that was never contended the request in flight is the newest, and
\* its entry has no status yet.
FlightIsNewest ==
  \A i \in flight : sent[i] \notin contended =>
    /\ \A j \in Ids : sent[j] = sent[i] => j <= i
    /\ \A k \in DOMAIN network : network[k].id = i => network[k].from = 0

IInv == TypeOK /\ Aligned /\ FlightIsNewest /\ StatusIsOwn

LEMMA InitInvariant == Init => IInv
BY LogLimits DEF Init, IInv, TypeOK, Aligned, Held, FlightIsNewest, StatusIsOwn,
                 Ids, Entry

\* The sizes and domains that the steps below reason with.
LEMMA Sizes ==
  ASSUME IInv
  PROVE  /\ network \in Seq(Entry) /\ console \in Seq(Nat) /\ sent \in Seq(Urls)
         /\ Len(network) \in Nat /\ Len(console) \in Nat /\ Len(sent) \in Nat
         /\ messages \in Nat /\ cleared \in Nat /\ silenced \in Nat
         /\ cleared <= Len(sent) /\ silenced <= messages
         /\ Len(network) = Held(cleared, Len(sent)) /\ Len(network) <= Len(sent)
         /\ Len(console) = Held(silenced, messages) /\ Len(console) <= messages
         /\ DOMAIN network = 1..Len(network) /\ DOMAIN console = 1..Len(console)
<1>1. /\ network \in Seq(Entry) /\ console \in Seq(Nat) /\ sent \in Seq(Urls)
      /\ messages \in Nat /\ cleared \in 0..Len(sent) /\ silenced \in 0..messages
  BY DEF IInv, TypeOK
<1>2. /\ Len(network) = Held(cleared, Len(sent))
      /\ Len(console) = Held(silenced, messages)
  BY DEF IInv, Aligned
<1> QED BY <1>1, <1>2, LogLimits DEF Held

-----------------------------------------------------------------------------
\* What a push does to a log: the new entry is the last one, and the others
\* are the old ones, moved down by one if the log was full.
Shift(q) == IF Len(q) < MaxLog THEN 0 ELSE 1

LEMMA ShiftSmall == ASSUME NEW q, Len(q) \in Nat
                    PROVE  Shift(q) \in 0..1 /\ Len(q) + 1 - Shift(q) \in Nat \ {0}
BY LogLimits DEF Shift

LEMMA PushEffect ==
  ASSUME NEW T, NEW q \in Seq(T), NEW e \in T
  PROVE  /\ Push(q, e) \in Seq(T)
         /\ Len(Push(q, e)) = Len(q) + 1 - Shift(q)
         /\ Push(q, e)[Len(q) + 1 - Shift(q)] = e
         /\ \A k \in 1..Len(q) - Shift(q) : Push(q, e)[k] = q[k + Shift(q)]
<1>1. CASE Len(q) < MaxLog
  BY <1>1, LogLimits DEF Push, Shift
<1>2. CASE ~(Len(q) < MaxLog)
  <2>1. q # <<>> /\ Len(q) \in Nat \ {0}
    BY <1>2, LogLimits
  <2>2. /\ Tail(q) \in Seq(T) /\ Len(Tail(q)) = Len(q) - 1
        /\ \A k \in 1..Len(q) - 1 : Tail(q)[k] = q[k + 1]
    BY <2>1
  <2> QED BY <1>2, <2>1, <2>2, LogLimits DEF Push, Shift
<1> QED BY <1>1, <1>2

LEMMA HeldGrows ==
  ASSUME NEW q, NEW first \in Nat, NEW last \in Nat, first <= last,
         Len(q) = Held(first, last)
  PROVE  Held(first, last + 1) = Len(q) + 1 - Shift(q)
BY LogLimits DEF Held, Shift

LEMMA ConsoleKeeps == ASSUME IInv, OnConsole PROVE IInv'
<1>1. messages' = messages + 1 /\ console' = Push(console, messages + 1)
  BY DEF OnConsole
<1>2. /\ console' \in Seq(Nat) /\ Len(console') = Len(console) + 1 - Shift(console)
      /\ console'[Len(console) + 1 - Shift(console)] = messages + 1
      /\ \A k \in 1..Len(console) - Shift(console) :
           console'[k] = console[k + Shift(console)]
  <2>1. messages + 1 \in Nat /\ console \in Seq(Nat)
    BY Sizes
  <2> QED BY <1>1, <2>1, PushEffect
<1>0. UNCHANGED <<network, sent, flight, answered, cleared, silenced, contended>>
  BY DEF OnConsole
<1>3. TypeOK'
  <2>1. messages' \in Nat /\ silenced' \in 0..messages'
    BY <1>0, <1>1 DEF IInv, TypeOK
  <2> QED BY <1>0, <1>2, <2>1 DEF IInv, TypeOK, Ids
<1>4. ASSUME NEW k \in DOMAIN console'
      PROVE  console'[k] = messages' - Len(console') + k
  <2>1. k \in 1..Len(console) + 1 - Shift(console)
    BY <1>2
  <2>2. CASE k = Len(console) + 1 - Shift(console)
    <3>1. console'[k] = messages + 1
      BY <1>2, <2>2
    <3>2. messages' - Len(console') + k = messages + 1
      <4> HIDE DEF IInv
      <4>1. Len(console') = k /\ k \in Nat /\ messages' = messages + 1 /\ messages \in Nat
        BY <1>1, <1>2, <2>1, <2>2, Sizes
      <4> QED BY <4>1
    <3> QED BY <3>1, <3>2
  <2>3. CASE k # Len(console) + 1 - Shift(console)
    <3>0. Len(console) \in Nat /\ Shift(console) \in 0..1 /\ messages \in Nat
      BY Sizes, ShiftSmall
    <3>1. /\ k \in 1..Len(console) - Shift(console)
          /\ k + Shift(console) \in 1..Len(console) /\ k \in Nat
      BY <2>1, <2>3, <3>0
    <3>2. console'[k] = console[k + Shift(console)]
      BY <1>2, <3>1
    <3>3. console[k + Shift(console)] = messages - Len(console) + (k + Shift(console))
      <4> DEFINE m == k + Shift(console)
      <4>1. m \in DOMAIN console
        BY <3>1, Sizes
      <4> HIDE DEF m
      <4>2. console[m] = messages - Len(console) + m
        BY <4>1 DEF IInv, Aligned
      <4> QED BY <4>2 DEF m
    <3>4. messages' - Len(console') + k = messages - Len(console) + (k + Shift(console))
      <4>1. /\ messages' = messages + 1
            /\ Len(console') = Len(console) + 1 - Shift(console) /\ Shift(console) \in Nat
        BY <1>1, <1>2, <3>0
      <4>2. ASSUME NEW a \in Nat, NEW b \in Nat, NEW c \in Nat, NEW d \in Nat
            PROVE  (a + 1) - (b + 1 - c) + d = a - b + (d + c)
        OBVIOUS
      <4>3. k \in Nat
        BY <2>1
      <4>4. (messages + 1) - (Len(console) + 1 - Shift(console)) + k =
              messages - Len(console) + (k + Shift(console))
        BY <3>0, <4>1, <4>2, <4>3
      <4> QED BY <4>1, <4>4
    <3> QED BY <3>2, <3>3, <3>4
  <2> QED BY <2>2, <2>3
<1>5. Aligned'
  <2>1. Len(console') = Held(silenced', messages')
    BY <1>0, <1>1, <1>2, Sizes, HeldGrows
  <2> QED BY <1>0, <1>4, <2>1 DEF IInv, Aligned, Held
<1>6. FlightIsNewest' /\ StatusIsOwn'
  BY <1>0 DEF IInv, FlightIsNewest, StatusIsOwn, Ids
<1> QED BY <1>3, <1>5, <1>6 DEF IInv

LEMMA RequestKeeps == ASSUME IInv, NEW u \in Urls, OnRequest(u) PROVE IInv'
<1> DEFINE n == Len(sent) + 1
           e == [id |-> n, url |-> u, from |-> 0]
<1>1. /\ sent' = Append(sent, u) /\ network' = Push(network, e)
      /\ flight' = flight \cup {n} /\ UNCHANGED <<console, answered, messages,
                                                  cleared, silenced>>
      /\ contended' = IF \E i \in flight : sent[i] = u THEN contended \cup {u}
                                                       ELSE contended
  BY DEF OnRequest
<1>2. /\ sent' \in Seq(Urls) /\ Len(sent') = n /\ n \in Nat
      /\ sent'[n] = u /\ \A i \in Ids : sent'[i] = sent[i]
      /\ e \in Entry
  BY <1>1 DEF IInv, TypeOK, Ids, Entry
<1>3. /\ network' \in Seq(Entry) /\ Len(network') = Len(network) + 1 - Shift(network)
      /\ network'[Len(network) + 1 - Shift(network)] = e
      /\ \A k \in 1..Len(network) - Shift(network) :
           network'[k] = network[k + Shift(network)]
  <2> HIDE DEF e, n
  <2>1. network' = Push(network, e) /\ network \in Seq(Entry) /\ e \in Entry
    BY <1>1, <1>2, Sizes
  <2> QED BY <2>1, PushEffect
<1>4. TypeOK'
  <2>1. flight' \subseteq Ids' /\ answered' \subseteq Ids' /\ Ids \subseteq Ids'
        /\ n \notin Ids
    <3>1. Ids' = 1..Len(sent) + 1 /\ n = Len(sent) + 1 /\ Len(sent) \in Nat
      BY <1>2, Sizes DEF Ids
    <3>2. flight \subseteq 1..Len(sent) /\ answered \subseteq 1..Len(sent)
          /\ flight' = flight \cup {n} /\ answered' = answered
      BY <1>1 DEF IInv, TypeOK, Ids
    <3>3. n \in 1..Len(sent) + 1 /\ n \notin 1..Len(sent)
          /\ 1..Len(sent) \subseteq 1..Len(sent) + 1
      BY <3>1
    <3> HIDE DEF n
    <3> QED BY <3>1, <3>2, <3>3 DEF Ids
  <2>2. flight' \cap answered' = {} /\ contended' \subseteq Urls
    BY <1>1, <2>1 DEF IInv, TypeOK
  <2>3. cleared' \in 0..Len(sent') /\ silenced' \in 0..messages' /\ messages' \in Nat
    BY <1>1, <1>2 DEF IInv, TypeOK
  <2> HIDE DEF n, e
  <2> QED BY <1>1, <1>2, <1>3, <2>1, <2>2, <2>3 DEF IInv, TypeOK
<1>5. ASSUME NEW k \in DOMAIN network'
      PROVE  /\ network'[k].id = n - Len(network') + k
             /\ network'[k].url = sent'[network'[k].id]
             /\ k # Len(network') =>
                  \E m \in DOMAIN network :
                    network'[k] = network[m] /\ network[m].id \in Ids
  <2>0. k \in 1..Len(network')
    BY <1>3
  <2>1. CASE k = Len(network')
    <3>1. network'[k] = e
      BY <1>3, <2>1
    <3>2. n - Len(network') + k = n
      BY <1>2, <1>3, <2>1, Sizes DEF Shift
    <3> QED BY <1>2, <2>1, <3>1, <3>2
  <2>2. CASE k # Len(network')
    <3> DEFINE m == k + Shift(network)
    <3>0. /\ Len(network) \in Nat /\ Shift(network) \in 0..1 /\ k \in Nat
          /\ Len(network') = Len(network) + 1 - Shift(network)
          /\ Len(sent) \in Nat /\ Len(network) <= Len(sent)
      BY <1>3, <2>0, Sizes, ShiftSmall
    <3>1. m \in DOMAIN network /\ network'[k] = network[m]
      <4>1. k \in 1..Len(network) - Shift(network) /\ m \in 1..Len(network)
        BY <2>0, <2>2, <3>0
      <4> QED BY <1>3, <4>1, Sizes
    <3>2. network[m].id = Len(sent) - Len(network) + m
          /\ network[m].url = sent[network[m].id]
      BY <3>1 DEF IInv, Aligned
    <3>4. network[m].id \in Ids
      <4>1. m \in 1..Len(network)
        BY <3>1, Sizes
      <4> HIDE DEF m
      <4> QED BY <3>0, <3>2, <4>1 DEF Ids
    <3>5. n - Len(network') + k = Len(sent) - Len(network) + m
      BY <3>0
    <3>6. sent'[network[m].id] = sent[network[m].id]
      BY <1>2, <3>4
    <3> HIDE DEF m, n
    <3> QED BY <3>1, <3>2, <3>4, <3>5, <3>6
  <2> QED BY <2>1, <2>2
<1>6. Aligned'
  <2>1. Len(network') = Held(cleared', Len(sent'))
    BY <1>1, <1>2, <1>3, Sizes, HeldGrows
  <2> HIDE DEF n, e
  <2> QED BY <1>1, <1>2, <1>5, <2>1 DEF IInv, Aligned, Held
<1>7. FlightIsNewest'
  <2> SUFFICES ASSUME NEW i \in flight', sent'[i] \notin contended'
               PROVE  /\ \A j \in Ids' : sent'[j] = sent'[i] => j <= i
                      /\ \A k \in DOMAIN network' :
                           network'[k].id = i => network'[k].from = 0
    BY DEF FlightIsNewest
  <2>1. CASE i = n
    <3>1. \A j \in Ids' : j <= i
      BY <1>2, <2>1 DEF Ids
    <3>2. \A k \in DOMAIN network' : k # Len(network') => network'[k].id # n
      BY <1>2, <1>5, Sizes DEF Ids
    <3>3. network'[Len(network')].from = 0
      BY <1>3
    <3> HIDE DEF n, e
    <3> QED BY <2>1, <3>1, <3>2, <3>3
  <2>2. CASE i # n
    <3>1. i \in flight /\ i \in Ids /\ sent'[i] = sent[i] /\ sent[i] # u
          /\ sent[i] \notin contended
      BY <1>1, <1>2, <2>2 DEF IInv, TypeOK
    <3>2. \A j \in Ids' : j = n \/ j \in Ids
      BY <1>2 DEF Ids, IInv, TypeOK
    <3>3. \A j \in Ids' : sent'[j] = sent'[i] => j <= i
      BY <1>2, <3>1, <3>2 DEF IInv, FlightIsNewest
    <3>4. \A k \in DOMAIN network' : network'[k].id = i => network'[k].from = 0
      BY <1>3, <1>5, <3>1 DEF IInv, FlightIsNewest
    <3> QED BY <3>3, <3>4
  <2> QED BY <2>1, <2>2
<1>8. StatusIsOwn'
  <2> SUFFICES ASSUME NEW k \in DOMAIN network', network'[k].url \notin contended'
               PROVE  network'[k].from \in {0, network'[k].id}
    BY DEF StatusIsOwn
  <2>1. CASE k = Len(network')
    BY <1>3, <2>1
  <2>2. CASE k # Len(network')
    BY <1>1, <1>5, <2>2 DEF IInv, StatusIsOwn
  <2> QED BY <2>1, <2>2
<1> QED BY <1>4, <1>6, <1>7, <1>8 DEF IInv

\* What a response does to the log: the newest entry of its URL without a status
\* gets one, and nothing else of any entry changes.
OpenFor(i) == {k \in DOMAIN network : Open(k, sent[i])}
Newest(i, k) == k \in OpenFor(i) /\ \A m \in OpenFor(i) : m <= k

LEMMA ResponseEffect ==
  ASSUME IInv, NEW i \in flight, OnResponse(i)
  PROVE  /\ flight' = flight \ {i} /\ answered' = answered \cup {i}
         /\ UNCHANGED <<console, sent, messages, cleared, silenced, contended>>
         /\ i \in Ids /\ i \in Nat \ {0} /\ i \notin answered
         /\ Len(network) \in Nat /\ DOMAIN network = 1..Len(network)
         /\ network' \in Seq(Entry) /\ Len(network') = Len(network)
         /\ DOMAIN network' = DOMAIN network
         /\ \A k \in DOMAIN network :
              /\ network'[k].id = network[k].id /\ network'[k].url = network[k].url
              /\ network'[k].from = IF Newest(i, k) THEN i ELSE network[k].from
<1>1. /\ flight' = flight \ {i} /\ answered' = answered \cup {i}
      /\ UNCHANGED <<console, sent, messages, cleared, silenced, contended>>
      /\ network' = [k \in DOMAIN network |->
                       IF Newest(i, k) THEN [network[k] EXCEPT !.from = i]
                       ELSE network[k]]
  BY DEF OnResponse, Newest, OpenFor
<1>2. /\ i \in Ids /\ i \in Nat \ {0} /\ i \notin answered /\ Len(network) \in Nat
      /\ DOMAIN network = 1..Len(network)
      /\ \A k \in DOMAIN network : network[k] \in Entry
  BY DEF IInv, TypeOK, Ids
<1>3. ASSUME NEW k \in DOMAIN network
      PROVE  /\ network'[k] \in Entry
             /\ network'[k].id = network[k].id /\ network'[k].url = network[k].url
             /\ network'[k].from = IF Newest(i, k) THEN i ELSE network[k].from
  BY <1>1, <1>2 DEF Entry
<1>4. /\ network' \in Seq(Entry) /\ Len(network') = Len(network)
      /\ DOMAIN network' = DOMAIN network
  <2>1. network' \in [1..Len(network) -> Entry]
    BY <1>1, <1>2, <1>3
  <2> QED BY <1>2, <2>1
<1> QED BY <1>1, <1>2, <1>3, <1>4

\* A response changes at most one status, and of a URL that was never contended
\* only that of its own request.
LEMMA ResponseKeeps == ASSUME IInv, NEW i \in flight, OnResponse(i) PROVE IInv'
<1>1. /\ flight' = flight \ {i} /\ answered' = answered \cup {i}
      /\ UNCHANGED <<console, sent, messages, cleared, silenced, contended>>
  BY ResponseEffect
<1>2. /\ i \in Ids /\ i \in Nat /\ Len(network) \in Nat
      /\ DOMAIN network = 1..Len(network)
  BY ResponseEffect
<1>3. ASSUME NEW k \in DOMAIN network
      PROVE  /\ network'[k].id = network[k].id /\ network'[k].url = network[k].url
             /\ network'[k].from = IF Newest(i, k) THEN i ELSE network[k].from
  BY ResponseEffect
<1>4. /\ network' \in Seq(Entry) /\ Len(network') = Len(network)
      /\ DOMAIN network' = DOMAIN network
  BY ResponseEffect
<1>5. TypeOK'
  BY <1>1, <1>2, <1>4 DEF IInv, TypeOK, Ids
<1>6. Aligned'
  BY <1>1, <1>3, <1>4 DEF IInv, Aligned, Held
<1>7. ASSUME NEW k \in DOMAIN network, Newest(i, k), sent[i] \notin contended
      PROVE  network[k].id = i
  <2>1. /\ network[k].url = sent[i] /\ network[k].from = 0
        /\ network[k].id = Len(sent) - Len(network) + k
        /\ network[k].url = sent[network[k].id]
        /\ Len(sent) \in Nat /\ Len(network) <= Len(sent) /\ k \in 1..Len(network)
    BY <1>2, <1>7, Sizes DEF IInv, Aligned, Open, Newest, OpenFor
  <2>2. network[k].id \in Ids /\ network[k].id <= i /\ i <= Len(sent)
    <3>1. network[k].id \in 1..Len(sent)
      BY <2>1, Sizes
    <3>2. \A j \in Ids : sent[j] = sent[i] => j <= i
      BY <1>7 DEF IInv, FlightIsNewest
    <3>3. sent[network[k].id] = sent[i]
      BY <2>1
    <3> QED BY <1>2, <3>1, <3>2, <3>3 DEF Ids
  <2> DEFINE own == i - (Len(sent) - Len(network))
  <2>3. own \in DOMAIN network /\ k <= own
    BY <1>2, <2>1, <2>2
  <2>4. network[own].id = i
    BY <1>2, <2>1, <2>3 DEF IInv, Aligned
  <2>5. own \in OpenFor(i)
    BY <1>7, <2>3, <2>4 DEF IInv, Aligned, FlightIsNewest, Open, OpenFor
  <2> QED BY <1>2, <1>7, <2>1, <2>3, <2>4, <2>5 DEF Newest
<1>8. StatusIsOwn'
  <2> SUFFICES ASSUME NEW k \in DOMAIN network, network[k].url \notin contended
               PROVE  network'[k].from \in {0, network'[k].id}
    BY <1>1, <1>3, <1>4 DEF StatusIsOwn
  <2>1. CASE Newest(i, k)
    BY <1>3, <1>7, <2>1 DEF Open, OpenFor, Newest
  <2>2. CASE ~Newest(i, k)
    BY <1>3, <2>2 DEF IInv, StatusIsOwn
  <2> QED BY <2>1, <2>2
<1>9. FlightIsNewest'
  <2> SUFFICES ASSUME NEW j \in flight, j # i, sent[j] \notin contended
               PROVE  /\ \A m \in Ids : sent[m] = sent[j] => m <= j
                      /\ \A k \in DOMAIN network : network[k].id = j =>
                           network'[k].from = 0
    BY <1>1, <1>3, <1>4 DEF FlightIsNewest, Ids
  <2>1. \A m \in Ids : sent[m] = sent[j] => m <= j
    BY DEF IInv, FlightIsNewest
  <2>2. ASSUME NEW k \in DOMAIN network, network[k].id = j
        PROVE  network'[k].from = 0
    <3>1. network[k].from = 0
      BY <2>2 DEF IInv, FlightIsNewest
    <3>2. ~Newest(i, k)
      <4> SUFFICES ASSUME Newest(i, k) PROVE FALSE
        OBVIOUS
      <4>1. network[k].url = sent[i] /\ network[k].url = sent[j]
        BY <2>2 DEF IInv, Aligned, Open, OpenFor, Newest
      <4> QED BY <1>7, <2>2, <4>1
    <3> QED BY <1>3, <3>1, <3>2
  <2> QED BY <2>1, <2>2
<1> QED BY <1>5, <1>6, <1>8, <1>9 DEF IInv

LEMMA FailureKeeps == ASSUME IInv, NEW i \in flight, RequestFailed(i) PROVE IInv'
<1>1. /\ flight' = flight \ {i}
      /\ UNCHANGED <<network, console, sent, answered, messages, cleared,
                     silenced, contended>>
  BY DEF RequestFailed
<1>2. TypeOK'
  BY <1>1 DEF IInv, TypeOK, Ids
<1>3. Aligned' /\ StatusIsOwn'
  BY <1>1 DEF IInv, Aligned, StatusIsOwn, Held
<1>4. FlightIsNewest'
  BY <1>1 DEF IInv, FlightIsNewest, Ids
<1> QED BY <1>2, <1>3, <1>4 DEF IInv

LEMMA ReadKeeps ==
  ASSUME IInv, NEW clear \in BOOLEAN,
         ConsoleLogs(clear) \/ NetworkLog(clear) \/ \E u \in Urls : NetworkFilter(u, clear)
  PROVE  IInv'
<1>1. CASE ConsoleLogs(clear)
  <2>1. /\ \/ console' = <<>> /\ silenced' = messages
           \/ console' = console /\ silenced' = silenced
        /\ UNCHANGED <<network, sent, flight, answered, messages, cleared, contended>>
    <3>1. CASE clear
      BY <1>1, <3>1 DEF ConsoleLogs
    <3>2. CASE ~clear
      BY <1>1, <3>2 DEF ConsoleLogs
    <3> QED BY <3>1, <3>2
  <2>2. TypeOK'
    <3>1. console' \in Seq(Nat)
      <4>1. <<>> \in Seq(Nat) /\ console \in Seq(Nat)
        BY Sizes
      <4> QED BY <2>1, <4>1
    <3>2. silenced \in 0..messages /\ messages \in 0..messages
      BY Sizes
    <3>3. silenced' \in 0..messages
      BY <2>1, <3>2
    <3> QED BY <2>1, <3>1, <3>3 DEF IInv, TypeOK, Ids
  <2>3. Aligned'
    <3>1. CASE console' = <<>> /\ silenced' = messages
      <4>1. Held(messages, messages) = 0
        <5>1. messages - messages = 0
          BY Sizes
        <5> QED BY <5>1, LogLimits DEF Held
      <4>2. Len(console') = 0 /\ DOMAIN console' = {}
        BY <3>1
      <4>3. Len(console') = Held(silenced', messages')
        BY <2>1, <3>1, <4>1, <4>2
      <4>4. \A k \in DOMAIN console' : FALSE
        BY <4>2
      <4> QED BY <2>1, <4>3, <4>4 DEF IInv, Aligned, Held
    <3>2. CASE console' = console /\ silenced' = silenced
      BY <2>1, <3>2 DEF IInv, Aligned, Held
    <3> QED BY <2>1, <3>1, <3>2
  <2>4. FlightIsNewest' /\ StatusIsOwn'
    BY <2>1 DEF IInv, FlightIsNewest, StatusIsOwn, Ids
  <2> QED BY <2>2, <2>3, <2>4 DEF IInv
<1>2. CASE NetworkLog(clear)
  <2>1. /\ \/ network' = <<>> /\ cleared' = Len(sent)
           \/ network' = network /\ cleared' = cleared
        /\ UNCHANGED <<console, sent, flight, answered, messages, silenced, contended>>
    <3>1. CASE clear
      BY <1>2, <3>1 DEF NetworkLog
    <3>2. CASE ~clear
      BY <1>2, <3>2 DEF NetworkLog
    <3> QED BY <3>1, <3>2
  <2>2. TypeOK'
    <3>1. network' \in Seq(Entry)
      <4>1. <<>> \in Seq(Entry) /\ network \in Seq(Entry)
        BY Sizes
      <4> QED BY <2>1, <4>1
    <3>2. cleared \in 0..Len(sent) /\ Len(sent) \in 0..Len(sent)
      BY Sizes
    <3>3. cleared' \in 0..Len(sent)
      BY <2>1, <3>2
    <3> QED BY <2>1, <3>1, <3>3 DEF IInv, TypeOK, Ids
  <2>3. Aligned'
    <3>1. CASE network' = <<>> /\ cleared' = Len(sent)
      <4>1. Held(Len(sent), Len(sent)) = 0
        <5>1. Len(sent) - Len(sent) = 0
          BY Sizes
        <5> QED BY <5>1, LogLimits DEF Held
      <4>2. Len(network') = 0 /\ DOMAIN network' = {}
        BY <3>1
      <4>3. Len(network') = Held(cleared', Len(sent)')
        BY <2>1, <3>1, <4>1, <4>2
      <4>4. \A k \in DOMAIN network' : FALSE
        BY <4>2
      <4> QED BY <2>1, <4>3, <4>4 DEF IInv, Aligned, Held
    <3>2. CASE network' = network /\ cleared' = cleared
      BY <2>1, <3>2 DEF IInv, Aligned, Held
    <3> QED BY <2>1, <3>1, <3>2
  <2>4. FlightIsNewest' /\ StatusIsOwn'
    BY <2>1 DEF IInv, FlightIsNewest, StatusIsOwn, Ids
  <2> QED BY <2>2, <2>3, <2>4 DEF IInv
<1> QED BY <1>1, <1>2 DEF NetworkFilter

THEOREM LogInvariant == Spec => []IInv
<1>1. IInv /\ [Next]_vars => IInv'
  <2> SUFFICES ASSUME IInv, [Next]_vars PROVE IInv'
    OBVIOUS
  <2>1. CASE UNCHANGED vars
    BY <2>1 DEF vars, IInv, TypeOK, Aligned, FlightIsNewest, StatusIsOwn, Ids, Held
  <2> QED BY <2>1, ConsoleKeeps, RequestKeeps, ResponseKeeps, FailureKeeps, ReadKeeps
             DEF Next, OnPageError
<1> QED BY InitInvariant, <1>1, PTL DEF Spec

-----------------------------------------------------------------------------
\* The logs are the last max_log_entries events since the last clear.
THEOREM LogsKeepTheTail == Spec => []LogsAreTheTail
<1>1. ASSUME NEW first \in Nat, NEW last \in Nat, first <= last
      PROVE  /\ Held(first, last) \in Nat /\ Held(first, last) <= last
             /\ Since(first, last) = last - Held(first, last) + 1 .. last
  BY <1>1, LogLimits DEF Since, Held
<1>2. IInv => LogsAreTheTail
  <2> SUFFICES ASSUME IInv PROVE LogsAreTheTail
    OBVIOUS
  <2>1. /\ \A k \in 1..Len(network) : network[k].id = Len(sent) - Len(network) + k
        /\ \A k \in 1..Len(console) : console[k] = messages - Len(console) + k
    BY Sizes DEF IInv, Aligned
  <2>2. /\ Len(network) = Held(cleared, Len(sent)) /\ cleared \in Nat
        /\ Len(console) = Held(silenced, messages) /\ silenced \in Nat
        /\ Len(sent) \in Nat /\ messages \in Nat
        /\ cleared <= Len(sent) /\ silenced <= messages
        /\ Len(network) \in Nat /\ Len(console) \in Nat
        /\ Len(network) <= Len(sent) /\ Len(console) <= messages
    BY Sizes
  <2>3. {network[k].id : k \in DOMAIN network} = Since(cleared, Len(sent))
    <3> DEFINE S == {network[k].id : k \in DOMAIN network}
               low == Len(sent) - Len(network)
    <3>1. Since(cleared, Len(sent)) = low + 1 .. Len(sent) /\ low \in Nat
      <4>1. Held(cleared, Len(sent)) = Len(network) /\ Held(cleared, Len(sent)) <= Len(sent)
        BY <2>2
      <4>2. Since(cleared, Len(sent)) = Len(sent) - Held(cleared, Len(sent)) + 1 .. Len(sent)
        BY <1>1, <2>2
      <4> QED BY <2>2, <4>1, <4>2
    <3>2. ASSUME NEW x \in low + 1 .. Len(sent) PROVE x \in S
      <4>0. /\ low = Len(sent) - Len(network) /\ low \in Nat /\ Len(sent) \in Nat /\ Len(network) \in Nat
            /\ x \in low + 1 .. Len(sent)
        BY <2>2, <3>1
      <4>1. x - low \in 1..Len(network) /\ low + (x - low) = x
        <5> HIDE DEF low
        <5> QED BY <4>0
      <4>2. network[x - low].id = x /\ x - low \in DOMAIN network
        BY <2>1, <4>1, Sizes
      <4> QED BY <4>2
    <3>3. ASSUME NEW k \in DOMAIN network PROVE network[k].id \in low + 1 .. Len(sent)
      <4>1. k \in 1..Len(network)
        BY Sizes
      <4> QED BY <2>1, <2>2, <4>1
    <3> QED BY <3>1, <3>2, <3>3
  <2>5. {console[k] : k \in DOMAIN console} = Since(silenced, messages)
    <3> DEFINE S == {console[k] : k \in DOMAIN console}
               low == messages - Len(console)
    <3>1. Since(silenced, messages) = low + 1 .. messages /\ low \in Nat
      <4>1. Held(silenced, messages) = Len(console) /\ Held(silenced, messages) <= messages
        BY <2>2
      <4>2. Since(silenced, messages) = messages - Held(silenced, messages) + 1 .. messages
        BY <1>1, <2>2
      <4> QED BY <2>2, <4>1, <4>2
    <3>2. ASSUME NEW x \in low + 1 .. messages PROVE x \in S
      <4>0. /\ low = messages - Len(console) /\ low \in Nat /\ messages \in Nat /\ Len(console) \in Nat
            /\ x \in low + 1 .. messages
        BY <2>2, <3>1
      <4>1. x - low \in 1..Len(console) /\ low + (x - low) = x
        <5> HIDE DEF low
        <5> QED BY <4>0
      <4>2. console[x - low] = x /\ x - low \in DOMAIN console
        BY <2>1, <4>1, Sizes
      <4> QED BY <4>2
    <3>3. ASSUME NEW k \in DOMAIN console PROVE console[k] \in low + 1 .. messages
      <4>1. k \in 1..Len(console)
        BY Sizes
      <4> QED BY <2>1, <2>2, <4>1
    <3> QED BY <3>1, <3>2, <3>3
  <2>4. /\ \A j, k \in DOMAIN network : j < k => network[j].id < network[k].id
        /\ \A j, k \in DOMAIN console : j < k => console[j] < console[k]
    <3>1. /\ \A k \in DOMAIN network : network[k].id = Len(sent) - Len(network) + k
          /\ \A k \in DOMAIN console : console[k] = messages - Len(console) + k
      BY DEF IInv, Aligned
    <3>2. /\ Len(network) \in Nat /\ Len(console) \in Nat
          /\ DOMAIN network \subseteq Nat /\ DOMAIN console \subseteq Nat
      BY Sizes
    <3> QED BY <2>2, <3>1, <3>2
  <2> QED BY <2>3, <2>4, <2>5 DEF LogsAreTheTail
<1> QED BY LogInvariant, <1>2, PTL

\* A URL whose requests never overlapped has statuses of its own responses.
THEOREM StatusesAreOwn == Spec => []StatusIsOwn
<1>1. IInv => StatusIsOwn
  BY DEF IInv
<1> QED BY LogInvariant, <1>1, PTL

-----------------------------------------------------------------------------
(* No status is lost.  A request adds an entry without a status and a       *)
(* request without a response, and a response takes one of each, as long as *)
(* there is an entry to take.                                               *)

\* A set of positions that is not empty has a last one.
LEMMA LastOne ==
  ASSUME NEW n \in Nat, NEW S \in SUBSET (1..n), S # {}
  PROVE  \E k \in S : \A m \in S : m <= k
<1> DEFINE R == OpToRel(<, Nat)
           T == {n - k : k \in S}
<1>1. T \subseteq Nat /\ T # {}
  OBVIOUS
<1>2. IsWellFoundedOn(R, Nat)
  BY NatLessThanWellFounded
<1>3. PICK x \in T : \A y \in T : <<y, x>> \notin R
  <2> HIDE DEF T, R
  <2> QED BY <1>1, <1>2, WFMin
<1>4. \A y \in T : ~(y < x)
  BY <1>1, <1>3 DEF OpToRel
<1> HIDE DEF R
<1>5. PICK k \in S : x = n - k
  OBVIOUS
<1>6. ASSUME NEW m \in S PROVE m <= k
  <2>1. n - m \in T /\ m \in Nat /\ k \in Nat
    OBVIOUS
  <2>2. ~(n - m < n - k)
    BY <1>4, <1>5, <2>1
  <2> HIDE DEF T
  <2> QED BY <2>1, <2>2
<1> QED BY <1>6

\* The entries of the log are of different requests, each of its own URL.
LEMMA OneEntryEach ==
  ASSUME IInv
  PROVE  /\ \A k \in DOMAIN network :
              network[k].id \in Ids /\ network[k].url = sent[network[k].id]
         /\ \A j, k \in DOMAIN network : network[j].id = network[k].id => j = k
<1>1. /\ Len(network) \in Nat /\ Len(sent) \in Nat /\ Len(network) <= Len(sent)
      /\ DOMAIN network = 1..Len(network)
  BY Sizes
<1>2. \A k \in DOMAIN network : /\ network[k].id = Len(sent) - Len(network) + k
                                /\ network[k].url = sent[network[k].id]
  BY DEF IInv, Aligned
<1> QED BY <1>1, <1>2 DEF Ids

LEMMA Counted ==
  ASSUME IInv, NEW u
  PROVE  /\ Unset(u) \subseteq Ids /\ Unanswered(u) \subseteq Ids
         /\ IsFiniteSet(Unset(u)) /\ Cardinality(Unset(u)) \in Nat
         /\ IsFiniteSet(Unanswered(u)) /\ Cardinality(Unanswered(u)) \in Nat
<1>1. IsFiniteSet(Ids)
  BY Sizes, FS_Interval DEF Ids
<1>2. Unset(u) \subseteq Ids /\ Unanswered(u) \subseteq Ids
  BY OneEntryEach DEF Unset, Unanswered
<1> QED BY <1>1, <1>2, FS_Subset, FS_CardinalityType

LEMMA RequestCounts ==
  ASSUME IInv, NoStatusLost, NEW u \in Urls, OnRequest(u)
  PROVE  NoStatusLost'
<1> DEFINE n == Len(sent) + 1
           e == [id |-> n, url |-> u, from |-> 0]
<1>1. /\ sent' = Append(sent, u) /\ network' = Push(network, e)
      /\ answered' = answered
  BY DEF OnRequest
<1>2. /\ Ids' = Ids \cup {n} /\ n \notin Ids /\ n \notin answered
      /\ sent'[n] = u /\ \A i \in Ids : sent'[i] = sent[i]
      /\ e \in Entry
  BY <1>1 DEF IInv, TypeOK, Ids, Entry
<1>3. ASSUME NEW k \in DOMAIN network'
      PROVE  network'[k] = e \/ \E m \in DOMAIN network : network'[k] = network[m]
  <2>1. /\ network' \in Seq(Entry) /\ Len(network') = Len(network) + 1 - Shift(network)
        /\ network'[Len(network) + 1 - Shift(network)] = e
        /\ \A m \in 1..Len(network) - Shift(network) :
             network'[m] = network[m + Shift(network)]
    <3> HIDE DEF e, n
    <3>1. network' = Push(network, e) /\ network \in Seq(Entry) /\ e \in Entry
      BY <1>1, <1>2, Sizes
    <3> QED BY <3>1, PushEffect
  <2>2. /\ Len(network) \in Nat /\ Shift(network) \in 0..1
        /\ DOMAIN network = 1..Len(network) /\ k \in 1..Len(network')
    BY <2>1, Sizes, ShiftSmall
  <2>3. CASE k = Len(network')
    BY <2>1, <2>3
  <2>4. CASE k # Len(network')
    <3>1. /\ k \in 1..Len(network) - Shift(network)
          /\ k + Shift(network) \in DOMAIN network
      BY <2>1, <2>2, <2>4
    <3> QED BY <2>1, <3>1
  <2> QED BY <2>3, <2>4
<1>4. ASSUME NEW v \in Urls
      PROVE  /\ Unset(v)' \subseteq IF v = u THEN Unset(v) \cup {n} ELSE Unset(v)
             /\ Unanswered(v)' = IF v = u THEN Unanswered(v) \cup {n} ELSE Unanswered(v)
  <2>1. ASSUME NEW x \in Unset(v)'
        PROVE  x \in Unset(v) \/ (x = n /\ v = u)
    <3>1. PICK k \in DOMAIN network' :
            x = network'[k].id /\ network'[k].url = v /\ network'[k].from = 0
      BY <2>1 DEF Unset
    <3>2. CASE network'[k] = e
      BY <3>1, <3>2
    <3>3. CASE \E m \in DOMAIN network : network'[k] = network[m]
      BY <3>1, <3>3 DEF Unset
    <3> QED BY <1>3, <3>2, <3>3
  <2>2. Unanswered(v)' = {i \in Ids \cup {n} : sent'[i] = v /\ i \notin answered}
    BY <1>1, <1>2 DEF Unanswered
  <2> HIDE DEF n
  <2>3. Unanswered(v)' = IF v = u THEN Unanswered(v) \cup {n} ELSE Unanswered(v)
    BY <1>2, <2>2 DEF Unanswered
  <2> QED BY <2>1, <2>3
<1>5. ASSUME NEW v \in Urls
      PROVE  Cardinality(Unset(v)') <= Cardinality(Unanswered(v)')
  <2> HIDE DEF n
  <2>1. /\ IsFiniteSet(Unset(v)) /\ Cardinality(Unset(v)) \in Nat
        /\ IsFiniteSet(Unanswered(v)) /\ Cardinality(Unanswered(v)) \in Nat
        /\ n \notin Unset(v) /\ n \notin Unanswered(v)
        /\ Cardinality(Unset(v)) <= Cardinality(Unanswered(v))
    BY <1>2, Counted DEF NoStatusLost
  <2>2. CASE v = u
    <3>1. /\ IsFiniteSet(Unset(v) \cup {n})
          /\ Cardinality(Unset(v) \cup {n}) = Cardinality(Unset(v)) + 1
      BY <2>1, FS_AddElement
    <3>2. /\ Unset(v)' \in SUBSET (Unset(v) \cup {n})
          /\ Unanswered(v)' = Unanswered(v) \cup {n}
      BY <1>4, <2>2
    <3>3. Cardinality(Unset(v)') \in Nat /\ Cardinality(Unset(v)') <= Cardinality(Unset(v)) + 1
      BY <3>1, <3>2, FS_Subset, FS_CardinalityType
    <3>4. Cardinality(Unanswered(v)') = Cardinality(Unanswered(v)) + 1
      BY <2>1, <3>2, FS_AddElement
    <3> QED BY <2>1, <3>3, <3>4
  <2>3. CASE v # u
    <3>1. Unset(v)' \in SUBSET Unset(v) /\ Unanswered(v)' = Unanswered(v)
      BY <1>4, <2>3
    <3>2. Cardinality(Unset(v)') \in Nat /\ Cardinality(Unset(v)') <= Cardinality(Unset(v))
      BY <2>1, <3>1, FS_Subset, FS_CardinalityType
    <3> QED BY <2>1, <3>1, <3>2
  <2> QED BY <2>2, <2>3
<1> QED BY <1>5 DEF NoStatusLost

LEMMA ResponseCounts ==
  ASSUME IInv, NoStatusLost, NEW i \in flight, OnResponse(i)
  PROVE  NoStatusLost'
<1>1. /\ answered' = answered \cup {i} /\ sent' = sent
      /\ i \in Ids /\ i # 0 /\ i \notin answered
      /\ Len(network) \in Nat /\ DOMAIN network = 1..Len(network)
      /\ DOMAIN network' = DOMAIN network
      /\ \A k \in DOMAIN network :
           /\ network'[k].id = network[k].id /\ network'[k].url = network[k].url
           /\ network'[k].from = IF Newest(i, k) THEN i ELSE network[k].from
  BY ResponseEffect
<1>2. ASSUME NEW v \in Urls
      PROVE  /\ Unset(v)' \subseteq Unset(v)
             /\ Unanswered(v)' = IF v = sent[i] THEN Unanswered(v) \ {i} ELSE Unanswered(v)
  <2>1. Unset(v)' \subseteq Unset(v)
    <3> SUFFICES ASSUME NEW x \in Unset(v)' PROVE x \in Unset(v)
      OBVIOUS
    <3>1. PICK k \in DOMAIN network :
            x = network'[k].id /\ network'[k].url = v /\ network'[k].from = 0
      BY <1>1 DEF Unset
    <3>2. network[k].from = 0
      BY <1>1, <3>1
    <3> QED BY <1>1, <3>1, <3>2 DEF Unset
  <2>2. Unanswered(v)' = IF v = sent[i] THEN Unanswered(v) \ {i} ELSE Unanswered(v)
    BY <1>1 DEF Unanswered, Ids
  <2> QED BY <2>1, <2>2
<1>3. ASSUME NEW v \in Urls
      PROVE  Cardinality(Unset(v)') <= Cardinality(Unanswered(v)')
  <2>1. /\ IsFiniteSet(Unset(v)) /\ Cardinality(Unset(v)) \in Nat
        /\ IsFiniteSet(Unanswered(v)) /\ Cardinality(Unanswered(v)) \in Nat
        /\ Cardinality(Unset(v)) <= Cardinality(Unanswered(v))
    BY Counted DEF NoStatusLost
  <2>2. CASE v # sent[i]
    <3>1. Unset(v)' \in SUBSET Unset(v) /\ Unanswered(v)' = Unanswered(v)
      BY <1>2, <2>2
    <3>2. Cardinality(Unset(v)') \in Nat /\ Cardinality(Unset(v)') <= Cardinality(Unset(v))
      BY <2>1, <3>1, FS_Subset, FS_CardinalityType
    <3> QED BY <2>1, <3>1, <3>2
  <2>3. CASE v = sent[i]
    <3>1. /\ i \in Unanswered(v) /\ Unanswered(v)' = Unanswered(v) \ {i}
          /\ IsFiniteSet(Unanswered(v)')
          /\ Cardinality(Unanswered(v)') = Cardinality(Unanswered(v)) - 1
          /\ Cardinality(Unanswered(v)') \in Nat
      <4>1. i \in Unanswered(v) /\ Unanswered(v)' = Unanswered(v) \ {i}
        BY <1>1, <1>2, <2>3 DEF Unanswered
      <4> QED BY <2>1, <4>1, FS_RemoveElement, FS_CardinalityType
    <3>2. CASE OpenFor(i) = {}
      <4>1. Unset(v) = {}
        BY <2>3, <3>2 DEF Unset, OpenFor, Open
      <4>2. Unset(v)' = {}
        BY <1>2, <4>1
      <4> QED BY <3>1, <4>2, FS_EmptySet
    <3>3. CASE OpenFor(i) # {}
      <4>1. PICK k \in OpenFor(i) : \A m \in OpenFor(i) : m <= k
        <5>1. OpenFor(i) \in SUBSET (1..Len(network))
          BY <1>1 DEF OpenFor
        <5> QED BY <1>1, <3>3, <5>1, LastOne
      <4>2. k \in DOMAIN network /\ Newest(i, k) /\ network[k].id \in Unset(v)
        BY <2>3, <4>1 DEF Newest, OpenFor, Open, Unset
      <4>3. network[k].id \notin Unset(v)'
        <5> SUFFICES ASSUME network[k].id \in Unset(v)' PROVE FALSE
          OBVIOUS
        <5>1. PICK m \in DOMAIN network :
                network'[m].id = network[k].id /\ network'[m].from = 0
          BY <1>1 DEF Unset
        <5>2. m = k
          BY <1>1, <4>2, <5>1, OneEntryEach
        <5> QED BY <1>1, <4>2, <5>1, <5>2
      <4>4. /\ IsFiniteSet(Unset(v) \ {network[k].id})
            /\ Cardinality(Unset(v) \ {network[k].id}) = Cardinality(Unset(v)) - 1
        BY <2>1, <4>2, FS_RemoveElement
      <4>5. Unset(v)' \in SUBSET (Unset(v) \ {network[k].id})
        BY <1>2, <4>3
      <4>6. /\ Cardinality(Unset(v)') \in Nat
            /\ Cardinality(Unset(v)') <= Cardinality(Unset(v)) - 1
        BY <4>4, <4>5, FS_Subset, FS_CardinalityType
      <4> QED BY <2>1, <3>1, <4>6
    <3> QED BY <3>2, <3>3
  <2> QED BY <2>2, <2>3
<1> QED BY <1>3 DEF NoStatusLost

\* A read that clears takes every entry without a status with it, and leaves the
\* requests that have no response yet.
LEMMA ClearCounts ==
  ASSUME IInv, NoStatusLost, NEW clear \in BOOLEAN, NetworkLog(clear)
  PROVE  NoStatusLost'
<1>1. /\ network' = <<>> \/ network' = network
      /\ sent' = sent /\ answered' = answered
  <2>1. CASE clear
    BY <2>1 DEF NetworkLog
  <2>2. CASE ~clear
    BY <2>2 DEF NetworkLog
  <2> QED BY <2>1, <2>2
<1>2. ASSUME NEW v \in Urls
      PROVE  Cardinality(Unset(v)') <= Cardinality(Unanswered(v)')
  <2>1. Unanswered(v)' = Unanswered(v)
    BY <1>1 DEF Unanswered, Ids
  <2>2. CASE network' = <<>>
    <3>1. Unset(v)' = {}
      BY <2>2 DEF Unset
    <3> QED BY <2>1, <3>1, Counted, FS_EmptySet
  <2>3. CASE network' = network
    BY <2>1, <2>3 DEF Unset, NoStatusLost
  <2> QED BY <1>1, <2>2, <2>3
<1> QED BY <1>2 DEF NoStatusLost

\* No status is lost: whatever overlaps, fails, is cleared or is pushed out of the
\* log, the entries of a URL that wait for a status are never more than its
\* requests that had no response.
THEOREM StatusesNotLost == Spec => []NoStatusLost
<1>1. Init => NoStatusLost
  <2> SUFFICES ASSUME Init, NEW u \in Urls
               PROVE  Cardinality(Unset(u)) <= Cardinality(Unanswered(u))
    BY DEF NoStatusLost
  <2>1. Unset(u) = {} /\ Unanswered(u) = {}
    BY DEF Init, Unset, Unanswered, Ids
  <2> QED BY <2>1, FS_EmptySet
<1>2. IInv /\ NoStatusLost /\ [Next]_vars => NoStatusLost'
  <2> SUFFICES ASSUME IInv, NoStatusLost, [Next]_vars PROVE NoStatusLost'
    OBVIOUS
  <2>1. ASSUME UNCHANGED <<network, sent, answered>> PROVE NoStatusLost'
    BY <2>1 DEF NoStatusLost, Unset, Unanswered, Ids
  <2>2. CASE UNCHANGED vars
    BY <2>1, <2>2 DEF vars
  <2>3. CASE OnConsole \/ OnPageError
    BY <2>1, <2>3 DEF OnPageError, OnConsole
  <2>4. CASE \E u \in Urls : OnRequest(u)
    BY <2>4, RequestCounts
  <2>5. CASE \E i \in flight : OnResponse(i)
    BY <2>5, ResponseCounts
  <2>6. CASE \E i \in flight : RequestFailed(i)
    BY <2>1, <2>6 DEF RequestFailed
  <2>7. CASE \E clear \in BOOLEAN : ConsoleLogs(clear)
    BY <2>1, <2>7 DEF ConsoleLogs
  <2>8. CASE \E clear \in BOOLEAN : NetworkLog(clear)
    BY <2>8, ClearCounts
  <2>9. CASE \E u \in Urls, clear \in BOOLEAN : NetworkFilter(u, clear)
    BY <2>9, ClearCounts DEF NetworkFilter
  <2> QED BY <2>2, <2>3, <2>4, <2>5, <2>6, <2>7, <2>8, <2>9 DEF Next
<1> QED BY LogInvariant, <1>1, <1>2, PTL DEF Spec
=============================================================================
