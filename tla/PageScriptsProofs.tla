--------------------------- MODULE PageScriptsProofs ---------------------------
(* Theorems of PageScripts for any number of calls, any timeouts and any number *)
(* of retries.                                                                  *)
EXTENDS PageScripts, TLAPS

-----------------------------------------------------------------------------
(* Type correctness.  How far a call's attempts and pause go depends on where   *)
(* it is, and its timer on whether it has one.                                  *)

Ranges ==
  \A c \in Calls :
    /\ pc[c] = "evaluating" => attempt[c] >= 1
    /\ pc[c] = "pausing" => /\ attempt[c] \in 1..Retries
                            /\ script[c] = "destroyed"
    /\ left[c] = None <=> limit[c] = None
    /\ pc[c] = "start" => attempt[c] = 0 /\ script[c] = "none"

Typed == TypeOK /\ Ranges

\* No timeout is not a number.
LEMMA NoNumber == None \notin Int /\ None \notin Timeouts /\ 0 # None
<1>1. None \notin Int /\ Timeouts \subseteq Int
  BY Bounds
<1>2. 0 \in Int
  OBVIOUS
<1> QED
  BY <1>1, <1>2, Zenon

\* Init is typed.
LEMMA TypedInit == Init => Typed
BY Bounds DEF Init, Typed, TypeOK, Ranges

\* Every step keeps the types.
LEMMA TypedNext == Typed /\ [Next]_vars => Typed'
<1> SUFFICES ASSUME Typed, [Next]_vars PROVE Typed'
  OBVIOUS
<1> USE Bounds, NoNumber DEF Typed, TypeOK, Ranges
<1>1. ASSUME NEW c \in Calls, Start(c) PROVE Typed'
  BY <1>1 DEF Start, Send
<1>2. ASSUME NEW c \in Calls, Busy(c) PROVE Typed'
  BY <1>2 DEF Busy, timers, page
<1>3. ASSUME NEW c \in Calls, Proceed(c) PROVE Typed'
  <2>1. CASE Return(c)
    <3>1. Outcome[script[c]] \in {"ok", "actionFailed", "crash"}
      BY <2>1 DEF Return, Outcome
    <3> QED
      BY <2>1, <3>1 DEF Return, Answer, timers, page
  <2>2. CASE Retry(c)
    BY <2>2 DEF Retry, page
  <2>3. CASE GiveUp(c)
    BY <2>3 DEF GiveUp, Answer, timers, page
  <2>4. CASE Resend(c)
    BY <2>4 DEF Resend, Send, timers
  <2>5. CASE Timeout(c)
    BY <2>5 DEF Timeout, Answer, timers, page
  <2>6. CASE Tick(c)
    <3>1. left[c] # None => left[c] \in Nat \ {0}
      BY <2>6 DEF Tick, Due
    <3>2. pc[c] = "pausing" => pause[c] \in 1..Retries
      BY <2>6 DEF Tick, Due
    <3> QED
      BY <2>6, <3>1, <3>2 DEF Tick, page
  <2> QED
    BY <1>3, <2>1, <2>2, <2>3, <2>4, <2>5, <2>6 DEF Proceed
<1>4. ASSUME NEW c \in Calls, Page(c) PROVE Typed'
  BY <1>4 DEF Page, TakeEffect, End, timers
<1>5. CASE Navigation
  BY <1>5 DEF Navigation, Underway, timers
<1>6. CASE Crash
  BY <1>6 DEF Crash, Underway, timers
<1>7. CASE UNCHANGED vars
  BY <1>7 DEF vars, timers, page
<1> QED
  BY <1>1, <1>2, <1>3, <1>4, <1>5, <1>6, <1>7 DEF Next

\* The bookkeeping of the retries keeps its type: no more scripts are sent than
\* there are attempts, and a pause is no longer than the retries allow.
THEOREM ScriptsTypeCorrect == Spec => []TypeOK
<1>1. Typed => TypeOK
  BY DEF Typed
<1> QED
  BY <1>1, TypedInit, TypedNext, PTL DEF Spec

-----------------------------------------------------------------------------
(* The budget.  What a call has taken and what wait_for has left make its       *)
(* timeout, whatever it was retried in between.                                 *)

Accounted ==
  \A c \in Calls : limit[c] # None => elapsed[c] + left[c] = limit[c]

Untimed == \A c \in Calls : pc[c] = "start" => elapsed[c] = 0 /\ paused[c] = 0

Clocks == Accounted /\ Untimed

\* At first no clock has run.
LEMMA ClocksInit == Init => Clocks
BY DEF Init, Clocks, Accounted, Untimed

\* Every step keeps the clocks.
LEMMA ClocksNext == Typed /\ Clocks /\ [Next]_vars => Clocks'
<1> SUFFICES ASSUME Typed, Clocks, [Next]_vars PROVE Clocks'
  OBVIOUS
<1> USE Bounds, NoNumber DEF Typed, TypeOK, Ranges, Clocks, Accounted, Untimed
<1>1. ASSUME NEW c \in Calls, Start(c) PROVE Clocks'
  BY <1>1 DEF Start, Send
<1>2. ASSUME NEW c \in Calls, Busy(c) PROVE Clocks'
  BY <1>2 DEF Busy, timers
<1>3. ASSUME NEW c \in Calls, Tick(c) PROVE Clocks'
  BY <1>3 DEF Tick
<1>4. ASSUME NEW c \in Calls, Proceed(c), ~Tick(c) PROVE Clocks'
  BY <1>4 DEF Proceed, Return, Retry, GiveUp, Resend, Timeout, Answer, Send, timers
<1>5. ASSUME NEW c \in Calls, Page(c) PROVE Clocks'
  BY <1>5 DEF Page, TakeEffect, End, timers
<1>6. CASE Navigation \/ Crash \/ UNCHANGED vars
  BY <1>6 DEF Navigation, Crash, timers, vars
<1> QED
  BY <1>1, <1>2, <1>3, <1>4, <1>5, <1>6 DEF Next

\* For every timeout and any number of retries, an evaluate() takes no longer than
\* its timeout: wait_for bounds the attempts and the pauses together.
THEOREM BudgetBoundsRetries == Spec => []BudgetKept
<1>1. Init => Typed /\ Clocks
  BY TypedInit, ClocksInit
<1>2. Typed /\ Clocks /\ [Next]_vars => (Typed /\ Clocks)'
  BY TypedNext, ClocksNext
<1>3. Typed /\ Clocks => BudgetKept
  BY Bounds, NoNumber DEF Typed, TypeOK, Ranges, Clocks, Accounted, BudgetKept, Calls
<1> QED
  BY <1>1, <1>2, <1>3, PTL DEF Spec

-----------------------------------------------------------------------------
(* Repeats.  A script that takes effect again was destroyed in between, and    *)
(* each that was sent takes effect once.  All but the last were destroyed.    *)

Spent(c) ==
  /\ effects[c] <= lost[c] + 1
  /\ effects[c] <= attempt[c]
  /\ script[c] = "sent" => effects[c] < attempt[c]
  /\ script[c] \in {"none", "sent", "destroyed"} => effects[c] <= lost[c]
  /\ script[c] \in {"running", "done", "threw"} => ran[c] = attempt[c]
  /\ script[c] \in {"sent", "running", "done", "threw"} => lost[c] = attempt[c] - 1
  /\ script[c] \in {"none", "destroyed"} => lost[c] = attempt[c]
  /\ answer[c] = "ok" => script[c] = "done"

EffectInv == \A c \in Calls : Spent(c)

\* At first no script has taken effect.
LEMMA EffectInit == Init => EffectInv
BY DEF Init, EffectInv, Spent

\* Every step keeps the repeats explained.
LEMMA EffectNext == Typed /\ EffectInv /\ [Next]_vars => EffectInv'
<1> SUFFICES ASSUME Typed, EffectInv, [Next]_vars PROVE EffectInv'
  OBVIOUS
<1> USE DEF Typed, TypeOK, Ranges, EffectInv, Spent
<1>1. ASSUME NEW c \in Calls, Start(c) PROVE EffectInv'
  BY <1>1 DEF Start, Send
<1>2. ASSUME NEW c \in Calls, Busy(c) PROVE EffectInv'
  BY <1>2 DEF Busy, timers, page
<1>3. ASSUME NEW c \in Calls, Proceed(c) PROVE EffectInv'
  <2>1. CASE Return(c)
    <3>1. /\ Outcome[script[c]] = "ok" => script[c] = "done"
          /\ Outcome[script[c]] \in {"ok", "actionFailed", "crash"}
      BY <2>1 DEF Return, Outcome
    <3> QED
      BY <2>1, <3>1 DEF Return, Answer, timers, page
  <2>2. CASE Retry(c)
    BY <2>2 DEF Retry, page
  <2>3. CASE GiveUp(c)
    BY <2>3 DEF GiveUp, Answer, timers, page
  <2>4. CASE Resend(c)
    BY <2>4 DEF Resend, Send, timers
  <2>5. CASE Timeout(c)
    BY <2>5 DEF Timeout, Answer, timers, page
  <2>6. CASE Tick(c)
    BY <2>6 DEF Tick, page
  <2> QED
    BY <1>3, <2>1, <2>2, <2>3, <2>4, <2>5, <2>6 DEF Proceed
<1>4. ASSUME NEW c \in Calls, Page(c) PROVE EffectInv'
  BY <1>4 DEF Page, TakeEffect, End, timers
<1>5. CASE Navigation
  BY <1>5 DEF Navigation, Underway, timers
<1>6. CASE Crash
  BY <1>6 DEF Crash, Underway, timers
<1>7. CASE UNCHANGED vars
  BY <1>7 DEF vars, timers, page
<1> QED
  BY <1>1, <1>2, <1>3, <1>4, <1>5, <1>6, <1>7 DEF Next

\* A script is never run again but for a navigation that destroyed it, whatever
\* else fails, and never more often than the retries allow.
THEOREM OnlyLossesRepeat == Spec => []RepeatsExplained
<1>1. Init => Typed /\ EffectInv
  BY TypedInit, EffectInit
<1>2. Typed /\ EffectInv /\ [Next]_vars => (Typed /\ EffectInv)'
  BY TypedNext, EffectNext
<1>3. Typed /\ EffectInv => RepeatsExplained
  BY Bounds DEF Typed, TypeOK, EffectInv, Spent, RepeatsExplained
<1> QED
  BY <1>1, <1>2, <1>3, PTL DEF Spec

\* A call that answers 200 has had its last script run to its end, and lost every one
\* before it to a navigation: the loop never ends without a result.
THEOREM SuccessRan == Spec => []OkMeansRan
<1>1. Init => Typed /\ EffectInv
  BY TypedInit, EffectInit
<1>2. Typed /\ EffectInv /\ [Next]_vars => (Typed /\ EffectInv)'
  BY TypedNext, EffectNext
<1>3. Typed /\ EffectInv => OkMeansRan
  BY DEF EffectInv, Spent, OkMeansRan
<1> QED
  BY <1>1, <1>2, <1>3, PTL DEF Spec

-----------------------------------------------------------------------------
(* Pauses.  After n attempts a call has paused 1 + ... + (n - 1) ticks.          *)

\* Triangle numbers grow.
LEMMA TriangleGrows ==
  ASSUME NEW m \in Nat, NEW n \in Nat, n <= m
  PROVE  n * (n + 1) <= m * (m + 1)
<1>1. n * n <= m * n /\ m * n <= m * m
  BY SMT
<1>2. n * (n + 1) = n * n + n /\ m * (m + 1) = m * m + m
  BY SMT
<1> QED
  BY <1>1, <1>2, n * n \in Int, m * n \in Int, m * m \in Int, SMT

\* The attempts before the n-th paused for less than n attempts would.
LEMMA TriangleStep ==
  ASSUME NEW n \in Nat
  PROVE  (n + 1) * ((n + 1) - 1) = n * (n + 1) /\ n * (n + 1) \in Nat
BY SMT

Pausing(c) ==
  /\ pc[c] = "start" => paused[c] = 0
  /\ pc[c] = "evaluating" => 2 * paused[c] = attempt[c] * (attempt[c] - 1)
  /\ pc[c] = "pausing" =>
       2 * (paused[c] + pause[c]) = attempt[c] * (attempt[c] + 1)
  /\ 2 * paused[c] <= Retries * (Retries + 1)

PauseInv == \A c \in Calls : Pausing(c)

\* At first nobody has paused.
LEMMA PauseInit == Init => PauseInv
<1>1. 0 <= Retries * (Retries + 1)
  BY Bounds, TriangleStep
<1> QED
  BY <1>1 DEF Init, PauseInv, Pausing

\* Every step keeps the pauses within the triangle number of the retries.
LEMMA PauseNext == Typed /\ PauseInv /\ [Next]_vars => PauseInv'
<1> SUFFICES ASSUME Typed, PauseInv, [Next]_vars PROVE PauseInv'
  OBVIOUS
<1> USE Bounds DEF Typed, TypeOK, Ranges, PauseInv
<1>1. ASSUME NEW c \in Calls, UNCHANGED <<pause, paused>>,
             \A d \in Calls \ {c} : pc'[d] = pc[d] /\ attempt'[d] = attempt[d],
             Pausing(c)'
      PROVE  PauseInv'
  BY <1>1 DEF Pausing
<1>2. ASSUME NEW c \in Calls, Start(c) PROVE PauseInv'
  <2>1. Pausing(c)'
    BY <1>2 DEF Start, Send, Pausing
  <2> QED
    BY <1>1, <1>2, <2>1 DEF Start, Send
<1>3. ASSUME NEW c \in Calls, Return(c) \/ GiveUp(c) \/ Timeout(c) \/ Busy(c)
      PROVE  PauseInv'
  <2>1. pc'[c] = "answered" /\ UNCHANGED <<pause, paused, attempt>>
        /\ \A d \in Calls \ {c} : pc'[d] = pc[d]
    BY <1>3 DEF Return, GiveUp, Timeout, Busy, Answer, timers
  <2>2. Pausing(c)'
    BY <2>1 DEF Pausing
  <2> QED
    BY <1>1, <2>1, <2>2
<1>4. ASSUME NEW c \in Calls, Retry(c) PROVE PauseInv'
  <2> DEFINE n == attempt[c]
  <2>1. n \in Nat /\ n >= 1 /\ pause'[c] = n /\ pc'[c] = "pausing"
        /\ UNCHANGED <<paused, attempt>>
    BY <1>4 DEF Retry
  <2>2. n * (n - 1) + 2 * n = n * (n + 1)
    BY <2>1, SMT
  <2>3. 2 * (paused[c] + n) = 2 * paused[c] + 2 * n
    BY <2>1
  <2>4. Pausing(c)'
    BY <1>4, <2>1, <2>2, <2>3 DEF Pausing, Retry
  <2> QED
    BY <1>4, <2>4, <2>1 DEF Retry, Pausing
<1>5. ASSUME NEW c \in Calls, Resend(c) PROVE PauseInv'
  <2> DEFINE n == attempt[c]
  <2>1. n \in Nat /\ attempt'[c] = n + 1 /\ pc'[c] = "evaluating"
        /\ UNCHANGED <<pause, paused>> /\ pause[c] = 0
    BY <1>5 DEF Resend, Send, timers
  <2>2. (n + 1) * ((n + 1) - 1) = n * (n + 1)
    BY <2>1, TriangleStep
  <2>3. Pausing(c)'
    BY <1>5, <2>1, <2>2 DEF Pausing, Resend
  <2> QED
    BY <1>1, <1>5, <2>1, <2>3 DEF Resend, Send
<1>6. ASSUME NEW c \in Calls, Tick(c) PROVE PauseInv'
  <2>1. CASE pc[c] = "evaluating"
    BY <1>6, <2>1 DEF Tick, Pausing
  <2>2. CASE pc[c] = "pausing"
    <3> DEFINE n == attempt[c]
    <3>1. n \in Nat /\ n <= Retries /\ pause[c] \in Nat \ {0}
      BY <1>6, <2>2 DEF Tick, Due
    <3>2. n * (n + 1) <= Retries * (Retries + 1)
      BY <3>1, TriangleGrows
    <3>3. n * (n + 1) \in Nat /\ Retries * (Retries + 1) \in Nat
      BY <3>1, TriangleStep
    <3>4. paused'[c] = paused[c] + 1 /\ pause'[c] = pause[c] - 1
          /\ UNCHANGED <<pc, attempt>>
      BY <1>6, <2>2 DEF Tick
    <3>5. Pausing(c)'
      <4> HIDE DEF n
      <4>1. 2 * (paused[c] + pause[c]) = n * (n + 1)
        BY <2>2 DEF Pausing, n
      <4>2. /\ 2 * (paused'[c] + pause'[c]) = n * (n + 1)
            /\ 2 * paused'[c] <= Retries * (Retries + 1)
        BY <3>1, <3>2, <3>3, <3>4, <4>1
      <4> QED
        BY <2>2, <3>4, <4>2 DEF Pausing, n
    <3> QED
      BY <1>6, <2>2, <3>5, <3>4 DEF Tick, Pausing
  <2> QED
    BY <1>6, <2>1, <2>2 DEF Tick
<1>7. ASSUME UNCHANGED <<pc, attempt, pause, paused>> PROVE PauseInv'
  BY <1>7 DEF Pausing
<1>8. ASSUME NEW c \in Calls, Page(c) PROVE PauseInv'
  BY <1>7, <1>8 DEF Page, TakeEffect, End, timers
<1>9. CASE Navigation \/ Crash \/ UNCHANGED vars
  BY <1>7, <1>9 DEF Navigation, Crash, timers, vars
<1> QED
  BY <1>2, <1>3, <1>4, <1>5, <1>6, <1>8, <1>9 DEF Next, Proceed

\* For any number of retries the pauses of a call add up to no more than the
\* triangle number of quarter seconds: 1.5 s for the three retries of the code.
THEOREM PausesAddUp == Spec => []PausesBounded
<1>1. Init => Typed /\ PauseInv
  BY TypedInit, PauseInit
<1>2. Typed /\ PauseInv /\ [Next]_vars => (Typed /\ PauseInv)'
  BY TypedNext, PauseNext
<1>3. PauseInv => PausesBounded
  BY DEF PauseInv, Pausing, PausesBounded
<1> QED
  BY <1>1, <1>2, <1>3, PTL DEF Spec
=============================================================================
