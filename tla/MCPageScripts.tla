---------------------------- MODULE MCPageScripts -----------------------------
(* A small instance of PageScripts for TLC, and what the documents promise of *)
(* every call and the code does not keep.                                     *)
EXTENDS PageScripts

\* PLAN.md: an unresponsive page is bounded by the timeout of every call, so
\* every call that has begun is answered.
AllAnswered ==
  \A c \in Calls : pc[c] = "evaluating" ~> pc[c] = "answered"
=============================================================================
