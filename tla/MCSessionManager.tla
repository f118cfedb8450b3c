--------------------------- MODULE MCSessionManager ---------------------------
(* Small instances of SessionManager for TLC: symmetry, and the statements  *)
(* of the repository's documents that the code does not keep.               *)
EXTENDS SessionRefinement

Symmetry ==
  UNION {Permutations(S) : S \in {Creates, Actions, Deletes, Probes, Resets}}

-----------------------------------------------------------------------------
(* What the documents say and the code does not keep.  CapRespected is the   *)
(* second: PLAN.md:172 states it without an exception.                       *)

\* "Explicit deletion never tombstones" (SPEC.md:365): an id whose DELETE was
\* answered 204 does not answer "expired".  The reaper sees the lock free when it
\* is promised to a waiting DELETE, queues behind it and reaps what it deleted.
DeletedNeverExpires ==
  \A d \in Deletes : reply[d] = "deleted" => Gone(tgt[d]) = "unknown"

=============================================================================
