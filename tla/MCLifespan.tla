----------------------------- MODULE MCLifespan -----------------------------
(* A small instance of Lifespan: three creates for one slot, an action, a   *)
(* DELETE, a reset and the reaper, any two requests cancelled.               *)
EXTENDS Lifespan

Symmetry == Permutations(Creates)
=============================================================================
