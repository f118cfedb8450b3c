--------------------------- MODULE MCElementActions ----------------------------
(* A small instance of ElementActions for TLC. *)
EXTENDS ElementActions
=============================================================================
