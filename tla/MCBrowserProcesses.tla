-------------------------- MODULE MCBrowserProcesses --------------------------
(* A small instance of BrowserProcesses for TLC.  No symmetry: the run checks *)
(* liveness.                                                                  *)
EXTENDS BrowserProcesses
=============================================================================
