---------------------------- MODULE MCActionLifecycle ----------------------------
(***************************************************************************)
(* Instances of ActionLifecycle for TLC.                                   *)
(***************************************************************************)
EXTENDS ActionLifecycle, TLC

\* Handlers and executions are interchangeable (safety runs only).
Symmetry == Permutations(Callers) \cup Permutations(Execs)
=================================================================================
