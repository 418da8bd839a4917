---------------------------- MODULE MCControlStreams ----------------------------
(***************************************************************************)
(* Instance of ControlStreams for TLC: two senders, one of which is ahead  *)
(* of the other by more than the time that passes.                         *)
(***************************************************************************)
EXTENDS ControlStreams

MCStamps == {[at |-> 0, zone |-> 0], [at |-> 1, zone |-> 0], [at |-> 0, zone |-> 2]}
=================================================================================
