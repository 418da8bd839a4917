------------------------------- MODULE MCEventBus -------------------------------
(***************************************************************************)
(* An instance of EventBus for TLC: two events of different types.         *)
(***************************************************************************)
EXTENDS EventBus

CONSTANTS p1, p2, message, status

MCPubs   == {p1, p2}
MCTypes  == {message, status}
MCTypeOf == [p \in MCPubs |-> IF p = p1 THEN message ELSE status]
=================================================================================
