------------------------------ MODULE PluginSwitch ------------------------------
(***************************************************************************)
(* What one supervised plugin looks like from outside: it runs or not, a   *)
(* monitor watches it or not, and a monitor in its backoff will start it   *)
(* again.  It never starts by itself but on the strength of such a         *)
(* backoff, and only a monitor begins one.  PluginProcess implements this, *)
(* and each plugin on the board of PluginBoard behaves so.                 *)
(***************************************************************************)

VARIABLES
    running,    \* the plugin is shown as running
    watched,    \* some monitor waits for a process, or is about to
    back        \* some monitor is in its backoff

vars == <<running, watched, back>>

Init == running = FALSE /\ watched = FALSE /\ back = FALSE

\* A start brings a monitor along.
Starts == running' = TRUE /\ watched' = TRUE

Start == ~running /\ Starts /\ UNCHANGED back

\* A stop ends neither monitors nor backoffs.
Stop == running /\ running' = FALSE /\ UNCHANGED <<watched, back>>

\* A monitor finds a process dead, which need not be the one that runs: after a
\* stop and a start the monitors of earlier processes may still be there.
Falls ==
    /\ watched
    /\ running' = FALSE
    /\ watched' \in {watched, FALSE}
    /\ back' \in {back, TRUE}

\* A backoff is over; the start succeeds or not.
ComesBack ==
    /\ back
    /\ back' \in {back, FALSE}
    /\ Starts \/ UNCHANGED <<running, watched>>

Next == Start \/ Stop \/ Falls \/ ComesBack

Spec == Init /\ [][Next]_vars
=================================================================================
