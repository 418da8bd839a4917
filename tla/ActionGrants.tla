------------------------------ MODULE ActionGrants ------------------------------
(***************************************************************************)
(* What the action pipeline promises, without goroutines, storage or       *)
(* shutdown: an action runs only on the strength of a grant, a grant is    *)
(* spent by exactly one run, and an action shown as "allowed" has a grant  *)
(* or a run behind it.  A grant is given by the gate (status allowed at    *)
(* the request) or by an operator (approve).                               *)
(***************************************************************************)
EXTENDS Naturals

CONSTANT Ids                \* the identifiers an action can have

VARIABLES
    status,                 \* the status readers of the store see
    grants,                 \* grants given and not yet spent, per action
    running                 \* runs in progress, per action

vars == <<status, grants, running>>

Verdict == {"allowed", "confirmed", "denied"}
Outcome == {"executed", "failed"}
Status  == Verdict \cup Outcome \cup {"none"}

Init ==
    /\ status  = [id \in Ids |-> "none"]
    /\ grants  = [id \in Ids |-> 0]
    /\ running = [id \in Ids |-> 0]

\* The gate or an operator decides; "allowed" is a grant.
Rule(id, verdict) ==
    /\ status' = [status EXCEPT ![id] = verdict]
    /\ grants' = IF verdict = "allowed"
                 THEN [grants EXCEPT ![id] = @ + 1]
                 ELSE grants
    /\ UNCHANGED running

\* A run spends a grant.
Start(id) ==
    /\ grants[id] > 0
    /\ grants'  = [grants EXCEPT ![id] = @ - 1]
    /\ running' = [running EXCEPT ![id] = @ + 1]
    /\ UNCHANGED status

\* A run ends and its outcome is visible.
Finish(id, outcome) ==
    /\ running[id] > 0
    /\ running' = [running EXCEPT ![id] = @ - 1]
    /\ status'  = [status EXCEPT ![id] = outcome]
    /\ UNCHANGED grants

\* The process ends: grants and runs are gone, readers may see old statuses.
Crash ==
    /\ status' \in [Ids -> Status]
    /\ grants'  = [id \in Ids |-> 0]
    /\ running' = [id \in Ids |-> 0]

Next ==
    \/ \E id \in Ids, verdict \in Verdict : Rule(id, verdict)
    \/ \E id \in Ids : Start(id)
    \/ \E id \in Ids, outcome \in Outcome : Finish(id, outcome)
    \/ Crash

\* Grants are spent and runs end unless the process does.
Fairness ==
    \A id \in Ids :
        /\ WF_vars(Start(id))
        /\ WF_vars(\E outcome \in Outcome : Finish(id, outcome))

Spec == Init /\ [][Next]_vars /\ Fairness
=================================================================================
