-------------------------- MODULE MCWorkflowReload --------------------------
\* An instance of WorkflowReload: one workflow of the configuration, one that
\* comes and goes with reload requests.
EXTENDS WorkflowReload

CONSTANTS fixed, extra

Configured == [i \in Ids |-> IF i = fixed THEN "on" ELSE "absent"]
Lists == { [i \in Ids |-> IF i = fixed THEN "on" ELSE "off"],
           [i \in Ids |-> IF i = fixed THEN "absent" ELSE "on"] }
=============================================================================
