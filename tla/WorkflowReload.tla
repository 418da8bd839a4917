--------------------------- MODULE WorkflowReload ---------------------------
(***************************************************************************)
(* The three places that know the workflows: the table in the database     *)
(* (internal/storage/sqlite/store.go), the registry                        *)
(* (internal/workflows/registry.go) and the rules of the engine            *)
(* (internal/workflows/engine.go).  EnableWorkflow, DisableWorkflow and    *)
(* ReloadWorkflows (internal/runtime/runtime.go) change one after the      *)
(* other, called by requests of the control API that run concurrently.     *)
(* A workflow is its id and whether it is enabled.                         *)
(***************************************************************************)
CONSTANTS Ids,          \* workflow ids
          Requests,     \* requests to the control API
          Config,       \* the workflows of the configuration
          Submissions   \* lists that a reload request may carry

States    == {"absent", "off", "on"}
Workflows == [Ids -> States]

ASSUME ConstantsAssumption ==
  /\ Config \in Workflows
  /\ Submissions \subseteq Workflows

VARIABLES
  storage,    \* the program runs with a database
  table,      \* the rows of the table workflows
  registry,   \* what r.workflowRegistry refers to
  rules,      \* the workflows whose rules the engine has
  request,    \* how far each request is, and the list it installs
  alone,      \* auxiliary: the last request, if no other one has overlapped it
  before,     \* auxiliary: what that request found when it began
  promise     \* auxiliary: what requests alone have installed last

vars == <<storage, table, registry, rules, request, alone, before, promise>>
aux  == <<alone, before, promise>>

Nothing == [i \in Ids |-> "absent"]
Unknown == [i \in Ids |-> "unknown"]

\* Registry.EnabledRules and Workflow.EnabledRules
EnabledRules(list) == {i \in Ids : list[i] = "on"}

\* Types of all variables: a request holds one complete list, and without a
\* database there are no rows.
TypeOK ==
  /\ storage \in BOOLEAN
  /\ table \in Workflows
  /\ storage \/ table = Nothing
  /\ registry \in Workflows
  /\ rules \in SUBSET Ids
  /\ request \in [Requests -> [at: {"idle", "replace", "install", "rules"},
                               list: Workflows]]
  /\ alone \in SUBSET Requests
  /\ before \in [table: Workflows, registry: Workflows, rules: SUBSET Ids]
  /\ promise \in [Ids -> States \cup {"unknown"}]

Now == [table |-> table, registry |-> registry, rules |-> rules]

----------------------------------------------------------------------------
\* Mutant of Restored: stored workflows are not looked at.
RestoredFromConfig(stored) == Config

\* New registers the configured workflows, openStorage those of the table under
\* other ids (Register refuses an id that exists).
Restored(stored) ==
  [i \in Ids |-> IF Config[i] # "absent" THEN Config[i] ELSE stored[i]]

\* SaveWorkflow of the configured workflows; its errors are ignored.
SavedConfig(stored, failed) ==
  [i \in Ids |-> IF Config[i] # "absent" /\ i \notin failed
                 THEN Config[i] ELSE stored[i]]

\* The first start: an empty table.
Init ==
  /\ storage \in BOOLEAN
  /\ \E failed \in SUBSET Ids :
        table = IF storage THEN SavedConfig(Nothing, failed) ELSE Nothing
  /\ registry = Config
  /\ rules = EnabledRules(Config)
  /\ request = [q \in Requests |-> [at |-> "idle", list |-> Nothing]]
  /\ alone = {}
  /\ before = [table |-> Nothing, registry |-> Nothing, rules |-> {}]
  /\ promise = Unknown

\* A request that begins takes back what others have promised, and it is alone
\* if no other one is on its way.
Begins(q, list) ==
  /\ request[q].at = "idle"
  /\ request' = [request EXCEPT ![q] = [at |-> "replace", list |-> list]]
  /\ IF \A p \in Requests : request[p].at = "idle"
     THEN alone' = {q} /\ before' = Now
     ELSE alone' = {} /\ before' = [table |-> Nothing, registry |-> Nothing, rules |-> {}]
  /\ promise' = Unknown
  /\ UNCHANGED <<storage, table, registry, rules>>

\* EnableWorkflow and DisableWorkflow read the whole list and change one entry;
\* an unknown id is an error that changes nothing.
Toggle(q) ==
  \E i \in Ids, s \in {"off", "on"} :
    /\ registry[i] # "absent"
    /\ Begins(q, [registry EXCEPT ![i] = s])

\* ReloadWorkflows with the list of the request; one that does not register (an
\* invalid or repeated workflow) is an error that changes nothing.
Reload(q) == \E list \in Submissions : Begins(q, list)

\* Store.ReplaceWorkflows: one transaction.  Without a database there is none.
Replace(q) ==
  /\ request[q].at = "replace"
  /\ request' = [request EXCEPT ![q].at = "install"]
  /\ table' = IF storage THEN request[q].list ELSE table
  /\ UNCHANGED <<storage, registry, rules, aux>>

\* Mutant of ReplaceFails: the registry is installed before the error is seen.
ReplaceFailsLate(q) ==
  /\ storage
  /\ request[q].at = "replace"
  /\ request' = [request EXCEPT ![q] = [at |-> "idle", list |-> Nothing]]
  /\ registry' = request[q].list
  /\ UNCHANGED <<storage, table, rules, aux>>

\* The transaction fails and ReloadWorkflows returns its error.
ReplaceFails(q) ==
  /\ storage
  /\ request[q].at = "replace"
  /\ request' = [request EXCEPT ![q] = [at |-> "idle", list |-> Nothing]]
  /\ UNCHANGED <<storage, table, registry, rules, aux>>

\* r.workflowRegistry = newRegistry
Install(q) ==
  /\ request[q].at = "install"
  /\ request' = [request EXCEPT ![q].at = "rules"]
  /\ registry' = request[q].list
  /\ UNCHANGED <<storage, table, rules, aux>>

\* Engine.SetRules with the rules of the new registry, and the answer.
SetRules(q) ==
  /\ request[q].at = "rules"
  /\ request' = [request EXCEPT ![q] = [at |-> "idle", list |-> Nothing]]
  /\ rules' = EnabledRules(request[q].list)
  /\ promise' = IF q \in alone THEN request[q].list ELSE promise
  /\ UNCHANGED <<storage, table, registry, alone, before>>

\* The program ends at any point and starts again.  If ListWorkflows fails, the
\* stored workflows are left out and nobody is told.
Restart ==
  \E loaded \in {FALSE, storage},
     failed \in SUBSET {i \in Ids : Config[i] # "absent"} :
    LET list == IF loaded THEN Restored(table) ELSE Config
    IN /\ registry' = list
       /\ rules' = EnabledRules(list)
       /\ table' = IF storage THEN SavedConfig(table, failed) ELSE table
       /\ request' = [q \in Requests |-> [at |-> "idle", list |-> Nothing]]
       /\ alone' = {}
       /\ before' = [table |-> Nothing, registry |-> Nothing, rules |-> {}]
       /\ promise' = [i \in Ids |-> IF loaded /\ Config[i] = "absent"
                                    THEN promise[i] ELSE "unknown"]
       /\ UNCHANGED storage

Next ==
  \/ \E q \in Requests : \/ Toggle(q) \/ Reload(q)
                         \/ Replace(q) \/ ReplaceFails(q)
                         \/ Install(q) \/ SetRules(q)
  \/ Restart

Spec == Init /\ [][Next]_vars

----------------------------------------------------------------------------
Ends(q) == request[q].at # "idle" /\ request'[q].at = "idle"

\* A request during which nothing else happens takes effect in the table, the
\* registry and the engine, or, if it fails, in none of them.
AllOrNothing ==
  [][\A q \in alone : Ends(q) /\ q \in alone' =>
        \/ /\ request[q].at = "rules"
           /\ storage => table' = request[q].list
           /\ registry' = request[q].list
           /\ rules' = EnabledRules(request[q].list)
        \/ /\ request[q].at = "replace"
           /\ [table |-> table', registry |-> registry', rules |-> rules'] = before
    ]_vars

\* What a request alone has installed is what the table, the registry and the
\* engine have until the next request begins, and for workflows that are not
\* configured through any number of restarts.  (Configured ones come back as they
\* are configured, and a start that cannot read the table promises nothing.)
PromiseIsKept ==
  \A i \in Ids : promise[i] # "unknown" =>
     /\ storage => table[i] = promise[i]
     /\ registry[i] = promise[i]
     /\ i \in rules <=> promise[i] = "on"
=============================================================================
