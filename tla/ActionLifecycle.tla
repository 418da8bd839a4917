----------------------------- MODULE ActionLifecycle -----------------------------
(***************************************************************************)
(* The life of an action: the gate (internal/actions/gate.go), the         *)
(* in-memory store (internal/actions/store.go), and the handlers of        *)
(* internal/runtime/runtime.go that request, approve, deny, execute and    *)
(* persist actions, up to shutdown and restart.                            *)
(*                                                                         *)
(* A handler runs in some goroutine (an HTTP handler, a plugin's stdout    *)
(* reader, a bus handler): a slot of Callers.  An execution runs in the    *)
(* goroutine executeActionAsync starts: a slot of Execs.  Between two      *)
(* lock-protected steps of one goroutine any other may run.                *)
(***************************************************************************)
EXTENDS Naturals, FiniteSets

CONSTANTS
    Modes,          \* runtime modes to start in
    PluginIds,      \* action ids plugins choose for their requests
    MaxSeq,         \* bound: workflow requests per process life
    Callers,        \* bound: handlers in progress at once
    Execs,          \* bound: executions in progress at once
    Persistent,     \* is a SQLite path configured?
    StorageFaults,  \* can a write to SQLite fail?
    MayRestart,     \* does the process come back after it ended?
    None

Risks    == {"low", "medium", "high"}
Verdicts == {"allowed", "confirmed", "denied"}
Outcomes == {"executed", "failed"}
WorkflowIds == 1..MaxSeq
Ids      == WorkflowIds \cup PluginIds
Operators == {"approve", "deny"}
Requests  == {"workflow", "plugin"}
Phases    == {"up", "draining", "closing", "closed"}

\* An action as the store and the database hold it.
Action == [risk : Risks, status : Verdicts \cup Outcomes]
\* A handler after its write to the store, with its copy of the action.
Caller == [op : Requests \cup Operators, at : {"persist", "publish"},
           id : Ids, act : Action]
\* An execution; op names the handler that started it.  One that goes to a plugin
\* is at "writing" until its request is in the plugin's stdin.
Exec   == [op : Requests \cup Operators, at : {"writing", "running", "persist"},
           id : Ids, act : Action]

ASSUME ModesAssumption   == Modes \subseteq {"dev", "local", "strict"}
ASSUME SeqAssumption     == MaxSeq \in Nat
ASSUME BooleanAssumption == {Persistent, StorageFaults, MayRestart} \subseteq BOOLEAN
ASSUME FiniteAssumption  == IsFiniteSet(Callers) /\ IsFiniteSet(Execs)
ASSUME NoneAssumption    == None \notin Action \cup Caller \cup Exec

VARIABLES
    mode,       \* Config.Mode
    phase,      \* how far shutdown has come
    seq,        \* Engine.idSeq, the source of workflow action ids
    mem,        \* actions.Store
    db,         \* the actions table
    caller,     \* handlers in progress
    exec,       \* executions in progress
    loaded      \* ids whose record in mem / db is still the one found at boot

vars == <<mode, phase, seq, mem, db, caller, exec, loaded>>

\* Gate.Decide for a valid action in a known mode.
Decide(m, risk) ==
    IF m = "dev" \/ (m = "local" /\ risk = "low") THEN "allowed"
    ELSE IF <<m, risk>> \in {<<"local", "medium">>, <<"strict", "low">>} THEN "confirmed"
    ELSE "denied"

Busy == {c \in Callers : caller[c] # None}
Free == {e \in Execs : exec[e] = None}

\* Operators are served until the control server is shut down, handlers of the bus
\* and of plugins run for as long as the process does.  The second conjunct is
\* the bound Execs: a handler arrives only if its execution has room.
Accepting(op) ==
    /\ op \in Operators => phase \in {"up", "draining"}
    /\ Cardinality(Free) > Cardinality(Busy)

\* Mutant of Write: a plugin's request is handled without saving it.
WriteSkipsPluginSave(c, op, id, act) ==
    /\ Accepting(op)
    /\ caller[c] = None
    /\ mem' = IF op = "plugin" THEN mem ELSE [mem EXCEPT ![id] = act]
    /\ loaded' = [loaded EXCEPT !.mem = @ \ {id}]
    /\ caller' = [caller EXCEPT ![c] =
                    [op |-> op, at |-> IF op = "plugin" THEN "publish" ELSE "persist",
                     id |-> id, act |-> act]]
    /\ UNCHANGED <<mode, phase, db, exec>>

\* Store.Save or Store.UpdateStatus; the handler goes on with its own copy.
Write(c, op, id, act) ==
    /\ Accepting(op)
    /\ caller[c] = None
    /\ mem' = [mem EXCEPT ![id] = act]
    /\ loaded' = [loaded EXCEPT !.mem = @ \ {id}]
    /\ caller' = [caller EXCEPT ![c] =
                    [op |-> op, at |-> IF op = "plugin" THEN "publish" ELSE "persist",
                     id |-> id, act |-> act]]
    /\ UNCHANGED <<mode, phase, db, exec>>

\* Mutant of WorkflowRequest: the counter is read but never advanced.
WorkflowRequestReusesId(c, risk) ==
    /\ seq < MaxSeq
    /\ UNCHANGED seq
    /\ Write(c, "workflow", seq + 1, [risk |-> risk, status |-> Decide(mode, risk)])

\* The engine names the action after its counter and calls RequestAction.
WorkflowRequest(c, risk) ==
    /\ seq < MaxSeq
    /\ seq' = seq + 1
    /\ Write(c, "workflow", seq + 1, [risk |-> risk, status |-> Decide(mode, risk)])

\* handleActionRequest: the plugin chooses the id; the action is not persisted.
PluginRequest(c, id, risk) ==
    /\ Write(c, "plugin", id, [risk |-> risk, status |-> Decide(mode, risk)])
    /\ UNCHANGED seq

\* ApproveAction and DenyAction: any stored action, whatever its status.
OperatorDecides(c, op, id) ==
    /\ mem[id] # None
    /\ Write(c, op, id, [mem[id] EXCEPT !.status =
                            IF op = "approve" THEN "allowed" ELSE "denied"])
    /\ UNCHANGED seq

\* persistAction: SaveAction's error is ignored, and a closed database only
\* gives errors.
SaveAction(id, act) ==
    \/ /\ Persistent /\ phase # "closed"
       /\ db' = [db EXCEPT ![id] = act]
       /\ loaded' = [loaded EXCEPT !.db = @ \ {id}]
    \/ /\ StorageFaults \/ ~Persistent \/ phase = "closed"
       /\ UNCHANGED <<db, loaded>>

PersistDecision(c) ==
    /\ caller[c] # None
    /\ caller[c].at = "persist"
    /\ SaveAction(caller[c].id, caller[c].act)
    /\ caller' = [caller EXCEPT ![c].at = "publish"]
    /\ UNCHANGED <<mode, phase, seq, mem, exec>>

\* Hand the caller's copy to a new goroutine: a workflow's own action runs at once,
\* any other is sent to a plugin.
Launch(c) ==
    \E e \in Free, at \in {"writing", "running"} :
        exec' = [exec EXCEPT ![e] = [op |-> caller[c].op, at |-> at,
                                     id |-> caller[c].id, act |-> caller[c].act]]

\* Mutant of PublishAndLaunch: an approval is announced but launches nothing.
PublishForgetsApproved(c) ==
    /\ caller[c] # None
    /\ caller[c].at = "publish"
    /\ IF caller[c].act.status = "allowed" /\ caller[c].op # "approve"
       THEN Launch(c) ELSE UNCHANGED exec
    /\ caller' = [caller EXCEPT ![c] = None]
    /\ UNCHANGED <<mode, phase, seq, mem, db, loaded>>

\* Mutant of PublishAndLaunch: every request is executed, whatever the verdict.
PublishLaunchesAll(c) ==
    /\ caller[c] # None
    /\ caller[c].at = "publish"
    /\ IF caller[c].op # "deny" THEN Launch(c) ELSE UNCHANGED exec
    /\ caller' = [caller EXCEPT ![c] = None]
    /\ UNCHANGED <<mode, phase, seq, mem, db, loaded>>

\* The event is published; an allowed action is handed to a new goroutine.
PublishAndLaunch(c) ==
    /\ caller[c] # None
    /\ caller[c].at = "publish"
    /\ IF caller[c].act.status = "allowed"
       THEN Launch(c) ELSE UNCHANGED exec
    /\ caller' = [caller EXCEPT ![c] = None]
    /\ UNCHANGED <<mode, phase, seq, mem, db, loaded>>

\* The write to the plugin's stdin returns.  No deadline covers it: the plugin must
\* read or die.
Written(e) ==
    /\ exec[e] # None
    /\ exec[e].at = "writing"
    /\ exec' = [exec EXCEPT ![e].at = "running"]
    /\ UNCHANGED <<mode, phase, seq, mem, db, loaded, caller>>

\* Mutant of FinishExecution: a failed execution is reported and tried again.
FinishRetriesFailed(e, outcome) ==
    /\ exec[e] # None
    /\ exec[e].at = "running"
    /\ mem[exec[e].id] # None
    /\ LET id == exec[e].id
           updated == [mem[id] EXCEPT !.status = outcome]
       IN /\ mem' = [mem EXCEPT ![id] = updated]
          /\ exec' = IF outcome = "failed" THEN exec
                     ELSE [exec EXCEPT ![e].at = "persist", ![e].act = updated]
          /\ loaded' = [loaded EXCEPT !.mem = @ \ {id}]
    /\ UNCHANGED <<mode, phase, seq, db, caller>>

\* The executor or the plugin answered, failed or timed out: UpdateStatus by
\* id, on whatever the store holds under that id now.
FinishExecution(e, outcome) ==
    /\ exec[e] # None
    /\ exec[e].at = "running"
    /\ mem[exec[e].id] # None
    /\ LET id == exec[e].id
           updated == [mem[id] EXCEPT !.status = outcome]
       IN /\ mem' = [mem EXCEPT ![id] = updated]
          /\ exec' = [exec EXCEPT ![e].at = "persist", ![e].act = updated]
          /\ loaded' = [loaded EXCEPT !.mem = @ \ {id}]
    /\ UNCHANGED <<mode, phase, seq, db, caller>>

\* Mutant of PersistOutcome: the outcome stays in memory.
PersistOutcomeForgotten(e) ==
    /\ exec[e] # None
    /\ exec[e].at = "persist"
    /\ exec' = [exec EXCEPT ![e] = None]
    /\ UNCHANGED <<mode, phase, seq, mem, db, loaded, caller>>

\* The outcome is persisted and announced; wg.Done.
PersistOutcome(e) ==
    /\ exec[e] # None
    /\ exec[e].at = "persist"
    /\ SaveAction(exec[e].id, exec[e].act)
    /\ exec' = [exec EXCEPT ![e] = None]
    /\ UNCHANGED <<mode, phase, seq, mem, caller>>

\* shutdown: the context is cancelled, wg.Wait returns, the control server
\* waits for its handlers, the database is closed.
Move(from, to) ==
    /\ phase = from
    /\ phase' = to
    /\ UNCHANGED <<mode, seq, mem, db, caller, exec, loaded>>

BeginShutdown == Move("up", "draining")
WaitReturns   == Free = Execs /\ Move("draining", "closing")
CloseStorage  ==
    /\ \A c \in Busy : caller[c].op \notin Operators
    /\ Move("closing", "closed")

\* The process ended, at any point, and openStorage fills the store again.
Restart ==
    /\ MayRestart
    /\ phase' = "up"
    /\ seq' = 0
    /\ mem' = db
    /\ caller' = [c \in Callers |-> None]
    /\ exec' = [e \in Execs |-> None]
    /\ loaded' = [mem |-> {id \in Ids : db[id] # None},
                  db  |-> {id \in Ids : db[id] # None}]
    /\ UNCHANGED <<mode, db>>

Init ==
    /\ mode \in Modes
    /\ phase = "up"
    /\ seq = 0
    /\ mem = [id \in Ids |-> None]
    /\ db  = [id \in Ids |-> None]
    /\ caller = [c \in Callers |-> None]
    /\ exec = [e \in Execs |-> None]
    /\ loaded = [mem |-> {}, db |-> {}]

Next ==
    \/ \E c \in Callers, risk \in Risks :
          \/ WorkflowRequest(c, risk)
          \/ \E id \in PluginIds : PluginRequest(c, id, risk)
    \/ \E c \in Callers, op \in Operators, id \in Ids : OperatorDecides(c, op, id)
    \/ \E c \in Callers : PersistDecision(c) \/ PublishAndLaunch(c)
    \/ \E e \in Execs : \/ Written(e)
                        \/ \E outcome \in Outcomes : FinishExecution(e, outcome)
                        \/ PersistOutcome(e)
    \/ BeginShutdown \/ WaitReturns \/ CloseStorage
    \/ Restart

\* Goroutines are scheduled, and an execution whose request is written ends: its
\* context has the deadline RequestTimeout.  Nothing makes a write end (Written),
\* and requests, shutdown and restarts need not happen.
Fairness ==
    /\ \A c \in Callers : WF_vars(PersistDecision(c)) /\ WF_vars(PublishAndLaunch(c))
    /\ \A e \in Execs : /\ WF_vars(\E outcome \in Outcomes : FinishExecution(e, outcome))
                        /\ WF_vars(PersistOutcome(e))

Spec == Init /\ [][Next]_vars
FairSpec == Spec /\ Fairness

----------------------------------------------------------------------------
\* Types of all variables: records in the store have a ruled status, goroutines
\* hold complete copies, and loaded only names known ids.
TypeOK ==
    /\ mode \in Modes
    /\ phase \in Phases
    /\ seq \in 0..MaxSeq
    /\ mem \in [Ids -> Action \cup {None}]
    /\ db \in [Ids -> Action \cup {None}]
    /\ caller \in [Callers -> Caller \cup {None}]
    /\ exec \in [Execs -> Exec \cup {None}]
    /\ loaded \in [mem : SUBSET Ids, db : SUBSET Ids]

StatusOf(table, id) == IF table[id] = None THEN "none" ELSE table[id].status

\* A handler that will start an execution of id.
Granting(c, id) == caller[c] # None /\ caller[c].id = id /\ caller[c].act.status = "allowed"
\* An execution that has no outcome yet.
Unfinished(e)   == exec[e] # None /\ exec[e].at \in {"writing", "running"}
Running(e, id)  == Unfinished(e) /\ exec[e].id = id

\* No action is left behind as "allowed": whoever wrote that status still has
\* to launch an execution of the action, or one is running and will replace the
\* status.  Only a record found at boot may say "allowed" with nobody at work.
\* (ApproveAction, RequestAction, executeActionAsync against each other.)
AllowedIsBeingExecuted ==
    \A id \in Ids :
        StatusOf(mem, id) = "allowed" =>
            \/ \E c \in Callers : Granting(c, id)
            \/ \E e \in Execs : Running(e, id)
            \/ id \in loaded.mem

\* The same for the actions table, where an outcome arrives later and writes of
\* several goroutines may arrive out of order: a persisted "allowed" is always
\* followed by the write of an outcome, unless writes fail or the database is
\* closed before it.  (persistAction's callers.)
PersistedAllowedIsFollowedUp ==
    (~StorageFaults /\ phase # "closed") =>
        \A id \in Ids :
            StatusOf(db, id) = "allowed" =>
                \/ \E c \in Callers : Granting(c, id) /\ caller[c].at = "publish"
                \/ \E e \in Execs : exec[e] # None /\ exec[e].id = id
                \/ id \in loaded.db

\* What is running was allowed by the gate for the risk of the copy that runs,
\* or approved by an operator, even if the stored record was replaced since.
\* (Gate.Decide and the guard of executeActionAsync's callers.)
GateRespected ==
    \A e \in Execs :
        Unfinished(e) =>
            \/ exec[e].op = "approve"
            \/ exec[e].op \in Requests /\ Decide(mode, exec[e].act.risk) = "allowed"

\* Handlers and executions always find their action in the store: UpdateStatus
\* in executeActionAsync never meets ErrActionNotFound.
WorkIsOnStoredActions ==
    /\ \A c \in Busy : mem[caller[c].id] # None
    /\ \A e \in Execs : exec[e] # None => mem[exec[e].id] # None

\* If id leaves its pause, an operator decided, or the process ended.
WaitsForOperator(id) ==
    (StatusOf(mem, id) = "confirmed" /\ StatusOf(mem, id)' # "confirmed") =>
        \/ \E c \in Callers, op \in Operators : OperatorDecides(c, op, id)
        \/ Restart

\* An action of a workflow that is paused for confirmation goes on only by an
\* operator's decision, as long as the process lives, plugins choose other ids and
\* no earlier start left actions.  (RequestAction's Save, UpdateStatus of a finished
\* execution, the engine's counter.)
PausedUntilDecided == [][\A id \in WorkflowIds : WaitsForOperator(id)]_vars

\* The pipeline implements the promise of ActionGrants: a handler past its write
\* of "allowed" is a grant, an execution before its outcome a run.
Grants == INSTANCE ActionGrants WITH
    status  <- [id \in Ids |-> StatusOf(mem, id)],
    grants  <- [id \in Ids |-> Cardinality({c \in Callers : Granting(c, id)})],
    running <- [id \in Ids |-> Cardinality({e \in Execs : Running(e, id)})]

\* Safety part: each run spends exactly one grant, under any interleaving.
ImplementsGrants == Grants!Init /\ [][Grants!Next]_(Grants!vars)

\* Plugins read what is written to them, or die.
PluginsRead == \A e \in Execs : []<>(exec[e] # None => exec[e].at # "writing")

\* The promise's liveness, as long as no write to a plugin blocks for good: every
\* grant is spent and every run ends with an outcome.  (executeActionAsync's
\* context, which covers everything but the write.)
EveryGrantEnds == PluginsRead => Grants!Fairness
=================================================================================
