-------------------------- MODULE ActionLifecycleProofs --------------------------
(***************************************************************************)
(* Theorems about ActionLifecycle, for any number of handlers, executions  *)
(* and actions, with or without storage, write errors and restarts.        *)
(***************************************************************************)
EXTENDS ActionLifecycle, FiniteSetTheorems, TLAPS

\* The verdict of the gate is one of the three, whatever the mode and risk.
LEMMA DecideVerdict == \A m, risk : Decide(m, risk) \in Verdicts
  BY DEF Decide, Verdicts

\* Every step of a handler's first write keeps the types.
LEMMA WriteTyped ==
  ASSUME TypeOK, NEW c \in Callers, NEW op \in Requests \cup Operators,
         NEW id \in Ids, NEW act \in Action, Write(c, op, id, act),
         seq' \in 0..MaxSeq
  PROVE  TypeOK'
  BY DEF TypeOK, Write, Accepting, Caller, Phases

\* A save to the database keeps its types.
LEMMA SaveTyped ==
  ASSUME TypeOK, NEW id \in Ids, NEW act \in Action, SaveAction(id, act)
  PROVE  /\ db' \in [Ids -> Action \cup {None}]
         /\ loaded' \in [mem : SUBSET Ids, db : SUBSET Ids]
  BY DEF TypeOK, SaveAction

\* A write to a plugin that returns changes the place of its execution only.
LEMMA WrittenIsQuiet ==
  ASSUME TypeOK, NEW e \in Execs, Written(e)
  PROVE  /\ UNCHANGED <<mode, phase, seq, mem, db, loaded, caller>>
         /\ exec' \in [Execs -> Exec \cup {None}]
         /\ \A d \in Execs :
               /\ exec'[d] = None <=> exec[d] = None
               /\ exec[d] # None =>
                     exec'[d].op = exec[d].op /\ exec'[d].id = exec[d].id /\ exec'[d].act = exec[d].act
               /\ Unfinished(d)' <=> Unfinished(d)
               /\ (exec'[d] # None /\ exec'[d].at = "persist") => exec'[d] = exec[d]
<1> USE NoneAssumption
<1>1. exec[e] \in Exec
  BY DEF Written, TypeOK
<1>2. exec'[e] = [exec[e] EXCEPT !.at = "running"] /\ \A d \in Execs \ {e} : exec'[d] = exec[d]
  BY DEF Written, TypeOK
<1>3. exec'[e] \in Exec /\ exec'[e].at = "running"
  BY <1>1, <1>2 DEF Exec
<1>4. /\ exec'[e].op = exec[e].op /\ exec'[e].id = exec[e].id /\ exec'[e].act = exec[e].act
      /\ exec'[e] # None /\ exec[e] # None /\ exec[e].at = "writing"
  BY <1>1, <1>2, <1>3 DEF Exec, Written
<1>5. UNCHANGED <<mode, phase, seq, mem, db, loaded, caller>> /\ exec' \in [Execs -> Exec \cup {None}]
  BY <1>1, <1>3 DEF Written, TypeOK, Exec
<1>6. Unfinished(e)' /\ Unfinished(e)
  BY <1>3, <1>4 DEF Unfinished
<1>7. \A d \in Execs \ {e} : Unfinished(d)' <=> Unfinished(d)
  BY <1>2 DEF Unfinished
<1> QED BY <1>2, <1>3, <1>4, <1>5, <1>6, <1>7

\* The store, the database and the goroutines only ever hold well-formed
\* records (TypeOK), for every value of the constants.
THEOREM Typing == Spec => []TypeOK
<1> USE SeqAssumption, NoneAssumption
<1>1. Init => TypeOK
  BY DEF Init, TypeOK, Phases
<1>2. ASSUME TypeOK, [Next]_vars PROVE TypeOK'
  <2>1. ASSUME NEW c \in Callers, NEW risk \in Risks, WorkflowRequest(c, risk)
        PROVE  TypeOK'
    <3>1. seq + 1 \in Ids /\ seq' \in 0..MaxSeq
      BY <1>2, <2>1 DEF WorkflowRequest, TypeOK, Ids, WorkflowIds
    <3>2. [risk |-> risk, status |-> Decide(mode, risk)] \in Action
      BY DecideVerdict DEF Action
    <3> QED BY <1>2, <2>1, <3>1, <3>2, WriteTyped DEF WorkflowRequest, Requests
  <2>2. ASSUME NEW c \in Callers, NEW risk \in Risks, NEW id \in PluginIds,
               PluginRequest(c, id, risk)
        PROVE  TypeOK'
    <3>1. id \in Ids /\ seq' \in 0..MaxSeq
      BY <1>2, <2>2 DEF PluginRequest, TypeOK, Ids, WorkflowIds
    <3>2. [risk |-> risk, status |-> Decide(mode, risk)] \in Action
      BY DecideVerdict DEF Action
    <3> QED BY <1>2, <2>2, <3>1, <3>2, WriteTyped DEF PluginRequest, Requests
  <2>3. ASSUME NEW c \in Callers, NEW op \in Operators, NEW id \in Ids,
               OperatorDecides(c, op, id)
        PROVE  TypeOK'
    <3>1. mem[id] \in Action
      BY <1>2, <2>3 DEF OperatorDecides, TypeOK
    <3>2. [mem[id] EXCEPT !.status =
              IF op = "approve" THEN "allowed" ELSE "denied"] \in Action
      BY <3>1 DEF Action, Verdicts
    <3> QED BY <1>2, <2>3, <3>2, WriteTyped DEF OperatorDecides, TypeOK
  <2>4. ASSUME NEW c \in Callers, PersistDecision(c) PROVE TypeOK'
    <3>1. caller[c] \in Caller
      BY <1>2, <2>4 DEF PersistDecision, TypeOK
    <3>2. /\ db' \in [Ids -> Action \cup {None}]
          /\ loaded' \in [mem : SUBSET Ids, db : SUBSET Ids]
      BY <1>2, <2>4, <3>1, SaveTyped DEF PersistDecision, Caller
    <3>3. caller' \in [Callers -> Caller \cup {None}]
      BY <1>2, <2>4, <3>1 DEF PersistDecision, TypeOK, Caller
    <3> QED BY <1>2, <2>4, <3>2, <3>3 DEF PersistDecision, TypeOK
  <2>5. ASSUME NEW c \in Callers, PublishAndLaunch(c) PROVE TypeOK'
    <3>1. caller[c] \in Caller
      BY <1>2, <2>5 DEF PublishAndLaunch, TypeOK
    <3>2. exec' \in [Execs -> Exec \cup {None}]
      BY <1>2, <2>5, <3>1 DEF PublishAndLaunch, Launch, Free, TypeOK, Caller, Exec
    <3> QED BY <1>2, <2>5, <3>2 DEF PublishAndLaunch, TypeOK
  <2>6. ASSUME NEW e \in Execs, NEW outcome \in Outcomes, FinishExecution(e, outcome)
        PROVE  TypeOK'
    <3>1. exec[e] \in Exec /\ exec[e].id \in Ids
      BY <1>2, <2>6 DEF FinishExecution, TypeOK, Exec
    <3>2. mem[exec[e].id] \in Action
      BY <1>2, <2>6, <3>1 DEF FinishExecution, TypeOK
    <3>3. [mem[exec[e].id] EXCEPT !.status = outcome] \in Action
      BY <3>2 DEF Action
    <3>4. exec' \in [Execs -> Exec \cup {None}]
      BY <1>2, <2>6, <3>1, <3>3 DEF FinishExecution, TypeOK, Exec
    <3> QED BY <1>2, <2>6, <3>1, <3>3, <3>4 DEF FinishExecution, TypeOK
  <2>7. ASSUME NEW e \in Execs, PersistOutcome(e) PROVE TypeOK'
    <3>1. exec[e] \in Exec
      BY <1>2, <2>7 DEF PersistOutcome, TypeOK
    <3>2. /\ db' \in [Ids -> Action \cup {None}]
          /\ loaded' \in [mem : SUBSET Ids, db : SUBSET Ids]
      BY <1>2, <2>7, <3>1, SaveTyped DEF PersistOutcome, Exec
    <3> QED BY <1>2, <2>7, <3>2 DEF PersistOutcome, TypeOK
  <2>8. CASE BeginShutdown \/ WaitReturns \/ CloseStorage
    BY <1>2, <2>8 DEF BeginShutdown, WaitReturns, CloseStorage, Move, TypeOK, Phases
  <2>9. CASE Restart
    BY <1>2, <2>9 DEF Restart, TypeOK, Phases
  <2>10. CASE UNCHANGED vars
    BY <1>2, <2>10 DEF vars, TypeOK
  <2>11. ASSUME NEW e \in Execs, Written(e) PROVE TypeOK'
    BY <1>2, <2>11, WrittenIsQuiet DEF TypeOK
  <2> QED
    BY <1>2, <2>1, <2>2, <2>3, <2>4, <2>5, <2>6, <2>7, <2>8, <2>9, <2>10, <2>11 DEF Next
<1> QED BY <1>1, <1>2, PTL DEF Spec

----------------------------------------------------------------------------
(* AllowedIsBeingExecuted is inductive over TypeOK: every write of          *)
(* "allowed" to the store leaves the writing handler behind it, that        *)
(* handler leaves only by launching an execution, and an execution leaves   *)
(* "running" only by overwriting the status.                                *)

\* A write to the store keeps the invariant: the writer itself is the handler
\* that will launch, and nobody else's grant or run is touched.
LEMMA WriteKeepsAllowed ==
  ASSUME TypeOK, AllowedIsBeingExecuted,
         NEW c \in Callers, NEW op \in Requests \cup Operators,
         NEW id \in Ids, NEW act \in Action, Write(c, op, id, act)
  PROVE  AllowedIsBeingExecuted'
<1> USE NoneAssumption
<1> SUFFICES ASSUME NEW i \in Ids, StatusOf(mem, i)' = "allowed"
             PROVE  \/ \E d \in Callers : Granting(d, i)'
                    \/ \E e \in Execs : Running(e, i)'
                    \/ i \in loaded'.mem
  BY DEF AllowedIsBeingExecuted
<1>1. CASE i = id
  <2>1. act.status = "allowed"
    BY <1>1 DEF Write, StatusOf, TypeOK
  <2>2. Granting(c, i)'
    BY <1>1, <2>1 DEF Write, Granting, TypeOK, Caller
  <2> QED BY <2>2
<1>2. CASE i # id
  <2>1. StatusOf(mem, i) = "allowed"
    BY <1>2 DEF Write, StatusOf, TypeOK
  <2>2. \A d \in Callers : Granting(d, i) => Granting(d, i)'
    BY DEF Write, Granting, TypeOK
  <2>3. \A e \in Execs : Running(e, i) => Running(e, i)'
    BY DEF Write, Running, Unfinished
  <2>4. i \in loaded.mem => i \in loaded'.mem
    BY <1>2 DEF Write, TypeOK
  <2> QED BY <2>1, <2>2, <2>3, <2>4 DEF AllowedIsBeingExecuted
<1> QED BY <1>1, <1>2

\* No action is left behind as "allowed" in the store, with any number of
\* handlers and executions, write errors and restarts.
THEOREM AllowedTheorem == Spec => []AllowedIsBeingExecuted
<1> USE NoneAssumption
<1>1. Init => AllowedIsBeingExecuted
  BY DEF Init, AllowedIsBeingExecuted, StatusOf
<1>2. ASSUME TypeOK, AllowedIsBeingExecuted, [Next]_vars
      PROVE  AllowedIsBeingExecuted'
  <2>1. ASSUME NEW c \in Callers, NEW risk \in Risks, WorkflowRequest(c, risk)
        PROVE  AllowedIsBeingExecuted'
    <3>1. seq + 1 \in Ids
      BY <1>2, <2>1, SeqAssumption DEF WorkflowRequest, TypeOK, Ids, WorkflowIds
    <3>2. [risk |-> risk, status |-> Decide(mode, risk)] \in Action
      BY DecideVerdict DEF Action
    <3> QED BY <1>2, <2>1, <3>1, <3>2, WriteKeepsAllowed DEF WorkflowRequest, Requests
  <2>2. ASSUME NEW c \in Callers, NEW risk \in Risks, NEW id \in PluginIds,
               PluginRequest(c, id, risk)
        PROVE  AllowedIsBeingExecuted'
    <3>1. id \in Ids
      BY DEF Ids, WorkflowIds
    <3>2. [risk |-> risk, status |-> Decide(mode, risk)] \in Action
      BY DecideVerdict DEF Action
    <3> QED BY <1>2, <2>2, <3>1, <3>2, WriteKeepsAllowed DEF PluginRequest, Requests
  <2>3. ASSUME NEW c \in Callers, NEW op \in Operators, NEW id \in Ids,
               OperatorDecides(c, op, id)
        PROVE  AllowedIsBeingExecuted'
    <3>1. mem[id] \in Action
      BY <1>2, <2>3 DEF OperatorDecides, TypeOK
    <3>2. [mem[id] EXCEPT !.status =
              IF op = "approve" THEN "allowed" ELSE "denied"] \in Action
      BY <3>1 DEF Action, Verdicts
    <3> QED BY <1>2, <2>3, <3>2, WriteKeepsAllowed DEF OperatorDecides
  <2>4. ASSUME NEW c \in Callers, PersistDecision(c)
        PROVE  AllowedIsBeingExecuted'
    <3>1. \A d \in Callers, i \in Ids : Granting(d, i) => Granting(d, i)'
      BY <1>2, <2>4 DEF PersistDecision, Granting, TypeOK, Caller
    <3>2. loaded'.mem = loaded.mem
      BY <1>2, <2>4 DEF PersistDecision, SaveAction, TypeOK
    <3> QED BY <1>2, <2>4, <3>1, <3>2
            DEF PersistDecision, AllowedIsBeingExecuted, StatusOf, Running, Unfinished
  <2>5. ASSUME NEW c \in Callers, PublishAndLaunch(c)
        PROVE  AllowedIsBeingExecuted'
    <3>1. \A e \in Execs, i \in Ids : Running(e, i) => Running(e, i)'
      BY <1>2, <2>5 DEF PublishAndLaunch, Launch, Free, Running, Unfinished, TypeOK
    <3>2. \A i \in Ids : Granting(c, i) => \E e \in Execs : Running(e, i)'
      <4> SUFFICES ASSUME NEW i \in Ids, Granting(c, i)
                   PROVE  \E e \in Execs : Running(e, i)'
        OBVIOUS
      <4>1. caller[c] \in Caller /\ caller[c].id = i /\ caller[c].act.status = "allowed"
        BY <1>2 DEF Granting, TypeOK
      <4>2. PICK e \in Free, at \in {"writing", "running"} :
              exec' = [exec EXCEPT ![e] = [op |-> caller[c].op, at |-> at,
                                           id |-> caller[c].id, act |-> caller[c].act]]
        BY <2>5, <4>1 DEF PublishAndLaunch, Launch
      <4>3. exec'[e] = [op |-> caller[c].op, at |-> at,
                        id |-> caller[c].id, act |-> caller[c].act]
        BY <1>2, <4>2 DEF Free, TypeOK
      <4>4. exec'[e] \in Exec
        BY <4>1, <4>3 DEF Caller, Exec
      <4>5. Running(e, i)'
        BY <4>1, <4>3, <4>4 DEF Running, Unfinished
      <4> QED BY <4>2, <4>5 DEF Free
    <3>3. \A d \in Callers \ {c}, i \in Ids : Granting(d, i) => Granting(d, i)'
      BY <1>2, <2>5 DEF PublishAndLaunch, Granting, TypeOK
    <3> QED BY <1>2, <2>5, <3>1, <3>2, <3>3
            DEF PublishAndLaunch, AllowedIsBeingExecuted, StatusOf
  <2>6. ASSUME NEW e \in Execs, NEW outcome \in Outcomes, FinishExecution(e, outcome)
        PROVE  AllowedIsBeingExecuted'
    <3>0. PICK id \in Ids : id = exec[e].id
      BY <1>2, <2>6 DEF FinishExecution, TypeOK, Exec
    <3>1. exec[e] \in Exec /\ id \in Ids /\ mem[id] \in Action
      BY <1>2, <2>6, <3>0 DEF FinishExecution, TypeOK, Exec
    <3>2. StatusOf(mem, id)' # "allowed"
      BY <1>2, <2>6, <3>0, <3>1 DEF FinishExecution, StatusOf, TypeOK, Action, Outcomes
    <3>3. ASSUME NEW i \in Ids, StatusOf(mem, i)' = "allowed"
          PROVE  \/ \E d \in Callers : Granting(d, i)'
                 \/ \E d \in Execs : Running(d, i)'
                 \/ i \in loaded'.mem
      <4>1. i # id
        BY <3>2, <3>3
      <4>2. /\ StatusOf(mem, i) = "allowed"
            /\ i \in loaded.mem => i \in loaded'.mem
        BY <1>2, <2>6, <3>0, <3>1, <3>3, <4>1 DEF FinishExecution, StatusOf, TypeOK
      <4>3. \A d \in Execs : Running(d, i) => Running(d, i)'
        BY <1>2, <2>6, <3>0, <4>1 DEF FinishExecution, Running, Unfinished, TypeOK
      <4>4. \A d \in Callers : Granting(d, i) => Granting(d, i)'
        BY <2>6 DEF FinishExecution, Granting
      <4> QED BY <1>2, <4>2, <4>3, <4>4 DEF AllowedIsBeingExecuted
    <3> QED BY <3>3 DEF AllowedIsBeingExecuted
  <2>7. ASSUME NEW e \in Execs, PersistOutcome(e)
        PROVE  AllowedIsBeingExecuted'
    <3>1. \A d \in Execs, i \in Ids : Running(d, i) => Running(d, i)'
      BY <1>2, <2>7 DEF PersistOutcome, Running, Unfinished, TypeOK
    <3>2. loaded'.mem = loaded.mem
      BY <1>2, <2>7 DEF PersistOutcome, SaveAction, TypeOK
    <3> QED BY <1>2, <2>7, <3>1, <3>2
            DEF PersistOutcome, AllowedIsBeingExecuted, StatusOf, Granting
  <2>8. CASE BeginShutdown \/ WaitReturns \/ CloseStorage
    BY <1>2, <2>8 DEF BeginShutdown, WaitReturns, CloseStorage, Move,
                      AllowedIsBeingExecuted, StatusOf, Granting, Running, Unfinished
  <2>9. CASE Restart
    <3>1. \A i \in Ids : StatusOf(mem, i)' = "allowed" => i \in loaded'.mem
      BY <1>2, <2>9 DEF Restart, StatusOf, TypeOK
    <3> QED BY <3>1 DEF AllowedIsBeingExecuted
  <2>10. CASE UNCHANGED vars
    BY <1>2, <2>10 DEF vars, AllowedIsBeingExecuted, StatusOf, Granting, Running, Unfinished
  <2>11. ASSUME NEW e \in Execs, Written(e) PROVE AllowedIsBeingExecuted'
    <3>1. \A d \in Execs, i \in Ids : Running(d, i) => Running(d, i)'
      BY <1>2, <2>11, WrittenIsQuiet DEF Running, Unfinished
    <3> QED BY <1>2, <2>11, <3>1, WrittenIsQuiet DEF AllowedIsBeingExecuted, StatusOf, Granting
  <2> QED
    BY <1>2, <2>1, <2>2, <2>3, <2>4, <2>5, <2>6, <2>7, <2>8, <2>9, <2>10, <2>11 DEF Next
<1> QED BY <1>1, <1>2, Typing, PTL DEF Spec

----------------------------------------------------------------------------
(* GateRespected speaks of executions only; it is inductive together with   *)
(* the same fact about the handlers that will launch them.                  *)

Authorised(g) ==
    \/ g.op = "approve"
    \/ g.op \in Requests /\ Decide(mode, g.act.risk) = "allowed"

GateInv ==
    /\ GateRespected
    /\ \A c \in Callers :
          (caller[c] # None /\ caller[c].act.status = "allowed") => Authorised(caller[c])

\* A handler's write keeps it if the handler itself is authorised.
LEMMA WriteKeepsGate ==
  ASSUME TypeOK, GateInv,
         NEW c \in Callers, NEW op \in Requests \cup Operators,
         NEW id \in Ids, NEW act \in Action, Write(c, op, id, act),
         act.status = "allowed" =>
            (op = "approve" \/ (op \in Requests /\ Decide(mode, act.risk) = "allowed"))
  PROVE  GateInv'
<1> USE NoneAssumption
<1>1. GateRespected'
  BY DEF GateInv, GateRespected, Unfinished, Write, Decide
<1>2. ASSUME NEW d \in Callers, caller'[d] # None, caller'[d].act.status = "allowed"
      PROVE  Authorised(caller[d])'
  <2>1. CASE d = c
    BY <1>2, <2>1 DEF Write, TypeOK, Authorised, Decide
  <2>2. CASE d # c
    BY <1>2, <2>2 DEF Write, TypeOK, GateInv, Authorised, Decide
  <2> QED BY <2>1, <2>2
<1> QED BY <1>1, <1>2 DEF GateInv

\* Whatever runs was allowed by the gate for its own risk or approved by an
\* operator, in every mode and whatever happened to the stored record since.
THEOREM GateTheorem == Spec => []GateRespected
<1> USE NoneAssumption
<1>1. Init => GateInv
  BY DEF Init, GateInv, GateRespected, Unfinished
<1>2. ASSUME TypeOK, GateInv, [Next]_vars PROVE GateInv'
  <2>1. ASSUME NEW c \in Callers, NEW risk \in Risks, WorkflowRequest(c, risk)
        PROVE  GateInv'
    <3>1. seq + 1 \in Ids
      BY <1>2, <2>1, SeqAssumption DEF WorkflowRequest, TypeOK, Ids, WorkflowIds
    <3>2. [risk |-> risk, status |-> Decide(mode, risk)] \in Action
      BY DecideVerdict DEF Action
    <3> QED BY <1>2, <2>1, <3>1, <3>2, WriteKeepsGate DEF WorkflowRequest, Requests
  <2>2. ASSUME NEW c \in Callers, NEW risk \in Risks, NEW id \in PluginIds,
               PluginRequest(c, id, risk)
        PROVE  GateInv'
    <3>1. id \in Ids
      BY DEF Ids, WorkflowIds
    <3>2. [risk |-> risk, status |-> Decide(mode, risk)] \in Action
      BY DecideVerdict DEF Action
    <3> QED BY <1>2, <2>2, <3>1, <3>2, WriteKeepsGate DEF PluginRequest, Requests
  <2>3. ASSUME NEW c \in Callers, NEW op \in Operators, NEW id \in Ids,
               OperatorDecides(c, op, id)
        PROVE  GateInv'
    <3>1. mem[id] \in Action
      BY <1>2, <2>3 DEF OperatorDecides, TypeOK
    <3> DEFINE act == [mem[id] EXCEPT !.status =
                          IF op = "approve" THEN "allowed" ELSE "denied"]
    <3>2. act \in Action /\ (act.status = "allowed" => op = "approve")
      BY <3>1 DEF Action, Verdicts
    <3>3. Write(c, op, id, act)
      BY <2>3 DEF OperatorDecides
    <3> HIDE DEF act
    <3> QED BY <1>2, <3>2, <3>3, WriteKeepsGate
  <2>4. ASSUME NEW c \in Callers, PersistDecision(c) PROVE GateInv'
    <3>1. \A d \in Callers : caller'[d] # None =>
            /\ caller[d] # None
            /\ caller'[d].op = caller[d].op
            /\ caller'[d].act = caller[d].act
      BY <1>2, <2>4 DEF PersistDecision, TypeOK, Caller
    <3> QED BY <1>2, <2>4, <3>1
            DEF PersistDecision, GateInv, GateRespected, Unfinished, Authorised, Decide
  <2>5. ASSUME NEW c \in Callers, PublishAndLaunch(c) PROVE GateInv'
    <3>1. \A d \in Callers : caller'[d] # None => caller'[d] = caller[d]
      BY <1>2, <2>5 DEF PublishAndLaunch, TypeOK
    <3>2. ASSUME NEW e \in Execs, Unfinished(e)', exec'[e] # exec[e]
          PROVE  Authorised(exec[e])'
      <4>1. caller[c] \in Caller /\ caller[c].act.status = "allowed" /\ Launch(c)
        BY <1>2, <2>5, <3>2 DEF PublishAndLaunch, TypeOK
      <4>2. exec'[e].op = caller[c].op /\ exec'[e].act = caller[c].act
        BY <1>2, <3>2, <4>1 DEF Launch, Free, TypeOK
      <4> QED BY <1>2, <2>5, <4>1, <4>2
              DEF PublishAndLaunch, GateInv, Authorised, Decide
    <3> QED BY <1>2, <2>5, <3>1, <3>2
            DEF PublishAndLaunch, GateInv, GateRespected, Unfinished, Authorised, Decide
  <2>6. ASSUME NEW e \in Execs, NEW outcome \in Outcomes, FinishExecution(e, outcome)
        PROVE  GateInv'
    <3>1. \A d \in Execs : Unfinished(d)' => exec'[d] = exec[d]
      BY <1>2, <2>6 DEF FinishExecution, TypeOK, Exec, Unfinished
    <3> QED BY <1>2, <2>6, <3>1
            DEF FinishExecution, GateInv, GateRespected, Unfinished, Authorised, Decide
  <2>7. ASSUME NEW e \in Execs, PersistOutcome(e) PROVE GateInv'
    <3>1. \A d \in Execs : exec'[d] # None => exec'[d] = exec[d]
      BY <1>2, <2>7 DEF PersistOutcome, TypeOK
    <3> QED BY <1>2, <2>7, <3>1
            DEF PersistOutcome, GateInv, GateRespected, Unfinished, Authorised, Decide
  <2>8. CASE BeginShutdown \/ WaitReturns \/ CloseStorage
    BY <1>2, <2>8 DEF BeginShutdown, WaitReturns, CloseStorage, Move,
                      GateInv, GateRespected, Unfinished, Authorised, Decide
  <2>9. CASE Restart
    BY <1>2, <2>9 DEF Restart, GateInv, GateRespected, Unfinished
  <2>10. CASE UNCHANGED vars
    BY <1>2, <2>10 DEF vars, GateInv, GateRespected, Unfinished, Authorised, Decide
  <2>11. ASSUME NEW e \in Execs, Written(e) PROVE GateInv'
    <3>1. \A d \in Execs : Unfinished(d)' =>
            Unfinished(d) /\ exec'[d].op = exec[d].op /\ exec'[d].act = exec[d].act
      <4>1. \A d \in Execs : Unfinished(d) => exec[d] # None
        BY DEF Unfinished
      <4> QED BY <1>2, <2>11, <4>1, WrittenIsQuiet
    <3>2. UNCHANGED <<mode, caller>>
      BY <1>2, <2>11, WrittenIsQuiet
    <3> QED BY <1>2, <3>1, <3>2 DEF GateInv, GateRespected, Authorised, Decide
  <2> QED
    BY <1>2, <2>1, <2>2, <2>3, <2>4, <2>5, <2>6, <2>7, <2>8, <2>9, <2>10, <2>11 DEF Next
<1>3. GateInv => GateRespected
  BY DEF GateInv
<1> QED BY <1>1, <1>2, <1>3, Typing, PTL DEF Spec

----------------------------------------------------------------------------
(* Handlers and executions find their action: nothing but the end of the    *)
(* process takes a record out of the store.                                 *)

LEMMA WriteKeepsStored ==
  ASSUME TypeOK, WorkIsOnStoredActions,
         NEW c \in Callers, NEW op, NEW id \in Ids, NEW act \in Action, Write(c, op, id, act)
  PROVE  WorkIsOnStoredActions'
<1> USE NoneAssumption
<1>1. \A i \in Ids : mem'[i] = IF i = id THEN act ELSE mem[i]
  BY DEF Write, TypeOK
<1>2. act # None
  OBVIOUS
<1>3. ASSUME NEW d \in Callers, caller'[d] # None PROVE mem'[caller'[d].id] # None
  <2>1. CASE d = c
    BY <1>1, <1>2, <2>1 DEF Write, TypeOK
  <2>2. CASE d # c
    <3>1. caller[d] \in Caller /\ caller'[d] = caller[d]
      BY <1>3, <2>2 DEF Write, TypeOK
    <3> QED BY <1>1, <1>2, <1>3, <3>1 DEF WorkIsOnStoredActions, Busy, Caller
  <2> QED BY <2>1, <2>2
<1>4. ASSUME NEW e \in Execs, exec'[e] # None PROVE mem'[exec'[e].id] # None
  <2>1. exec[e] \in Exec /\ exec'[e] = exec[e]
    BY <1>4 DEF Write, TypeOK
  <2> QED BY <1>1, <1>2, <1>4, <2>1 DEF WorkIsOnStoredActions, Exec
<1> QED BY <1>3, <1>4 DEF WorkIsOnStoredActions, Busy

\* Every request and decision is a write to the store of a ruled action.
LEMMA WritingSteps ==
  ASSUME TypeOK, NEW c \in Callers,
         \/ \E risk \in Risks : \/ WorkflowRequest(c, risk)
                               \/ \E id \in PluginIds : PluginRequest(c, id, risk)
         \/ \E op \in Operators, id \in Ids : OperatorDecides(c, op, id)
  PROVE  \E op \in Requests \cup Operators, id \in Ids, act \in Action :
            act.status \in Verdicts /\ Write(c, op, id, act)
<1>1. ASSUME NEW risk \in Risks, WorkflowRequest(c, risk)
      PROVE  \E op \in Requests \cup Operators, id \in Ids, act \in Action :
                act.status \in Verdicts /\ Write(c, op, id, act)
  <2>1. seq + 1 \in Ids
    BY <1>1, SeqAssumption DEF WorkflowRequest, TypeOK, Ids, WorkflowIds
  <2>2. [risk |-> risk, status |-> Decide(mode, risk)] \in Action
    BY DecideVerdict DEF Action
  <2> QED BY <1>1, <2>1, <2>2, DecideVerdict DEF WorkflowRequest, Requests
<1>2. ASSUME NEW risk \in Risks, NEW id \in PluginIds, PluginRequest(c, id, risk)
      PROVE  \E op \in Requests \cup Operators, i \in Ids, act \in Action :
                act.status \in Verdicts /\ Write(c, op, i, act)
  <2>1. [risk |-> risk, status |-> Decide(mode, risk)] \in Action
    BY DecideVerdict DEF Action
  <2> QED BY <1>2, <2>1, DecideVerdict DEF PluginRequest, Requests, Ids, WorkflowIds
<1>3. ASSUME NEW op \in Operators, NEW id \in Ids, OperatorDecides(c, op, id)
      PROVE  \E o \in Requests \cup Operators, i \in Ids, act \in Action :
                act.status \in Verdicts /\ Write(c, o, i, act)
  <2> DEFINE act == [mem[id] EXCEPT !.status =
                        IF op = "approve" THEN "allowed" ELSE "denied"]
  <2>1. mem[id] \in Action
    BY <1>3 DEF OperatorDecides, TypeOK
  <2>2. act \in Action /\ act.status \in Verdicts
    BY <2>1 DEF Action, Verdicts
  <2>3. Write(c, op, id, act)
    BY <1>3 DEF OperatorDecides
  <2> HIDE DEF act
  <2> QED BY <2>2, <2>3
<1> QED BY <1>1, <1>2, <1>3

LEMMA StepCases ==
  ASSUME TypeOK, [Next]_vars
  PROVE  \/ \E c \in Callers, op \in Requests \cup Operators, id \in Ids, act \in Action :
              act.status \in Verdicts /\ Write(c, op, id, act)
         \/ \E c \in Callers : PersistDecision(c) \/ PublishAndLaunch(c)
         \/ \E e \in Execs : \/ Written(e)
                             \/ \E outcome \in Outcomes : FinishExecution(e, outcome)
                             \/ PersistOutcome(e)
         \/ UNCHANGED <<mode, mem, db, caller, exec, loaded>> /\ (phase' = "closed" \/ phase # "closed" \/ UNCHANGED phase)
         \/ Restart
<1>1. CASE \E c \in Callers : \/ \E risk \in Risks : \/ WorkflowRequest(c, risk)
                                               \/ \E id \in PluginIds : PluginRequest(c, id, risk)
                         \/ \E op \in Operators, id \in Ids : OperatorDecides(c, op, id)
  BY <1>1, WritingSteps
<1>2. CASE BeginShutdown \/ WaitReturns \/ CloseStorage \/ UNCHANGED vars
  BY <1>2 DEF BeginShutdown, WaitReturns, CloseStorage, Move, vars
<1> QED BY <1>1, <1>2 DEF Next

\* Whatever is requested, decided and restored, work in progress finds its action.
THEOREM StoredTheorem == Spec => []WorkIsOnStoredActions
<1> USE NoneAssumption
<1>1. Init => WorkIsOnStoredActions
  BY DEF Init, WorkIsOnStoredActions, Busy
<1>2. ASSUME TypeOK, WorkIsOnStoredActions, [Next]_vars PROVE WorkIsOnStoredActions'
  <2>1. ASSUME NEW c \in Callers, NEW op, NEW id \in Ids, NEW act \in Action,
               Write(c, op, id, act)
        PROVE  WorkIsOnStoredActions'
    BY <1>2, <2>1, WriteKeepsStored
  <2>2. ASSUME NEW c \in Callers, PersistDecision(c) PROVE WorkIsOnStoredActions'
    <3>1. \A d \in Callers : /\ caller'[d] # None => caller[d] # None
                            /\ caller[d] # None => caller'[d].id = caller[d].id
      BY <1>2, <2>2 DEF PersistDecision, TypeOK, Caller
    <3> QED BY <1>2, <2>2, <3>1 DEF PersistDecision, WorkIsOnStoredActions, Busy
  <2>3. ASSUME NEW c \in Callers, PublishAndLaunch(c) PROVE WorkIsOnStoredActions'
    <3>1. \A d \in Callers : caller'[d] # None => caller'[d] = caller[d]
      BY <1>2, <2>3 DEF PublishAndLaunch, TypeOK
    <3>2. \A e \in Execs : exec'[e] # None /\ exec'[e] # exec[e] => exec'[e].id = caller[c].id
      BY <1>2, <2>3 DEF PublishAndLaunch, Launch, Free, TypeOK
    <3> QED BY <1>2, <2>3, <3>1, <3>2 DEF PublishAndLaunch, WorkIsOnStoredActions, Busy
  <2>4. ASSUME NEW e \in Execs, NEW outcome \in Outcomes, FinishExecution(e, outcome)
        PROVE  WorkIsOnStoredActions'
    <3>1. exec[e] \in Exec /\ exec[e].id \in Ids /\ mem[exec[e].id] \in Action
      BY <1>2, <2>4 DEF FinishExecution, TypeOK, Exec
    <3>2. [mem[exec[e].id] EXCEPT !.status = outcome] \in Action
      BY <3>1 DEF Action
    <3>3. \A i \in Ids : mem[i] # None => mem'[i] # None
      BY <1>2, <2>4, <3>1, <3>2 DEF FinishExecution, TypeOK
    <3>4. \A d \in Execs : exec'[d] # None => exec[d] # None /\ exec'[d].id = exec[d].id
      BY <1>2, <2>4, <3>1 DEF FinishExecution, TypeOK, Exec
    <3>5. /\ \A d \in Execs : exec[d] # None => exec[d].id \in Ids
          /\ \A d \in Callers : caller[d] # None => caller[d].id \in Ids
      BY <1>2 DEF TypeOK, Exec, Caller
    <3> QED BY <1>2, <2>4, <3>3, <3>4, <3>5 DEF FinishExecution, WorkIsOnStoredActions, Busy
  <2>5. ASSUME NEW e \in Execs, PersistOutcome(e) PROVE WorkIsOnStoredActions'
    <3>1. \A d \in Execs : exec'[d] # None => exec'[d] = exec[d]
      BY <1>2, <2>5 DEF PersistOutcome, TypeOK
    <3> QED BY <1>2, <2>5, <3>1 DEF PersistOutcome, WorkIsOnStoredActions, Busy
  <2>6. CASE UNCHANGED <<mode, mem, db, caller, exec, loaded>>
    BY <1>2, <2>6 DEF WorkIsOnStoredActions, Busy
  <2>7. CASE Restart
    BY <2>7 DEF Restart, WorkIsOnStoredActions, Busy
  <2>8. ASSUME NEW e \in Execs, Written(e) PROVE WorkIsOnStoredActions'
    BY <1>2, <2>8, WrittenIsQuiet DEF WorkIsOnStoredActions, Busy
  <2> QED BY <1>2, <2>1, <2>2, <2>3, <2>4, <2>5, <2>6, <2>7, <2>8, StepCases
<1> QED BY <1>1, <1>2, Typing, PTL DEF Spec

----------------------------------------------------------------------------
(* A persisted "allowed" is followed up.  The step that matters is the      *)
(* write of an outcome: it may clear an "allowed" only because its copy     *)
(* holds an outcome, and it does so for certain only with a database.       *)

DbInv ==
    /\ PersistedAllowedIsFollowedUp
    /\ ~Persistent => \A id \in Ids : db[id] = None
    /\ \A e \in Execs : exec[e] # None /\ exec[e].at = "persist" => exec[e].act.status \in Outcomes

\* Who answers for a persisted "allowed".
FollowedUp(id) ==
    \/ \E c \in Callers : Granting(c, id) /\ caller[c].at = "publish"
    \/ \E e \in Execs : exec[e] # None /\ exec[e].id = id
    \/ id \in loaded.db

\* No persisted "allowed" is forgotten, with any number of handlers and executions.
THEOREM FollowUpTheorem == Spec => []PersistedAllowedIsFollowedUp
<1> USE NoneAssumption
<1>0. PersistedAllowedIsFollowedUp <=>
        (~StorageFaults /\ phase # "closed" =>
           \A id \in Ids : StatusOf(db, id) = "allowed" => FollowedUp(id))
  BY DEF PersistedAllowedIsFollowedUp, FollowedUp
<1>1. Init => DbInv
  BY DEF Init, DbInv, PersistedAllowedIsFollowedUp, StatusOf
<1>2. ASSUME TypeOK, DbInv, [Next]_vars PROVE DbInv'
  <2>0. \A id \in Ids : ~StorageFaults /\ phase # "closed" /\ StatusOf(db, id) = "allowed"
                         => FollowedUp(id)
    BY <1>2, <1>0 DEF DbInv
  <2>1. ASSUME NEW c \in Callers, NEW op, NEW id \in Ids, NEW act \in Action,
               Write(c, op, id, act)
        PROVE  DbInv'
    <3>1. \A i \in Ids : FollowedUp(i) => FollowedUp(i)'
      <4>1. \A d \in Callers : caller[d] # None => caller'[d] = caller[d]
        BY <1>2, <2>1 DEF Write, TypeOK
      <4> QED BY <1>2, <2>1, <4>1 DEF FollowedUp, Granting, Write, TypeOK
    <3> QED BY <1>2, <2>0, <2>1, <3>1
            DEF DbInv, PersistedAllowedIsFollowedUp, FollowedUp, Write, StatusOf
  <2>2. ASSUME NEW c \in Callers, PersistDecision(c) PROVE DbInv'
    <3>0. caller[c] \in Caller /\ caller[c].id \in Ids /\ caller[c].act \in Action
      BY <1>2, <2>2 DEF PersistDecision, TypeOK, Caller
    <3>1. /\ \A d \in Callers \ {c} : caller'[d] = caller[d]
          /\ caller'[c] # None /\ caller'[c].id = caller[c].id
          /\ caller'[c].act = caller[c].act /\ caller'[c].at = "publish"
      <4>1. caller'[c] = [caller[c] EXCEPT !.at = "publish"]
        BY <1>2, <2>2 DEF PersistDecision, TypeOK
      <4>2. caller'[c] \in Caller
        BY <3>0, <4>1 DEF Caller
      <4> QED BY <1>2, <2>2, <3>0, <4>1, <4>2 DEF PersistDecision, TypeOK, Caller
    <3>2. \A i \in Ids : /\ i # caller[c].id \/ UNCHANGED <<db, loaded>>
                         => (StatusOf(db, i)' = StatusOf(db, i) /\ (FollowedUp(i) => FollowedUp(i)'))
      BY <1>2, <2>2, <3>0, <3>1 DEF PersistDecision, SaveAction, FollowedUp, Granting, TypeOK, StatusOf
    <3>3. ASSUME ~UNCHANGED <<db, loaded>>, StatusOf(db, caller[c].id)' = "allowed"
          PROVE  FollowedUp(caller[c].id)'
      <4> DEFINE i == caller[c].id
      <4>1. db'[i] = caller[c].act
        BY <1>2, <2>2, <3>0, <3>3 DEF PersistDecision, SaveAction, TypeOK
      <4>2. caller[c].act.status = "allowed"
        BY <3>0, <3>3, <4>1, <1>2, <2>2 DEF PersistDecision, SaveAction, StatusOf
      <4> QED BY <3>0, <3>1, <4>2 DEF FollowedUp, Granting
    <3> QED BY <1>2, <2>0, <2>2, <3>2, <3>3
            DEF DbInv, PersistedAllowedIsFollowedUp, FollowedUp, PersistDecision, SaveAction
  <2>3. ASSUME NEW c \in Callers, PublishAndLaunch(c) PROVE DbInv'
    <3>0. caller[c] \in Caller
      BY <1>2, <2>3 DEF PublishAndLaunch, TypeOK
    <3>1. \A d \in Callers \ {c} : caller'[d] = caller[d]
      BY <1>2, <2>3 DEF PublishAndLaunch, TypeOK
    <3>2. ASSUME NEW e \in Execs
          PROVE  \/ exec'[e] = exec[e]
                 \/ exec[e] = None /\ exec'[e].at # "persist"
      BY <1>2, <2>3 DEF PublishAndLaunch, Launch, Free, TypeOK
    <3>3. ASSUME NEW i \in Ids, Granting(c, i) PROVE \E e \in Execs : exec'[e] # None /\ exec'[e].id = i
      <4>1. Launch(c) /\ caller[c].id = i
        BY <2>3, <3>3 DEF PublishAndLaunch, Granting
      <4>2. PICK e \in Free, at \in {"writing", "running"} :
              exec' = [exec EXCEPT ![e] = [op |-> caller[c].op, at |-> at,
                                           id |-> caller[c].id, act |-> caller[c].act]]
        BY <4>1 DEF Launch
      <4>3. exec'[e] = [op |-> caller[c].op, at |-> at,
                        id |-> caller[c].id, act |-> caller[c].act]
        BY <1>2, <4>2 DEF Free, TypeOK
      <4>4. exec'[e] \in Exec
        BY <3>0, <4>3 DEF Caller, Exec
      <4> QED BY <4>1, <4>2, <4>3, <4>4 DEF Free
    <3>4. \A i \in Ids : FollowedUp(i) => FollowedUp(i)'
      <4> SUFFICES ASSUME NEW i \in Ids, FollowedUp(i) PROVE FollowedUp(i)'
        OBVIOUS
      <4>1. CASE \E d \in Callers : Granting(d, i) /\ caller[d].at = "publish"
        BY <3>1, <3>3, <4>1 DEF FollowedUp, Granting
      <4>2. CASE \E e \in Execs : exec[e] # None /\ exec[e].id = i
        BY <3>2, <4>2 DEF FollowedUp
      <4>3. CASE i \in loaded.db
        BY <2>3, <4>3 DEF FollowedUp, PublishAndLaunch
      <4> QED BY <4>1, <4>2, <4>3 DEF FollowedUp
    <3>5. PersistedAllowedIsFollowedUp'
      BY <2>0, <2>3, <3>4 DEF PersistedAllowedIsFollowedUp, FollowedUp, PublishAndLaunch, StatusOf
    <3> QED BY <1>2, <2>3, <3>2, <3>5 DEF DbInv, PublishAndLaunch
  <2>4. ASSUME NEW e \in Execs, NEW outcome \in Outcomes, FinishExecution(e, outcome)
        PROVE  DbInv'
    <3>1. exec[e] \in Exec /\ mem[exec[e].id] \in Action
      BY <1>2, <2>4 DEF FinishExecution, TypeOK, Exec
    <3>2. /\ \A d \in Execs \ {e} : exec'[d] = exec[d]
          /\ exec'[e] # None /\ exec'[e].id = exec[e].id
          /\ exec'[e].act.status = outcome
      <4>1. [mem[exec[e].id] EXCEPT !.status = outcome] \in Action
            /\ [mem[exec[e].id] EXCEPT !.status = outcome].status = outcome
        BY <3>1 DEF Action
      <4>2. exec'[e] = [exec[e] EXCEPT !.at = "persist",
                                       !.act = [mem[exec[e].id] EXCEPT !.status = outcome]]
        BY <1>2, <2>4 DEF FinishExecution, TypeOK
      <4>3. exec'[e] \in Exec
        BY <3>1, <4>1, <4>2 DEF Exec
      <4> QED BY <1>2, <2>4, <3>1, <4>1, <4>2, <4>3 DEF FinishExecution, TypeOK, Exec
    <3>3. \A i \in Ids : FollowedUp(i) => FollowedUp(i)'
      BY <1>2, <2>4, <3>2 DEF FinishExecution, FollowedUp, Granting, TypeOK
    <3>4. PersistedAllowedIsFollowedUp'
      BY <2>0, <2>4, <3>3 DEF PersistedAllowedIsFollowedUp, FollowedUp, FinishExecution, StatusOf
    <3> QED BY <1>2, <2>4, <3>2, <3>4 DEF DbInv, FinishExecution
  <2>5. ASSUME NEW e \in Execs, PersistOutcome(e) PROVE DbInv'
    <3>1. exec[e] \in Exec /\ exec[e].id \in Ids /\ exec[e].act.status \in Outcomes
          /\ exec[e].act \in Action
      BY <1>2, <2>5 DEF PersistOutcome, TypeOK, Exec, DbInv
    <3>2. /\ \A d \in Execs \ {e} : exec'[d] = exec[d]
          /\ exec'[e] = None
      BY <1>2, <2>5 DEF PersistOutcome, TypeOK
    <3>3. ~Persistent => UNCHANGED db
      BY <2>5 DEF PersistOutcome, SaveAction
    <3>4. ASSUME NEW i \in Ids, ~StorageFaults, phase # "closed", StatusOf(db, i)' = "allowed"
          PROVE  FollowedUp(i)'
      <4>1. CASE Persistent
        <5>1. db' = [db EXCEPT ![exec[e].id] = exec[e].act]
              /\ loaded' = [loaded EXCEPT !.db = @ \ {exec[e].id}]
          BY <2>5, <3>4, <4>1 DEF PersistOutcome, SaveAction
        <5>2. i # exec[e].id
          BY <1>2, <3>1, <3>4, <5>1 DEF StatusOf, TypeOK, Outcomes
        <5>3. StatusOf(db, i) = "allowed"
          BY <1>2, <3>4, <5>1, <5>2 DEF StatusOf, TypeOK
        <5>4. FollowedUp(i)
          BY <2>0, <3>4, <5>3
        <5> QED BY <1>2, <2>5, <3>2, <5>1, <5>2, <5>4
                DEF FollowedUp, Granting, PersistOutcome, TypeOK
      <4>2. CASE ~Persistent
        BY <1>2, <3>3, <3>4, <4>2 DEF DbInv, StatusOf
      <4> QED BY <4>1, <4>2
    <3>5. PersistedAllowedIsFollowedUp'
      BY <2>5, <3>4 DEF PersistedAllowedIsFollowedUp, FollowedUp, PersistOutcome
    <3> QED BY <1>2, <3>2, <3>3, <3>5 DEF DbInv
  <2>6. CASE UNCHANGED <<mode, mem, db, caller, exec, loaded>>
             /\ (phase' = "closed" \/ phase # "closed" \/ UNCHANGED phase)
    BY <1>2, <2>6 DEF DbInv, PersistedAllowedIsFollowedUp, Granting, StatusOf
  <2>7. CASE Restart
    <3>1. \A i \in Ids : StatusOf(db, i)' = "allowed" => i \in loaded'.db
      BY <1>2, <2>7 DEF Restart, StatusOf
    <3> QED BY <1>2, <2>7, <3>1 DEF DbInv, PersistedAllowedIsFollowedUp, Restart
  <2>8. ASSUME NEW e \in Execs, Written(e) PROVE DbInv'
    <3>1. UNCHANGED <<phase, db, loaded, caller>>
      BY <1>2, <2>8, WrittenIsQuiet
    <3>2. \A d \in Execs :
            /\ exec[d] # None => exec'[d] # None /\ exec'[d].id = exec[d].id
            /\ (exec'[d] # None /\ exec'[d].at = "persist") => exec'[d] = exec[d]
      BY <1>2, <2>8, WrittenIsQuiet
    <3>3. \A i \in Ids : FollowedUp(i) => FollowedUp(i)'
      BY <3>1, <3>2 DEF FollowedUp, Granting
    <3>4. PersistedAllowedIsFollowedUp'
      BY <2>0, <3>1, <3>3 DEF PersistedAllowedIsFollowedUp, FollowedUp, StatusOf
    <3> QED BY <1>2, <3>1, <3>2, <3>4 DEF DbInv
  <2> QED BY <1>2, <2>1, <2>2, <2>3, <2>4, <2>5, <2>6, <2>7, <2>8, StepCases
<1>3. DbInv => PersistedAllowedIsFollowedUp
  BY DEF DbInv
<1> QED BY <1>1, <1>2, <1>3, Typing, PTL DEF Spec

----------------------------------------------------------------------------
(* A paused action waits.  What could move it on behind the operator's back *)
(* is a second request under its id or an execution of an earlier decision; *)
(* PauseInv says that ids beyond the counter are unused, and that nobody    *)
(* holds a grant or an execution of a paused action.  Both need that the    *)
(* counter is the only source of the id: a plugin may choose any other, and *)
(* a start over a database with old actions counts from zero again.         *)

NoOldActions == ~MayRestart \/ ~Persistent

PauseInv ==
    /\ \A id \in WorkflowIds : id > seq => mem[id] = None
    /\ \A id \in WorkflowIds : StatusOf(mem, id) = "confirmed" =>
          /\ \A c \in Callers : ~Granting(c, id)
          /\ \A e \in Execs : ~Running(e, id)
    /\ ~Persistent => \A id \in Ids : db[id] = None

\* A write under one id leaves the records and the work of all others alone, and
\* the new record is paused only if the writer holds no grant.
LEMMA WriteAtId ==
  ASSUME TypeOK, NEW c \in Callers, NEW op \in Requests \cup Operators, NEW id \in Ids,
         NEW act \in Action, Write(c, op, id, act)
  PROVE  /\ \A i \in Ids : mem'[i] = IF i = id THEN act ELSE mem[i]
         /\ \A d \in Callers, i \in Ids :
               Granting(d, i)' => Granting(d, i) \/ (i = id /\ d = c /\ act.status = "allowed")
         /\ \A e \in Execs, i \in Ids : Running(e, i)' => Running(e, i)
         /\ UNCHANGED <<db, exec>>
<1> USE NoneAssumption
<1>1. \A i \in Ids : mem'[i] = IF i = id THEN act ELSE mem[i]
  BY DEF Write, TypeOK
<1>2. /\ \A d \in Callers \ {c} : caller'[d] = caller[d]
      /\ caller'[c].id = id /\ caller'[c].act = act
  BY DEF Write, TypeOK
<1>3. UNCHANGED <<db, exec>>
  BY DEF Write
<1> QED BY <1>1, <1>2, <1>3 DEF Granting, Running, Unfinished

\* A request of the engine keeps the invariant: its id was unused.
LEMMA FreshRequestKeepsPauses ==
  ASSUME TypeOK, WorkIsOnStoredActions, PauseInv,
         NEW c \in Callers, NEW risk \in Risks, WorkflowRequest(c, risk)
  PROVE  PauseInv' /\ \A i \in WorkflowIds : WaitsForOperator(i)
<1> USE NoneAssumption, SeqAssumption
<1> DEFINE id == seq + 1
           act == [risk |-> risk, status |-> Decide(mode, risk)]
<1>1. id \in WorkflowIds /\ id \in Ids /\ mem[id] = None /\ seq' = seq + 1
  BY DEF WorkflowRequest, TypeOK, Ids, WorkflowIds, PauseInv
<1>2. act \in Action /\ Write(c, "workflow", id, act)
  BY DecideVerdict DEF Action, WorkflowRequest
<1> HIDE DEF id, act
<1>3. /\ \A i \in Ids : mem'[i] = IF i = id THEN act ELSE mem[i]
      /\ \A d \in Callers, i \in Ids :
            Granting(d, i)' => Granting(d, i) \/ (i = id /\ d = c /\ act.status = "allowed")
      /\ \A e \in Execs, i \in Ids : Running(e, i)' => Running(e, i)
      /\ UNCHANGED <<db, exec>>
  BY <1>1, <1>2, WriteAtId DEF Requests
<1>4. /\ \A d \in Callers : ~Granting(d, id)
      /\ \A e \in Execs : ~Running(e, id)
  BY <1>1 DEF WorkIsOnStoredActions, Busy, Granting, Running, Unfinished
<1>5. WorkflowIds \subseteq Ids
  BY DEF WorkflowIds, Ids
<1>6. \A i \in WorkflowIds : i > seq' => mem'[i] = None
  <2>1. \A i \in WorkflowIds : i > seq' => i > seq /\ i # id
    BY <1>1 DEF TypeOK, WorkflowIds, id
  <2> QED BY <1>3, <1>5, <2>1 DEF PauseInv
<1>7. ASSUME NEW i \in WorkflowIds, StatusOf(mem, i)' = "confirmed"
      PROVE  /\ \A d \in Callers : ~Granting(d, i)'
             /\ \A e \in Execs : ~Running(e, i)'
  <2>1. CASE i = id
    BY <1>2, <1>3, <1>4, <1>5, <1>7, <2>1 DEF StatusOf
  <2>2. CASE i # id
    BY <1>3, <1>5, <1>7, <2>2 DEF StatusOf, PauseInv
  <2> QED BY <2>1, <2>2
<1>8. \A i \in WorkflowIds : WaitsForOperator(i)
  BY <1>1, <1>3, <1>5 DEF WaitsForOperator, StatusOf
<1> QED BY <1>3, <1>6, <1>7, <1>8 DEF PauseInv

\* A write under another id, or of an operator's decision, keeps it too.
LEMMA OtherWritesKeepPauses ==
  ASSUME TypeOK, PauseInv, UNCHANGED seq,
         NEW c \in Callers, NEW op \in Requests \cup Operators, NEW id \in Ids,
         NEW act \in Action, Write(c, op, id, act),
         id \in WorkflowIds => act.status # "confirmed" /\ mem[id] # None
  PROVE  /\ PauseInv'
         /\ \A i \in WorkflowIds \ {id} : WaitsForOperator(i)
<1> USE NoneAssumption
<1>1. /\ \A i \in Ids : mem'[i] = IF i = id THEN act ELSE mem[i]
      /\ \A d \in Callers, i \in Ids :
            Granting(d, i)' => Granting(d, i) \/ (i = id /\ d = c /\ act.status = "allowed")
      /\ \A e \in Execs, i \in Ids : Running(e, i)' => Running(e, i)
      /\ UNCHANGED <<db, exec>>
  BY WriteAtId
<1>2. WorkflowIds \subseteq Ids
  BY DEF WorkflowIds, Ids
<1>3. \A i \in WorkflowIds : i > seq' => mem'[i] = None
  BY <1>1, <1>2 DEF PauseInv
<1>4. ASSUME NEW i \in WorkflowIds, StatusOf(mem, i)' = "confirmed"
      PROVE  /\ \A d \in Callers : ~Granting(d, i)'
             /\ \A e \in Execs : ~Running(e, i)'
  BY <1>1, <1>2, <1>4 DEF StatusOf, PauseInv
<1>5. \A i \in WorkflowIds \ {id} : WaitsForOperator(i)
  BY <1>1, <1>2 DEF WaitsForOperator, StatusOf
<1> QED BY <1>1, <1>3, <1>4, <1>5 DEF PauseInv

\* Every step keeps the invariant and lets the engine's paused actions wait.
LEMMA StepKeepsPauses ==
  ASSUME NoOldActions, PluginIds \cap WorkflowIds = {},
         TypeOK, WorkIsOnStoredActions, PauseInv, [Next]_vars
  PROVE  PauseInv' /\ \A i \in WorkflowIds : WaitsForOperator(i)
<1> USE NoneAssumption
<1>0. WorkflowIds \subseteq Ids
  BY DEF WorkflowIds, Ids
<1>1. ASSUME NEW c \in Callers, NEW risk \in Risks, WorkflowRequest(c, risk)
      PROVE  PauseInv' /\ \A i \in WorkflowIds : WaitsForOperator(i)
  BY <1>1, FreshRequestKeepsPauses
<1>2. ASSUME NEW c \in Callers, NEW risk \in Risks, NEW id \in PluginIds,
             PluginRequest(c, id, risk)
      PROVE  PauseInv' /\ \A i \in WorkflowIds : WaitsForOperator(i)
  <2>1. id \in Ids /\ id \notin WorkflowIds
    BY DEF Ids, WorkflowIds
  <2>2. [risk |-> risk, status |-> Decide(mode, risk)] \in Action
    BY DecideVerdict DEF Action
  <2> QED BY <1>2, <2>1, <2>2, OtherWritesKeepPauses DEF PluginRequest, Requests
<1>3. ASSUME NEW c \in Callers, NEW op \in Operators, NEW id \in Ids,
             OperatorDecides(c, op, id)
      PROVE  PauseInv' /\ \A i \in WorkflowIds : WaitsForOperator(i)
  <2> DEFINE act == [mem[id] EXCEPT !.status =
                        IF op = "approve" THEN "allowed" ELSE "denied"]
  <2>1. mem[id] \in Action
    BY <1>3 DEF OperatorDecides, TypeOK
  <2>2. act \in Action /\ act.status # "confirmed"
    BY <2>1 DEF Action, Verdicts
  <2>3. Write(c, op, id, act) /\ UNCHANGED seq /\ mem[id] # None
    BY <1>3 DEF OperatorDecides
  <2>4. WaitsForOperator(id)
    BY <1>3 DEF WaitsForOperator
  <2> HIDE DEF act
  <2> QED BY <2>2, <2>3, <2>4, OtherWritesKeepPauses
<1>4. ASSUME NEW c \in Callers, PersistDecision(c)
      PROVE  PauseInv' /\ \A i \in WorkflowIds : WaitsForOperator(i)
  <2>1. \A d \in Callers, i \in Ids : Granting(d, i)' => Granting(d, i)
    BY <1>4 DEF PersistDecision, Granting, TypeOK, Caller
  <2>2. UNCHANGED <<seq, mem, exec>> /\ (~Persistent => UNCHANGED db)
    BY <1>4 DEF PersistDecision, SaveAction
  <2> QED BY <1>0, <2>1, <2>2 DEF PauseInv, WaitsForOperator, StatusOf, Running, Unfinished
<1>5. ASSUME NEW c \in Callers, PublishAndLaunch(c)
      PROVE  PauseInv' /\ \A i \in WorkflowIds : WaitsForOperator(i)
  <2>1. UNCHANGED <<seq, mem, db>>
    BY <1>5 DEF PublishAndLaunch
  <2>2. \A d \in Callers, i \in Ids : Granting(d, i)' => Granting(d, i)
    BY <1>5 DEF PublishAndLaunch, Granting, TypeOK
  <2>3. \A e \in Execs, i \in Ids : Running(e, i)' => Running(e, i) \/ Granting(c, i)
    BY <1>5 DEF PublishAndLaunch, Launch, Free, Running, Unfinished, Granting, TypeOK
  <2> QED BY <1>0, <2>1, <2>2, <2>3 DEF PauseInv, WaitsForOperator, StatusOf
<1>6. ASSUME NEW e \in Execs, NEW outcome \in Outcomes, FinishExecution(e, outcome)
      PROVE  PauseInv' /\ \A i \in WorkflowIds : WaitsForOperator(i)
  <2> DEFINE id == exec[e].id
             updated == [mem[id] EXCEPT !.status = outcome]
  <2>1. exec[e] \in Exec /\ id \in Ids /\ mem[id] \in Action /\ Running(e, id)
    BY <1>6 DEF FinishExecution, TypeOK, Exec, Running, Unfinished
  <2>2. updated \in Action /\ updated.status = outcome /\ outcome # "confirmed"
    BY <2>1 DEF Action, Outcomes
  <2>3. /\ \A i \in Ids : mem'[i] = IF i = id THEN updated ELSE mem[i]
        /\ UNCHANGED <<seq, db, caller>>
    BY <1>6, <2>1 DEF FinishExecution, TypeOK
  <2>4. \A d \in Execs, i \in Ids : Running(d, i)' => Running(d, i)
    BY <1>6 DEF FinishExecution, Running, Unfinished, TypeOK
  <2> HIDE DEF id, updated
  <2>5. mem[id] # None
    BY <2>1
  <2> QED BY <1>0, <2>1, <2>2, <2>3, <2>4, <2>5
          DEF PauseInv, WaitsForOperator, StatusOf, Granting
<1>7. ASSUME NEW e \in Execs, PersistOutcome(e)
      PROVE  PauseInv' /\ \A i \in WorkflowIds : WaitsForOperator(i)
  <2>1. \A d \in Execs, i \in Ids : Running(d, i)' => Running(d, i)
    BY <1>7 DEF PersistOutcome, Running, Unfinished, TypeOK
  <2>2. UNCHANGED <<seq, mem, caller>> /\ (~Persistent => UNCHANGED db)
    BY <1>7 DEF PersistOutcome, SaveAction
  <2> QED BY <1>0, <2>1, <2>2 DEF PauseInv, WaitsForOperator, StatusOf, Granting
<1>8. CASE BeginShutdown \/ WaitReturns \/ CloseStorage \/ UNCHANGED vars
  BY <1>8 DEF BeginShutdown, WaitReturns, CloseStorage, Move, vars,
              PauseInv, WaitsForOperator, StatusOf, Granting, Running, Unfinished
<1>9. CASE Restart
  <2>1. \A i \in WorkflowIds : mem'[i] = None
    BY <1>0, <1>9 DEF Restart, NoOldActions, PauseInv
  <2> QED BY <1>9, <2>1 DEF Restart, PauseInv, WaitsForOperator, StatusOf
<1>10. ASSUME NEW e \in Execs, Written(e)
      PROVE  PauseInv' /\ \A i \in WorkflowIds : WaitsForOperator(i)
  <2>1. \A d \in Execs, i \in Ids : Running(d, i)' => Running(d, i)
    BY <1>10, WrittenIsQuiet DEF Running, Unfinished
  <2>2. UNCHANGED <<seq, mem, db, caller>>
    BY <1>10, WrittenIsQuiet
  <2> QED BY <1>0, <2>1, <2>2 DEF PauseInv, WaitsForOperator, StatusOf, Granting
<1> QED BY <1>1, <1>2, <1>3, <1>4, <1>5, <1>6, <1>7, <1>8, <1>9, <1>10 DEF Next

\* An action of the engine that is paused for confirmation goes on only by an
\* operator's decision, whatever plugins request, as long as they choose other ids
\* and no start finds old actions.
THEOREM PausedTheorem ==
  ASSUME NoOldActions, PluginIds \cap WorkflowIds = {}
  PROVE  Spec => PausedUntilDecided
<1>1. Init => PauseInv
  BY DEF Init, PauseInv, StatusOf, WorkflowIds, Ids
<1>2. TypeOK /\ WorkIsOnStoredActions /\ PauseInv /\ [Next]_vars =>
         PauseInv' /\ [\A id \in WorkflowIds : WaitsForOperator(id)]_vars
  BY StepKeepsPauses
<1> QED BY <1>1, <1>2, Typing, StoredTheorem, PTL DEF Spec, PausedUntilDecided

----------------------------------------------------------------------------
(* The pipeline implements ActionGrants: a handler past its write of        *)
(* "allowed" is a grant, a running execution a run, and the counts follow   *)
(* because a step adds or takes one member of those sets at most.           *)

GrantSet(id) == {c \in Callers : Granting(c, id)}
RunSet(id)   == {e \in Execs : Running(e, id)}

Statuses == [id \in Ids |-> StatusOf(mem, id)]
GrantsOf == [id \in Ids |-> Cardinality(GrantSet(id))]
RunsOf   == [id \in Ids |-> Cardinality(RunSet(id))]

LEMMA SetsFinite ==
  ASSUME NEW id
  PROVE  /\ IsFiniteSet(GrantSet(id)) /\ Cardinality(GrantSet(id)) \in Nat
         /\ IsFiniteSet(RunSet(id)) /\ Cardinality(RunSet(id)) \in Nat
<1>1. GrantSet(id) \subseteq Callers /\ RunSet(id) \subseteq Execs
  BY DEF GrantSet, RunSet
<1> QED BY <1>1, FiniteAssumption, FS_Subset, FS_CardinalityType

\* A request or decision is a ruling, and "allowed" is one more grant.
LEMMA WriteRules ==
  ASSUME TypeOK, NEW c \in Callers, NEW op \in Requests \cup Operators, NEW id \in Ids,
         NEW act \in Action, Write(c, op, id, act)
  PROVE  /\ Statuses' = [Statuses EXCEPT ![id] = act.status]
         /\ GrantsOf' = IF act.status = "allowed"
                        THEN [GrantsOf EXCEPT ![id] = @ + 1] ELSE GrantsOf
         /\ RunsOf' = RunsOf
<1> USE NoneAssumption
<1>1. \A i \in Ids : StatusOf(mem, i)' = IF i = id THEN act.status ELSE StatusOf(mem, i)
  BY DEF Write, StatusOf, TypeOK
<1>2. /\ caller[c] = None
      /\ \A d \in Callers \ {c} : caller'[d] = caller[d]
      /\ caller'[c].id = id /\ caller'[c].act = act /\ caller'[c] # None
  <2>1. caller'[c] = [op |-> op, at |-> IF op = "plugin" THEN "publish" ELSE "persist",
                      id |-> id, act |-> act]
    BY DEF Write, TypeOK
  <2>2. caller'[c] \in Caller
    BY <2>1 DEF Caller
  <2> QED BY <2>1, <2>2 DEF Write, TypeOK
<1>3. \A i \in Ids : GrantSet(i)' = IF i = id /\ act.status = "allowed"
                                    THEN GrantSet(i) \cup {c} ELSE GrantSet(i)
  BY <1>2 DEF GrantSet, Granting
<1>4. c \notin GrantSet(id)
  BY <1>2 DEF GrantSet, Granting
<1>5. act.status = "allowed" => Cardinality(GrantSet(id)') = Cardinality(GrantSet(id)) + 1
  BY <1>3, <1>4, SetsFinite, FS_AddElement
<1>6. \A i \in Ids : Cardinality(GrantSet(i)') =
         IF i = id /\ act.status = "allowed" THEN Cardinality(GrantSet(i)) + 1
                                             ELSE Cardinality(GrantSet(i))
  BY <1>3, <1>5
<1>7. UNCHANGED exec
  BY DEF Write
<1> QED BY <1>1, <1>6, <1>7 DEF Statuses, GrantsOf, RunsOf, RunSet, Running, Unfinished

\* A handler's last step spends its grant on a run, or had none.
LEMMA LaunchStarts ==
  ASSUME TypeOK, NEW c \in Callers, PublishAndLaunch(c)
  PROVE  \/ UNCHANGED <<Statuses, GrantsOf, RunsOf>>
         \/ \E id \in Ids : /\ GrantsOf[id] > 0
                            /\ GrantsOf' = [GrantsOf EXCEPT ![id] = @ - 1]
                            /\ RunsOf' = [RunsOf EXCEPT ![id] = @ + 1]
                            /\ UNCHANGED Statuses
<1> USE NoneAssumption
<1>1. /\ caller[c] \in Caller /\ caller[c].id \in Ids /\ caller'[c] = None
      /\ \A d \in Callers \ {c} : caller'[d] = caller[d]
  BY DEF PublishAndLaunch, TypeOK, Caller
<1>2. UNCHANGED Statuses
  BY DEF PublishAndLaunch, Statuses, StatusOf
<1>3. CASE caller[c].act.status = "allowed"
  <2> DEFINE id == caller[c].id
  <2>1. PICK e \in Free, at \in {"writing", "running"} :
          exec' = [exec EXCEPT ![e] = [op |-> caller[c].op, at |-> at,
                                       id |-> id, act |-> caller[c].act]]
    BY <1>3 DEF PublishAndLaunch, Launch
  <2>2. /\ e \in Execs /\ exec[e] = None
        /\ \A d \in Execs \ {e} : exec'[d] = exec[d]
        /\ exec'[e] # None /\ exec'[e].id = id /\ Unfinished(e)'
    <3>1. exec'[e] = [op |-> caller[c].op, at |-> at, id |-> id, act |-> caller[c].act]
      BY <2>1 DEF Free, TypeOK
    <3>2. exec'[e] \in Exec
      BY <1>1, <3>1 DEF Caller, Exec
    <3> QED BY <2>1, <3>1, <3>2 DEF Free, TypeOK, Unfinished
  <2>3. \A i \in Ids : GrantSet(i)' = IF i = id THEN GrantSet(i) \ {c} ELSE GrantSet(i)
    BY <1>1 DEF GrantSet, Granting
  <2>4. \A i \in Ids : RunSet(i)' = IF i = id THEN RunSet(i) \cup {e} ELSE RunSet(i)
    BY <2>2 DEF RunSet, Running, Unfinished
  <2>5. c \in GrantSet(id) /\ e \notin RunSet(id)
    BY <1>1, <1>3, <2>2 DEF GrantSet, Granting, RunSet, Running, Unfinished
  <2>6. Cardinality(GrantSet(id) \ {c}) = Cardinality(GrantSet(id)) - 1
    BY <2>5, SetsFinite, FS_RemoveElement
  <2>7. Cardinality(RunSet(id) \cup {e}) = Cardinality(RunSet(id)) + 1
    BY <2>5, SetsFinite, FS_AddElement
  <2>8. Cardinality(GrantSet(id)) > 0
    <3>1. Cardinality(GrantSet(id)) # 0
      BY <2>5, SetsFinite, FS_EmptySet
    <3> QED BY <3>1, SetsFinite
  <2>9. /\ \A i \in Ids : Cardinality(GrantSet(i)') = IF i = id THEN Cardinality(GrantSet(i)) - 1
                                                     ELSE Cardinality(GrantSet(i))
        /\ \A i \in Ids : Cardinality(RunSet(i)') = IF i = id THEN Cardinality(RunSet(i)) + 1
                                                   ELSE Cardinality(RunSet(i))
    BY <2>3, <2>4, <2>6, <2>7
  <2>10. id \in Ids
    BY <1>1
  <2> HIDE DEF id
  <2> QED BY <1>2, <2>8, <2>9, <2>10 DEF GrantsOf, RunsOf
<1>4. CASE caller[c].act.status # "allowed"
  <2>1. UNCHANGED exec /\ \A i \in Ids : GrantSet(i)' = GrantSet(i)
    BY <1>1, <1>4 DEF PublishAndLaunch, GrantSet, Granting
  <2> QED BY <1>2, <2>1 DEF GrantsOf, RunsOf, RunSet, Running, Unfinished
<1> QED BY <1>3, <1>4

\* An outcome ends one run and is what readers see.
LEMMA OutcomeFinishes ==
  ASSUME TypeOK, NEW e \in Execs, NEW outcome \in Outcomes, FinishExecution(e, outcome)
  PROVE  \E id \in Ids : /\ RunsOf[id] > 0
                         /\ RunsOf' = [RunsOf EXCEPT ![id] = @ - 1]
                         /\ Statuses' = [Statuses EXCEPT ![id] = outcome]
                         /\ UNCHANGED GrantsOf
<1> USE NoneAssumption
<1> DEFINE id == exec[e].id
<1>1. exec[e] \in Exec /\ id \in Ids /\ mem[id] \in Action /\ exec[e].at = "running"
  BY DEF FinishExecution, TypeOK, Exec
<1>2. /\ [mem[id] EXCEPT !.status = outcome] \in Action
      /\ [mem[id] EXCEPT !.status = outcome].status = outcome
  BY <1>1 DEF Action
<1>3. /\ \A d \in Execs \ {e} : exec'[d] = exec[d]
      /\ exec'[e].at = "persist"
  BY <1>1, <1>2 DEF FinishExecution, TypeOK, Exec
<1>4. \A i \in Ids : StatusOf(mem, i)' = IF i = id THEN outcome ELSE StatusOf(mem, i)
  <2>1. \A i \in Ids : mem'[i] = IF i = id THEN [mem[id] EXCEPT !.status = outcome] ELSE mem[i]
    BY <1>1 DEF FinishExecution, TypeOK
  <2> QED BY <1>2, <2>1 DEF StatusOf
<1>5. \A i \in Ids : RunSet(i)' = IF i = id THEN RunSet(i) \ {e} ELSE RunSet(i)
  BY <1>1, <1>3 DEF RunSet, Running, Unfinished
<1>6. e \in RunSet(id)
  BY <1>1 DEF RunSet, Running, Unfinished
<1>7. Cardinality(RunSet(id) \ {e}) = Cardinality(RunSet(id)) - 1
  BY <1>6, SetsFinite, FS_RemoveElement
<1>8. Cardinality(RunSet(id)) > 0
  <2>1. Cardinality(RunSet(id)) # 0
    BY <1>6, SetsFinite, FS_EmptySet
  <2> QED BY <2>1, SetsFinite
<1>9. \A i \in Ids : Cardinality(RunSet(i)') = IF i = id THEN Cardinality(RunSet(i)) - 1
                                               ELSE Cardinality(RunSet(i))
  BY <1>5, <1>7
<1>10. UNCHANGED caller
  BY DEF FinishExecution
<1>11. id \in Ids
  BY <1>1
<1> HIDE DEF id
<1> QED BY <1>4, <1>8, <1>9, <1>10, <1>11 DEF Statuses, GrantsOf, RunsOf, GrantSet, Granting

\* Writes to the database change nothing a reader of the store sees.
LEMMA PersistStutters ==
  ASSUME TypeOK,
         \/ \E c \in Callers : PersistDecision(c)
         \/ \E e \in Execs : Written(e) \/ PersistOutcome(e)
         \/ UNCHANGED <<mem, caller, exec>>
  PROVE  UNCHANGED <<Statuses, GrantsOf, RunsOf>>
<1> USE NoneAssumption
<1>1. ASSUME NEW c \in Callers, PersistDecision(c) PROVE UNCHANGED <<Statuses, GrantsOf, RunsOf>>
  <2>1. caller[c] \in Caller /\ caller[c] # None
    BY <1>1 DEF PersistDecision, TypeOK
  <2>2. caller'[c] = [caller[c] EXCEPT !.at = "publish"] /\ caller'[c] \in Caller
    BY <1>1, <2>1 DEF PersistDecision, TypeOK, Caller
  <2>3. \A d \in Callers, i \in Ids : Granting(d, i)' <=> Granting(d, i)
    BY <1>1, <2>1, <2>2 DEF PersistDecision, Granting, TypeOK, Caller
  <2>4. \A i \in Ids : GrantSet(i)' = GrantSet(i)
    BY <2>3 DEF GrantSet
  <2>5. UNCHANGED <<mem, exec>>
    BY <1>1 DEF PersistDecision
  <2> QED BY <2>4, <2>5 DEF Statuses, StatusOf, GrantsOf, RunsOf, RunSet, Running, Unfinished
<1>2. ASSUME NEW e \in Execs, PersistOutcome(e) PROVE UNCHANGED <<Statuses, GrantsOf, RunsOf>>
  <2>1. \A d \in Execs, i \in Ids : Running(d, i)' <=> Running(d, i)
    BY <1>2 DEF PersistOutcome, Running, Unfinished, TypeOK
  <2>2. \A i \in Ids : RunSet(i)' = RunSet(i)
    BY <2>1 DEF RunSet
  <2>3. UNCHANGED <<mem, caller>>
    BY <1>2 DEF PersistOutcome
  <2> QED BY <2>2, <2>3 DEF Statuses, StatusOf, GrantsOf, RunsOf, GrantSet, Granting
<1>3. CASE UNCHANGED <<mem, caller, exec>>
  BY <1>3 DEF Statuses, StatusOf, GrantsOf, RunsOf, GrantSet, Granting, RunSet, Running, Unfinished
<1>4. ASSUME NEW e \in Execs, Written(e) PROVE UNCHANGED <<Statuses, GrantsOf, RunsOf>>
  <2>1. \A d \in Execs, i \in Ids : Running(d, i)' <=> Running(d, i)
    BY <1>4, WrittenIsQuiet DEF Running, Unfinished
  <2>2. \A i \in Ids : RunSet(i)' = RunSet(i)
    BY <2>1 DEF RunSet
  <2>3. UNCHANGED <<mem, caller>>
    BY <1>4, WrittenIsQuiet
  <2> QED BY <2>2, <2>3 DEF Statuses, StatusOf, GrantsOf, RunsOf, GrantSet, Granting
<1> QED BY <1>1, <1>2, <1>3, <1>4

\* The end of the process takes all grants and runs with it.
LEMMA RestartCrashes ==
  ASSUME TypeOK, Restart
  PROVE  /\ Statuses' \in [Ids -> Verdicts \cup Outcomes \cup {"none"}]
         /\ GrantsOf' = [id \in Ids |-> 0] /\ RunsOf' = [id \in Ids |-> 0]
<1>1. \A i \in Ids : GrantSet(i)' = {} /\ RunSet(i)' = {}
  BY DEF Restart, GrantSet, Granting, RunSet, Running, Unfinished
<1>2. \A i \in Ids : Cardinality(GrantSet(i)') = 0 /\ Cardinality(RunSet(i)') = 0
  BY <1>1, FS_EmptySet
<1>3. \A i \in Ids : StatusOf(mem, i)' \in Verdicts \cup Outcomes \cup {"none"}
  BY DEF Restart, StatusOf, TypeOK, Action
<1> QED BY <1>2, <1>3 DEF Statuses, GrantsOf, RunsOf

\* Every step of the pipeline is a step of the promise, or changes nothing of it.
LEMMA StepImplements ==
  ASSUME TypeOK, [Next]_vars
  PROVE  [Grants!Next]_(Grants!vars)
<1>0. /\ Statuses = [id \in Ids |-> StatusOf(mem, id)]
      /\ GrantsOf = [id \in Ids |-> Cardinality({c \in Callers : Granting(c, id)})]
      /\ RunsOf = [id \in Ids |-> Cardinality({e \in Execs : Running(e, id)})]
  BY DEF Statuses, GrantsOf, RunsOf, GrantSet, RunSet
<1>1. ASSUME NEW c \in Callers, NEW op \in Requests \cup Operators, NEW id \in Ids,
             NEW act \in Action, act.status \in Verdicts, Write(c, op, id, act)
      PROVE  Grants!Next
  <2>1. Grants!Rule(id, act.status)
    BY <1>1, WriteRules DEF Grants!Rule, Statuses, GrantsOf, RunsOf, GrantSet, RunSet
  <2> QED BY <1>1, <2>1 DEF Grants!Next, Grants!Verdict, Verdicts
<1>2. ASSUME NEW c \in Callers, PublishAndLaunch(c)
      PROVE  [Grants!Next]_(Grants!vars)
  <2>1. CASE UNCHANGED <<Statuses, GrantsOf, RunsOf>>
    BY <2>1 DEF Grants!vars, Statuses, GrantsOf, RunsOf, GrantSet, RunSet
  <2>2. ASSUME NEW id \in Ids, GrantsOf[id] > 0,
               GrantsOf' = [GrantsOf EXCEPT ![id] = @ - 1],
               RunsOf' = [RunsOf EXCEPT ![id] = @ + 1], UNCHANGED Statuses
        PROVE  Grants!Next
    <3>1. Grants!Start(id)
      BY <2>2 DEF Grants!Start, Statuses, GrantsOf, RunsOf, GrantSet, RunSet
    <3> QED BY <3>1 DEF Grants!Next
  <2> QED BY <1>2, <2>1, <2>2, LaunchStarts
<1>3. ASSUME NEW e \in Execs, NEW outcome \in Outcomes, FinishExecution(e, outcome)
      PROVE  Grants!Next
  <2>1. PICK id \in Ids : /\ RunsOf[id] > 0
                         /\ RunsOf' = [RunsOf EXCEPT ![id] = @ - 1]
                         /\ Statuses' = [Statuses EXCEPT ![id] = outcome]
                         /\ UNCHANGED GrantsOf
    BY <1>3, OutcomeFinishes
  <2>2. Grants!Finish(id, outcome)
    BY <2>1 DEF Grants!Finish, Statuses, GrantsOf, RunsOf, GrantSet, RunSet
  <2> QED BY <2>2 DEF Grants!Next, Grants!Outcome, Outcomes
<1>4. ASSUME \/ \E c \in Callers : PersistDecision(c)
             \/ \E e \in Execs : Written(e) \/ PersistOutcome(e)
             \/ UNCHANGED <<mem, caller, exec>>
      PROVE  UNCHANGED Grants!vars
  BY <1>4, PersistStutters DEF Grants!vars, Statuses, GrantsOf, RunsOf, GrantSet, RunSet
<1>5. CASE Restart
  <2>1. Grants!Crash
    BY <1>5, RestartCrashes
       DEF Grants!Crash, Grants!Status, Grants!Verdict, Grants!Outcome, Verdicts, Outcomes,
           Statuses, GrantsOf, RunsOf, GrantSet, RunSet
  <2> QED BY <2>1 DEF Grants!Next
<1> QED BY <1>1, <1>2, <1>3, <1>4, <1>5, StepCases

\* The pipeline implements ActionGrants: under any interleaving of any number of
\* handlers and executions, each run spends exactly one grant.
THEOREM Refinement == Spec => ImplementsGrants
<1>1. Init => Grants!Init
  <2> SUFFICES ASSUME Init PROVE Grants!Init
    OBVIOUS
  <2>1. \A i \in Ids : /\ {c \in Callers : Granting(c, i)} = {}
                       /\ {e \in Execs : Running(e, i)} = {}
                       /\ StatusOf(mem, i) = "none"
    BY DEF Init, Granting, Running, Unfinished, StatusOf
  <2>2. Cardinality({}) = 0
    BY FS_EmptySet
  <2> QED BY <2>1, <2>2 DEF Grants!Init
<1>2. TypeOK /\ [Next]_vars => [Grants!Next]_(Grants!vars)
  BY StepImplements
<1> QED BY <1>1, <1>2, Typing, PTL DEF Spec, ImplementsGrants
=================================================================================
