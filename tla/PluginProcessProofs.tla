--------------------------- MODULE PluginProcessProofs ---------------------------
(***************************************************************************)
(* Theorems about PluginProcess, for every restart budget and health       *)
(* limit.                                                                  *)
(***************************************************************************)
EXTENDS PluginProcess, FiniteSetTheorems, TLAPS

\* Processes, monitors and health loops beyond the last start do not exist yet.
Fresh == \A k \in Procs : k > cur => proc[k] = "none" /\ mon[k] = None /\ hl[k] = None

\* TypeOK alone is not inductive: that p.cmd's number stays in Procs is the
\* restart budget, and the budget needs Fresh.
BudgetInv == TypeOK /\ Fresh /\ RestartBudget

\* The monitors in their backoff are finitely many.
LEMMA BackoffFinite == IsFiniteSet(Backoff)
<1>1. IsFiniteSet(Procs)
  BY FS_Interval, StartsAssumption, RestartsAssumption DEF Procs
<1> QED BY <1>1, FS_Subset DEF Backoff

\* A start takes the next number and ends the backoff of the monitor it serves.
LEMMA StartLockedInv ==
  ASSUME TypeOK, Fresh, cur + 1 \in Procs, NEW from \in Procs \cup {0},
         from \in Backoff \cup {0},
         StartLocked(from), starts' \in 0..MaxStarts, stopped' \in BOOLEAN,
         orderly' \in BOOLEAN
  PROVE  /\ TypeOK'
         /\ Fresh'
         /\ cur' = cur + 1
         /\ restarts' = restarts
         /\ Backoff' = Backoff \ {from}
<1> USE StartsAssumption, RestartsAssumption
<1>1. TypeOK'
  <2>1. cur' \in 0..(MaxStarts + MaxRestarts)
    BY DEF StartLocked, Procs
  <2>2. mon' \in [Procs -> [at : {"none", "ready", "waiting", "backoff", "done"},
                            on : Procs \cup {0}]]
    BY DEF StartLocked, TypeOK
  <2>3. hl' \in [Procs -> [at : {"none", "ready", "select", "calling", "writing", "done"},
                           on : Procs \cup {0}]]
    BY DEF StartLocked, TypeOK
  <2>4. proc' \in [Procs -> {"none", "alive", "hung", "dead"}] /\ failures' \in Nat
    BY DEF StartLocked, TypeOK
  <2> QED BY <2>1, <2>2, <2>3, <2>4 DEF StartLocked, Announce, EventType, TypeOK
<1>2. Fresh'
  <2> SUFFICES ASSUME NEW k \in Procs, k > cur'
               PROVE  proc'[k] = "none" /\ mon'[k] = None /\ hl'[k] = None
    BY DEF Fresh
  <2>1. k > cur /\ k # cur + 1
    BY DEF StartLocked, TypeOK, Procs
  <2>2. proc[k] = "none" /\ mon[k] = None /\ hl[k] = None
    BY <2>1 DEF Fresh
  <2>3. k # from
    BY <2>2 DEF Backoff, None, Procs
  <2> QED BY <2>1, <2>2, <2>3 DEF StartLocked, TypeOK
<1>3. Backoff' = Backoff \ {from}
  <2>1. ASSUME NEW k \in Procs PROVE k \in Backoff' <=> k \in Backoff \ {from}
    <3>1. CASE k = cur + 1
      BY <3>1 DEF StartLocked, Backoff, TypeOK, Fresh, None, Procs
    <3>2. CASE k # cur + 1 /\ k = from
      BY <3>2 DEF StartLocked, Backoff, TypeOK
    <3>3. CASE k # cur + 1 /\ k # from
      BY <3>3 DEF StartLocked, Backoff, TypeOK
    <3> QED BY <3>1, <3>2, <3>3
  <2> QED BY <2>1 DEF Backoff
<1> QED BY <1>1, <1>2, <1>3 DEF StartLocked

\* Steps that leave the monitors and the counters alone keep the budget.
LEMMA BudgetUntouched ==
  ASSUME RestartBudget, UNCHANGED <<cur, mon, restarts, starts>>
  PROVE  RestartBudget'
  BY DEF RestartBudget, Backoff

\* No step of a health loop touches the monitors, the counters or p.running.
LEMMA HealthKeeps ==
  ASSUME NEW k \in Procs, HealthStep(k) \/ HealthPipe(k)
  PROVE  HealthUntouched /\ UNCHANGED running
  BY DEF HealthStep, HealthPipe, HealthSelects, HealthLeaves, HealthTicks, HealthBlocks,
         HealthWritten, HealthReturns, HealthPasses, HealthFails, HealthUntouched, Unasked

\* The budget and the numbering of processes hold in every reachable state, for
\* any number of starts, restarts and racing monitors.
THEOREM BudgetInduction == Spec => []BudgetInv
<1> USE StartsAssumption, RestartsAssumption, HealthAssumption
<1>1. Init => BudgetInv
  <2> SUFFICES ASSUME Init PROVE BudgetInv
    OBVIOUS
  <2>1. TypeOK /\ Fresh
    <3>1. 0 \in 0..(MaxStarts + MaxRestarts) /\ 0 \in 0..MaxRestarts /\ 0 \in 0..MaxStarts
      OBVIOUS
    <3>2. None \in [at : {"none", "ready", "waiting", "backoff", "done"}, on : Procs \cup {0}]
          /\ None \in [at : {"none", "ready", "select", "calling", "writing", "done"},
                      on : Procs \cup {0}]
      BY DEF None
    <3>3. TypeOK
      BY <3>1, <3>2 DEF Init, TypeOK
    <3> QED BY <3>3 DEF Init, Fresh
  <2>2. Backoff = {}
    BY DEF Init, Backoff, None
  <2> QED BY <2>1, <2>2, FS_EmptySet DEF Init, RestartBudget, BudgetInv
<1>2. ASSUME BudgetInv, [Next]_vars PROVE BudgetInv'
  <2> USE <1>2 DEF BudgetInv
  <2>c. Cardinality(Backoff) \in Nat
    BY BackoffFinite, FS_CardinalityType
  <2>t. cur \in Nat /\ starts \in Nat /\ restarts \in Nat
    BY DEF TypeOK
  <2>1. CASE Start
    <3>1. cur + 1 \in Procs /\ starts' \in 0..MaxStarts
      <4>1. starts < MaxStarts /\ starts' = starts + 1
        BY <2>1 DEF Start
      <4>2. cur + Cardinality(Backoff) <= starts + restarts /\ restarts <= MaxRestarts
        BY DEF RestartBudget
      <4> HIDE DEF BudgetInv
      <4> QED BY <2>c, <2>t, <4>1, <4>2 DEF Procs
    <3>5. stopped' \in BOOLEAN /\ orderly' \in BOOLEAN
      BY <2>1, Zenon DEF Start, TypeOK, InOrder
    <3>2. TypeOK' /\ Fresh' /\ cur' = cur + 1 /\ restarts' = restarts /\ Backoff' = Backoff \ {0}
      BY <2>1, <3>1, <3>5, StartLockedInv DEF Start
    <3>3. Backoff' = Backoff
      BY <3>2 DEF Backoff, Procs
    <3>4. RestartBudget'
      <4>1. starts' = starts + 1
        BY <2>1 DEF Start
      <4>2. Cardinality(Backoff') = Cardinality(Backoff)
        BY <3>3
      <4> HIDE DEF BudgetInv
      <4> QED BY <1>2, <2>c, <2>t, <3>2, <4>1, <4>2 DEF BudgetInv, RestartBudget
    <3> QED BY <3>2, <3>4
  <2>2. CASE Stop
    <3>1. TypeOK'
      BY <2>2 DEF Stop, StopLocked, Announce, EventType, TypeOK
    <3>2. Fresh'
      BY <2>2 DEF Stop, StopLocked, TypeOK, Fresh, Procs
    <3>3. RestartBudget'
      BY <2>2, BudgetUntouched DEF Stop, StopLocked
    <3> QED BY <3>1, <3>2, <3>3
  <2>4. ASSUME NEW k \in Procs, NEW fate \in {"hung", "dead"}, Fate(k, fate) PROVE BudgetInv'
    BY <2>4, BudgetUntouched DEF Fate, Alive, TypeOK, Fresh
  <2>5. ASSUME NEW k \in Procs, MonitorWaits(k) PROVE BudgetInv'
    <3>1. k <= cur
      BY <2>5 DEF MonitorWaits, Fresh, TypeOK, None, Procs
    <3>2. TypeOK'
      BY <2>5, <3>1 DEF MonitorWaits, TypeOK, Procs
    <3>3. Fresh'
      BY <2>5, <3>1 DEF MonitorWaits, TypeOK, Fresh, Procs
    <3>4. Backoff' = Backoff
      BY <2>5 DEF MonitorWaits, TypeOK, Backoff
    <3> QED BY <2>5, <3>2, <3>3, <3>4 DEF MonitorWaits, RestartBudget
  <2>6. ASSUME NEW k \in Procs, NEW failed \in BOOLEAN, MonitorReturns(k, failed)
        PROVE  BudgetInv'
    <3>1. k <= cur /\ k \notin Backoff
      BY <2>6 DEF MonitorReturns, WaitReturns, Fresh, TypeOK, None, Procs, Backoff
    <3>2. TypeOK'
      <4>1. restarts' \in 0..MaxRestarts
        BY <2>6 DEF MonitorReturns, Budgeted, GivesUp, TypeOK
      <4>2. mon' \in [Procs -> [at : {"none", "ready", "waiting", "backoff", "done"},
                                on : Procs \cup {0}]]
        BY <2>6 DEF MonitorReturns, Budgeted, GivesUp, TypeOK
      <4> QED BY <2>6, <4>1, <4>2 DEF MonitorReturns, Announce, EventType, TypeOK
    <3>3. Fresh'
      BY <2>6, <3>1 DEF MonitorReturns, Budgeted, GivesUp, TypeOK, Fresh, Procs
    <3>4. CASE Budgeted(k)
      <4>1. Backoff' = Backoff \cup {k}
        BY <2>6, <3>4 DEF MonitorReturns, Budgeted, TypeOK, Backoff
      <4>2. Cardinality(Backoff') = Cardinality(Backoff) + 1
        BY <3>1, <4>1, BackoffFinite, FS_AddElement
      <4> QED BY <2>6, <2>c, <3>2, <3>3, <3>4, <4>2
              DEF MonitorReturns, Budgeted, TypeOK, RestartBudget
    <3>5. CASE GivesUp(k)
      <4>1. Backoff' = Backoff
        BY <2>6, <3>1, <3>5 DEF MonitorReturns, GivesUp, TypeOK, Backoff
      <4> QED BY <2>6, <3>2, <3>3, <3>5, <4>1 DEF MonitorReturns, GivesUp, RestartBudget
    <3> QED BY <2>6, <3>4, <3>5 DEF MonitorReturns
  <2>7. ASSUME NEW k \in Procs, MonitorRestarts(k) PROVE BudgetInv'
    <3>1. k <= cur /\ k \in Backoff
      BY <2>7 DEF MonitorRestarts, Fresh, TypeOK, None, Procs, Backoff
    <3>2. Cardinality(Backoff \ {k}) = Cardinality(Backoff) - 1
          /\ Cardinality(Backoff \ {k}) \in Nat
      BY <3>1, BackoffFinite, FS_RemoveElement, FS_Subset, FS_CardinalityType
    <3>3. CASE StartLocked(k)
      <4>1. cur + 1 \in Procs
        BY <2>c, <3>2 DEF TypeOK, RestartBudget, Procs
      <4>2. TypeOK' /\ Fresh' /\ cur' = cur + 1 /\ restarts' = restarts /\ Backoff' = Backoff \ {k}
        BY <2>7, <3>1, <3>3, <4>1, StartLockedInv DEF MonitorRestarts, TypeOK
      <4> QED BY <2>7, <2>c, <3>2, <4>2 DEF MonitorRestarts, TypeOK, RestartBudget
    <3>4. CASE ~StartLocked(k)
      <4>1. TypeOK'
        BY <2>7, <3>4 DEF MonitorRestarts, TypeOK
      <4>2. Fresh'
        BY <2>7, <3>1, <3>4 DEF MonitorRestarts, TypeOK, Fresh, Procs
      <4>3. Backoff' = Backoff \ {k}
        BY <2>7, <3>4 DEF MonitorRestarts, TypeOK, Backoff
      <4> QED BY <2>7, <2>c, <3>2, <3>4, <4>1, <4>2, <4>3 DEF MonitorRestarts, TypeOK, RestartBudget
    <3> QED BY <3>3, <3>4
  <2>8. ASSUME NEW k \in Procs, HealthStep(k) \/ HealthPipe(k) PROVE BudgetInv'
    <3>1. k <= cur
      BY <2>8 DEF HealthStep, HealthPipe, HealthSelects, HealthLeaves, HealthTicks, HealthBlocks,
                  HealthWritten, HealthReturns, HealthPasses, HealthFails, Unanswered,
                  Fresh, TypeOK, None, Procs
    <3>2. TypeOK'
      <4>1. cur \in Procs \cup {0}
        BY DEF TypeOK, Procs
      <4>2. ASSUME Unasked, NEW at \in {"select", "calling", "writing", "done"},
                   NEW on \in Procs \cup {0}, hl' = [hl EXCEPT ![k] = [at |-> at, on |-> on]]
            PROVE  TypeOK'
        BY <4>2 DEF Unasked, HealthUntouched, TypeOK
      <4>3. CASE HealthSelects(k) \/ HealthLeaves(k) \/ HealthTicks(k) \/ HealthPipe(k)
        BY <4>1, <4>2, <4>3 DEF HealthSelects, HealthLeaves, HealthTicks, HealthPipe, HealthBlocks,
                                HealthWritten
      <4>4. CASE HealthPasses(k)
        BY <4>1, <4>4 DEF HealthPasses, HealthUntouched, Announce, EventType, TypeOK
      <4>5. CASE HealthFails(k)
        <5>1. failures' \in Nat
          BY <4>5 DEF HealthFails, TypeOK
        <5>2. hl' \in [Procs -> [at : {"none", "ready", "select", "calling", "writing", "done"},
                                 on : Procs \cup {0}]]
          BY <4>5 DEF HealthFails, TypeOK
        <5>3. proc' \in [Procs -> {"none", "alive", "hung", "dead"}]
          BY <4>5 DEF HealthFails, TypeOK
        <5> QED BY <4>5, <5>1, <5>2, <5>3
                DEF HealthFails, HealthUntouched, Announce, EventType, TypeOK
      <4> QED BY <2>8, <4>3, <4>4, <4>5 DEF HealthStep, HealthReturns
    <3>3. Fresh'
      BY <2>8, <3>1 DEF HealthStep, HealthPipe, HealthSelects, HealthLeaves, HealthTicks,
                        HealthBlocks, HealthWritten, HealthReturns, HealthPasses, HealthFails,
                        HealthUntouched, Unasked, Fresh, TypeOK, Procs
    <3>4. UNCHANGED <<cur, mon, restarts, starts>>
      BY <2>8, HealthKeeps DEF HealthUntouched
    <3> QED BY <3>2, <3>3, <3>4, BudgetUntouched
  <2>9. CASE UNCHANGED vars
    BY <2>9, BudgetUntouched DEF vars, TypeOK, Fresh
  <2> QED
    BY <2>1, <2>2, <2>4, <2>5, <2>6, <2>7, <2>8, <2>9 DEF Next, MonitorStep
<1> QED BY <1>1, <1>2, PTL DEF Spec

\* The variables keep their types: in particular the restarts of all monitors
\* together stay within the budget's numbering.
THEOREM Typing == Spec => []TypeOK
<1>1. BudgetInv => TypeOK
  BY DEF BudgetInv
<1> QED BY <1>1, BudgetInduction, PTL

\* Processes beyond the calls of Start are paid for by restarts, and restarts stay
\* within MaxRestarts, however many monitors race.
THEOREM BudgetTheorem == Spec => []RestartBudget
<1>1. BudgetInv => RestartBudget
  BY DEF BudgetInv
<1> QED BY <1>1, BudgetInduction, PTL

----------------------------------------------------------------------------
(* A plugin whose calls of Start come in order: each finds the monitors of  *)
(* all earlier processes done, as the one of loadPlugins does.  The chain   *)
(* of processes is then linear: everything before the current number is    *)
(* over, the current monitor waits for the current process, and only a     *)
(* process that runs can be alive.                                         *)

ChainInv ==
    /\ \A k \in Procs : k < cur => proc[k] = "dead" /\ mon[k].at = "done"
    /\ \A k \in Procs : k > cur => waiter[k] = 0
    /\ \A k \in Procs : k <= cur => proc[k] # "none" /\ mon[k].at # "none"
    /\ \A k \in Procs : proc[k] \in {"alive", "hung"} => running /\ k = cur
    /\ \A k \in Procs : mon[k].at = "ready" => waiter[k] = 0
    /\ \A k \in Procs : mon[k].at = "waiting" => mon[k].on = k /\ waiter[k] = k
    /\ \A k \in Procs : mon[k].at = "backoff" => ~running /\ ~stopped
    /\ running => cur > 0 /\ mon[cur].at \in {"ready", "waiting"}
    /\ stopped => ~running /\ cur > 0 /\ cancelled[cur]

\* A new link: once everything so far is over, but for the monitor that starts it,
\* the new process is the only one alive and its monitor the only one at work.
LEMMA ChainGrows ==
  ASSUME TypeOK, Fresh, ChainInv, cur + 1 \in Procs, NEW from \in Procs \cup {0},
         StartLocked(from), ~running, ~stopped',
         \A k \in Procs : k <= cur => mon[k].at = "done" \/ k = from
  PROVE  ChainInv'
<1>1. cur \in Nat /\ cur' = cur + 1 /\ running' /\ waiter' = waiter
  BY DEF TypeOK, StartLocked
<1>2. \A j \in Procs : proc'[j] = IF j = cur + 1 THEN "alive" ELSE proc[j]
  BY DEF StartLocked, TypeOK
<1>3. \A j \in Procs : mon'[j] = IF j = cur + 1 THEN [at |-> "ready", on |-> 0]
                                 ELSE IF j = from THEN [at |-> "done", on |-> 0]
                                 ELSE mon[j]
  BY DEF StartLocked
<1>4. \A j \in Procs : j <= cur \/ j = cur + 1 \/ j > cur + 1
  BY <1>1 DEF Procs
<1>5. ASSUME NEW j \in Procs, j <= cur
      PROVE  j # cur + 1 /\ proc'[j] = "dead" /\ mon'[j].at = "done"
  <2>1. j # cur + 1
    BY <1>1, <1>5 DEF Procs
  <2>2. proc[j] = "dead"
    BY <1>5 DEF ChainInv, TypeOK
  <2> QED BY <1>2, <1>3, <1>5, <2>1, <2>2
<1>6. ASSUME NEW j \in Procs, j > cur + 1
      PROVE  /\ j # cur + 1 /\ j > cur
             /\ proc'[j] = "none" /\ mon'[j].at \in {"none", "done"} /\ waiter'[j] = 0
  <2>1. j # cur + 1 /\ j > cur
    BY <1>1, <1>6 DEF Procs
  <2>2. proc[j] = "none" /\ mon[j].at = "none" /\ waiter[j] = 0
    BY <2>1 DEF ChainInv, Fresh, None
  <2> QED BY <1>1, <1>2, <1>3, <2>1, <2>2
<1>7. proc'[cur + 1] = "alive" /\ mon'[cur + 1] = [at |-> "ready", on |-> 0]
      /\ waiter'[cur + 1] = 0
  BY <1>1, <1>2, <1>3 DEF ChainInv
<1>8. \A j \in Procs : (j < cur' <=> j <= cur) /\ (j > cur' <=> j > cur + 1)
                       /\ (j <= cur' <=> j <= cur \/ j = cur + 1)
  BY <1>1 DEF Procs
<1>9. \A j \in Procs :
         /\ j < cur' => proc'[j] = "dead" /\ mon'[j].at = "done"
         /\ j > cur' => waiter'[j] = 0
         /\ j <= cur' => proc'[j] # "none" /\ mon'[j].at # "none"
  BY <1>5, <1>6, <1>7, <1>8
<1>10. \A j \in Procs :
         /\ proc'[j] \in {"alive", "hung"} => running' /\ j = cur'
         /\ mon'[j].at = "ready" => waiter'[j] = 0
         /\ mon'[j].at \notin {"waiting", "backoff"}
  <2> TAKE j \in Procs
  <2>1. CASE j <= cur
    BY <1>5, <2>1
  <2>2. CASE j = cur + 1
    BY <1>1, <1>7, <2>2
  <2>3. CASE j > cur + 1
    BY <1>6, <2>3
  <2> QED BY <1>4, <2>1, <2>2, <2>3
<1>11. cur' > 0 /\ mon'[cur'].at = "ready"
  BY <1>1, <1>7
<1> QED BY <1>1, <1>9, <1>10, <1>11 DEF ChainInv

\* While the calls of Start come in order, the processes, monitors and backoffs
\* form one chain of which only the last link is alive.
THEOREM ChainInduction == Spec => [](orderly => ChainInv)
<1> USE StartsAssumption, RestartsAssumption
<1>1. Init => ChainInv
  BY DEF Init, ChainInv, None, Procs
<1>2. ASSUME BudgetInv, BudgetInv', ChainInv, [Next]_vars, orderly' PROVE ChainInv'
  <2>t. TypeOK /\ Fresh /\ cur' \in 0..(MaxStarts + MaxRestarts)
    BY <1>2 DEF BudgetInv, TypeOK
  <2>n. cur \in Nat /\ (running => cur \in Procs)
    BY <1>2, <2>t DEF TypeOK, ChainInv, Procs
  <2>1. CASE Start
    <3>1. StartLocked(0) /\ ~running /\ ~stopped' /\ InOrder
      BY <1>2, <2>1 DEF Start
    <3>2. cur + 1 \in Procs
      BY <2>t, <2>n, <3>1 DEF StartLocked, Procs
    <3>3. \A k \in Procs : k <= cur => mon[k].at = "done"
      BY <1>2, <3>1 DEF InOrder, ChainInv
    <3> QED BY <1>2, <2>t, <3>1, <3>2, <3>3, ChainGrows
  <2>2. CASE Stop
    BY <1>2, <2>2, <2>t, <2>n DEF Stop, StopLocked, ChainInv, TypeOK
  <2>4. ASSUME NEW k \in Procs, NEW fate \in {"hung", "dead"}, Fate(k, fate) PROVE ChainInv'
    BY <1>2, <2>4, <2>t, <2>n DEF Fate, Alive, ChainInv, TypeOK
  <2>5. ASSUME NEW k \in Procs, MonitorWaits(k) PROVE ChainInv'
    <3>1. k = cur
      BY <1>2, <2>5, <2>t, <2>n DEF MonitorWaits, ChainInv, Fresh, None, Procs
    <3>2. mon' = [mon EXCEPT ![k] = [at |-> "waiting", on |-> k]]
          /\ waiter' = [waiter EXCEPT ![k] = k]
      BY <1>2, <2>5, <2>t, <3>1 DEF MonitorWaits, ChainInv, TypeOK
    <3> QED BY <1>2, <2>5, <2>t, <2>n, <3>1, <3>2 DEF MonitorWaits, ChainInv, TypeOK
  <2>6. ASSUME NEW k \in Procs, NEW failed \in BOOLEAN, MonitorReturns(k, failed)
        PROVE  ChainInv'
    <3>1. k = cur /\ proc[cur] = "dead"
      BY <1>2, <2>6, <2>t, <2>n
         DEF MonitorReturns, WaitReturns, ChainInv, Fresh, None, Procs
    <3>2. \A j \in Procs : proc[j] \notin {"alive", "hung"}
      BY <1>2, <3>1 DEF ChainInv
    <3>3. CASE Budgeted(k)
      <4>1. ~stopped
        BY <1>2, <2>6, <2>n, <3>1, <3>3 DEF MonitorReturns, Budgeted, GivesUp, ChainInv
      <4> QED BY <1>2, <2>6, <2>t, <2>n, <3>1, <3>2, <3>3, <4>1
              DEF MonitorReturns, WaitReturns, Budgeted, ChainInv, TypeOK
    <3>4. CASE GivesUp(k)
      BY <1>2, <2>6, <2>t, <2>n, <3>1, <3>2, <3>4
         DEF MonitorReturns, WaitReturns, GivesUp, ChainInv, TypeOK
    <3> QED BY <2>6, <3>3, <3>4 DEF MonitorReturns
  <2>7. ASSUME NEW k \in Procs, MonitorRestarts(k) PROVE ChainInv'
    <3>1. k = cur /\ ~running /\ ~stopped /\ ~stopped'
      BY <1>2, <2>7, <2>t, <2>n DEF MonitorRestarts, ChainInv, Fresh, None, Procs
    <3>2. CASE StartLocked(k)
      <4>1. cur + 1 \in Procs
        BY <2>t, <2>n, <3>2 DEF StartLocked, Procs
      <4>2. \A j \in Procs : j <= cur => mon[j].at = "done" \/ j = k
        BY <1>2, <2>n, <3>1 DEF ChainInv, Procs
      <4> QED BY <1>2, <2>t, <3>1, <3>2, <4>1, <4>2, ChainGrows
    <3>3. CASE ~StartLocked(k)
      BY <1>2, <2>7, <2>t, <2>n, <3>1, <3>3 DEF MonitorRestarts, ChainInv, TypeOK
    <3> QED BY <3>2, <3>3
  <2>8. ASSUME NEW k \in Procs, HealthStep(k) \/ HealthPipe(k) PROVE ChainInv'
    <3>1. proc' \in {proc, [proc EXCEPT ![cur] = "dead"]}
      BY <2>8 DEF HealthStep, HealthPipe, HealthSelects, HealthLeaves, HealthTicks, HealthBlocks,
                  HealthWritten, HealthReturns, HealthPasses, HealthFails, Unasked
    <3>2. UNCHANGED <<cur, running, mon, waiter, cancelled, stopped>>
      BY <2>8, HealthKeeps DEF HealthUntouched
    <3> QED BY <1>2, <2>t, <2>n, <3>1, <3>2 DEF ChainInv, TypeOK
  <2>9. CASE UNCHANGED vars
    BY <1>2, <2>9 DEF vars, ChainInv
  <2> QED
    BY <1>2, <2>1, <2>2, <2>4, <2>5, <2>6, <2>7, <2>8, <2>9 DEF Next, MonitorStep
<1>3. [Next]_vars => (orderly' => orderly)
  <2> SUFFICES ASSUME [Next]_vars PROVE orderly' => orderly
    OBVIOUS
  <2>1. ASSUME NEW k \in Procs, HealthStep(k) \/ HealthPipe(k) PROVE orderly' = orderly
    BY <2>1, HealthKeeps DEF HealthUntouched
  <2> QED BY <2>1 DEF Next, Start, Stop, Fate, MonitorStep, MonitorWaits, MonitorReturns,
                      MonitorRestarts, vars
<1> QED BY <1>1, <1>2, <1>3, BudgetInduction, PTL DEF Spec

\* As long as the calls of Start come in order there are never two live processes,
\* and the live one is the process the supervisor would stop, for any number of
\* starts, stops, crashes, restarts and health checks.
THEOREM OneProcessTheorem == Spec => []OneProcessInOrder
<1>1. (orderly => ChainInv) => OneProcessInOrder
  BY DEF ChainInv, OneProcessInOrder, OneProcess, Alive
<1> QED BY <1>1, ChainInduction, PTL

\* Under the same condition a plugin shown as running is watched by a monitor that
\* will see the process die.
THEOREM CrashWatchedTheorem == Spec => []CrashWatched
<1>1. TypeOK /\ (orderly => ChainInv) => CrashWatched
  BY StartsAssumption, RestartsAssumption DEF TypeOK, ChainInv, CrashWatched, Procs
<1> QED BY <1>1, ChainInduction, Typing, PTL

\* Under the same condition a Stop that succeeded leaves no process and no pending
\* restart, whatever health loops of earlier starts still do.
THEOREM StopIsFinalTheorem == Spec => []StopIsFinal
<1>1. TypeOK /\ (orderly => ChainInv) => StopIsFinal
  BY DEF TypeOK, ChainInv, StopIsFinal, Alive, Backoff
<1> QED BY <1>1, ChainInduction, Typing, PTL

\* What was announced last is what the supervisor holds, however starts, stops,
\* monitors and health loops interleave.
THEOREM AnnouncedTheorem == Spec => []AnnouncedIsCurrent
<1>1. Init => AnnouncedIsCurrent
  BY DEF Init, AnnouncedIsCurrent
<1>2. ASSUME AnnouncedIsCurrent, [Next]_vars PROVE AnnouncedIsCurrent'
  <2>1. ASSUME Announce PROVE AnnouncedIsCurrent'
    BY <2>1 DEF Announce, EventType, AnnouncedIsCurrent
  <2>2. ASSUME UNCHANGED <<cur, running, lastError, announced>> PROVE AnnouncedIsCurrent'
    BY <1>2, <2>2 DEF AnnouncedIsCurrent
  <2>3. ASSUME Start \/ Stop PROVE AnnouncedIsCurrent'
    BY <2>1, <2>2, <2>3 DEF Start, StartLocked, Stop, StopLocked
  <2>4. ASSUME NEW k \in Procs, NEW fate \in {"hung", "dead"}, Fate(k, fate)
        PROVE  AnnouncedIsCurrent'
    BY <2>2, <2>4 DEF Fate
  <2>5. ASSUME NEW k \in Procs, MonitorStep(k) PROVE AnnouncedIsCurrent'
    BY <2>1, <2>2, <2>5 DEF MonitorStep, MonitorWaits, MonitorReturns, MonitorRestarts,
       StartLocked
  <2>6. ASSUME NEW k \in Procs, HealthStep(k) \/ HealthPipe(k) PROVE AnnouncedIsCurrent'
    BY <2>1, <2>2, <2>6 DEF HealthStep, HealthPipe, HealthSelects, HealthLeaves, HealthTicks,
       HealthBlocks, HealthWritten, HealthReturns, HealthPasses, HealthFails, HealthUntouched,
       Unasked
  <2>7. CASE UNCHANGED vars
    BY <2>2, <2>7 DEF vars
  <2> QED BY <1>2, <2>3, <2>4, <2>5, <2>6, <2>7 DEF Next
<1> QED BY <1>1, <1>2, PTL DEF Spec

----------------------------------------------------------------------------
(* Seen from outside the plugin is a PluginSwitch, whatever monitors and    *)
(* health loops earlier starts left behind.  That a number for the next     *)
(* process is always left is the restart budget (BudgetInv).                *)

\* A start adds a monitor and takes at most the calling one out of its backoff.
LEMMA StartLockedSwitches ==
  ASSUME BudgetInv, BudgetInv', NEW from \in Procs \cup {0}, StartLocked(from)
  PROVE  /\ running' = TRUE /\ Watched'
         /\ Backoff' = Backoff \ {from}
<1>1. /\ cur + 1 \in Procs /\ mon[cur + 1].at = "none" /\ mon'[cur + 1].at = "ready"
  <2>1. cur \in Nat /\ cur' = cur + 1 /\ cur' \in 0..(MaxStarts + MaxRestarts)
    BY DEF BudgetInv, TypeOK, StartLocked
  <2>2. cur + 1 \in Procs /\ cur + 1 > cur
    BY <2>1 DEF Procs
  <2> QED BY <2>2 DEF BudgetInv, Fresh, None, StartLocked
<1>2. \A j \in Procs \ {cur + 1} : mon'[j].at = IF j = from THEN "done" ELSE mon[j].at
  BY DEF StartLocked
<1> QED BY <1>1, <1>2 DEF StartLocked, Watched, Backoff

LEMMA SwitchStep ==
  ASSUME BudgetInv, BudgetInv', [Next]_vars
  PROVE  [Switch!Next]_(Switch!vars)
<1> DEFINE same == UNCHANGED <<running, Watched, Backoff>>
<1>0. same => UNCHANGED Switch!vars
  BY DEF Switch!vars
<1>1. CASE Start
  <2>1. running' = TRUE /\ Watched' /\ Backoff' = Backoff \ {0}
    BY <1>1, StartLockedSwitches DEF Start
  <2>2. Backoff' = Backoff
    BY <2>1 DEF Backoff, Procs
  <2>3. ~running /\ Watched' = TRUE
    BY <1>1, <2>1 DEF Start, Watched
  <2> QED BY <2>1, <2>2, <2>3 DEF Switch!Next, Switch!Start, Switch!Starts
<1>2. CASE Stop
  BY <1>2 DEF Stop, StopLocked, Watched, Backoff, Switch!Next, Switch!Stop
<1>4. ASSUME NEW k \in Procs, NEW fate \in {"hung", "dead"}, Fate(k, fate) PROVE same
  BY <1>4 DEF Fate, Watched, Backoff
<1>5. ASSUME NEW k \in Procs, MonitorWaits(k) PROVE same
  <2>1. /\ mon[k].at = "ready" /\ mon'[k].at = "waiting"
        /\ \A j \in Procs \ {k} : mon'[j] = mon[j]
        /\ running' = running
    BY <1>5 DEF MonitorWaits, BudgetInv, TypeOK
  <2>2. Watched' = Watched
    BY <2>1 DEF Watched
  <2>3. Backoff' = Backoff
    BY <2>1 DEF Backoff
  <2> QED BY <2>1, <2>2, <2>3
<1>6. ASSUME NEW k \in Procs, NEW failed \in BOOLEAN, MonitorReturns(k, failed)
      PROVE  Switch!Falls
  <2>1. /\ mon[k].at = "waiting" /\ mon'[k].at \in {"backoff", "done"}
        /\ \A j \in Procs \ {k} : mon'[j] = mon[j]
        /\ running' = FALSE
    BY <1>6 DEF MonitorReturns, WaitReturns, Budgeted, GivesUp, BudgetInv, TypeOK
  <2>2. Watched = TRUE /\ Watched' \in {TRUE, FALSE}
    BY <2>1 DEF Watched
  <2>3. Backoff \subseteq Backoff' /\ Backoff' \subseteq Backoff \cup {k}
    BY <2>1 DEF Backoff
  <2>4. (Backoff' # {}) \in {Backoff # {}, TRUE}
    BY <2>3
  <2> QED BY <2>1, <2>2, <2>4 DEF Switch!Falls
<1>7. ASSUME NEW k \in Procs, MonitorRestarts(k) PROVE Switch!ComesBack
  <2>1. k \in Backoff
    BY <1>7 DEF MonitorRestarts, Backoff
  <2>2. CASE StartLocked(k)
    <3>1. running' = TRUE /\ Watched' /\ Backoff' = Backoff \ {k}
      BY <2>2, StartLockedSwitches
    <3>2. Watched' = TRUE
      BY <3>1 DEF Watched
    <3> QED BY <2>1, <3>1, <3>2 DEF Switch!ComesBack, Switch!Starts
  <2>3. CASE ~StartLocked(k)
    <3>1. /\ mon'[k].at = "done" /\ running' = running
          /\ \A j \in Procs \ {k} : mon'[j] = mon[j]
      BY <1>7, <2>3 DEF MonitorRestarts, BudgetInv, TypeOK
    <3>2. Watched' = Watched
      BY <2>1, <3>1 DEF Watched, Backoff
    <3>3. Backoff' = Backoff \ {k}
      BY <3>1 DEF Backoff
    <3> QED BY <2>1, <3>1, <3>2, <3>3 DEF Switch!ComesBack
  <2> QED BY <2>2, <2>3
<1>8. ASSUME NEW k \in Procs, HealthStep(k) \/ HealthPipe(k) PROVE same
  BY <1>8, HealthKeeps DEF HealthUntouched, Watched, Backoff
<1>9. CASE UNCHANGED vars
  BY <1>0, <1>9 DEF vars, Watched, Backoff
<1> QED BY <1>0, <1>1, <1>2, <1>4, <1>5, <1>6, <1>7, <1>8, <1>9
        DEF Next, MonitorStep, Switch!Next

\* PluginProcess implements PluginSwitch: a plugin starts only when it is told to or
\* out of a backoff, and only a monitor begins one, for any number of starts.
THEOREM SwitchRefinement == Spec => ImplementsSwitch
<1>1. Init => Switch!Init
  BY DEF Init, Switch!Init, Watched, Backoff, None
<1>2. BudgetInv /\ BudgetInv' /\ [Next]_vars => [Switch!Next]_(Switch!vars)
  BY SwitchStep
<1> QED BY <1>1, <1>2, BudgetInduction, PTL DEF Spec, ImplementsSwitch, Switch!Spec

\* Whatever happens, a plugin shown as running has a monitor that will set it to not
\* running when the process it waits for dies.  (go p.monitor() in startLocked, for
\* any number of starts; which process that is, CrashWatched tells.)
THEOREM RunningIsWatched == Spec => [](running => Watched)
<1>1. Switch!Init => (running => Watched)
  BY DEF Switch!Init
<1>2. (running => Watched) /\ [Switch!Next]_(Switch!vars) => (running => Watched)'
  BY DEF Switch!Next, Switch!vars, Switch!Start, Switch!Starts, Switch!Stop, Switch!Falls,
         Switch!ComesBack
<1> QED BY <1>1, <1>2, SwitchRefinement, PTL DEF ImplementsSwitch, Switch!Spec
=================================================================================
