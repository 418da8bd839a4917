------------------------------ MODULE PluginProcess ------------------------------
(***************************************************************************)
(* The life of one supervised plugin (PluginProcess in                     *)
(* internal/plugins/supervisor/process.go): start, stop, crash, restart    *)
(* with backoff and budget, health checks that kill.  A start spawns an    *)
(* operating-system process, a monitor goroutine and a health loop, all    *)
(* numbered by the start.  A step is what a goroutine does under p.mu; the *)
(* reads of p.cmd and p.ctx without the lock are steps of their own.       *)
(***************************************************************************)
EXTENDS Naturals, FiniteSets

CONSTANTS
    MaxStarts,          \* bound: calls of Start that succeed (boot and ConfigurePlugin)
    MayOverlap,         \* bound: whether a Start may find an earlier monitor not done
    MaxRestarts,        \* ProcessOptions.MaxRestarts
    MaxHealthFailures   \* ProcessOptions.MaxHealthFailures

ASSUME StartsAssumption   == MaxStarts \in Nat \ {0}
ASSUME OverlapAssumption  == MayOverlap \in BOOLEAN
ASSUME RestartsAssumption == MaxRestarts \in Nat
ASSUME HealthAssumption   == MaxHealthFailures \in Nat \ {0}

VARIABLES
    cur,        \* number of the process p.cmd, p.ctx and p.stdin belong to; 0: none yet
    running,    \* p.running
    lastError,  \* p.lastError # nil
    restarts,   \* p.restarts
    failures,   \* p.healthFailures
    proc,       \* the processes themselves; a hung one no longer answers
    cancelled,  \* the contexts of the processes
    waiter,     \* the monitor that called Wait on a process first; 0: none yet
    mon,        \* monitor goroutines: where they are, which process they wait for
    hl,         \* health loops: where they are, which context or process they use
    starts,     \* successful calls of Start
    announced,  \* type of the last status event
    stopped,    \* auxiliary: a Stop succeeded since the last Start
    orderly     \* auxiliary: each Start so far found the earlier monitors done

vars == <<cur, running, lastError, restarts, failures, proc, cancelled, waiter,
          mon, hl, starts, announced, stopped, orderly>>

Procs == 1..(MaxStarts + MaxRestarts)
None  == [at |-> "none", on |-> 0]

\* Types of all variables: there are never more processes than the allowed starts
\* and the restart budget together yield.
TypeOK ==
    /\ cur \in 0..(MaxStarts + MaxRestarts)
    /\ running \in BOOLEAN /\ lastError \in BOOLEAN
    /\ restarts \in 0..MaxRestarts
    /\ failures \in Nat
    /\ proc \in [Procs -> {"none", "alive", "hung", "dead"}]
    /\ cancelled \in [Procs -> BOOLEAN]
    /\ waiter \in [Procs -> Procs \cup {0}]
    /\ mon \in [Procs -> [at : {"none", "ready", "waiting", "backoff", "done"},
                          on : Procs \cup {0}]]
    /\ hl \in [Procs -> [at : {"none", "ready", "select", "calling", "writing", "done"},
                         on : Procs \cup {0}]]
    /\ starts \in 0..MaxStarts
    /\ announced \in {"none", "plugin.started", "plugin.error", "plugin.stopped"}
    /\ stopped \in BOOLEAN
    /\ orderly \in BOOLEAN

Init ==
    /\ cur = 0 /\ restarts = 0 /\ failures = 0 /\ starts = 0
    /\ running = FALSE /\ lastError = FALSE
    /\ proc = [k \in Procs |-> "none"]
    /\ cancelled = [k \in Procs |-> FALSE]
    /\ waiter = [k \in Procs |-> 0]
    /\ mon = [k \in Procs |-> None]
    /\ hl = [k \in Procs |-> None]
    /\ announced = "none" /\ stopped = FALSE /\ orderly = TRUE

----------------------------------------------------------------------------
\* The event type handlePluginStatus makes of a status.
EventType(isRunning, hasError) ==
    IF isRunning THEN "plugin.started"
    ELSE IF hasError THEN "plugin.error" ELSE "plugin.stopped"

\* emitStatusLocked with the new status, published before p.mu is released.
Announce == announced' = EventType(running', lastError')

\* Mutant of StartLocked: only Start spawns a monitor, a restart does not.
StartLockedUnwatched(from) ==
    LET k == cur + 1
    IN /\ cur' = k
       /\ running' = TRUE /\ lastError' = FALSE /\ failures' = 0
       /\ proc' = [proc EXCEPT ![k] = "alive"]
       /\ mon' = IF from = 0 THEN [mon EXCEPT ![k] = [at |-> "ready", on |-> 0]]
                 ELSE [mon EXCEPT ![from] = [at |-> "done", on |-> 0]]
       /\ hl' = [hl EXCEPT ![k] = [at |-> "ready", on |-> 0]]
       /\ Announce
       /\ UNCHANGED <<restarts, cancelled, waiter>>

\* startLocked, when the process could be spawned; from is the calling monitor
\* or 0.  It does not look at running and forgets the context it replaces.
StartLocked(from) ==
    LET k == cur + 1
    IN /\ cur' = k
       /\ running' = TRUE /\ lastError' = FALSE /\ failures' = 0
       /\ proc' = [proc EXCEPT ![k] = "alive"]
       /\ mon' = [j \in Procs |-> IF j = k THEN [at |-> "ready", on |-> 0]
                                  ELSE IF j = from THEN [at |-> "done", on |-> 0]
                                  ELSE mon[j]]
       /\ hl' = [hl EXCEPT ![k] = [at |-> "ready", on |-> 0]]
       /\ Announce
       /\ UNCHANGED <<restarts, cancelled, waiter>>

\* The monitors of all earlier processes are done.
InOrder == \A k \in Procs : mon[k].at \in {"none", "done"}

\* Start, from loadPlugins or ConfigurePlugin; a failed spawn changes nothing.
Start ==
    /\ starts < MaxStarts
    /\ InOrder \/ MayOverlap
    /\ ~running
    /\ StartLocked(0)
    /\ starts' = starts + 1
    /\ stopped' = FALSE
    /\ orderly' = (orderly /\ InOrder)

\* Mutant of Stop: the process is killed but its context is not cancelled.
StopKillsOnly ==
    /\ running
    /\ proc' = [proc EXCEPT ![cur] = "dead"]
    /\ running' = FALSE
    /\ stopped' = TRUE
    /\ UNCHANGED lastError
    /\ Announce
    /\ UNCHANGED <<cur, restarts, failures, cancelled, waiter, mon, hl, starts, orderly>>

\* stopLocked: cancel, kill, announce.
StopLocked ==
    /\ cancelled' = [cancelled EXCEPT ![cur] = TRUE]
    /\ proc' = [proc EXCEPT ![cur] = "dead"]
    /\ running' = FALSE
    /\ UNCHANGED lastError
    /\ Announce

\* Stop.  Of a plugin that is not running it is refused (ErrNotRunning) and
\* changes nothing.
Stop ==
    /\ running
    /\ StopLocked
    /\ stopped' = TRUE
    /\ UNCHANGED <<cur, restarts, failures, waiter, mon, hl, starts, orderly>>

Alive == {k \in Procs : proc[k] \in {"alive", "hung"}}

\* A process exits by itself, or stops answering.
Fate(k, fate) ==
    /\ k \in Alive
    /\ proc' = [proc EXCEPT ![k] = fate]
    /\ UNCHANGED <<cur, running, lastError, restarts, failures, cancelled, waiter,
                   mon, hl, starts, announced, stopped, orderly>>

\* monitor reads p.cmd, without the lock, and calls Wait on what it found.
MonitorWaits(k) ==
    /\ mon[k].at = "ready"
    /\ mon' = [mon EXCEPT ![k] = [at |-> "waiting", on |-> cur]]
    /\ waiter' = [waiter EXCEPT ![cur] = IF @ = 0 THEN k ELSE @]
    /\ UNCHANGED <<cur, running, lastError, restarts, failures, proc, cancelled,
                   hl, starts, announced, stopped, orderly>>

\* Wait of monitor k has something to return: the process died, or another
\* monitor waits for it already, which is an error at once.
WaitReturns(k, failed) ==
    /\ mon[k].at = "waiting"
    /\ proc[mon[k].on] = "dead" \/ (waiter[mon[k].on] # k /\ failed)

Budgeted(k) ==
    /\ restarts' = restarts + 1
    /\ mon' = [mon EXCEPT ![k] = [at |-> "backoff", on |-> 0]]

GivesUp(k) ==
    /\ mon' = [mon EXCEPT ![k] = [at |-> "done", on |-> 0]]
    /\ UNCHANGED restarts

\* Mutant of MonitorReturns: the budget is off by one.
MonitorReturnsOverBudget(k, failed) ==
    /\ WaitReturns(k, failed)
    /\ running' = FALSE
    /\ lastError' = failed
    /\ IF ~cancelled[cur] /\ restarts <= MaxRestarts THEN Budgeted(k) ELSE GivesUp(k)
    /\ Announce
    /\ UNCHANGED <<cur, failures, proc, cancelled, waiter, hl, starts, stopped, orderly>>

\* Mutant of MonitorReturns: a clean exit is not taken for a crash.
MonitorIgnoresCleanExit(k, failed) ==
    /\ WaitReturns(k, failed)
    /\ running' = (running /\ ~failed)
    /\ lastError' = failed
    /\ IF failed /\ ~cancelled[cur] /\ restarts < MaxRestarts THEN Budgeted(k) ELSE GivesUp(k)
    /\ Announce
    /\ UNCHANGED <<cur, failures, proc, cancelled, waiter, hl, starts, stopped, orderly>>

\* Mutant of MonitorReturns: the status is announced only after the restart.
MonitorReturnsSilently(k, failed) ==
    /\ WaitReturns(k, failed)
    /\ running' = FALSE
    /\ lastError' = failed
    /\ IF ~cancelled[cur] /\ restarts < MaxRestarts THEN Budgeted(k) ELSE GivesUp(k)
    /\ UNCHANGED <<cur, failures, proc, cancelled, waiter, hl, starts, announced, stopped, orderly>>

\* The monitor takes the lock after Wait.  The decision to restart looks at the
\* current context, whoever it belongs to.
MonitorReturns(k, failed) ==
    /\ WaitReturns(k, failed)
    /\ running' = FALSE
    /\ lastError' = failed
    /\ IF ~cancelled[cur] /\ restarts < MaxRestarts THEN Budgeted(k) ELSE GivesUp(k)
    /\ Announce
    /\ UNCHANGED <<cur, failures, proc, cancelled, waiter, hl, starts, stopped, orderly>>

\* After the backoff the monitor starts the plugin, or fails to and gives up.
MonitorRestarts(k) ==
    /\ mon[k].at = "backoff"
    /\ \/ StartLocked(k)
       \/ /\ mon' = [mon EXCEPT ![k] = [at |-> "done", on |-> 0]]
          /\ UNCHANGED <<cur, running, lastError, restarts, failures, proc, cancelled,
                         waiter, hl, announced>>
    /\ UNCHANGED <<starts, stopped, orderly>>

\* What no step of a health loop but the end of a check touches.
HealthUntouched == UNCHANGED <<cur, restarts, cancelled, waiter, mon, starts, stopped, orderly>>
Unasked == HealthUntouched /\ UNCHANGED <<running, lastError, failures, proc, announced>>

\* healthLoop reads p.ctx, without the lock, and selects on what it found.
HealthSelects(k) ==
    /\ hl[k].at = "ready"
    /\ hl' = [hl EXCEPT ![k] = [at |-> "select", on |-> cur]]
    /\ Unasked

\* It leaves when that context is cancelled.
HealthLeaves(k) ==
    /\ hl[k].at = "select"
    /\ cancelled[hl[k].on]
    /\ hl' = [hl EXCEPT ![k] = [at |-> "done", on |-> 0]]
    /\ Unasked

\* A tick: plugin.health goes to the current process; on is 0 if nobody there can
\* answer.  (A retry that a later process answers ends like a later tick.)
HealthTicks(k) ==
    /\ hl[k].at = "select"
    /\ hl' = [hl EXCEPT ![k] = [at |-> "calling", on |-> IF running /\ proc[cur] = "alive" THEN cur ELSE 0]]
    /\ Unasked

\* The check, or a retry of it, is to be written to a process that does not read any
\* more: its pipe is full, or another call is in its write.  No deadline covers this.
HealthBlocks(k) ==
    /\ hl[k].at = "calling"
    /\ running
    /\ proc[cur] = "hung"
    /\ hl' = [hl EXCEPT ![k] = [at |-> "writing", on |-> cur]]
    /\ Unasked

\* The process reads after all, though it does not answer.
HealthWritten(k) ==
    /\ hl[k].at = "writing"
    /\ proc[hl[k].on] = "hung"
    /\ hl' = [hl EXCEPT ![k] = [at |-> "calling", on |-> 0]]
    /\ Unasked

\* Mutant of HealthPasses: a plugin that answers is shown as running.
HealthPassesRunning(k) ==
    /\ hl[k].at = "calling"
    /\ hl[k].on # 0
    /\ failures' = 0 /\ lastError' = FALSE
    /\ hl' = [hl EXCEPT ![k] = [at |-> "ready", on |-> 0]]
    /\ running' = TRUE
    /\ Announce
    /\ HealthUntouched /\ UNCHANGED proc

\* The check passed; the loop takes p.mu once more.
HealthPasses(k) ==
    /\ hl[k].at = "calling"
    /\ hl[k].on # 0
    /\ failures' = 0 /\ lastError' = FALSE
    /\ hl' = [hl EXCEPT ![k] = [at |-> "ready", on |-> 0]]
    /\ UNCHANGED running
    /\ Announce
    /\ HealthUntouched /\ UNCHANGED proc

\* No answer comes in time, the plugin does not run, or the write is to a process
\* that died.
Unanswered(k) ==
    \/ hl[k].at = "calling"
    \/ hl[k].at = "writing" /\ proc[hl[k].on] = "dead"

\* Mutant of HealthFails: at the limit a new process is started, none killed.
HealthFailsRestarts(k) ==
    /\ Unanswered(k)
    /\ cur < MaxStarts + MaxRestarts
    /\ IF failures + 1 >= MaxHealthFailures
       THEN StartLocked(0)
       ELSE /\ failures' = failures + 1 /\ lastError' = TRUE
            /\ hl' = [hl EXCEPT ![k] = [at |-> "ready", on |-> 0]]
            /\ UNCHANGED running
            /\ Announce
            /\ UNCHANGED <<cur, restarts, proc, cancelled, waiter, mon>>
    /\ UNCHANGED <<starts, stopped, orderly>>

\* Mutant of HealthFails: at the limit the loop ends and nothing is killed.
HealthFailsGivesUp(k) ==
    /\ Unanswered(k)
    /\ failures' = failures + 1 /\ lastError' = TRUE
    /\ hl' = [hl EXCEPT ![k] = IF failures' >= MaxHealthFailures
                               THEN [at |-> "done", on |-> 0]
                               ELSE [at |-> "ready", on |-> 0]]
    /\ UNCHANGED running
    /\ Announce
    /\ HealthUntouched /\ UNCHANGED proc

\* The check failed, for whichever process was asked; at the limit the current
\* process is killed and the loop ends.
HealthFails(k) ==
    /\ Unanswered(k)
    /\ failures' = failures + 1 /\ lastError' = TRUE
    /\ IF failures' >= MaxHealthFailures
       THEN /\ proc' = [proc EXCEPT ![cur] = "dead"]
            /\ hl' = [hl EXCEPT ![k] = [at |-> "done", on |-> 0]]
       ELSE /\ hl' = [hl EXCEPT ![k] = [at |-> "ready", on |-> 0]]
            /\ UNCHANGED proc
    /\ UNCHANGED running
    /\ Announce
    /\ HealthUntouched

MonitorStep(k) ==
    \/ MonitorWaits(k)
    \/ \E failed \in BOOLEAN : MonitorReturns(k, failed)
    \/ MonitorRestarts(k)

\* What a health loop does when it is scheduled, and what the pipe does to it.
HealthReturns(k) == HealthPasses(k) \/ HealthFails(k)
HealthStep(k) == HealthSelects(k) \/ HealthLeaves(k) \/ HealthTicks(k) \/ HealthReturns(k)
HealthPipe(k) == HealthBlocks(k) \/ HealthWritten(k)

Next ==
    \/ Start \/ Stop
    \/ \E k \in Procs :
          \/ Fate(k, "hung") \/ Fate(k, "dead")
          \/ MonitorStep(k) \/ HealthStep(k) \/ HealthPipe(k)

\* Goroutines run and the ticker ticks; crashes, starts and stops need not happen.
\* A check that is not in a write ends, since it has three attempts with a timeout
\* each: it cannot go back to its write for ever (strong fairness).  Nothing makes
\* a write to a hung process end.
Fairness ==
    \A k \in Procs : /\ WF_vars(MonitorStep(k)) /\ WF_vars(HealthStep(k))
                     /\ SF_vars(HealthReturns(k))

Spec == Init /\ [][Next]_vars
FairSpec == Spec /\ Fairness

----------------------------------------------------------------------------
Backoff == {k \in Procs : mon[k].at = "backoff"}

\* The restart budget: processes beyond the calls of Start are paid for by
\* restarts, each pending backoff already counted.  (monitor, several at once.)
RestartBudget ==
    /\ restarts <= MaxRestarts
    /\ cur + Cardinality(Backoff) <= starts + restarts

\* There is never more than one process, and it is the one the supervisor would
\* stop.  (startLocked does not check running.)
OneProcess == Alive \subseteq {cur}

\* So it is as long as no Start comes while an earlier process is in its backoff
\* or not yet waited for.
OneProcessInOrder == orderly => OneProcess

\* A plugin shown as running has a monitor that will see its process die, so
\* its crash cannot go unnoticed, under the same condition.  (go p.monitor() in
\* startLocked.)
CrashWatched ==
    orderly /\ running => \/ mon[cur].at = "ready" /\ waiter[cur] = 0
                          \/ mon[cur] = [at |-> "waiting", on |-> cur] /\ waiter[cur] = cur

\* A Stop that succeeded is final: no process is alive and no restart is under
\* way until the next Start, under the same condition.  (Stop against a crash, a
\* backoff, a health check.)
StopIsFinal ==
    orderly /\ stopped =>
        ~running /\ Alive = {} /\ Backoff = {}

\* The last status event that the supervisor emitted tells what it holds now:
\* monitors, health checks, starts and stops never announce in another order
\* than they happened.  (The plugin.error of Runtime.healthLoop is another event.)
AnnouncedIsCurrent == cur > 0 => announced = EventType(running, lastError)

\* Seen from outside, a plugin starts only when it is told to or out of a backoff,
\* and a backoff begins only where a monitor watches, with any number of monitors
\* and health loops left over from earlier processes.
Watched == \E k \in Procs : mon[k].at \in {"ready", "waiting"}
Switch == INSTANCE PluginSwitch WITH watched <- Watched, back <- Backoff # {}
ImplementsSwitch == Switch!Spec

\* The supervisor stays in "running" with a dead process only for a while.
DeathIsNoticed == (running /\ proc[cur] = "dead") ~> (~running \/ cur \in Alive)

\* A process that stops answering its health checks does not stay: it is killed,
\* stopped, or exits, unless its own health loop stays in its write to it for good,
\* or it is one of several (orderly).  (healthLoop's count, shared by the loops of
\* earlier processes, each of which may be in a write of its own.)
HungIsKilled ==
    \A k \in Procs : <>[](proc[k] = "hung" /\ orderly) =>
                      <>[](hl[k] = [at |-> "writing", on |-> k])
=================================================================================
