# AuxiTalk Core in TLA+

Models of the concurrent core of AuxiTalk (`internal/`, Go), the TLC runs that
check them on small instances, and TLAPS proofs for every size. All paths below
are relative to the repository (`src/`).

## The system

AuxiTalk receives events (from plugins, the control API and itself), matches them
against workflow rules, turns matches into *actions*, lets a gate allow, pause or
deny each action, and executes allowed ones in plugins that run as supervised
child processes.

| Component | State | Operations | Talks to |
|---|---|---|---|
| action gate, `actions/gate.go` | mode | `Decide` | called by the runtime |
| action store, `actions/store.go` | map id → action, one lock | `Save`, `UpdateStatus`, reads | runtime handlers of any goroutine |
| runtime pipeline, `runtime/runtime.go` | `wg`, config, references | `RequestAction`, `handleActionRequest`, `ApproveAction`, `DenyAction`, `executeActionAsync`, `persistAction`, `openStorage`, `shutdown` | all of the others |
| event bus, `events/bus.go` | subscriptions, history | `Subscribe`, `Unsubscribe`, `Publish`, `RestoreHistory` | calls handlers in goroutines of their own |
| plugin process, `plugins/supervisor/process.go` | process, pipes, context, budget, failures, pending calls | `Start`, `Stop`, `Call`, `monitor`, `healthLoop`, `handleMessage` | child process over stdin/stdout; status and requests to the runtime |
| supervisor, `plugins/supervisor/supervisor.go` | map id → process | `Register`, `List`; lookup, then a process operation | runtime: `loadPlugins`, `ConfigurePlugin`, `healthLoop`, `shutdown` |
| workflow engine and registry, `workflows/` | rules, `idSeq` | `SetRules`, `HandleEvent`, `newActions`, `ReloadWorkflows` | bus → engine → `RequestAction` |
| sessions, `sessions/manager.go` | map id → session | `Get`, `Create`, `Update` | bus handler `handleSessionTracking` |
| storage, `storage/sqlite/store.go` | five tables | `SaveAction`, `SaveEvent`, `SaveSession`, `ReplaceWorkflows`, lists | bus handlers, pipeline, boot |
| health watch, `Runtime.healthLoop` | failures in a row | a round over all plugins | supervisor, bus |
| control API, `control/server.go` | stream positions | approve/deny, emit, reload, configure, SSE streams | runtime |
| capability router, `capabilities/router.go` | table | `RegisterCapability`, `Call` | `executeActionAsync` → process `Call` |
| manifests, config, logger, `cmd/` | files | parse, print | boot |
| codec, context builder, `plugins/supervisor.go`, `plugins/registry.go` | | | no program code uses them |

What is hard here: every lock protects one structure only, so an operation of the
runtime is a chain of locked steps with anything in between (save, persist,
publish, launch); database writes are unordered; goroutines outlive timeouts and
restarts; the supervisor's monitor and health goroutines read shared fields
without the lock, after a restart may have changed them; and a restart of the
program brings back some of the state only. `PROJECT.json` lists these hazards
line by line with the properties aimed at each.

What makes each part correct:

* actions: nothing runs without the gate or an operator, nothing allowed is
  stranded, each grant is spent once, a paused action waits;
* plugin process: one process, within budget, whose death is noticed, and which
  is gone after a stop;
* plugin calls: each call gets its own answer, returns, and is not sent twice;
* bus: standing subscribers get every event, errors reach the publisher, the
  publisher always returns, the history is the newest events;
* event chain: every matching rule is answered, cycles through executions are
  cut, the trace survives, the core comes to rest;
* workflows: a reload takes effect in the table, the registry and the engine or in
  none of them, and stays;
* sessions: one identity each, in memory and in the database, and saved;
* all plugins: an action reaches a plugin that declares its capability, the boot fails for a cause,
  a request to turn a plugin on or off works, a plugin that stays down is reported
  as long as the watch is not stuck, shutdown reaches each plugin;
* streams: an event and an action is shown to a client that stays, and a restart
  brings back the newest events of each sender's UTC offset in their order.

## Modules

| Module | Models | State ↔ code |
|---|---|---|
| `ActionGrants` | what the pipeline promises (abstract): rulings give grants, runs spend them | no code of its own |
| `ActionLifecycle` | gate, store and the pipeline's handlers, shutdown, restart | `mem` = store, `db` = actions table, `seq` = `idSeq`, `caller`/`exec` = goroutines with their own copy of the action (`exec` also whether it is still in its write to the plugin), `phase` = how far `shutdown` is |
| `PluginSwitch` | what one plugin looks like from outside (abstract): it runs, is watched, may come back | no code of its own |
| `PluginProcess` | one plugin's lifecycle | `cur` = what `p.cmd`/`p.ctx` refer to, `mon`/`hl` = goroutines of each start, `cancelled` = contexts, `waiter` = who called `Wait` first; `stopped`, `orderly` = auxiliary |
| `PluginCalls` | `callWithRetry`, pending table, reader, the plugin's own requests | `pending`, `chan` (response channels), `call` (goroutines), `inbox`/`wire` (pipes), `reader` = `readStdout` |
| `PluginBoard` | `loadPlugins`, `ConfigurePlugin`, `Runtime.healthLoop`, `handlePluginStop`, `shutdown` over the supervisor's map and the capability router | `board` = configured plugins, `loader` = `loadPlugins`, `registered` = map, `running`/`watched`/`back` = processes and their monitors, `route` = router, `request` = requests, `todo`/`failures`/`report`/`stuck` = health watch, `toStop` = shutdown; `wanted`, `excuse`, `revived` = auxiliary |
| `EventBus` | `Publish` in its unlocked steps, subscriptions, history | `subs`/`pattern` = subscriber maps, `pub` = publishers, `handler` = handler goroutines, `log` = auxiliary: all events ever recorded |
| `EventChain` | from an event through `HandleEvent`, `RequestAction`, approval and execution to the next event, with depth and trace | `published` = accepted events, `due` = matches `HandleEvent` has in hand, `requested`/`paused`/`running` = actions |
| `WorkflowReload` | `EnableWorkflow`, `DisableWorkflow`, `ReloadWorkflows` by concurrent requests, boot | `table`, `registry`, `rules` = the three copies, `request` = how far each request is; `alone`, `before`, `promise` = auxiliary |
| `SessionTracking` | `handleSessionTracking` in several goroutines, save and restore | `sessions` = manager, `table` = database, `handler` = goroutines with their copy |
| `ControlStreams` | event and action streams, the bus's history above them, the events table and its restore below | `history`, `saving` = persistence handlers, `table`, `created` = time and UTC offset of an event, `store` = action store, `stream` = `lastID`/`lastCount` of each handler, `shown` = what its last message held |
| `MC...` | constants of the instances | |
| `...Proofs` | proofs: of `ControlStreams` in `EventBusProofs`, with which it shares the history; of the others, but the two abstract ones, each in a module of its own | |

A goroutine's locked section is one action; each unlocked read that matters
(`p.cmd` in `monitor`, `p.ctx` in `healthLoop`, the copy of the action a handler
carries) is a step or a field of its own. Timers are nondeterministic: a timeout
may happen whenever its goroutine waits. Definitions named "Mutant of" change a
definition the way a plausible bug would; they are not part of any specification.

Abstractions. Payloads, timestamps, logs and wording are left out. An action is
its risk and status. Requests that fail validation change nothing and are not
modelled, nor are unknown modes (the configuration refuses them). The publishing
of an event inside a handler is part of `PublishAndLaunch`, since the pipeline
does not depend on its result; what publishing does is `EventBus`. The plugin
process may exit or hang at any moment; answers may be late, repeated or missing.
A call that reaches a plugin over and over (`plugin.health` retries) is one step
of `PluginProcess` and is taken apart in `PluginCalls`. The write of a request to the
plugin's stdin, which no deadline covers, is a place of its own wherever a goroutine
may stay in it for good: `writing` in `ActionLifecycle` and `PluginProcess`, `stuck`
in `PluginBoard`, `Write` in `PluginCalls`; `EventChain`, which is about depths, takes
every execution to end. `EventChain` names events and actions by the
chain that led to them instead of by generated ids, takes a rule to have one
action, and leaves out what an action does to its record (`ActionLifecycle`).
`PluginBoard` takes of a process what `PluginSwitch` shows of it: it runs, a monitor
that watches may find a process dead, also a late one after a stop, and a backoff may
bring it back; the board puts the state a request finds in `IsRunning`, `Stop` and `Start`
into steps of their own, and merges the pause between them into the interleaving.
A name there is the sequence of what lies between its dots, so that the split of an
action's type at the first dot is modelled; the capabilities of a manifest are a set,
and one listed twice, which fails the boot, is one of the faults of `LoadBreaks`.
`ControlStreams` counts time in seconds: an event has a time and its sender's UTC
offset, the table orders by their sum (`LocalTime`), which the text that `SaveEvent`
writes begins with, and inside one second of it that text is in no dependable order. `WorkflowReload` keeps of a workflow
whether it is enabled, and `SessionTracking` of a session its channel and times,
which is all the runtime ever sets.

## Runs

| Run | Question | Result |
|---|---|---|
| `ActionCore` | safety of the pipeline with all modes, a reused id, two handlers, two executions, shutdown and restart at any point; refines `ActionGrants` | holds |
| `ActionUniqueIds` | a workflow's and a plugin's action with distinct ids in one process life without a database: the workflow's paused action waits, granted ones end as long as plugins read (the fairness of `ActionGrants`) | holds |
| `PluginBoot` | two starts, the second once the first process was waited for, and anything else at any time: budget, one process, crash watched, stop final, status current, death noticed, hung process goes away; refines `PluginSwitch` | holds |
| `PluginLeak` | one process, also when the second start comes before that | violated |
| `PluginCalls` | own answers, no duplicate action, bounded table, reader never blocked, calls return, also while the reader is at the plugin's own request or has stopped | holds |
| `EventBus` | delivery, isolation, errors, history, and that `Publish` returns | holds |
| `EventChain` | two workflows in a circle and a third that waits for an operator: cycles cut, no match lost, trace kept, rest | holds |
| `EventChainEndless` | the bus's depth limit for a workflow on every event | violated |
| `WorkflowReload` | two requests, failing transactions, restarts, with and without a database | holds |
| `SessionTracking` | two handlers on two sessions, failing saves, restarts that restore one of two | holds |
| `PluginBoard` | four plugin lists that go together or clash, one with a dot in an id, one request at a time at any moment of boot, service and shutdown, crashes, health watch | holds |
| `ControlStreams` | a client on either stream, repeated event ids, senders with two UTC offsets, lost saves, an overflowing history, a restart | holds |

The type invariants are not part of the runs: `tlapm` proves each of them for every
instance.

The violated properties are disagreements between the code and a document of the
repository; `PROJECT.json` quotes both. More behaviour that a reader may not expect
is visible in the models without a run of its own:

* `ApproveAction` accepts an action that was denied (`OperatorDecides` has no
  guard on the status), and an approval arriving after `wg.Wait` may end after
  the database is closed (`CloseStorage` does not wait for `exec`);
* after a restart the engine counts its ids from zero again, so a new action may
  replace a restored one (`ActionUniqueIds` excludes restarts with a database);
* a stop during the backoff of a crashed plugin is refused, and the plugin comes
  back (`Stop` has the guard `running`, and the monitor goes on); each restart adds a health loop
  (`hl` has an entry per start);
* overlapping toggles of workflows overwrite each other, and table, registry and
  rules may come from different requests (`alone` marks requests without overlap);
* a configured workflow returns to its configured state at every start, and a
  start that cannot list the stored workflows leaves them out (`Restart` of
  `WorkflowReload` takes the promise back in both cases);
* a plugin's action is never written before it is executed or decided, so a paused
  one is gone after a restart (`Write` leaves `db` alone, `Restart` fills `mem` from
  it);
* a plugin that stops reading, or a call that is in its write to it, holds a caller in
  its write beyond every timeout, though `docs/plugins/protocol-draft.md:35` has
  "Reads and writes respect context timeout/cancellation." and
  `docs/plugins/system.md:28` "| Plugin hangs | call timeout, heartbeat, kill policy |".
  An execution then stays without an outcome, and `wg.Wait` and with it the shutdown
  do not return (`PluginsRead` in `ActionLifecycle`, `PluginReads` in `PluginCalls`); the
  plugin's own health loop stays there too and never kills it (`HealthBlocks`, the
  exception in `HungIsKilled`); and the one goroutine of `Runtime.healthLoop` asks and
  reports no other plugin any more (`WatchBlocks`, the exception in
  `SilenceIsReported`);
* the capabilities of a plugin whose id has a dot are not reached by their names: the
  action `a.b.x` is for plugin `a`, and if that one declares `b.x` it gets it
  (`Plugin`, `Capability`);
* events of senders with different UTC offsets come back from the table by their local
  times, so a restart mixes their order, and its limit may cut a newer event and
  keep an older one (`LocalTime`, `ListEvents`);
* a start that comes after a stop but before the stopped process was waited for leads
  to two processes, since the late monitor takes the new context for its own
  (`PluginLeak`); so may one during a backoff, unless the monitor's start comes first;
* the reader of answers handles the plugin's requests itself, so a slow handler, or
  an answer that cannot be written, delays every call to that plugin, and a line
  beyond the payload limit ends it until the next restart (`HandleRequest`,
  `LineTooLong`); the answer to `plugin.stop` is refused because the plugin no longer
  runs, and the answer to any request of a dead process goes to the next one;
* a plugin turned on whose entry was disabled at boot is not registered: the start
  fails, the log says so and the API says ok (`ConfigureStarts`); the environment a
  request brings never reaches the process, whose `spec` was made at boot; a plugin
  that a request turns off while the boot is about to start it starts all the same
  (`loadPlugins` copied the entry; `LoadStart`);
* a boot that fails leaves the plugins before the failing one running
  (`LoadBreaks` ends nothing), and a request between `Register` and `Start` makes it
  fail (`excuse`);
* a plugin that obeys `plugin.stop` dies by itself, which its monitor takes for a
  crash: after its backoff it may start the plugin again behind the shutdown
  (`ComesBack`, `revived`);
* an event under the id of the last one sent is not shown until another follows,
  and neither is a status that changed while the number of actions stayed
  (`PollEvents`, `PollActions`); the save of an older event that comes late replaces
  the row of a newer one with its id (`SaveEvent`);
* `POST /api/events` answers with an empty id when the core made it up, since
  `EmitEvent` works on a copy; `Shutdown` of the API waits for open streams;
* `UpdatedAt` of a session may go back, in memory and in the database, when two
  events touch it at once (`Update` and `Save` do not compare).

Bounds. Two handlers and two executions are enough for every race of the
pipeline: each property relates a record to the goroutines that wrote it, and two
writers of one id already produce every order. One id that a workflow and a
plugin share makes overwriting possible (`ActionCore`); where they are distinct, one of
each is enough, since a third action would share nothing with them but the goroutines
(`ActionUniqueIds`). `PluginBoot` has `MaxRestarts = 1` and `MaxHealthFailures = 2` in
place of the 3 and 3 that `runtime.New` passes: a restart and a start after it, a
budget that is used up, a failure below the limit and one at it. Its starts are in
order (`MayOverlap = FALSE`): what an overlap breaks is `PluginLeak`, and
what it does not break is proved for any overlap (`BudgetTheorem`,
`AnnouncedTheorem`, `SwitchRefinement`, `RunningIsWatched`), while the properties about
one process are about starts in order. Health loops of earlier processes overlap with
later ones all the same.
Two calls with three attempts each is what the table, the retry limit and late
answers need: an answer to an old attempt, to another call, and to nobody. Two
events, two subscriptions, a history of two with up to four events: every
publisher finds another one between any of its steps, and the history overflows.
`EventChain` has the depth limit 4 in place of 20: two rounds of the two-workflow
circle and the refusal, with one event from outside, since chains of different
events share nothing. `WorkflowReload` needs one configured and one other workflow,
which a restart treats differently, and two requests, since a third overlap adds
no new outcome for a request that is alone. `SessionTracking` has two handlers for
one session to race for, two sessions so that a restore limit of one leaves one
out, and a clock with three values: created, touched, touched by the other.
`PluginBoard` has three
plugins, one of them with a dot in its id, and two capabilities, one of them with a
dot, in four lists: a pair whose names make the same action type, a disabled one that
would clash when it is turned on, one plugin twice, and an inline entry, which is
skipped; its monitors and health rounds are unbounded, and its watch reports the second
failure in a row instead of the third. One request is enough to disturb boot,
watch and shutdown, while the proofs take any number of them. `ControlStreams`
publishes three events, under three ids or fewer, into a history of two, so that it
overflows and an id can come back while it is still there or after it has left; two
actions make a count that differs
and one that agrees; two times, a
sender who is ahead of the others by more than these, and one restart with a limit
below and one above the history's are the cases of restoring.
No bound cuts a behaviour short silently: `MaxSeq`, `MaxStarts`, `MayOverlap` and
`MaxSubs` bound requests, starts and subscriptions by guards, and the proofs are for
all their values.

Deadlock is checked in `ActionCore`, `WorkflowReload`, `SessionTracking` and `ControlStreams`. The
others stop by design once the bounded operations are used up, or, in
`EventChain`, when the core is at rest, in `PluginBoard` when it has ended, so `CHECK_DEADLOCK FALSE` stands there.

Fairness. Weak fairness of the steps of started goroutines (Go schedules them and
their timers fire): handlers and executions in `ActionLifecycle` (an execution
whose request is written ends because its context has a deadline), monitors and health
loops in `PluginProcess`, timeouts and retries in `PluginCalls`, publishers in `EventBus`,
answers to matches and executions in `EventChain`, the rounds and checks of the
health watch in `PluginBoard`, the tickers in `ControlStreams`. The other modules
have none.
Nothing is assumed about handlers of the bus, operators, requests, shutdown or
restarts, and of plugins only what a property says itself. The write of a request to a
plugin's stdin is under no deadline and has no fairness in `ActionLifecycle`
(`Written`), `PluginProcess` (`HealthWritten`) and `PluginBoard` (a check leaves fairly
only while `stuck = NoId`). `EveryGrantEnds` therefore has the hypothesis `PluginsRead`,
and `HungIsKilled` and `SilenceIsReported` except the goroutine that stays in its
write. `PluginCalls` gives a write fairness if the plugin reads (`PluginReads`).
`EventChain` has weak fairness of the end of every execution, so `Quiesces` too is about
plugins that read. The one strong fairness, of `HealthReturns` in `PluginProcess`, says
that a check does not alternate for ever between its write and its wait: it has three
attempts, and each wait has a timeout.

## Proofs

All hold for every value of the constants that meets the named assumptions.

* `ActionLifecycleProofs`: `TypeOK`; `AllowedIsBeingExecuted`, inductive with
  `TypeOK` (the guard `Accepting` guarantees room for the launch, which is the
  bound `Execs`, not a property of the code); `GateRespected`, strengthened to
  the handlers that are about to launch. `PersistedAllowedIsFollowedUp` needs that
  a record is in the store wherever somebody works on it
  (`WorkIsOnStoredActions`), that an execution writes nothing but outcomes, and that
  without a database the table stays empty (`DbInv`). `Refinement` maps the handlers and executions of an id to the two
  counters of `ActionGrants`: each step adds or takes one element of the sets they
  count, and the lemmas on cardinalities say what that does to the counters.
  `PausedUntilDecided` is proved for any plugins that choose their ids outside the
  engine's (`PausedTheorem`), and supposes that no start finds old actions
  (`NoOldActions`: no restart, or no database), because the engine counts from zero
  again. `PauseInv` says that while an action of a workflow is paused no handler holds a
  grant for it and no execution runs under its id, and that ids beyond the engine's
  counter are not in the store.
* `PluginProcessProofs`: `TypeOK` is not inductive by itself, since the number of
  the next process stays in range only by the restart budget, and the budget
  needs that processes, monitors and loops beyond the current number do not
  exist. `BudgetInv` is their conjunction. `AnnouncedIsCurrent` holds for any
  number of starts. `ChainInv` says that earlier processes
  are dead with their monitors done, and that the current monitor waits for the
  current process; it holds for any number of starts, stops and restarts as long as no
  start came before an earlier monitor was done (`orderly`), and `OneProcessInOrder`,
  `CrashWatched` and `StopIsFinal` follow. The run
  `PluginLeak` shows that this hypothesis is needed. `SwitchRefinement` needs no such
  hypothesis: `PluginProcess` implements `PluginSwitch` with any number of starts,
  where a plugin is watched if some monitor waits or is about to. A start out of a
  backoff always brings a monitor along because the budget leaves a number for it
  (`BudgetInv`). What `PluginSwitch` says of running and watched plugins is inherited
  (`RunningIsWatched`).
* `PluginCallsProofs`: that request ids stay in range is itself an induction: the
  sequence number equals the number of attempts made (`Counted`, a cardinality), and
  there are `MaxAttempts` of them for each call. `Owners` says that no two calls hold
  one id, that ids beyond `p.seq` are unused, and that a channel holds the answer to
  its own request or nothing; `Phases` what a call has done at each place. `CallsInv`
  adds the three properties, which are inductive with these.
* `PluginBoardProofs`: `Loaded` says which entries before the loader are registered
  and routed, `Loading` what holds of the entry it is at, `Alive` that only registered
  plugins run or come back, `Asked` that a request's place agrees with what it asks
  for, `Stopping` that what shutdown has passed stays down or was started again. `BootFailsForCause` and
  `ConfigureTakesEffect` are inductive with them (`BoardInv`); the other two follow.
  `PluginBoard` is proved for any lists and any number of concurrent requests.
  `RoutingIsRight` is for names of any number of segments; `SplitUndotted` says that the
  split of an action's type gives back the id and the capability where the id has no dot.
  `EachIsASwitch` shows that each plugin on the board is a `PluginSwitch` too, so the
  board does nothing to `running`, the monitors and the backoffs of a plugin that
  the process could not do.
* `EventBusProofs`: `IInv` adds to the types that subscription ids are handed out
  in order, that a publish's calls are exactly the subscriptions of its snapshot
  that are still due, and that an unfinished handler is awaited or its publish
  has failed. The history part is independent: trimming after each append equals
  trimming the whole log (`RecordKeepsNewest`).
* `EventBusProofs`, second part, about `ControlStreams`: `TypeOK` with the history
  holding each event once, which needs that the events in the history, on their way
  to the table and in it are all numbered by the counter of publishes
  (`EventsNumbered`). `RestoredIsNewest` then is a fact of one step: the rows come
  back in descending order of local time, are turned round and trimmed, and the lemmas
  `ListedAreRows`, `RestoredFrom` and `RestartIsNewest` follow a row through these;
  `OneOffset` turns local times of one offset into times.
  The liveness of the streams rests on two facts that are proved as invariants: a
  client of the action stream with the right number has been shown all actions
  (`ListsTheorem`, by `CountIsOfShown`: what was shown is part of the store and the
  number is its size), and a client of the event stream whose last id is the newest
  has been shown the whole history (`ShownTheorem`, by `ShownUpToLast`). The latter
  supposes that no event comes under the id a client was sent last (`IdsMoveOn`);
  with such an event it is false, as said above. `LimitsAssumption`,
  `StampsAssumption` and `IdsAssumption` are hypotheses of these theorems and assumptions of
  `ControlStreams`.
* `EventChainProofs`: a chain may contain status events, whose depth is zero, so
  the depth alone bounds nothing. `CutInv` says of every action, and of every
  `action.executed`, that its depth exceeds the number of links at the end of its
  chain that start from `action.executed` (`Below`), and that accepted events are
  within the limit; `RunsAreCut` follows for each stretch of a chain. `TraceInv`
  says of the trace of `action.executed` what `TraceIsKept` says of its action's,
  and that all other events have none. `MatchesAreAnswered` is inductive with
  `TypeOK`.
* `WorkflowReloadProofs`: `AloneInv` describes how far a request without overlap
  has changed the three copies and what `before` still equals; `AllOrNothing` is
  an action property that follows from it. `PromiseInv` adds that a promise other
  than "unknown" is only held while no request is on its way.
* `SessionTrackingProofs`: `OneIdentity` and `EverySessionIsSaved` are inductive
  with `TypeOK`, which carries the order of times that tells a known session from
  a missing one.

Only model-checked: everything under fairness, since liveness and `ENABLED` are out
of the prover's reach: `DeathIsNoticed`, `HungIsKilled`, `EveryCallReturns`,
`EveryPublishReturns`, `Quiesces`, `SilenceIsReported`, `EventsAreShown`,
`ActionsAreListed` and `EveryGrantEnds`, which together with `Refinement` makes the
pipeline implement `ActionGrants` with its fairness. Nothing uses recursion.

## Not modelled

* Configuration, manifests, logger and commands: parsing and output at boot.
* The codec, the context builder, `internal/plugins/supervisor.go` and
  `internal/plugins/registry.go`: no program code calls them.
* Interpolation of payloads and the mock executor's list: data that nothing reads
  back.
* `logStream`, which sends a file again when its text changed.
* Data races without a lock: two requests of `ConfigurePlugin` write the same entry
  and its environment map. The models take the entry's flag as written at once;
  concurrent writes of the map end the program, and nothing more can be said of it.
