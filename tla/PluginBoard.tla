------------------------------ MODULE PluginBoard ------------------------------
(***************************************************************************)
(* All plugins as the runtime sees them (internal/runtime/runtime.go):     *)
(* loadPlugins registers and starts them and fills the routing table       *)
(* (internal/capabilities/router.go), ConfigurePlugin turns them on and    *)
(* off at the control API's request, healthLoop asks each in turn, and     *)
(* shutdown stops them.  They meet in the supervisor's map                 *)
(* (internal/plugins/supervisor/supervisor.go), where each operation locks *)
(* one process for itself.  What happens inside a process is PluginProcess;*)
(* here it runs or not, may fall at any time, and may come back.           *)
(***************************************************************************)
EXTENDS Naturals, Sequences

CONSTANTS
    Segments,   \* what names are made of, between their dots
    Ids,        \* plugin ids
    Caps,       \* names of capabilities
    Boards,     \* plugin lists of the configuration
    Requests,   \* handlers of the control API
    MaxFailures,  \* failures in a row that are reported (3 in the code)
    NoId

Entries == [id : Ids, caps : SUBSET Caps, inline : BOOLEAN, enabled : BOOLEAN]

Names == Seq(Segments) \ {<<>>}

ASSUME NamesAssumption  == Ids \subseteq Names /\ Caps \subseteq Names
ASSUME IdsAssumption    == NoId \notin Ids \cup Requests
ASSUME HealthAssumption == MaxFailures \in Nat \ {0}
ASSUME BoardsAssumption == Boards \subseteq Seq(Entries)

VARIABLES
    board,      \* r.options.Config.Plugins
    phase,      \* how far Run and shutdown are
    loader,     \* loadPlugins: the entry, what is next, capabilities to register
    registered, \* ids in the supervisor's map
    running,    \* PluginProcess.running
    watched,    \* a monitor waits for a process of the plugin, or is about to
    back,       \* a monitor is in its backoff and will start the plugin again
    route,      \* the router's table: the plugin a capability belongs to
    request,    \* ConfigurePlugin goroutines; alone: nobody else touched the plugin
    todo,       \* healthLoop: plugins still to ask in this round
    failures,   \* healthLoop: failures in a row
    report,     \* healthLoop: the plugin a plugin.error was just published for
    stuck,      \* healthLoop: the plugin that does not read what it is being sent
    toStop,     \* shutdown: plugins it has not stopped yet
    wanted,     \* auxiliary: entries that were ever enabled before they were loaded
    excuse,     \* auxiliary: loading met a fault, or a request was faster
    revived     \* auxiliary: plugins running again after shutdown stopped them

fleet == <<registered, running, watched, back>>
watch == <<todo, failures, report, stuck>>
aux   == <<wanted, excuse, revived>>
vars  == <<board, phase, loader, fleet, route, request, watch, toStop, aux>>

Idle == [at |-> "idle", id |-> NoId, on |-> FALSE, alone |-> FALSE]

\* Types of all variables.
TypeOK ==
    /\ board \in Seq(Entries)
    /\ phase \in {"booting", "serving", "stopping", "draining", "closed", "failed"}
    /\ loader \in [entry : Nat \ {0}, at : {"entry", "start", "caps"}, caps : SUBSET Caps]
    /\ loader.at # "entry" => loader.entry \in DOMAIN board
    /\ registered \in SUBSET Ids /\ toStop \in SUBSET Ids
    /\ running \in [Ids -> BOOLEAN] /\ watched \in [Ids -> BOOLEAN]
    /\ back \in [Ids -> BOOLEAN]
    /\ route \in [Caps -> Ids \cup {NoId}]
    /\ request \in [Requests -> [at : {"idle", "check", "restop", "start", "stop", "answer"},
                                 id : Ids \cup {NoId}, on : BOOLEAN, alone : BOOLEAN]]
    /\ \A q \in Requests : request[q].at # "idle" => request[q].id \in Ids
    /\ todo \in SUBSET Ids
    /\ failures \in [Ids -> 0..(MaxFailures - 1)]
    /\ report \in Ids \cup {NoId}
    /\ stuck \in todo \cup {NoId}
    /\ wanted \subseteq DOMAIN board
    /\ excuse \in BOOLEAN
    /\ revived \in SUBSET Ids

Init ==
    /\ board \in Boards
    /\ phase = "booting"
    /\ loader = [entry |-> 1, at |-> "entry", caps |-> {}]
    /\ registered = {} /\ toStop = {} /\ todo = {}
    /\ running = [i \in Ids |-> FALSE]
    /\ watched = [i \in Ids |-> FALSE]
    /\ back = [i \in Ids |-> FALSE]
    /\ route = [c \in Caps |-> NoId]
    /\ request = [q \in Requests |-> Idle]
    /\ failures = [i \in Ids |-> 0]
    /\ report = NoId /\ stuck = NoId
    /\ wanted = {k \in DOMAIN board : board[k].enabled}
    /\ excuse = FALSE /\ revived = {}

CoreRuns == phase \notin {"closed", "failed"}

\* The requests, when somebody else than by has changed plugin id.
Disturbed(id, by) ==
    [q \in Requests |-> IF request[q].id = id /\ q # by
                        THEN [request[q] EXCEPT !.alone = FALSE] ELSE request[q]]

\* Process id starts to run or no longer does.
Runs(id, value) ==
    /\ running' = [running EXCEPT ![id] = value]
    /\ revived' = IF value /\ phase \in {"stopping", "draining"} /\ id \notin toStop
                  THEN revived \cup {id} ELSE revived \ {id}

\* startLocked: the process brings a monitor along.
Starts(id) == Runs(id, TRUE) /\ watched' = [watched EXCEPT ![id] = TRUE]

\* stopLocked: the monitor goes on until it finds the process dead.
Stops(id) == Runs(id, FALSE) /\ UNCHANGED watched

----------------------------------------------------------------------------
\* loadPlugins.  It reads an entry when it comes to it.
Entry == board[loader.entry]

After(left) ==
    IF left = {} THEN [entry |-> loader.entry + 1, at |-> "entry", caps |-> {}]
                 ELSE [loader EXCEPT !.at = "caps", !.caps = left]

\* Mutant of LoadEntry: a disabled plugin is loaded too.
LoadEntryAnyway ==
    /\ phase = "booting" /\ loader.at = "entry" /\ loader.entry <= Len(board)
    /\ IF Entry.inline
       THEN loader' = After({}) /\ UNCHANGED <<phase, registered, request>>
       ELSE IF Entry.id \in registered
       THEN phase' = "failed" /\ UNCHANGED <<loader, registered, request>>
       ELSE /\ registered' = registered \cup {Entry.id}
            /\ loader' = [loader EXCEPT !.at = "start"]
            /\ request' = Disturbed(Entry.id, NoId)
            /\ UNCHANGED phase
    /\ UNCHANGED <<board, running, watched, back, route, watch, toStop, aux>>

\* A disabled or inline plugin is skipped; Supervisor.Register refuses an id that
\* is in the map, and that ends the boot.
LoadEntry ==
    /\ phase = "booting" /\ loader.at = "entry" /\ loader.entry <= Len(board)
    /\ IF ~Entry.enabled \/ Entry.inline
       THEN loader' = After({}) /\ UNCHANGED <<phase, registered, request>>
       ELSE IF Entry.id \in registered
       THEN phase' = "failed" /\ UNCHANGED <<loader, registered, request>>
       ELSE /\ registered' = registered \cup {Entry.id}
            /\ loader' = [loader EXCEPT !.at = "start"]
            /\ request' = Disturbed(Entry.id, NoId)
            /\ UNCHANGED phase
    /\ UNCHANGED <<board, running, watched, back, route, watch, toStop, aux>>

\* A manifest that cannot be loaded, a command that cannot be started or a manifest
\* that lists a capability twice ends the boot.  What was started before keeps running.
LoadBreaks ==
    /\ phase = "booting"
    /\ \/ loader.at \in {"start", "caps"}
       \/ /\ loader.at = "entry" /\ loader.entry <= Len(board)
          /\ Entry.enabled /\ ~Entry.inline
    /\ phase' = "failed" /\ excuse' = TRUE
    /\ UNCHANGED <<board, loader, fleet, route, request, watch, toStop, wanted, revived>>

\* Supervisor.Start, which refuses a plugin that already runs.
LoadStart ==
    /\ phase = "booting" /\ loader.at = "start"
    /\ IF running[Entry.id]
       THEN phase' = "failed" /\ UNCHANGED <<loader, running, watched, request, revived>>
       ELSE /\ Starts(Entry.id)
            /\ loader' = After(Entry.caps)
            /\ request' = Disturbed(Entry.id, NoId)
            /\ UNCHANGED phase
    /\ UNCHANGED <<board, registered, back, route, watch, toStop, wanted, excuse>>

\* Mutant of LoadCapability: the last plugin to register a capability gets it.
LoadCapabilityReplaces(c) ==
    /\ phase = "booting" /\ loader.at = "caps" /\ c \in loader.caps
    /\ route' = [route EXCEPT ![c] = Entry.id]
    /\ loader' = After(loader.caps \ {c})
    /\ UNCHANGED <<board, phase, fleet, request, watch, toStop, aux>>

\* Router.RegisterCapability, which refuses a capability that is in the table.
LoadCapability(c) ==
    /\ phase = "booting" /\ loader.at = "caps" /\ c \in loader.caps
    /\ IF route[c] # NoId
       THEN phase' = "failed" /\ UNCHANGED <<loader, route>>
       ELSE /\ route' = [route EXCEPT ![c] = Entry.id]
            /\ loader' = After(loader.caps \ {c})
            /\ UNCHANGED phase
    /\ UNCHANGED <<board, fleet, request, watch, toStop, aux>>

\* All loaded: healthLoop starts and Run waits for the end.
Booted ==
    /\ phase = "booting" /\ loader.entry > Len(board)
    /\ phase' = "serving"
    /\ UNCHANGED <<board, loader, fleet, route, request, watch, toStop, aux>>

\* An action's type is the plugin's id, a dot and the capability, each of which may
\* have dots of its own.  executeActionAsync splits it at the first one.
ActionType(id, c)  == id \o c
Plugin(type)     == <<Head(type)>>
Capability(type) == Tail(type)

\* Router.Call, with the handler loadPlugins registered: the plugin that is called
\* for an action, if any.
Reached(type) ==
    IF Capability(type) \in Caps /\ route[Capability(type)] = Plugin(type)
    THEN Plugin(type) ELSE NoId

----------------------------------------------------------------------------
\* ConfigurePlugin finds the first entry with the id, writes it, and goes on with
\* the process; an unknown id is an error.
Configure(q, id, on) ==
    /\ phase \in {"booting", "serving", "stopping"}
    /\ request[q].at = "idle"
    /\ \E k \in DOMAIN board :
         /\ board[k].id = id
         /\ \A j \in 1..(k - 1) : board[j].id # id
         /\ board' = [board EXCEPT ![k].enabled = on]
         /\ wanted' = IF on THEN wanted \cup {k} ELSE wanted
    /\ request' = [request EXCEPT ![q] = [at |-> IF on THEN "check" ELSE "stop",
                                          id |-> id, on |-> on, alone |-> TRUE]]
    /\ UNCHANGED <<phase, loader, fleet, route, watch, toStop, excuse, revived>>

\* Supervisor.IsRunning
ConfigureChecks(q) ==
    /\ CoreRuns /\ request[q].at = "check"
    /\ request' = [request EXCEPT ![q].at =
                     IF running[request[q].id] THEN "restop" ELSE "start"]
    /\ UNCHANGED <<board, phase, loader, fleet, route, watch, toStop, aux>>

\* Mutant of ConfigureStops: the plugin is stopped to be started again, but the
\* request returns.
ConfigureStopsOnly(q) ==
    /\ CoreRuns /\ request[q].at \in {"restop", "stop"}
    /\ LET id == request[q].id
       IN /\ IF running[id] THEN Stops(id) ELSE UNCHANGED <<running, watched, revived>>
          /\ request' = [(IF running[id] THEN Disturbed(id, q) ELSE request)
                            EXCEPT ![q].at = "answer"]
    /\ UNCHANGED <<board, phase, loader, registered, back, route, watch, toStop,
                   wanted, excuse>>

\* Supervisor.Stop; the error for a plugin that does not run is dropped.  A
\* monitor in its backoff goes on.
ConfigureStops(q) ==
    /\ CoreRuns /\ request[q].at \in {"restop", "stop"}
    /\ LET id == request[q].id
       IN /\ IF running[id] THEN Stops(id) ELSE UNCHANGED <<running, watched, revived>>
          /\ request' = [(IF running[id] THEN Disturbed(id, q) ELSE request)
                            EXCEPT ![q].at = IF @ = "restop" THEN "start" ELSE "answer"]
    /\ UNCHANGED <<board, phase, loader, registered, back, route, watch, toStop,
                   wanted, excuse>>

\* Supervisor.Start after the pause; its errors are logged only.
ConfigureStarts(q) ==
    /\ CoreRuns /\ request[q].at = "start"
    /\ LET id == request[q].id
       IN IF id \in registered /\ ~running[id]
          THEN /\ Starts(id)
               /\ request' = [Disturbed(id, q) EXCEPT ![q].at = "answer"]
               /\ excuse' = \/ excuse
                            \/ /\ phase = "booting" /\ loader.at = "start"
                               /\ Entry.id = id
          ELSE /\ request' = [request EXCEPT ![q].at = "answer"]
               /\ UNCHANGED <<running, watched, revived, excuse>>
    /\ UNCHANGED <<board, phase, loader, registered, back, route, watch, toStop, wanted>>

\* The command cannot be started: nothing runs, and nobody is told.
ConfigureStartBreaks(q) ==
    /\ CoreRuns /\ request[q].at = "start"
    /\ request[q].id \in registered /\ ~running[request[q].id]
    /\ request' = [request EXCEPT ![q].at = "answer", ![q].alone = FALSE]
    /\ UNCHANGED <<board, phase, loader, fleet, route, watch, toStop, aux>>

\* The request is answered, with ok in all these cases.
Answer(q) ==
    /\ CoreRuns /\ request[q].at = "answer"
    /\ request' = [request EXCEPT ![q] = Idle]
    /\ UNCHANGED <<board, phase, loader, fleet, route, watch, toStop, aux>>

----------------------------------------------------------------------------
\* A monitor finds a process of the plugin dead, perhaps an earlier one than runs now
\* or after a Stop, and perhaps goes into its backoff.
Falls(id) ==
    /\ CoreRuns /\ watched[id]
    /\ Runs(id, FALSE)
    /\ watched' \in {watched, [watched EXCEPT ![id] = FALSE]}
    /\ back' \in {back, [back EXCEPT ![id] = TRUE]}
    /\ request' = IF running[id] THEN Disturbed(id, NoId) ELSE request
    /\ UNCHANGED <<board, phase, loader, registered, route, watch, toStop, wanted, excuse>>

\* The backoff is over: the monitor starts the plugin, whatever happened to it
\* meanwhile, or cannot start it.  A monitor of another process of the plugin, which
\* a Start during the backoff leads to, may be in its backoff still.
ComesBack(id) ==
    /\ CoreRuns /\ back[id]
    /\ back' \in {back, [back EXCEPT ![id] = FALSE]}
    /\ \/ Starts(id) /\ request' = Disturbed(id, NoId)
       \/ UNCHANGED <<running, watched, revived, request>>
    /\ UNCHANGED <<board, phase, loader, registered, route, watch, toStop, wanted, excuse>>

\* The plugin asks to be stopped (handlePluginStop); no answer can reach it.
PluginStops(id) ==
    /\ CoreRuns /\ running[id]
    /\ Stops(id)
    /\ request' = Disturbed(id, NoId)
    /\ UNCHANGED <<board, phase, loader, registered, back, route, watch, toStop,
                   wanted, excuse>>

----------------------------------------------------------------------------
\* Mutant of WatchTick: the counters are made anew for each round.
WatchTickForgets ==
    /\ phase = "serving" /\ todo = {}
    /\ todo' = registered /\ report' = NoId
    /\ failures' = [i \in Ids |-> 0]
    /\ UNCHANGED <<board, phase, loader, fleet, route, request, stuck, toStop, aux>>

\* Runtime.healthLoop: a round over the plugins in any order.
WatchTick ==
    /\ phase = "serving" /\ todo = {}
    /\ todo' = registered /\ report' = NoId
    /\ UNCHANGED <<board, phase, loader, fleet, route, request, failures, stuck, toStop, aux>>

\* The one goroutine of the watch is in its write to a plugin that does not read,
\* which no deadline covers.
WatchBlocks(id) ==
    /\ CoreRuns /\ id \in todo /\ running[id]
    /\ stuck = NoId
    /\ stuck' = id
    /\ UNCHANGED <<board, phase, loader, fleet, route, request, todo, failures, report, toStop, aux>>

\* The check of a plugin is over; perhaps its write has ended at last.
WatchLeaves(id) ==
    /\ CoreRuns /\ id \in todo /\ stuck \in {NoId, id}
    /\ todo' = todo \ {id} /\ stuck' = NoId

\* The health call fails: the plugin does not run, does not answer in time, or has
\* died with the write.
WatchFails(id) ==
    /\ WatchLeaves(id)
    /\ IF failures[id] + 1 >= MaxFailures
       THEN report' = id /\ failures' = [failures EXCEPT ![id] = 0]
       ELSE report' = NoId /\ failures' = [failures EXCEPT ![id] = @ + 1]
    /\ UNCHANGED <<board, phase, loader, fleet, route, request, toStop, aux>>

WatchPasses(id) ==
    /\ WatchLeaves(id) /\ running[id]
    /\ report' = NoId /\ failures' = [failures EXCEPT ![id] = 0]
    /\ UNCHANGED <<board, phase, loader, fleet, route, request, toStop, aux>>

----------------------------------------------------------------------------
\* The context of Run is done; shutdown takes the list of plugins.
BeginShutdown ==
    /\ phase = "serving"
    /\ phase' = "stopping" /\ toStop' = registered
    /\ UNCHANGED <<board, loader, fleet, route, request, watch, aux>>

\* Mutant of ShutdownStops: shutdown ends at the first error.
ShutdownStopsOrGivesUp(id) ==
    /\ phase = "stopping" /\ id \in toStop
    /\ IF running[id]
       THEN Stops(id) /\ request' = Disturbed(id, NoId) /\ toStop' = toStop \ {id}
       ELSE UNCHANGED <<running, watched, request, revived>> /\ toStop' = {}
    /\ UNCHANGED <<board, phase, loader, registered, back, route, watch, wanted, excuse>>

\* plugin.stop has been sent, and Supervisor.Stop follows; its error for a plugin
\* that does not run is printed.
ShutdownStops(id) ==
    /\ phase = "stopping" /\ id \in toStop
    /\ toStop' = toStop \ {id}
    /\ IF running[id]
       THEN Stops(id) /\ request' = Disturbed(id, NoId)
       ELSE UNCHANGED <<running, watched, request, revived>>
    /\ UNCHANGED <<board, phase, loader, registered, back, route, watch, wanted, excuse>>

\* wg.Wait has returned: the control API takes no more requests, and once those on
\* their way are answered the storage is closed.
Drain ==
    /\ phase = "stopping" /\ toStop = {}
    /\ phase' = "draining"
    /\ UNCHANGED <<board, loader, fleet, route, request, watch, toStop, aux>>

Close ==
    /\ phase = "draining" /\ \A q \in Requests : request[q].at = "idle"
    /\ phase' = "closed"
    /\ UNCHANGED <<board, loader, fleet, route, request, watch, toStop, aux>>

Next ==
    \/ LoadEntry \/ LoadBreaks \/ LoadStart \/ Booted
    \/ \E c \in Caps : LoadCapability(c)
    \/ \E q \in Requests :
         \/ \E id \in Ids, on \in BOOLEAN : Configure(q, id, on)
         \/ ConfigureChecks(q) \/ ConfigureStops(q)
         \/ ConfigureStarts(q) \/ ConfigureStartBreaks(q) \/ Answer(q)
    \/ \E id \in Ids :
         \/ Falls(id) \/ ComesBack(id) \/ PluginStops(id)
         \/ WatchBlocks(id) \/ WatchFails(id) \/ WatchPasses(id) \/ ShutdownStops(id)
    \/ WatchTick \/ BeginShutdown \/ Drain \/ Close

\* healthLoop's timer fires and its calls return, unless they are in their write:
\* nothing makes that end.
Fairness ==
    /\ WF_vars(WatchTick)
    /\ \A id \in Ids : WF_vars(stuck = NoId /\ (WatchFails(id) \/ WatchPasses(id)))

Spec == Init /\ [][Next]_vars
FairSpec == Spec /\ Fairness

----------------------------------------------------------------------------
\* The plugin that an action reaches is registered and declares the capability it is
\* called with, whatever dots the names have; once the boot is done, every capability
\* of a loaded plugin whose id has no dot is reached by its name.  (loadPlugins'
\* loop, the split of executeActionAsync, Router.Call.  The capabilities of plugin
\* "a.b" are not reached: their actions are for plugin "a".)
RoutedToOwner ==
    /\ \A id \in Ids, c \in Caps :
         LET type == ActionType(id, c)
         IN Reached(type) # NoId =>
              /\ Reached(type) \in registered
              /\ \E k \in DOMAIN board : /\ board[k].id = Reached(type)
                                       /\ Capability(type) \in board[k].caps
    /\ phase \notin {"booting", "failed"} =>
         \A id \in registered : \E k \in DOMAIN board :
            /\ board[k].id = id /\ ~board[k].inline
            /\ Len(id) = 1 => \A c \in board[k].caps : Reached(ActionType(id, c)) = id

\* Two entries that cannot both be loaded.
Clash(j, k) ==
    /\ j # k /\ {j, k} \subseteq wanted
    /\ board[j].id = board[k].id \/ board[j].caps \cap board[k].caps # {}

\* The boot fails only for a fault of a plugin, two enabled plugins that clash, or
\* a request that started a plugin between its Register and its Start.  (Crashes,
\* plugins that stop themselves and all other requests leave loadPlugins alone.)
BootFailsForCause ==
    phase = "failed" => excuse \/ \E j, k \in DOMAIN board : Clash(j, k)

\* When a request is answered and nothing else has touched the plugin since it
\* came, a loaded plugin runs exactly if the request turned it on.  (ConfigurePlugin
\* looks, stops, waits and starts without a lock over it.)
ConfigureTakesEffect ==
    \A q \in Requests :
        request[q].at = "answer" /\ request[q].alone /\ request[q].id \in registered
          => running[request[q].id] = request[q].on

\* Shutdown stops every plugin whatever errors it meets: when the control API is
\* closed, the plugins that run have been started again after their turn.
ShutdownReachesEach ==
    phase \in {"draining", "closed"} => \A p \in registered : running[p] => p \in revived

\* A loaded plugin that stays down is reported again and again, unless the watch stays
\* for good in a write to some plugin.  (Runtime.healthLoop, one goroutine for all.)
SilenceIsReported ==
    \A p \in Ids :
        <>[](phase = "serving" /\ p \in registered /\ ~running[p])
          => []<>(report = p) \/ <>[](stuck # NoId)
=================================================================================
