----------------------------- MODULE ControlStreams -----------------------------
(***************************************************************************)
(* The event and action streams of the control API                         *)
(* (internal/control/server.go).  Their handlers poll the bus's history    *)
(* and the action store, and send everything again when the last event has *)
(* another id, or the number of actions is another, than at the last       *)
(* message.  Underneath, the history is trimmed at its limit, each event   *)
(* is written to the table by a goroutine of its own, and a restart        *)
(* restores what the table gives back                                      *)
(* (internal/storage/sqlite/store.go).                                     *)
(* The table orders events by the text of created_at: the sender's local   *)
(* time first, with its UTC offset behind.  Times are whole seconds here:  *)
(* the text drops trailing zeros of the fraction, so events of one second  *)
(* of local time come back in any order.                                   *)
(***************************************************************************)
EXTENDS Naturals, Sequences, FiniteSets, SequencesExt

CONSTANTS
    EventIds,       \* ids of events; the API and plugins may use one again
    ActionIds,
    Clients,        \* connections of dashboards
    HistoryLimit,   \* Options.HistoryLimit of the bus
    RestoreLimits,  \* MaxEventsPerSecond * 10, as the configuration of a boot has it
    MaxEvents,      \* bound: events ever published
    Stamps,         \* values of CreatedAt: a time and the UTC offset of its sender
    MaxBoots,       \* bound: restarts
    NoId

ASSUME LimitsAssumption ==
    /\ HistoryLimit \in Nat \ {0} /\ RestoreLimits \subseteq Nat \ {0}
    /\ MaxEvents \in Nat /\ MaxBoots \in Nat
\* Offsets count from the westernmost one.
ASSUME StampsAssumption == Stamps \subseteq [at : Nat, zone : Nat]
ASSUME IdsAssumption == NoId \notin EventIds

\* An event; n counts the publishes and tells events of one id apart.
Events == [n : 1..MaxEvents, id : EventIds, created : Stamps]
None == [n |-> 0]

\* What Format(time.RFC3339Nano) begins with: the local time of the sender.
LocalTime(e) == e.created.at + e.created.zone

VARIABLES
    published,  \* events published so far
    history,    \* b.history
    saving,     \* handlePersistenceEvent goroutines: events not yet written
    table,      \* rows of the table events
    store,      \* the action store: ids of its actions
    stream,     \* handlers of the streams: what they remember of the last message
    shown,      \* what the last message held
    boots       \* restarts so far

vars == <<published, history, saving, table, store, stream, shown, boots>>

Off == [of |-> "none", lastID |-> NoId, lastCount |-> 0]
Blank == [events |-> {}, actions |-> {}]

Rows == {table[i] : i \in EventIds} \ {None}

\* Types of all variables: the history holds each event once.
TypeOK ==
    /\ published \in 0..MaxEvents /\ boots \in 0..MaxBoots
    /\ history \in Seq(Events) /\ Len(history) <= HistoryLimit
    /\ IsInjective([k \in DOMAIN history |-> history[k].n])
    /\ saving \subseteq Events
    /\ \A i \in EventIds : table[i] \in {None} \cup {e \in Events : e.id = i}
    /\ store \subseteq ActionIds
    /\ stream \in [Clients -> [of : {"none", "events", "actions"},
                               lastID : EventIds \cup {NoId}, lastCount : Nat]]
    /\ shown \in [Clients -> [events : SUBSET (1..MaxEvents), actions : SUBSET ActionIds]]

Init ==
    /\ published = 0 /\ boots = 0
    /\ history = <<>> /\ saving = {}
    /\ table = [i \in EventIds |-> None]
    /\ store = {}
    /\ stream = [c \in Clients |-> Off]
    /\ shown = [c \in Clients |-> Blank]

Trim(s) == IF Len(s) > HistoryLimit
           THEN SubSeq(s, Len(s) - HistoryLimit + 1, Len(s)) ELSE s

----------------------------------------------------------------------------
\* EmitEvent, or any other Publish: id, time and UTC offset are the sender's.
Publish(i, t) ==
    /\ published < MaxEvents
    /\ published' = published + 1
    /\ LET e == [n |-> published', id |-> i, created |-> t]
       IN history' = Trim(Append(history, e)) /\ saving' = saving \cup {e}
    /\ UNCHANGED <<table, store, stream, shown, boots>>

\* SaveEvent replaces the row of the id, or its context is done before.
SaveEvent(e) ==
    /\ e \in saving
    /\ saving' = saving \ {e}
    /\ table' \in {table, [table EXCEPT ![e.id] = e]}
    /\ UNCHANGED <<published, history, store, stream, shown, boots>>

\* Store.Save of a new action; an action that is there is replaced.
SaveAction(a) ==
    /\ a \notin store
    /\ store' = store \cup {a}
    /\ UNCHANGED <<published, history, saving, table, stream, shown, boots>>

----------------------------------------------------------------------------
\* Mutant of Connect: the action stream starts from what there is.
ConnectFromNow(c, of) ==
    /\ stream[c].of = "none"
    /\ stream' = [stream EXCEPT ![c] = [of |-> of, lastID |-> NoId,
                                        lastCount |-> Cardinality(store)]]
    /\ UNCHANGED <<published, history, saving, table, store, shown, boots>>

Connect(c, of) ==
    /\ stream[c].of = "none"
    /\ stream' = [stream EXCEPT ![c].of = of]
    /\ UNCHANGED <<published, history, saving, table, store, shown, boots>>

\* Mutant of PollEvents: the number of events is compared, as for actions.
PollEventsByCount(c) ==
    /\ stream[c].of = "events"
    /\ Len(history) # stream[c].lastCount
    /\ stream' = [stream EXCEPT ![c].lastCount = Len(history)]
    /\ shown' = [shown EXCEPT ![c].events = {e.n : e \in ToSet(history)}]
    /\ UNCHANGED <<published, history, saving, table, store, boots>>

\* One turn of eventsStream that sends something.
PollEvents(c) ==
    /\ stream[c].of = "events"
    /\ history # <<>> /\ Last(history).id # stream[c].lastID
    /\ stream' = [stream EXCEPT ![c].lastID = Last(history).id]
    /\ shown' = [shown EXCEPT ![c].events = {e.n : e \in ToSet(history)}]
    /\ UNCHANGED <<published, history, saving, table, store, boots>>

\* One turn of actionsStream that sends something.
PollActions(c) ==
    /\ stream[c].of = "actions"
    /\ Cardinality(store) # stream[c].lastCount
    /\ stream' = [stream EXCEPT ![c].lastCount = Cardinality(store)]
    /\ shown' = [shown EXCEPT ![c].actions = store]
    /\ UNCHANGED <<published, history, saving, table, store, boots>>

\* The client goes away.
Disconnect(c) ==
    /\ stream[c].of # "none"
    /\ stream' = [stream EXCEPT ![c] = Off]
    /\ shown' = [shown EXCEPT ![c] = Blank]
    /\ UNCHANGED <<published, history, saving, table, store, boots>>

----------------------------------------------------------------------------
\* ListEvents: the rows with the latest local times, as many as the limit or all,
\* in descending order.
ListEvents(limit) ==
    { s \in SetToAllKPermutations(Rows) :
        /\ Len(s) <= limit
        /\ Len(s) = limit \/ ToSet(s) = Rows
        /\ \A j, k \in DOMAIN s : j < k => LocalTime(s[j]) >= LocalTime(s[k])
        /\ \A e \in ToSet(s), f \in Rows \ ToSet(s) : LocalTime(e) >= LocalTime(f) }

\* Mutant of RestoredHistory: the rows are taken as they come.
RestoredBackwards(s) == Trim(s)

\* openStorage turns the rows round, RestoreHistory trims them.
RestoredHistory(s) == Trim(Reverse(s))

\* The program ends at any point and starts again, or finds that it cannot read
\* its events.  Actions are restored as far as they were saved.
Restart ==
    /\ boots < MaxBoots
    /\ boots' = boots + 1
    /\ \E limit \in RestoreLimits :
         \E s \in ListEvents(limit) \cup {<<>>} : history' = RestoredHistory(s)
    /\ store' \in SUBSET store
    /\ saving' = {}
    /\ stream' = [c \in Clients |-> Off]
    /\ shown' = [c \in Clients |-> Blank]
    /\ UNCHANGED <<published, table>>

Next ==
    \/ \E i \in EventIds, t \in Stamps : Publish(i, t)
    \/ \E e \in saving : SaveEvent(e)
    \/ \E a \in ActionIds : SaveAction(a)
    \/ \E c \in Clients :
         \/ \E of \in {"events", "actions"} : Connect(c, of)
         \/ PollEvents(c) \/ PollActions(c) \/ Disconnect(c)
    \/ Restart

\* The tickers of the streams fire.
Fairness == \A c \in Clients : WF_vars(PollEvents(c)) /\ WF_vars(PollActions(c))

Spec == Init /\ [][Next]_vars
FairSpec == Spec /\ Fairness

----------------------------------------------------------------------------
\* An event that stays in the history is shown to every client that stays, unless
\* from some time on the last event has the id of the last one that was sent.
\* (eventsStream looks at that id alone.)
EventsAreShown ==
    \A c \in Clients, n \in 1..MaxEvents :
        <>[](/\ stream[c].of = "events" /\ n \notin shown[c].events
             /\ \E e \in ToSet(history) : e.n = n)
        => <>[](history # <<>> /\ Last(history).id = stream[c].lastID)

\* Every action in the store is listed to every client that stays; its status may
\* be an old one.  (actionsStream compares the number of actions alone, which is
\* enough because the store only grows.)
ActionsAreListed ==
    \A c \in Clients, a \in ActionIds :
        stream[c].of = "actions" /\ a \in store
            ~> stream[c].of # "actions" \/ a \in shown[c].actions

\* Among the events of one UTC offset, what a restart brings back is in the order
\* of time, and nothing that was left in the table is newer, whatever came between
\* them from elsewhere: the two limits and the change of direction keep the newest.
\* Across offsets neither holds.  (openStorage, ListEvents, RestoreHistory.)
RestoredIsNewest ==
    [][boots' # boots /\ history' # <<>> =>
         /\ \A j, k \in DOMAIN history' :
              j < k /\ history'[j].created.zone = history'[k].created.zone
                => history'[j].created.at <= history'[k].created.at
         /\ \A e \in ToSet(history'), f \in Rows \ ToSet(history') :
              e.created.zone = f.created.zone => e.created.at >= f.created.at
         /\ \/ Len(history') \in {HistoryLimit} \cup RestoreLimits
            \/ ToSet(history') = Rows]_vars
=================================================================================
