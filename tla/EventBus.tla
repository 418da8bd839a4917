-------------------------------- MODULE EventBus --------------------------------
(***************************************************************************)
(* The event bus (internal/events/bus.go).  Publish takes a snapshot of    *)
(* the handlers under one lock, records the event under another, and calls *)
(* the handlers one after the other with no lock held: subscriptions,      *)
(* other publishes and nested publishes of a handler come in between.  A   *)
(* handler runs in a goroutine of its own, which outlives its timeout.     *)
(***************************************************************************)
EXTENDS Naturals, Sequences, FiniteSets

CONSTANTS
    Pubs,           \* calls of Publish, each made once, named as their events
    Stored,         \* events found in storage at boot
    Types,          \* event types
    TypeOf,         \* the type of each published event
    MaxSubs,        \* bound: calls of Subscribe
    HistoryLimit    \* Options.HistoryLimit; 0 disables the history

ASSUME SubsAssumption    == MaxSubs \in Nat /\ "*" \notin Types
ASSUME TypesAssumption   == TypeOf \in [Pubs -> Types]
ASSUME HistoryAssumption == HistoryLimit \in Nat

VARIABLES
    nextID,     \* b.nextID
    subs,       \* b.subscribers and b.wildcards: the ids registered
    pattern,    \* what each subscription asked for
    history,    \* b.history
    pub,        \* calls of Publish in progress and done
    handler,    \* goroutine of a handler for an event
    log         \* every event that ever was restored or recorded, in order

vars == <<nextID, subs, pattern, history, pub, handler, log>>

SubIds == 1..MaxSubs
Events == Pubs \cup Stored

\* Types of all variables: the history never exceeds its limit, and publishers
\* call only ids of subscriptions.
TypeOK ==
    /\ nextID \in 0..MaxSubs
    /\ subs \subseteq SubIds
    /\ pattern \in [SubIds -> Types \cup {"*"}]
    /\ history \in Seq(Events) /\ log \in Seq(Events)
    /\ Len(history) <= HistoryLimit
    /\ pub \in [Pubs -> [at : {"idle", "recording", "calling", "waiting", "done", "refused"},
                         todo : SUBSET SubIds,
                         cur : SubIds \cup {0}, failed : BOOLEAN, since : 0..MaxSubs]]
    /\ handler \in [Pubs -> [SubIds -> {"none", "running", "ok", "error"}]]

Init ==
    /\ nextID = 0 /\ subs = {}
    /\ pattern = [s \in SubIds |-> "*"]
    /\ history = <<>> /\ log = <<>>
    /\ pub = [p \in Pubs |-> [at |-> "idle", todo |-> {}, cur |-> 0,
                              failed |-> FALSE, since |-> 0]]
    /\ handler = [p \in Pubs |-> [s \in SubIds |-> "none"]]

----------------------------------------------------------------------------
\* Mutant of Newest: the oldest events are kept.
Oldest(s) == SubSeq(s, 1, IF Len(s) < HistoryLimit THEN Len(s) ELSE HistoryLimit)

\* The last HistoryLimit events.
Newest(s) == IF Len(s) > HistoryLimit
             THEN SubSeq(s, Len(s) - HistoryLimit + 1, Len(s))
             ELSE s

\* openStorage fills the history before anybody subscribes or publishes.
RestoreHistory ==
    /\ log = <<>> /\ nextID = 0
    /\ \A p \in Pubs : pub[p].at = "idle"
    /\ \E e, f \in Stored : log' \in {<<e>>, <<e, f>>}
    /\ history' = Newest(log')
    /\ UNCHANGED <<nextID, subs, pattern, pub, handler>>

Subscribe(pat) ==
    /\ nextID < MaxSubs
    /\ nextID' = nextID + 1
    /\ subs' = subs \cup {nextID + 1}
    /\ pattern' = [pattern EXCEPT ![nextID + 1] = pat]
    /\ UNCHANGED <<history, pub, handler, log>>

Unsubscribe(s) ==
    /\ s \in subs
    /\ subs' = subs \ {s}
    /\ UNCHANGED <<nextID, pattern, history, pub, handler, log>>

Listens(s, p) == pattern[s] \in {TypeOf[p], "*"}

\* Publish of an event over the depth limit, or not valid.
Refuse(p) ==
    /\ pub[p].at = "idle"
    /\ pub' = [pub EXCEPT ![p].at = "refused"]
    /\ UNCHANGED <<nextID, subs, pattern, history, handler, log>>

\* Mutant of Snapshot: wildcards are called only if nobody asked for the type.
SnapshotPrefersTyped(p) ==
    /\ pub[p].at = "idle"
    /\ LET typed == {s \in subs : pattern[s] = TypeOf[p]}
       IN pub' = [pub EXCEPT ![p].at = "recording", ![p].since = nextID,
                    ![p].todo = IF typed # {} THEN typed ELSE {s \in subs : Listens(s, p)}]
    /\ UNCHANGED <<nextID, subs, pattern, history, handler, log>>

\* Publish of a valid event: snapshotHandlers.
Snapshot(p) ==
    /\ pub[p].at = "idle"
    /\ pub' = [pub EXCEPT ![p].at = "recording", ![p].since = nextID,
                          ![p].todo = {s \in subs : Listens(s, p)}]
    /\ UNCHANGED <<nextID, subs, pattern, history, handler, log>>

Record(p) ==
    /\ pub[p].at = "recording"
    /\ history' = Newest(Append(history, p))
    /\ log' = Append(log, p)
    /\ pub' = [pub EXCEPT ![p].at = "calling"]
    /\ UNCHANGED <<nextID, subs, pattern, handler>>

\* The next handler of the snapshot, in no particular order: go handler(...).
CallHandler(p, s) ==
    /\ pub[p].at = "calling"
    /\ s \in pub[p].todo
    /\ pub' = [pub EXCEPT ![p].at = "waiting", ![p].todo = @ \ {s}, ![p].cur = s]
    /\ handler' = [handler EXCEPT ![p][s] = "running"]
    /\ UNCHANGED <<nextID, subs, pattern, history, log>>

\* A handler returns into its buffered channel, whether or not it is awaited.
HandlerReturns(p, s, result) ==
    /\ handler[p][s] = "running"
    /\ handler' = [handler EXCEPT ![p][s] = result]
    /\ UNCHANGED <<nextID, subs, pattern, history, pub, log>>

\* Mutant of HandlerDone: the result of the last handler wins.
HandlerDoneLastWins(p) ==
    /\ pub[p].at = "waiting"
    /\ handler[p][pub[p].cur] \in {"ok", "error"}
    /\ pub' = [pub EXCEPT ![p].at = "calling",
                          ![p].failed = (handler[p][pub[p].cur] = "error")]
    /\ UNCHANGED <<nextID, subs, pattern, history, handler, log>>

\* The select of callHandler takes the result.
HandlerDone(p) ==
    /\ pub[p].at = "waiting"
    /\ handler[p][pub[p].cur] \in {"ok", "error"}
    /\ pub' = [pub EXCEPT ![p].at = "calling",
                          ![p].failed = @ \/ handler[p][pub[p].cur] = "error"]
    /\ UNCHANGED <<nextID, subs, pattern, history, handler, log>>

\* Mutant of HandlerTimesOut: the timeout waits for the handler to notice it.
TimesOutCooperatively(p) ==
    /\ pub[p].at = "waiting"
    /\ handler[p][pub[p].cur] # "running"
    /\ pub' = [pub EXCEPT ![p].at = "calling", ![p].failed = TRUE]
    /\ UNCHANGED <<nextID, subs, pattern, history, handler, log>>

\* The select takes the timeout, or the publisher's own context being done: an
\* error, and on to the next handler.
HandlerTimesOut(p) ==
    /\ pub[p].at = "waiting"
    /\ pub' = [pub EXCEPT ![p].at = "calling", ![p].failed = TRUE]
    /\ UNCHANGED <<nextID, subs, pattern, history, handler, log>>

PublishReturns(p) ==
    /\ pub[p].at = "calling"
    /\ pub[p].todo = {}
    /\ pub' = [pub EXCEPT ![p].at = "done"]
    /\ UNCHANGED <<nextID, subs, pattern, history, handler, log>>

Next ==
    \/ RestoreHistory
    \/ \E pat \in Types \cup {"*"} : Subscribe(pat)
    \/ \E s \in SubIds : Unsubscribe(s)
    \/ \E p \in Pubs :
         \/ Refuse(p) \/ Snapshot(p) \/ Record(p)
         \/ \E s \in SubIds : \/ CallHandler(p, s)
                              \/ \E result \in {"ok", "error"} : HandlerReturns(p, s, result)
         \/ HandlerDone(p) \/ HandlerTimesOut(p) \/ PublishReturns(p)

\* Goroutines of publishers run and timers fire; a handler may never return.
Fairness ==
    \A p \in Pubs :
        /\ WF_vars(Record(p))
        /\ WF_vars(\E s \in SubIds : CallHandler(p, s))
        /\ WF_vars(HandlerTimesOut(p))
        /\ WF_vars(PublishReturns(p))

Spec == Init /\ [][Next]_vars
FairSpec == Spec /\ Fairness

----------------------------------------------------------------------------
\* The history is the newest HistoryLimit of all events recorded, by whichever
\* goroutines, and of those restored.  (record, RestoreHistory.)
HistoryIsNewest ==
    /\ Len(history) = HistoryLimit \/ history = log
    /\ \A i \in 1..Len(history) :
          history[i] = log[i + Len(log) - Len(history)]

\* A publish that returned has called every subscription that was there when it
\* began and is still there, whatever its other handlers did or unsubscribed.
\* (snapshotHandlers and the loop of Publish.)
StandingSubscribersServed ==
    \A p \in Pubs, s \in subs :
        (pub[p].at = "done" /\ s <= pub[p].since /\ Listens(s, p)) =>
            handler[p][s] # "none"

\* A subscription made after the publish began, or for another type, is not
\* called with its event.  (snapshotHandlers.)
OthersUndisturbed ==
    \A p \in Pubs, s \in SubIds :
        handler[p][s] # "none" => s <= pub[p].since /\ Listens(s, p)

\* A publish that returned without an error had every handler it called return,
\* without an error, in time.  (errors.Join over callHandler's results.)
SuccessIsComplete ==
    \A p \in Pubs, s \in SubIds :
        (pub[p].at = "done" /\ ~pub[p].failed) => handler[p][s] \in {"none", "ok"}

\* A publish returns although its handlers never do.  (callHandler's select.)
EveryPublishReturns == \A p \in Pubs : pub[p].at = "recording" ~> pub[p].at = "done"
=================================================================================
