-------------------------- MODULE SessionTracking --------------------------
(***************************************************************************)
(* handleSessionTracking of internal/runtime/runtime.go: each event that   *)
(* names a session creates it or touches it, in the session manager        *)
(* (internal/sessions/manager.go) and then in the table sessions           *)
(* (internal/storage/sqlite/store.go).  The bus runs a handler goroutine   *)
(* for each publish, so several of them handle one session at a time, each *)
(* with a copy of its own.                                                 *)
(***************************************************************************)
EXTENDS Integers, FiniteSets

CONSTANTS Sessions,      \* session ids that events name
          Channels,      \* sources of events, the channel of a new session
          Handlers,      \* handler goroutines at a time
          RestoreLimit,  \* ListSessions(ctx, 1000)
          MaxTime        \* bound of the clock

ASSUME ConstantsAssumption ==
  /\ Sessions # {} /\ Channels # {}
  /\ RestoreLimit \in Nat
  /\ MaxTime \in Nat \ {0}

VARIABLES
  clock,      \* time.Now
  sessions,   \* Manager.sessions
  table,      \* the rows of the table sessions
  handler,    \* handler goroutines
  forgotten,  \* auxiliary: sessions with a row that was not restored
  unsaved     \* auxiliary: sessions whose last SaveSession failed

vars == <<clock, sessions, table, handler, forgotten, unsaved>>

\* A session is its identity (channel and CreatedAt) and UpdatedAt; one with the
\* zero CreatedAt is missing.
Session == [channel: Channels, created: 0..MaxTime, updated: 0..MaxTime]
Missing == [channel |-> CHOOSE c \in Channels : TRUE, created |-> 0, updated |-> 0]
Known(s) == s.created # 0
Idle == [at |-> "idle", id |-> CHOOSE s \in Sessions : TRUE, copy |-> Missing]

Timely(s) == s.created <= s.updated /\ s.updated <= clock

\* Types of all variables: times are in order and not in the future,
\* and a handler on its way carries a session.
TypeOK ==
  /\ clock \in 1..MaxTime
  /\ sessions \in [Sessions -> Session]
  /\ table \in [Sessions -> Session]
  /\ handler \in [Handlers -> [at: {"idle", "create", "update", "save"},
                               id: Sessions, copy: Session]]
  /\ \A i \in Sessions : Timely(sessions[i]) /\ Timely(table[i])
  /\ \A h \in Handlers : /\ Timely(handler[h].copy)
                         /\ handler[h].at # "idle" => Known(handler[h].copy)
  /\ forgotten \in SUBSET Sessions
  /\ unsaved \in SUBSET Sessions

Init ==
  /\ clock = 1
  /\ sessions = [i \in Sessions |-> Missing]
  /\ table = [i \in Sessions |-> Missing]
  /\ handler = [h \in Handlers |-> Idle]
  /\ forgotten = {} /\ unsaved = {}

Tick ==
  /\ clock < MaxTime
  /\ clock' = clock + 1
  /\ UNCHANGED <<sessions, table, handler, forgotten, unsaved>>

Touched(s) == [s EXCEPT !.updated = clock]

\* An event arrives and Manager.Get looks its session up.
Get(h, i, c) ==
  /\ handler[h].at = "idle"
  /\ handler' = [handler EXCEPT ![h] =
       IF Known(sessions[i])
       THEN [at |-> "update", id |-> i, copy |-> Touched(sessions[i])]
       ELSE [at |-> "create", id |-> i,
             copy |-> [channel |-> c, created |-> clock, updated |-> clock]]]
  /\ UNCHANGED <<clock, sessions, table, forgotten, unsaved>>

\* Mutant of Create: a session that exists is replaced.
CreateReplaces(h) ==
  /\ handler[h].at = "create"
  /\ sessions' = [sessions EXCEPT ![handler[h].id] = handler[h].copy]
  /\ handler' = [handler EXCEPT ![h].at = "save"]
  /\ UNCHANGED <<clock, table, forgotten, unsaved>>

\* Mutant of Create: a new session is saved with its first update.
CreateLeavesSaving(h) ==
  /\ handler[h].at = "create"
  /\ sessions' = [sessions EXCEPT ![handler[h].id] =
                    IF Known(@) THEN @ ELSE handler[h].copy]
  /\ handler' = [handler EXCEPT ![h] = Idle]
  /\ UNCHANGED <<clock, table, forgotten, unsaved>>

\* Manager.Create; if another handler was faster, the error goes to the publisher
\* and nothing is saved.
Create(h) ==
  /\ handler[h].at = "create"
  /\ IF Known(sessions[handler[h].id])
     THEN /\ handler' = [handler EXCEPT ![h] = Idle]
          /\ UNCHANGED sessions
     ELSE /\ handler' = [handler EXCEPT ![h].at = "save"]
          /\ sessions' = [sessions EXCEPT ![handler[h].id] = handler[h].copy]
  /\ UNCHANGED <<clock, table, forgotten, unsaved>>

\* Manager.Update replaces the session; a missing one is not created, and the
\* error is ignored.
Update(h) ==
  /\ handler[h].at = "update"
  /\ handler' = [handler EXCEPT ![h].at = "save"]
  /\ sessions' = [sessions EXCEPT ![handler[h].id] =
                    IF Known(@) THEN handler[h].copy ELSE @]
  /\ UNCHANGED <<clock, table, forgotten, unsaved>>

\* Store.SaveSession replaces the row; its error is ignored.  Without a database
\* there is no row either.
Save(h) ==
  /\ handler[h].at = "save"
  /\ handler' = [handler EXCEPT ![h] = Idle]
  /\ LET i == handler[h].id
     IN \/ /\ table' = [table EXCEPT ![i] = handler[h].copy]
           /\ forgotten' = forgotten \ {i}
           /\ unsaved' = unsaved \ {i}
        \/ /\ unsaved' = unsaved \cup {i}
           /\ UNCHANGED <<table, forgotten>>
  /\ UNCHANGED <<clock, sessions>>

\* ListSessions: the newest rows, RestoreLimit of them or all.  updated_at is
\* compared as text, which tells seconds apart but not always their fractions: the
\* clock counts seconds, and rows of the same second come in any order.
Newest(rows) ==
  { kept \in SUBSET rows :
      /\ Cardinality(kept) <= RestoreLimit
      /\ kept = rows \/ Cardinality(kept) = RestoreLimit
      /\ \A i \in kept, j \in rows \ kept : table[i].updated >= table[j].updated }

\* The program ends at any point and starts again; openStorage creates the
\* sessions it lists, or none if it cannot.
Restart ==
  LET rows == {i \in Sessions : Known(table[i])}
  IN \E kept \in Newest(rows) \cup {{}} :
       /\ sessions' = [i \in Sessions |-> IF i \in kept THEN table[i] ELSE Missing]
       /\ forgotten' = rows \ kept
       /\ handler' = [h \in Handlers |-> Idle]
       /\ unsaved' = {}
       /\ UNCHANGED <<clock, table>>

Next ==
  \/ Tick
  \/ \E h \in Handlers :
       \/ \E i \in Sessions, c \in Channels : Get(h, i, c)
       \/ Create(h) \/ Update(h) \/ Save(h)
  \/ Restart

Spec == Init /\ [][Next]_vars

----------------------------------------------------------------------------
SameIdentity(s, t) == s.channel = t.channel /\ s.created = t.created

\* However many events meet a new session at once, it has one channel and one
\* CreatedAt: in memory, in the copies on their way, and, unless the restart left
\* the row out, in the database.
OneIdentity ==
  \A i \in Sessions :
    /\ \A h \in Handlers :
         handler[h].at \in {"update", "save"} /\ handler[h].id = i
           => Known(sessions[i]) /\ SameIdentity(handler[h].copy, sessions[i])
    /\ Known(table[i]) /\ i \notin forgotten
         => Known(sessions[i]) /\ SameIdentity(table[i], sessions[i])

\* A session that is only in memory has a handler that is about to save it, or
\* saving it has failed: no loser of the race for Create takes the save with it.
EverySessionIsSaved ==
  \A i \in Sessions :
    Known(sessions[i]) =>
      \/ Known(table[i])
      \/ i \in unsaved
      \/ \E h \in Handlers : handler[h].at = "save" /\ handler[h].id = i
=============================================================================
