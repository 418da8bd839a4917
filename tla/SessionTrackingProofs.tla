----------------------- MODULE SessionTrackingProofs -----------------------
(***************************************************************************)
(* Proofs about SessionTracking: types, identity and saving of sessions.   *)
(***************************************************************************)
EXTENDS SessionTracking, TLAPS

LEMMA Defaults ==
  /\ Missing \in Session
  /\ Idle.at = "idle" /\ Idle.id \in Sessions /\ Idle.copy = Missing
  /\ Idle \in [at: {"idle", "create", "update", "save"}, id: Sessions, copy: Session]
  /\ Missing.created = 0 /\ Missing.updated = 0
<1>1. (CHOOSE c \in Channels : TRUE) \in Channels
  BY ConstantsAssumption
<1>2. (CHOOSE s \in Sessions : TRUE) \in Sessions
  BY ConstantsAssumption
<1>3. 0 \in 0..MaxTime
  BY ConstantsAssumption
<1>4. Missing \in Session /\ Missing.created = 0 /\ Missing.updated = 0
  BY <1>1, <1>3 DEF Missing, Session
<1>5. Idle.at = "idle" /\ Idle.id \in Sessions /\ Idle.copy = Missing
  BY <1>2 DEF Idle
<1>6. Idle \in [at: {"idle", "create", "update", "save"}, id: Sessions, copy: Session]
  BY <1>2, <1>4 DEF Idle
<1> QED
  BY <1>4, <1>5, <1>6

LEMMA InitType == Init => TypeOK
BY Defaults, ConstantsAssumption DEF Init, TypeOK, Timely, Known

\* The types are preserved by every step.
LEMMA TypeStep == TypeOK /\ [Next]_vars => TypeOK'
<1> SUFFICES ASSUME TypeOK, [Next]_vars PROVE TypeOK'
  OBVIOUS
<1> USE Defaults, ConstantsAssumption DEF TypeOK, Timely, Known
<1>1. CASE Tick
  <2>1. clock' = clock + 1 /\ clock' \in 1..MaxTime
    BY <1>1 DEF Tick
  <2>2. \A x \in Session : x.updated \in Int
    BY DEF Session
  <2> QED
    BY <1>1, <2>1, <2>2 DEF Tick
<1>2. ASSUME NEW h \in Handlers, NEW i \in Sessions, NEW c \in Channels, Get(h, i, c)
      PROVE  TypeOK'
  <2> DEFINE new == [at |-> "create", id |-> i,
                     copy |-> [channel |-> c, created |-> clock, updated |-> clock]]
             old == [at |-> "update", id |-> i, copy |-> Touched(sessions[i])]
             Sound(x) == /\ x \in [at: {"idle", "create", "update", "save"},
                                   id: Sessions, copy: Session]
                         /\ Timely(x.copy) /\ Known(x.copy)
  <2>1. Sound(new)
    BY DEF Session
  <2>2. Known(sessions[i]) => Sound(old)
    <3> DEFINE s == sessions[i]
               t == [channel |-> s.channel, created |-> s.created, updated |-> clock]
    <3>1. s \in Session /\ Timely(s) /\ s.created \in Int /\ s.updated \in Int
      BY DEF Session
    <3>2. Touched(s) = t
      BY <3>1 DEF Touched, Session
    <3>3. t \in Session
      BY <3>1 DEF Session
    <3>4. Timely(t) /\ (Known(s) => Known(t))
      BY <3>1
    <3> QED
      BY <3>2, <3>3, <3>4
  <2> DEFINE x == IF Known(sessions[i]) THEN old ELSE new
  <2>3. Sound(x)
    BY <2>1, <2>2
  <2>4. handler' = [handler EXCEPT ![h] = x]
    BY <1>2 DEF Get
  <2>5. UNCHANGED <<clock, sessions, table, forgotten, unsaved>>
    BY <1>2 DEF Get
  <2>6. x \in [at: {"idle", "create", "update", "save"}, id: Sessions, copy: Session]
        /\ Timely(x.copy) /\ Known(x.copy)
    BY <2>3
  <2> HIDE DEF x
  <2> QED
    BY <2>4, <2>5, <2>6
<1>3. ASSUME NEW h \in Handlers, Create(h) PROVE TypeOK'
  <2>1. sessions' \in [Sessions -> Session] /\ \A i \in Sessions : Timely(sessions'[i])
    BY <1>3 DEF Create
  <2>2. \/ handler' = [handler EXCEPT ![h] = Idle]
        \/ handler' = [handler EXCEPT ![h].at = "save"] /\ Known(handler[h].copy)
    BY <1>3 DEF Create
  <2>3. UNCHANGED <<clock, table, forgotten, unsaved>>
    BY <1>3 DEF Create
  <2>4. CASE handler' = [handler EXCEPT ![h] = Idle]
    BY <2>1, <2>3, <2>4
  <2>5. CASE handler' = [handler EXCEPT ![h].at = "save"] /\ Known(handler[h].copy)
    BY <2>1, <2>3, <2>5
  <2> QED
    BY <2>2, <2>4, <2>5
<1>4. ASSUME NEW h \in Handlers, Update(h) PROVE TypeOK'
  BY <1>4 DEF Update
<1>5. ASSUME NEW h \in Handlers, Save(h) PROVE TypeOK'
  BY <1>5 DEF Save
<1>6. CASE Restart
  BY <1>6 DEF Restart, Newest
<1>7. CASE UNCHANGED vars
  BY <1>7 DEF vars
<1> QED
  BY <1>1, <1>2, <1>3, <1>4, <1>5, <1>6, <1>7 DEF Next

\* TypeOK holds for any sessions, handlers and restore limit.
THEOREM Typing == Spec => []TypeOK
  BY InitType, TypeStep, PTL DEF Spec

----------------------------------------------------------------------------
\* OneIdentity is inductive: a copy that is on its way was taken from a session
\* that is known, or has just become that session.
LEMMA IdentityStep == TypeOK /\ OneIdentity /\ [Next]_vars => OneIdentity'
<1> SUFFICES ASSUME TypeOK, OneIdentity, [Next]_vars PROVE OneIdentity'
  OBVIOUS
<1> USE Defaults DEF TypeOK, OneIdentity, SameIdentity, Known
<1>1. CASE Tick
  BY <1>1 DEF Tick
<1>2. ASSUME NEW h \in Handlers, NEW i \in Sessions, NEW c \in Channels, Get(h, i, c)
      PROVE  OneIdentity'
  <2>1. Touched(sessions[i]).channel = sessions[i].channel
        /\ Touched(sessions[i]).created = sessions[i].created
    BY DEF Touched, Session
  <2> QED
    BY <1>2, <2>1 DEF Get
<1>3. ASSUME NEW h \in Handlers, Create(h) PROVE OneIdentity'
  <2> DEFINE i == handler[h].id
  <2>1. CASE Known(sessions[i])
    BY <1>3, <2>1 DEF Create
  <2>2. CASE ~Known(sessions[i])
    <3>1. /\ handler' = [handler EXCEPT ![h].at = "save"]
          /\ sessions' = [sessions EXCEPT ![i] = handler[h].copy]
          /\ table' = table /\ forgotten' = forgotten
      BY <1>3, <2>2 DEF Create
    <3>2. \A g \in Handlers : handler[g].at \in {"update", "save"} => handler[g].id # i
      BY <2>2
    <3>3. ~Known(table[i]) \/ i \in forgotten
      BY <2>2
    <3>4. handler[h].copy.created # 0
      BY <1>3 DEF Create
    <3>5. \A g \in Handlers : handler'[g].at \in {"update", "save"} =>
            \/ g = h /\ handler'[g].id = i /\ handler'[g].copy = handler[h].copy
            \/ handler'[g] = handler[g] /\ handler[g].id # i
      BY <3>1, <3>2
    <3> QED
      BY <3>1, <3>3, <3>4, <3>5
  <2> QED
    BY <2>1, <2>2
<1>4. ASSUME NEW h \in Handlers, Update(h) PROVE OneIdentity'
  BY <1>4 DEF Update
<1>5. ASSUME NEW h \in Handlers, Save(h) PROVE OneIdentity'
  BY <1>5 DEF Save
<1>6. CASE Restart
  BY <1>6 DEF Restart, Newest
<1>7. CASE UNCHANGED vars
  BY <1>7 DEF vars
<1> QED
  BY <1>1, <1>2, <1>3, <1>4, <1>5, <1>6, <1>7 DEF Next

\* Races for one session never give it two identities, in memory or in the
\* database.
THEOREM IdentityTheorem == Spec => []OneIdentity
<1>1. Init => OneIdentity
  BY Defaults DEF Init, OneIdentity, Known
<1> QED
  BY <1>1, Typing, IdentityStep, PTL DEF Spec

----------------------------------------------------------------------------
\* Only the handler that creates a session has to save it first.
LEMMA SavedStep == TypeOK /\ EverySessionIsSaved /\ [Next]_vars => EverySessionIsSaved'
<1> SUFFICES ASSUME TypeOK, EverySessionIsSaved, [Next]_vars PROVE EverySessionIsSaved'
  OBVIOUS
<1> USE Defaults DEF TypeOK, EverySessionIsSaved, Known
<1>1. CASE Tick
  BY <1>1 DEF Tick
<1>2. ASSUME NEW h \in Handlers, NEW i \in Sessions, NEW c \in Channels, Get(h, i, c)
      PROVE  EverySessionIsSaved'
  BY <1>2 DEF Get
<1>3. ASSUME NEW h \in Handlers, Create(h) PROVE EverySessionIsSaved'
  BY <1>3 DEF Create
<1>4. ASSUME NEW h \in Handlers, Update(h) PROVE EverySessionIsSaved'
  BY <1>4 DEF Update
<1>5. ASSUME NEW h \in Handlers, Save(h) PROVE EverySessionIsSaved'
  BY <1>5 DEF Save
<1>6. CASE Restart
  BY <1>6 DEF Restart, Newest
<1>7. CASE UNCHANGED vars
  BY <1>7 DEF vars
<1> QED
  BY <1>1, <1>2, <1>3, <1>4, <1>5, <1>6, <1>7 DEF Next

\* No session stays in memory only, unless the database refuses it.
THEOREM SavedTheorem == Spec => []EverySessionIsSaved
<1>1. Init => EverySessionIsSaved
  BY Defaults DEF Init, EverySessionIsSaved, Known
<1> QED
  BY <1>1, Typing, SavedStep, PTL DEF Spec
=============================================================================
