----------------------------- MODULE EventBusProofs -----------------------------
(***************************************************************************)
(* Proofs about EventBus, for any publishes, subscriptions, event types    *)
(* and history limit, and about ControlStreams, whose streams read the     *)
(* bus's history: for any clients, events, actions and restore limits.     *)
(***************************************************************************)
EXTENDS EventBus, FiniteSetTheorems, SequenceTheorems, TLAPS

\* The constants and variables of ControlStreams that are not the bus's.
CONSTANTS EventIds, ActionIds, Clients, RestoreLimits, MaxEvents, Stamps, MaxBoots, NoId
VARIABLES published, saving, table, store, stream, shown, boots

Streams == INSTANCE ControlStreams

\* What the handlers' part of the state looks like, whatever the interleaving.
PubType == [at : {"idle", "recording", "calling", "waiting", "done", "refused"},
            todo : SUBSET SubIds,
            cur : SubIds \cup {0}, failed : BOOLEAN, since : 0..MaxSubs]
Typed ==
    /\ nextID \in 0..MaxSubs
    /\ subs \subseteq SubIds
    /\ pattern \in [SubIds -> Types \cup {"*"}]
    /\ pub \in [Pubs -> PubType]
    /\ handler \in [Pubs -> [SubIds -> {"none", "running", "ok", "error"}]]

\* The strengthening.  Subscription ids are handed out in order; what a publish
\* has called or will call listens and is no younger than the publish; a
\* subscription older than the publish and still there is called or to be called;
\* an open result is awaited or the publish has failed.
Numbered == /\ \A s \in subs : s <= nextID
            /\ \A p \in Pubs : pub[p].since <= nextID
Chosen(p, s) == s <= pub[p].since /\ Listens(s, p)
CallsChosen ==
    \A p \in Pubs, s \in SubIds :
        (s \in pub[p].todo \/ handler[p][s] # "none") =>
            Chosen(p, s) /\ pub[p].at \notin {"idle", "refused"}
ServesStanding ==
    \A p \in Pubs, s \in subs :
        (pub[p].at \notin {"idle", "refused"} /\ Chosen(p, s)) =>
            s \in pub[p].todo \/ handler[p][s] # "none"
DoneIsDone == \A p \in Pubs : pub[p].at = "done" => pub[p].todo = {}
Awaited ==
    \A p \in Pubs, s \in SubIds :
        (~pub[p].failed /\ handler[p][s] \notin {"none", "ok"}) =>
            pub[p].at = "waiting" /\ pub[p].cur = s
WaitsForOne == \A p \in Pubs : pub[p].at = "waiting" => pub[p].cur \in SubIds
IInv == /\ Typed /\ Numbered /\ CallsChosen /\ ServesStanding /\ DoneIsDone
        /\ Awaited /\ WaitsForOne

----------------------------------------------------------------------------
\* A step of the bus keeps the types of everything but the two sequences.
LEMMA TypedStep == Typed /\ [Next]_vars => Typed'
<1> SUFFICES ASSUME Typed, [Next]_vars PROVE Typed'
  OBVIOUS
<1> USE SubsAssumption DEF SubIds
<1>1. CASE RestoreHistory
  BY <1>1 DEF RestoreHistory, Typed
<1>2. ASSUME NEW pat \in Types \cup {"*"}, Subscribe(pat) PROVE Typed'
  BY <1>2 DEF Subscribe, Typed
<1>3. ASSUME NEW s \in SubIds, Unsubscribe(s) PROVE Typed'
  BY <1>3 DEF Unsubscribe, Typed
<1>4. ASSUME NEW p \in Pubs, Refuse(p) PROVE Typed'
  <2> DEFINE r == [pub[p] EXCEPT !.at = "refused"]
  <2>1. pub[p] \in PubType
    BY DEF Typed
  <2>2. r \in PubType
    BY <2>1 DEF Typed, PubType
  <2>3. pub' = [pub EXCEPT ![p] = r]
    BY <1>4 DEF Refuse
  <2> HIDE DEF r
  <2>4. pub' \in [Pubs -> PubType]
    BY <2>2, <2>3 DEF Typed
  <2>5. UNCHANGED <<nextID, subs, pattern, handler>>
    BY <1>4 DEF Refuse
  <2> QED
    BY <2>4, <2>5 DEF Typed
<1>5. ASSUME NEW p \in Pubs, Snapshot(p) PROVE Typed'
  <2> DEFINE r == [pub[p] EXCEPT !.at = "recording", !.since = nextID, !.todo = {s \in subs : Listens(s, p)}]
  <2>1. pub[p] \in PubType
    BY DEF Typed
  <2>2. r \in PubType
    BY <2>1, <1>5 DEF Typed, PubType
  <2>3. pub' = [pub EXCEPT ![p] = r]
    BY <1>5 DEF Snapshot
  <2> HIDE DEF r
  <2>4. pub' \in [Pubs -> PubType]
    BY <2>2, <2>3 DEF Typed
  <2>5. UNCHANGED <<nextID, subs, pattern, handler>>
    BY <1>5 DEF Snapshot
  <2> QED
    BY <2>4, <2>5 DEF Typed
<1>6. ASSUME NEW p \in Pubs, Record(p) PROVE Typed'
  <2> DEFINE r == [pub[p] EXCEPT !.at = "calling"]
  <2>1. pub[p] \in PubType
    BY DEF Typed
  <2>2. r \in PubType
    BY <2>1 DEF Typed, PubType
  <2>3. pub' = [pub EXCEPT ![p] = r]
    BY <1>6 DEF Record
  <2> HIDE DEF r
  <2>4. pub' \in [Pubs -> PubType]
    BY <2>2, <2>3 DEF Typed
  <2>5. UNCHANGED <<nextID, subs, pattern, handler>>
    BY <1>6 DEF Record
  <2> QED
    BY <2>4, <2>5 DEF Typed
<1>7. ASSUME NEW p \in Pubs, NEW s \in SubIds, CallHandler(p, s) PROVE Typed'
  <2> DEFINE r == [pub[p] EXCEPT !.at = "waiting", !.todo = @ \ {s}, !.cur = s]
  <2>1. pub[p] \in PubType
    BY DEF Typed
  <2>2. r \in PubType
    BY <2>1 DEF Typed, PubType
  <2>3. pub' = [pub EXCEPT ![p] = r]
    BY <1>7 DEF CallHandler
  <2> HIDE DEF r
  <2>4. pub' \in [Pubs -> PubType]
    BY <2>2, <2>3 DEF Typed
  <2>5. UNCHANGED <<nextID, subs, pattern>>
    BY <1>7 DEF CallHandler
  <2>6. handler' = [handler EXCEPT ![p][s] = "running"]
    BY <1>7 DEF CallHandler
  <2> QED
    BY <2>4, <2>5, <2>6 DEF Typed
<1>8. ASSUME NEW p \in Pubs, NEW s \in SubIds, NEW result \in {"ok", "error"},
             HandlerReturns(p, s, result) PROVE Typed'
  BY <1>8 DEF HandlerReturns, Typed
<1>9. ASSUME NEW p \in Pubs, HandlerDone(p) PROVE Typed'
  <2> DEFINE r == [pub[p] EXCEPT !.at = "calling", !.failed = @ \/ handler[p][pub[p].cur] = "error"]
  <2>1. pub[p] \in PubType
    BY DEF Typed
  <2>2. r \in PubType
    BY <2>1 DEF Typed, PubType
  <2>3. pub' = [pub EXCEPT ![p] = r]
    BY <1>9 DEF HandlerDone
  <2> HIDE DEF r
  <2>4. pub' \in [Pubs -> PubType]
    BY <2>2, <2>3 DEF Typed
  <2>5. UNCHANGED <<nextID, subs, pattern, handler>>
    BY <1>9 DEF HandlerDone
  <2> QED
    BY <2>4, <2>5 DEF Typed
<1>10. ASSUME NEW p \in Pubs, HandlerTimesOut(p) PROVE Typed'
  <2> DEFINE r == [pub[p] EXCEPT !.at = "calling", !.failed = TRUE]
  <2>1. pub[p] \in PubType
    BY DEF Typed
  <2>2. r \in PubType
    BY <2>1 DEF Typed, PubType
  <2>3. pub' = [pub EXCEPT ![p] = r]
    BY <1>10 DEF HandlerTimesOut
  <2> HIDE DEF r
  <2>4. pub' \in [Pubs -> PubType]
    BY <2>2, <2>3 DEF Typed
  <2>5. UNCHANGED <<nextID, subs, pattern, handler>>
    BY <1>10 DEF HandlerTimesOut
  <2> QED
    BY <2>4, <2>5 DEF Typed
<1>11. ASSUME NEW p \in Pubs, PublishReturns(p) PROVE Typed'
  <2> DEFINE r == [pub[p] EXCEPT !.at = "done"]
  <2>1. pub[p] \in PubType
    BY DEF Typed
  <2>2. r \in PubType
    BY <2>1 DEF Typed, PubType
  <2>3. pub' = [pub EXCEPT ![p] = r]
    BY <1>11 DEF PublishReturns
  <2> HIDE DEF r
  <2>4. pub' \in [Pubs -> PubType]
    BY <2>2, <2>3 DEF Typed
  <2>5. UNCHANGED <<nextID, subs, pattern, handler>>
    BY <1>11 DEF PublishReturns
  <2> QED
    BY <2>4, <2>5 DEF Typed
<1>12. CASE UNCHANGED vars
  BY <1>12 DEF vars, Typed
<1> HIDE DEF SubIds
<1> QED
  BY <1>1, <1>2, <1>3, <1>4, <1>5, <1>6, <1>7, <1>8, <1>9, <1>10, <1>11, <1>12 DEF Next

\* The strengthening holds initially.
LEMMA InvInit == Init => IInv
  BY SubsAssumption DEF Init, IInv, Typed, PubType, SubIds, Numbered, CallsChosen, Chosen,
     Listens, ServesStanding, DoneIsDone, Awaited, WaitsForOne

\* A step of one publisher that neither calls nor awaits a handler keeps the
\* strengthening.
LEMMA QuietStep ==
    ASSUME IInv, Typed', UNCHANGED <<nextID, subs, pattern, handler>>,
           NEW p \in Pubs, \A q \in Pubs \ {p} : pub'[q] = pub[q],
           pub'[p].todo = pub[p].todo,
           pub'[p].since = pub[p].since, pub'[p].failed = pub[p].failed,
           pub[p].at \in {"idle", "refused"} <=> pub'[p].at \in {"idle", "refused"},
           pub[p].at # "waiting", pub'[p].at # "waiting",
           pub'[p].at = "done" => pub[p].todo = {}
    PROVE  IInv'
<1>1. /\ Typed /\ Numbered /\ CallsChosen /\ ServesStanding /\ DoneIsDone
      /\ Awaited /\ WaitsForOne
  BY DEF IInv
<1>2. Numbered' /\ DoneIsDone' /\ WaitsForOne'
  BY <1>1 DEF Numbered, DoneIsDone, WaitsForOne
<1>3. \A q \in Pubs, s \in SubIds : Chosen(q, s)' <=> Chosen(q, s)
  BY DEF Chosen, Listens
<1>4. CallsChosen'
  BY <1>1, <1>3 DEF CallsChosen
<1>5. \A q \in Pubs : /\ pub'[q].todo = pub[q].todo /\ handler'[q] = handler[q]
                      /\ pub'[q].at \in {"idle", "refused"} <=> pub[q].at \in {"idle", "refused"}
  OBVIOUS
<1>6. subs' = subs /\ subs \subseteq SubIds
  BY <1>1 DEF Typed
<1>7. ServesStanding'
  BY <1>1, <1>3, <1>5, <1>6 DEF ServesStanding
<1>8. Awaited'
  BY <1>1 DEF Awaited
<1> QED
  BY <1>2, <1>4, <1>7, <1>8 DEF IInv

\* The strengthening is inductive.
LEMMA InvStep == IInv /\ [Next]_vars => IInv'
<1> SUFFICES ASSUME IInv, [Next]_vars PROVE IInv'
  OBVIOUS
<1>0. Typed'
  BY TypedStep DEF IInv
<1>1. CASE RestoreHistory
  BY <1>1, <1>0, SubsAssumption DEF RestoreHistory, IInv, Typed, PubType, SubIds, Numbered, CallsChosen, Chosen,
     Listens, ServesStanding, DoneIsDone, Awaited, WaitsForOne
<1>2. ASSUME NEW pat \in Types \cup {"*"}, Subscribe(pat) PROVE IInv'
  BY <1>2, <1>0, SubsAssumption DEF Subscribe, IInv, Typed, PubType, SubIds, Numbered, CallsChosen, Chosen,
     Listens, ServesStanding, DoneIsDone, Awaited, WaitsForOne
<1>3. ASSUME NEW s \in SubIds, Unsubscribe(s) PROVE IInv'
  BY <1>3, <1>0, SubsAssumption DEF Unsubscribe, IInv, Typed, PubType, SubIds, Numbered, CallsChosen, Chosen,
     Listens, ServesStanding, DoneIsDone, Awaited, WaitsForOne
<1>4. ASSUME NEW p \in Pubs, Refuse(p) PROVE IInv'
  <2> DEFINE r == [pub[p] EXCEPT !.at = "refused"]
  <2>1. pub' = [pub EXCEPT ![p] = r] /\ pub[p].at = "idle"
    BY <1>4 DEF Refuse
  <2>2. UNCHANGED <<nextID, subs, pattern, handler>>
    BY <1>4 DEF Refuse
  <2>3. /\ r.at = "refused" /\ r.todo = pub[p].todo
        /\ r.since = pub[p].since /\ r.failed = pub[p].failed
    BY DEF IInv, Typed, PubType
  <2>4. pub'[p] = r /\ \A q \in Pubs \ {p} : pub'[q] = pub[q]
    BY <2>1 DEF IInv, Typed
  <2> HIDE DEF r
  <2> QED
    BY <2>1, <2>2, <2>3, <2>4, <1>0, QuietStep
<1>5. ASSUME NEW p \in Pubs, Snapshot(p) PROVE IInv'
  <2> DEFINE todo == {s \in subs : Listens(s, p)}
             r == [pub[p] EXCEPT !.at = "recording", !.since = nextID, !.todo = todo]
  <2>1. pub' = [pub EXCEPT ![p] = r]
    BY <1>5 DEF Snapshot
  <2>2. pub[p].at = "idle" /\ UNCHANGED <<nextID, subs, pattern, handler>>
    BY <1>5 DEF Snapshot
  <2>3. /\ r.at = "recording"
        /\ r.todo = todo
        /\ r.since = nextID
        /\ r.failed = pub[p].failed
    BY DEF IInv, Typed, PubType
  <2>4. \A s \in subs : s \in todo <=> pattern[s] \in {TypeOf[p], "*"}
    BY DEF Listens
  <2>5. todo \subseteq subs
    OBVIOUS
  <2> HIDE DEF r, todo
  <2>6. pub'[p] = r /\ \A q \in Pubs \ {p} : pub'[q] = pub[q]
    BY <2>1 DEF IInv, Typed
  <2>7. \A s \in SubIds : handler[p][s] = "none"
    BY <2>2 DEF IInv, CallsChosen
  <2>8. /\ Typed /\ Numbered /\ CallsChosen /\ ServesStanding /\ DoneIsDone
        /\ Awaited /\ WaitsForOne /\ nextID \in Nat /\ subs \subseteq SubIds
    BY SubsAssumption DEF IInv, Typed
  <2>9. Numbered' /\ DoneIsDone' /\ WaitsForOne'
    BY <2>2, <2>3, <2>6, <2>8 DEF Numbered, DoneIsDone, WaitsForOne
  <2>10. CallsChosen'
    <3>1. \A s \in todo : s <= nextID /\ Listens(s, p)
      BY <2>4, <2>5, <2>8 DEF Numbered, Listens
    <3> QED
      BY <3>1, <2>2, <2>3, <2>6, <2>7, <2>8 DEF CallsChosen, Chosen, Listens
  <2>11. ServesStanding'
    <3>1. \A s \in subs : Listens(s, p) => s \in todo
      BY <2>4 DEF Listens
    <3> QED
      BY <3>1, <2>2, <2>3, <2>6, <2>8 DEF ServesStanding, Chosen, Listens
  <2>12. Awaited'
    BY <2>2, <2>3, <2>6, <2>7, <2>8 DEF Awaited
  <2> QED
    BY <2>9, <2>10, <2>11, <2>12, <1>0 DEF IInv
<1>6. ASSUME NEW p \in Pubs, Record(p) PROVE IInv'
  <2> DEFINE r == [pub[p] EXCEPT !.at = "calling"]
  <2>1. pub' = [pub EXCEPT ![p] = r] /\ pub[p].at = "recording"
    BY <1>6 DEF Record
  <2>2. UNCHANGED <<nextID, subs, pattern, handler>>
    BY <1>6 DEF Record
  <2>3. /\ r.at = "calling" /\ r.todo = pub[p].todo
        /\ r.since = pub[p].since /\ r.failed = pub[p].failed
    BY DEF IInv, Typed, PubType
  <2>4. pub'[p] = r /\ \A q \in Pubs \ {p} : pub'[q] = pub[q]
    BY <2>1 DEF IInv, Typed
  <2> HIDE DEF r
  <2> QED
    BY <2>1, <2>2, <2>3, <2>4, <1>0, QuietStep
<1>7. ASSUME NEW p \in Pubs, NEW s \in SubIds, CallHandler(p, s) PROVE IInv'
  <2> DEFINE r == [pub[p] EXCEPT !.at = "waiting", !.todo = @ \ {s}, !.cur = s]
  <2>1. /\ pub' = [pub EXCEPT ![p] = r] /\ pub[p].at = "calling" /\ s \in pub[p].todo
        /\ handler' = [handler EXCEPT ![p][s] = "running"]
        /\ UNCHANGED <<nextID, subs, pattern>>
    BY <1>7 DEF CallHandler
  <2>2. /\ r.at = "waiting" /\ r.todo = pub[p].todo \ {s} /\ r.cur = s
        /\ r.since = pub[p].since /\ r.failed = pub[p].failed
    BY DEF IInv, Typed, PubType
  <2>3. pub'[p] = r /\ \A q \in Pubs \ {p} : pub'[q] = pub[q]
    BY <2>1 DEF IInv, Typed
  <2>4. /\ handler'[p][s] = "running"
        /\ \A t \in SubIds \ {s} : handler'[p][t] = handler[p][t]
        /\ \A q \in Pubs \ {p} : handler'[q] = handler[q]
    BY <2>1 DEF IInv, Typed
  <2> HIDE DEF r
  <2>5. \A q \in Pubs, t \in SubIds : Chosen(q, t)' <=> Chosen(q, t)
    BY <2>1, <2>2, <2>3 DEF Chosen, Listens
  <2>6. Numbered' /\ DoneIsDone' /\ WaitsForOne'
    BY <2>1, <2>2, <2>3 DEF IInv, Numbered, DoneIsDone, WaitsForOne
  <2>7. CallsChosen'
    BY <2>1, <2>2, <2>3, <2>4, <2>5 DEF IInv, CallsChosen
  <2>8. ServesStanding'
    <3>1. subs' = subs /\ subs \subseteq SubIds
      BY <2>1 DEF IInv, Typed
    <3> QED BY <2>1, <2>2, <2>3, <2>4, <2>5, <3>1 DEF IInv, ServesStanding
  <2>9. Awaited'
    BY <2>1, <2>2, <2>3, <2>4 DEF IInv, Awaited
  <2> QED BY <1>0, <2>6, <2>7, <2>8, <2>9 DEF IInv
<1>8. ASSUME NEW p \in Pubs, NEW s \in SubIds, NEW result \in {"ok", "error"},
             HandlerReturns(p, s, result) PROVE IInv'
  BY <1>8, <1>0, SubsAssumption DEF HandlerReturns, IInv, Typed, PubType, SubIds, Numbered, CallsChosen, Chosen,
     Listens, ServesStanding, DoneIsDone, Awaited, WaitsForOne
<1>9. ASSUME NEW p \in Pubs, HandlerDone(p) PROVE IInv'
  <2> DEFINE failed == pub[p].failed \/ handler[p][pub[p].cur] = "error"
             r == [pub[p] EXCEPT !.at = "calling", !.failed = failed]
  <2>1. /\ pub' = [pub EXCEPT ![p] = r] /\ pub[p].at = "waiting"
        /\ handler[p][pub[p].cur] \in {"ok", "error"}
        /\ UNCHANGED <<nextID, subs, pattern, handler>>
    BY <1>9 DEF HandlerDone
  <2>2. /\ r.at = "calling" /\ r.todo = pub[p].todo /\ r.since = pub[p].since
        /\ r.failed = failed
    BY DEF IInv, Typed, PubType
  <2>3. pub'[p] = r /\ \A q \in Pubs \ {p} : pub'[q] = pub[q]
    BY <2>1 DEF IInv, Typed
  <2> HIDE DEF r
  <2>4. \A q \in Pubs, t \in SubIds : Chosen(q, t)' <=> Chosen(q, t)
    BY <2>1, <2>2, <2>3 DEF Chosen, Listens
  <2>5. Numbered' /\ DoneIsDone' /\ WaitsForOne'
    BY <2>1, <2>2, <2>3 DEF IInv, Numbered, DoneIsDone, WaitsForOne
  <2>6. CallsChosen'
    BY <2>1, <2>2, <2>3, <2>4 DEF IInv, CallsChosen
  <2>7. ServesStanding'
    <3>1. subs' = subs /\ subs \subseteq SubIds
      BY <2>1 DEF IInv, Typed
    <3> QED BY <2>1, <2>2, <2>3, <2>4, <3>1 DEF IInv, ServesStanding
  <2>8. Awaited'
    <3>1. ASSUME NEW t \in SubIds, ~failed, handler[p][t] \notin {"none", "ok"}
          PROVE  FALSE
      BY <2>1, <3>1 DEF IInv, Awaited
    <3> HIDE DEF failed
    <3>2. ASSUME NEW t \in SubIds, ~pub'[p].failed PROVE handler'[p][t] \in {"none", "ok"}
      <4>1. ~failed /\ handler'[p][t] = handler[p][t]
        BY <2>1, <2>2, <2>3, <3>2
      <4> QED BY <3>1, <4>1
    <3>3. ASSUME NEW q \in Pubs \ {p}, NEW t \in SubIds,
                 ~pub'[q].failed, handler'[q][t] \notin {"none", "ok"}
          PROVE  pub'[q].at = "waiting" /\ pub'[q].cur = t
      <4>1. pub'[q] = pub[q] /\ handler'[q][t] = handler[q][t]
        BY <2>1, <2>3
      <4> QED BY <3>3, <4>1 DEF IInv, Awaited
    <3> QED BY <3>2, <3>3 DEF Awaited
  <2> QED BY <1>0, <2>5, <2>6, <2>7, <2>8 DEF IInv
<1>10. ASSUME NEW p \in Pubs, HandlerTimesOut(p) PROVE IInv'
  BY <1>10, <1>0, SubsAssumption DEF HandlerTimesOut, IInv, Typed, PubType, SubIds, Numbered, CallsChosen, Chosen,
     Listens, ServesStanding, DoneIsDone, Awaited, WaitsForOne
<1>11. ASSUME NEW p \in Pubs, PublishReturns(p) PROVE IInv'
  <2> DEFINE r == [pub[p] EXCEPT !.at = "done"]
  <2>1. pub' = [pub EXCEPT ![p] = r] /\ pub[p].at = "calling" /\ pub[p].todo = {}
    BY <1>11 DEF PublishReturns
  <2>2. UNCHANGED <<nextID, subs, pattern, handler>>
    BY <1>11 DEF PublishReturns
  <2>3. /\ r.at = "done" /\ r.todo = pub[p].todo
        /\ r.since = pub[p].since /\ r.failed = pub[p].failed
    BY DEF IInv, Typed, PubType
  <2>4. pub'[p] = r /\ \A q \in Pubs \ {p} : pub'[q] = pub[q]
    BY <2>1 DEF IInv, Typed
  <2> HIDE DEF r
  <2> QED
    BY <2>1, <2>2, <2>3, <2>4, <1>0, QuietStep
<1>12. CASE UNCHANGED vars
  BY <1>12, <1>0 DEF vars, IInv, Numbered, CallsChosen, Chosen, Listens, ServesStanding,
     DoneIsDone, Awaited, WaitsForOne
<1> QED
  BY <1>1, <1>2, <1>3, <1>4, <1>5, <1>6, <1>7, <1>8, <1>9, <1>10, <1>11, <1>12 DEF Next

\* The strengthening holds in every reachable state of the bus.
THEOREM InvTheorem == Spec => []IInv
  BY InvInit, InvStep, PTL DEF Spec

\* Delivery: a publish that returned has called every subscription that was there
\* when it began and still is, for any number of concurrent publishes and any
\* handlers (snapshotHandlers and the loop of Publish).
THEOREM DeliveryTheorem == Spec => []StandingSubscribersServed
<1>1. IInv => StandingSubscribersServed
  BY DEF IInv, Typed, ServesStanding, DoneIsDone, StandingSubscribersServed, Chosen
<1> QED
  BY <1>1, InvTheorem, PTL

\* Younger subscriptions and those for other types never see the event.
THEOREM UndisturbedTheorem == Spec => []OthersUndisturbed
<1>1. IInv => OthersUndisturbed
  BY DEF IInv, CallsChosen, OthersUndisturbed, Chosen
<1> QED
  BY <1>1, InvTheorem, PTL

\* No handler's error and no timeout is swallowed: success of Publish means that
\* each handler it called has returned without an error.
THEOREM SuccessTheorem == Spec => []SuccessIsComplete
<1>1. IInv => SuccessIsComplete
  BY DEF IInv, Typed, Awaited, SuccessIsComplete
<1> QED
  BY <1>1, InvTheorem, PTL

----------------------------------------------------------------------------
\* The history part, independent of the rest.
HistInv == /\ history \in Seq(Events) /\ log \in Seq(Events)
           /\ Len(history) <= HistoryLimit /\ Len(history) <= Len(log)
           /\ HistoryIsNewest

\* Newest keeps at most HistoryLimit elements of a list, and from the end.
LEMMA NewestKeepsTheEnd ==
    ASSUME NEW S, NEW s \in Seq(S)
    PROVE  /\ Newest(s) \in Seq(S)
           /\ Len(Newest(s)) = IF Len(s) > HistoryLimit THEN HistoryLimit ELSE Len(s)
           /\ \A i \in 1..Len(Newest(s)) : Newest(s)[i] = s[i + Len(s) - Len(Newest(s))]
<1>0. Len(s) \in Nat
  OBVIOUS
<1>1. CASE Len(s) <= HistoryLimit
  <2>1. Newest(s) = s
    BY <1>0, <1>1, HistoryAssumption DEF Newest
  <2>2. \A i \in 1..Len(s) : i + Len(s) - Len(s) = i
    BY <1>0
  <2> QED
    BY <2>1, <2>2, <1>0, <1>1, HistoryAssumption
<1>2. CASE Len(s) > HistoryLimit
  <2> DEFINE from == Len(s) - HistoryLimit + 1
  <2>1. from \in 1..(Len(s) + 1) /\ Len(s) \in Nat
    BY <1>2, HistoryAssumption
  <2>2. Newest(s) = SubSeq(s, from, Len(s))
    BY <1>2 DEF Newest
  <2>3. /\ SubSeq(s, from, Len(s)) \in Seq(S)
        /\ Len(SubSeq(s, from, Len(s))) = HistoryLimit
        /\ \A i \in 1..HistoryLimit : SubSeq(s, from, Len(s))[i] = s[from + i - 1]
    BY <2>1, <1>2, HistoryAssumption, SubSeqProperties
  <2> QED
    BY <2>2, <2>3, <2>1, <1>2, HistoryAssumption
<1> QED
  BY <1>1, <1>2, HistoryAssumption

\* Trimming after each append keeps what trimming the whole log would.
LEMMA RecordKeepsNewest ==
    ASSUME HistInv, NEW p \in Pubs, history' = Newest(Append(history, p)), log' = Append(log, p)
    PROVE  HistInv'
<1> DEFINE more == Append(history, p)
<1>0. Len(history) \in Nat /\ Len(log) \in Nat /\ p \in Events
  BY DEF HistInv, Events
<1>1. more \in Seq(Events) /\ Len(more) = Len(history) + 1 /\ log' \in Seq(Events) /\ Len(log') = Len(log) + 1
  BY <1>0 DEF HistInv
<1>2. \A i \in 1..Len(more) : more[i] = log'[i + Len(log') - Len(more)]
  BY <1>0, <1>1 DEF HistInv, HistoryIsNewest
<1>3. /\ history' \in Seq(Events)
      /\ Len(history') = IF Len(more) > HistoryLimit THEN HistoryLimit ELSE Len(more)
      /\ \A i \in 1..Len(history') : history'[i] = more[i + Len(more) - Len(history')]
  BY <1>1, NewestKeepsTheEnd
<1>4. \A i \in 1..Len(history') : history'[i] = log'[i + Len(log') - Len(history')]
  <2> TAKE i \in 1..Len(history')
  <2> DEFINE j == i + Len(more) - Len(history')
  <2>1. Len(history') \in Nat /\ Len(history') <= Len(more)
    BY <1>1, <1>3, <1>0, HistoryAssumption
  <2>2. j \in 1..Len(more)
    BY <2>1, <1>1, <1>0
  <2>3. history'[i] = more[j] /\ more[j] = log'[j + Len(log') - Len(more)]
    BY <2>2, <1>3, <1>2
  <2>4. j + Len(log') - Len(more) = i + Len(log') - Len(history')
    BY <2>1, <1>1, <1>0
  <2> QED
    BY <2>3, <2>4
<1>5. Len(history') = HistoryLimit \/ history' = log'
  <2>1. CASE Len(more) > HistoryLimit
    BY <2>1, <1>3
  <2>2. CASE Len(more) <= HistoryLimit
    <3>1. history = log
      BY <2>2, <1>0, <1>1, HistoryAssumption DEF HistInv, HistoryIsNewest
    <3>2. history' = more
      BY <2>2, <1>1, <1>0, HistoryAssumption DEF Newest
    <3> QED
      BY <3>1, <3>2
  <2> QED
    BY <2>1, <2>2, <1>0, <1>1, HistoryAssumption
<1>6. Len(history') <= HistoryLimit /\ Len(history') <= Len(log')
  BY <1>0, <1>1, <1>3, HistoryAssumption DEF HistInv
<1> QED
  BY <1>1, <1>3, <1>4, <1>5, <1>6 DEF HistInv, HistoryIsNewest

\* Restoring, recording and everything else keep the history part.
LEMMA HistStep == HistInv /\ [Next]_vars => HistInv'
<1> SUFFICES ASSUME HistInv, [Next]_vars PROVE HistInv'
  OBVIOUS
<1>1. CASE RestoreHistory
  <2>1. log' \in Seq(Events) /\ history' = Newest(log')
    <3>1. PICK e \in Stored, f \in Stored : log' \in {<<e>>, <<e, f>>}
      BY <1>1 DEF RestoreHistory
    <3>2. e \in Events /\ f \in Events
      BY DEF Events
    <3>3. <<e>> \in Seq(Events) /\ <<e, f>> \in Seq(Events)
      BY <3>2
    <3> QED
      BY <3>1, <3>3, <1>1 DEF RestoreHistory
  <2>2. Len(log') \in Nat
    BY <2>1
  <2>3. Len(history') = HistoryLimit \/ history' = log'
    BY <2>1, <2>2, NewestKeepsTheEnd, HistoryAssumption DEF Newest
  <2>4. /\ history' \in Seq(Events)
        /\ Len(history') <= HistoryLimit /\ Len(history') <= Len(log')
        /\ \A i \in 1..Len(history') : history'[i] = log'[i + Len(log') - Len(history')]
    BY <2>1, <2>2, NewestKeepsTheEnd, HistoryAssumption
  <2> QED
    BY <2>1, <2>3, <2>4 DEF HistInv, HistoryIsNewest
<1>2. ASSUME NEW p \in Pubs, Record(p) PROVE HistInv'
  BY <1>2, RecordKeepsNewest DEF Record
<1>3. CASE UNCHANGED <<history, log>>
  BY <1>3 DEF HistInv, HistoryIsNewest
<1> QED
  BY <1>1, <1>2, <1>3 DEF Next, vars, Subscribe, Unsubscribe, Refuse, Snapshot, CallHandler,
     HandlerReturns, HandlerDone, HandlerTimesOut, PublishReturns

\* The history part holds in every reachable state.
LEMMA HistTheorem == Spec => []HistInv
<1>1. Init => HistInv
  BY HistoryAssumption DEF Init, HistInv, HistoryIsNewest
<1> QED
  BY <1>1, HistStep, PTL DEF Spec

\* The history is the newest HistoryLimit events of everything ever recorded.
THEOREM HistoryTheorem == Spec => []HistoryIsNewest
<1>1. HistInv => HistoryIsNewest
  BY DEF HistInv
<1> QED
  BY <1>1, HistTheorem, PTL

\* Type correctness of the whole state, with the bound on the history.
THEOREM Typing == Spec => []TypeOK
<1>1. IInv /\ HistInv => TypeOK
  BY DEF IInv, Typed, PubType, HistInv, TypeOK
<1> QED
  BY <1>1, InvTheorem, HistTheorem, PTL

----------------------------------------------------------------------------
(* The streams of the control API.  EventsNumbered says that the number of  *)
(* an event tells it apart from every other event the core still knows,     *)
(* wherever it is: on its way to the table, a row of it, in the history.    *)
(* So a list made of rows repeats none, whichever rows ListEvents takes,    *)
(* and there are finitely many.                                             *)

\* RestoreHistory and record of the bus trim as the streams' model has it.
LEMMA SameTrimming == \A s : Streams!Trim(s) = Newest(s)
  BY DEF Streams!Trim, Newest

LEMMA SameCardinality == \A S : Streams!Cardinality(S) = Cardinality(S)
  BY DEF Streams!Cardinality, Cardinality

LEMMA TrimKeepsTheEnd ==
    ASSUME NEW S, NEW s \in Seq(S)
    PROVE  /\ Streams!Trim(s) \in Seq(S)
           /\ Len(Streams!Trim(s)) = IF Len(s) > HistoryLimit THEN HistoryLimit ELSE Len(s)
           /\ \A i \in 1..Len(Streams!Trim(s)) :
                 Streams!Trim(s)[i] = s[i + Len(s) - Len(Streams!Trim(s))]
  BY SameTrimming, NewestKeepsTheEnd

\* An event is on its way to the table, a row of it, or in the history.
Known == saving \cup Streams!Rows \cup Streams!ToSet(history)

\* The numbers of a list's events are all different.
Distinct(s) == \A j, k \in DOMAIN s : s[j].n = s[k].n => j = k

EventsNumbered ==
    /\ \A e \in Known : e \in Streams!Events /\ e.n <= published
    /\ \A e, f \in Known : e.n = f.n => e = f

StreamsTyped ==
    /\ published \in 0..MaxEvents /\ boots \in 0..MaxBoots
    /\ history \in Seq(Streams!Events) /\ Len(history) <= HistoryLimit /\ Distinct(history)
    /\ saving \subseteq Streams!Events
    /\ table \in [EventIds -> Streams!Events \cup {Streams!None}]
    /\ \A i \in EventIds : table[i] # Streams!None => table[i].id = i
    /\ store \subseteq ActionIds /\ IsFiniteSet(store)
    /\ stream \in [Clients -> [of : {"none", "events", "actions"},
                               lastID : EventIds \cup {NoId}, lastCount : Nat]]
    /\ shown \in [Clients -> [events : SUBSET (1..MaxEvents), actions : SUBSET ActionIds]]

\* What a stream of actions remembers of its last message.
CountIsOfShown ==
    \A c \in Clients :
        /\ stream[c].of = "actions" =>
              /\ shown[c].actions \subseteq store
              /\ stream[c].lastCount = Cardinality(shown[c].actions)
        /\ stream[c].of = "none" => shown[c].actions = {} /\ stream[c].lastCount = 0

StreamsInv == StreamsTyped /\ EventsNumbered /\ CountIsOfShown

\* Trimming keeps a list's numbers apart and adds nothing to it.
LEMMA TrimKeepsDistinct ==
    ASSUME NEW s \in Seq(Streams!Events), Distinct(s)
    PROVE  /\ Distinct(Streams!Trim(s))
           /\ Streams!ToSet(Streams!Trim(s)) \subseteq Streams!ToSet(s)
<1> DEFINE t == Streams!Trim(s)
<1>1. /\ t \in Seq(Streams!Events) /\ Len(t) <= Len(s)
      /\ \A i \in 1..Len(t) : t[i] = s[i + Len(s) - Len(t)]
  BY TrimKeepsTheEnd, HistoryAssumption
<1>2. /\ Len(s) \in Nat /\ Len(t) \in Nat /\ DOMAIN t = 1..Len(t) /\ DOMAIN s = 1..Len(s)
  BY <1>1
<1> HIDE DEF t
<1>3. \A i \in DOMAIN t : i + Len(s) - Len(t) \in DOMAIN s /\ t[i] = s[i + Len(s) - Len(t)]
  BY <1>1, <1>2
<1>4. Streams!ToSet(t) \subseteq Streams!ToSet(s)
  BY <1>3 DEF Streams!ToSet
<1>5. Distinct(t)
  BY <1>2, <1>3 DEF Distinct
<1> QED BY <1>4, <1>5 DEF t

LEMMA RowsAreEvents ==
    ASSUME StreamsTyped
    PROVE  /\ Streams!Rows \subseteq Streams!Events
           /\ \A i \in EventIds : table[i] # Streams!None => table[i] \in Streams!Rows
BY DEF StreamsTyped, Streams!Rows

\* The rows of the table are numbered, so they are finitely many.
LEMMA RowsFinite ==
    ASSUME StreamsTyped, EventsNumbered, Streams!LimitsAssumption
    PROVE  IsFiniteSet(Streams!Rows)
<1> DEFINE f == [e \in Streams!Rows |-> e.n]
<1>1. f \in [Streams!Rows -> 1..MaxEvents]
  BY RowsAreEvents DEF Streams!Events
<1>2. f \in Injection(Streams!Rows, 1..MaxEvents)
  BY <1>1 DEF Injection, IsInjective, EventsNumbered, Known
<1>3. IsFiniteSet(1..MaxEvents)
  BY FS_Interval DEF Streams!LimitsAssumption
<1> HIDE DEF f
<1> QED BY <1>2, <1>3, FS_Injection

\* What ListEvents returns is a list of different rows.
LEMMA ListedAreRows ==
    ASSUME StreamsTyped, EventsNumbered, Streams!LimitsAssumption,
           NEW limit, NEW s \in Streams!ListEvents(limit)
    PROVE  /\ s \in Seq(Streams!Events) /\ Streams!ToSet(s) \subseteq Streams!Rows /\ Distinct(s)
<1>1. PICK T \in SUBSET Streams!Rows : s \in Streams!SetToSeqs(T)
  BY DEF Streams!ListEvents, Streams!SetToAllKPermutations
<1>2. IsFiniteSet(T) /\ Cardinality(T) \in Nat
  BY RowsFinite, FS_Subset, FS_CardinalityType
<1>3. /\ s \in [1..Cardinality(T) -> T]
      /\ \A i, j \in 1..Cardinality(T) : i # j => s[i] # s[j]
  BY <1>1, SameCardinality DEF Streams!SetToSeqs
<1>4. T \subseteq Streams!Events
  BY RowsAreEvents
<1>5. s \in Seq(Streams!Events)
  BY <1>2, <1>3, <1>4
<1>6. Streams!ToSet(s) \subseteq Streams!Rows
  BY <1>3 DEF Streams!ToSet
<1>7. Distinct(s)
  BY <1>3 DEF Distinct, EventsNumbered, Known
<1> QED BY <1>5, <1>6, <1>7

LEMMA ReverseKeeps ==
    ASSUME NEW s \in Seq(Streams!Events)
    PROVE  /\ Streams!Reverse(s) \in Seq(Streams!Events) /\ Len(Streams!Reverse(s)) = Len(s)
           /\ \A i \in 1..Len(s) : Streams!Reverse(s)[i] = s[Len(s) - i + 1]
           /\ Streams!ToSet(Streams!Reverse(s)) = Streams!ToSet(s)
           /\ Distinct(s) => Distinct(Streams!Reverse(s))
<1>1. Len(s) \in Nat /\ DOMAIN s = 1..Len(s)
  OBVIOUS
<1>2. \A i \in 1..Len(s) : Len(s) - i + 1 \in 1..Len(s) /\ Len(s) - (Len(s) - i + 1) + 1 = i
  BY <1>1
<1>3. /\ DOMAIN Streams!Reverse(s) = 1..Len(s)
      /\ \A i \in 1..Len(s) : Streams!Reverse(s)[i] = s[Len(s) - i + 1]
  BY DEF Streams!Reverse
<1>4. Streams!Reverse(s) \in Seq(Streams!Events) /\ Len(Streams!Reverse(s)) = Len(s)
  <2>1. Streams!Reverse(s) \in [1..Len(s) -> Streams!Events]
    BY <1>1, <1>2 DEF Streams!Reverse
  <2> QED BY <1>1, <2>1
<1>5. Streams!ToSet(Streams!Reverse(s)) = Streams!ToSet(s)
  <2>1. Streams!ToSet(Streams!Reverse(s)) \subseteq Streams!ToSet(s)
    BY <1>1, <1>2, <1>3 DEF Streams!ToSet
  <2>2. ASSUME NEW i \in 1..Len(s) PROVE s[i] \in Streams!ToSet(Streams!Reverse(s))
    <3>1. s[i] = Streams!Reverse(s)[Len(s) - i + 1]
      BY <1>2, <1>3
    <3> QED BY <1>2, <1>3, <3>1 DEF Streams!ToSet
  <2> QED BY <1>1, <2>1, <2>2 DEF Streams!ToSet
<1>6. Distinct(s) => Distinct(Streams!Reverse(s))
  BY <1>1, <1>2, <1>3 DEF Distinct
<1> QED BY <1>3, <1>4, <1>5, <1>6

\* What a boot restores from a list of rows: the first of them, turned round.
LEMMA RestoredFrom ==
    ASSUME NEW s \in Seq(Streams!Events), Distinct(s)
    PROVE  LET h == Streams!RestoredHistory(s)
           IN  /\ h \in Seq(Streams!Events) /\ Distinct(h)
               /\ Streams!ToSet(h) \subseteq Streams!ToSet(s)
               /\ Len(h) = IF Len(s) > HistoryLimit THEN HistoryLimit ELSE Len(s)
               /\ \A i \in 1..Len(h) : h[i] = s[Len(h) - i + 1]
<1> DEFINE r == Streams!Reverse(s)
           h == Streams!RestoredHistory(s)
<1>1. /\ r \in Seq(Streams!Events) /\ Len(r) = Len(s) /\ Distinct(r)
      /\ Streams!ToSet(r) = Streams!ToSet(s)
      /\ \A i \in 1..Len(s) : r[i] = s[Len(s) - i + 1]
  BY ReverseKeeps
<1>2. h = Streams!Trim(r)
  BY DEF Streams!RestoredHistory
<1> HIDE DEF r, h
<1>3. /\ h \in Seq(Streams!Events)
      /\ Len(h) = IF Len(s) > HistoryLimit THEN HistoryLimit ELSE Len(s)
      /\ \A i \in 1..Len(h) : h[i] = r[i + Len(s) - Len(h)]
  BY <1>1, <1>2, TrimKeepsTheEnd
<1>4. Distinct(h) /\ Streams!ToSet(h) \subseteq Streams!ToSet(s)
  BY <1>1, <1>2, TrimKeepsDistinct
<1>5. Len(s) \in Nat /\ Len(h) \in Nat /\ Len(h) <= Len(s)
  BY <1>3, HistoryAssumption
<1>6. ASSUME NEW i \in 1..Len(h) PROVE h[i] = s[Len(h) - i + 1]
  <2>1. /\ i + Len(s) - Len(h) \in 1..Len(s)
        /\ Len(s) - (i + Len(s) - Len(h)) + 1 = Len(h) - i + 1
    BY <1>5
  <2> QED BY <1>1, <1>3, <2>1
<1> QED BY <1>3, <1>4, <1>6 DEF h

----------------------------------------------------------------------------
LEMMA NoneIsNoEvent == Streams!None \notin Streams!Events
  BY DEF Streams!None, Streams!Events

\* The first state.
LEMMA StreamsInit == Streams!LimitsAssumption /\ Streams!Init => StreamsInv
<1> SUFFICES ASSUME Streams!LimitsAssumption, Streams!Init PROVE StreamsInv
  OBVIOUS
<1>1. IsFiniteSet({}) /\ Cardinality({}) = 0
  BY FS_EmptySet
<1>2. Streams!Rows = {} /\ Streams!ToSet(history) = {}
  BY DEF Streams!Init, Streams!Rows, Streams!ToSet
<1>3. StreamsTyped
  BY <1>1 DEF Streams!Init, StreamsTyped, Streams!LimitsAssumption, Distinct,
              Streams!Off, Streams!Blank
<1>4. EventsNumbered
  BY <1>2 DEF Streams!Init, EventsNumbered, Known
<1>5. CountIsOfShown
  BY <1>1 DEF Streams!Init, CountIsOfShown, Streams!Off, Streams!Blank
<1> QED BY <1>3, <1>4, <1>5 DEF StreamsInv

\* A publish adds one event under the next number.
LEMMA PublishNumbers ==
    ASSUME Streams!LimitsAssumption, StreamsInv,
           NEW i \in EventIds, NEW t \in Stamps, Streams!Publish(i, t)
    PROVE  StreamsTyped' /\ EventsNumbered'
<1> DEFINE e == [n |-> published', id |-> i, created |-> t]
           more == Append(history, e)
<1>1. /\ published' = published + 1 /\ published' \in 1..MaxEvents
      /\ history' = Streams!Trim(more) /\ saving' = saving \cup {e}
      /\ UNCHANGED <<table, store, stream, shown, boots>>
  BY DEF Streams!Publish, StreamsInv, StreamsTyped, Streams!LimitsAssumption
<1>2. e \in Streams!Events /\ e.n = published + 1
  BY <1>1 DEF Streams!Events
<1>3. published \in Nat /\ \A f \in Known : f \in Streams!Events /\ f.n \in Nat /\ f.n <= published
  BY DEF StreamsInv, StreamsTyped, EventsNumbered, Streams!Events, Streams!LimitsAssumption
<1> HIDE DEF e
<1>4. /\ more \in Seq(Streams!Events) /\ DOMAIN more = 1..(Len(history) + 1)
      /\ \A k \in DOMAIN more : \/ k \in DOMAIN history /\ more[k] = history[k]
                                \/ k = Len(history) + 1 /\ more[k] = e
  BY <1>2 DEF StreamsInv, StreamsTyped
<1>5. \A k \in DOMAIN history : history[k].n < e.n
  BY <1>2, <1>3 DEF Known, Streams!ToSet
<1>6. Distinct(more)
  BY <1>2, <1>4, <1>5 DEF Distinct, StreamsInv, StreamsTyped
<1>7. Streams!ToSet(more) \subseteq Streams!ToSet(history) \cup {e}
  BY <1>4 DEF Streams!ToSet
<1> HIDE DEF more
<1>8. /\ history' \in Seq(Streams!Events) /\ Len(history') <= HistoryLimit
      /\ Distinct(history') /\ Streams!ToSet(history') \subseteq Streams!ToSet(more)
  BY <1>1, <1>4, <1>6, TrimKeepsTheEnd, TrimKeepsDistinct DEF Streams!LimitsAssumption
<1>9. Known' \subseteq Known \cup {e}
  BY <1>1, <1>7, <1>8 DEF Known, Streams!Rows
<1>10. EventsNumbered'
  <2>1. \A f \in Known' : f \in Streams!Events /\ f.n <= published'
    BY <1>1, <1>2, <1>3, <1>9
  <2>2. \A f, g \in Known' : f.n = g.n => f = g
    BY <1>2, <1>3, <1>9 DEF StreamsInv, EventsNumbered
  <2> QED BY <2>1, <2>2 DEF EventsNumbered
<1>11. StreamsTyped'
  BY <1>1, <1>2, <1>8 DEF StreamsInv, StreamsTyped
<1> QED BY <1>10, <1>11

\* A save moves an event from its goroutine to its row, or loses it.
LEMMA SaveNumbers ==
    ASSUME StreamsInv, NEW e \in saving, Streams!SaveEvent(e)
    PROVE  StreamsTyped' /\ EventsNumbered'
<1>1. e \in Streams!Events /\ e.id \in EventIds /\ e # Streams!None
  BY NoneIsNoEvent DEF StreamsInv, StreamsTyped, Streams!Events
<1>2. /\ saving' = saving \ {e} /\ table' \in {table, [table EXCEPT ![e.id] = e]}
      /\ UNCHANGED <<published, history, store, stream, shown, boots>>
  BY DEF Streams!SaveEvent
<1>3. \A i \in EventIds : table'[i] = table[i] \/ (i = e.id /\ table'[i] = e)
  BY <1>2 DEF StreamsInv, StreamsTyped
<1>4. Known' \subseteq Known
  BY <1>2, <1>3 DEF Known, Streams!Rows
<1>5. EventsNumbered'
  BY <1>2, <1>4 DEF StreamsInv, EventsNumbered
<1>6. StreamsTyped'
  BY <1>1, <1>2, <1>3 DEF StreamsInv, StreamsTyped
<1> QED BY <1>5, <1>6

\* A restart restores rows of the table.
LEMMA RestartNumbers ==
    ASSUME Streams!LimitsAssumption, StreamsInv, Streams!Restart
    PROVE  StreamsTyped' /\ EventsNumbered'
<1>0. PICK limit \in RestoreLimits :
         \E s \in Streams!ListEvents(limit) \cup {<<>>} : history' = Streams!RestoredHistory(s)
  BY DEF Streams!Restart
<1>1. PICK s \in Streams!ListEvents(limit) \cup {<<>>} : history' = Streams!RestoredHistory(s)
  BY <1>0
<1>2. s \in Seq(Streams!Events) /\ Streams!ToSet(s) \subseteq Streams!Rows /\ Distinct(s)
  <2>1. CASE s \in Streams!ListEvents(limit)
    BY <2>1, ListedAreRows DEF StreamsInv
  <2>2. CASE s = <<>>
    BY <2>2 DEF Streams!ToSet, Distinct
  <2> QED BY <1>1, <2>1, <2>2
<1>3. /\ history' \in Seq(Streams!Events) /\ Distinct(history')
      /\ Streams!ToSet(history') \subseteq Streams!Rows
      /\ Len(history') <= HistoryLimit
  BY <1>1, <1>2, RestoredFrom DEF Streams!LimitsAssumption
<1>4. /\ boots' \in 0..MaxBoots /\ store' \subseteq store /\ saving' = {}
      /\ stream' = [c \in Clients |-> Streams!Off] /\ shown' = [c \in Clients |-> Streams!Blank]
      /\ UNCHANGED <<published, table>>
  BY DEF Streams!Restart, StreamsInv, StreamsTyped, Streams!LimitsAssumption
<1>5. Known' \subseteq Known
  BY <1>3, <1>4 DEF Known, Streams!Rows
<1>6. EventsNumbered'
  BY <1>4, <1>5 DEF StreamsInv, EventsNumbered
<1>7. store' \subseteq ActionIds /\ IsFiniteSet(store')
  BY <1>4, FS_Subset DEF StreamsInv, StreamsTyped
<1>8. StreamsTyped'
  BY <1>3, <1>4, <1>7 DEF StreamsInv, StreamsTyped, Streams!Off, Streams!Blank
<1> QED BY <1>6, <1>8

\* The steps of the streams touch nothing but what they remember and show.
LEMMA StreamTyped ==
    ASSUME StreamsInv, NEW c \in Clients, NEW of \in {"events", "actions"},
           Streams!Connect(c, of) \/ Streams!PollEvents(c) \/ Streams!PollActions(c) \/ Streams!Disconnect(c)
    PROVE  StreamsTyped' /\ EventsNumbered'
<1>1. UNCHANGED <<published, history, saving, table, store, boots>>
  BY DEF Streams!Connect, Streams!PollEvents, Streams!PollActions, Streams!Disconnect
<1>2. Cardinality(store) \in Nat
  BY FS_CardinalityType DEF StreamsInv, StreamsTyped
<1>3. /\ \A k \in DOMAIN history : history[k] \in Streams!Events
      /\ history # <<>> => Len(history) \in DOMAIN history
  BY DEF StreamsInv, StreamsTyped
<1>4. /\ {e.n : e \in Streams!ToSet(history)} \subseteq 1..MaxEvents
      /\ history # <<>> => Streams!Last(history).id \in EventIds
  BY <1>3 DEF Streams!ToSet, Streams!Last, Streams!Events
<1>5. stream' \in [Clients -> [of : {"none", "events", "actions"},
                               lastID : EventIds \cup {NoId}, lastCount : Nat]]
  <2>1. CASE Streams!Connect(c, of)
    BY <2>1 DEF Streams!Connect, StreamsInv, StreamsTyped
  <2>2. CASE Streams!PollEvents(c)
    BY <2>2, <1>4 DEF Streams!PollEvents, StreamsInv, StreamsTyped
  <2>3. CASE Streams!PollActions(c)
    <3>1. PICK count \in Nat : count = Cardinality(store)
      BY <1>2
    <3>2. stream' = [stream EXCEPT ![c].lastCount = count]
      BY <2>3, <3>1, SameCardinality DEF Streams!PollActions
    <3> QED BY <3>2 DEF StreamsInv, StreamsTyped
  <2>4. CASE Streams!Disconnect(c)
    BY <2>4 DEF Streams!Disconnect, StreamsInv, StreamsTyped, Streams!Off
  <2> QED BY <2>1, <2>2, <2>3, <2>4
<1>6. shown' \in [Clients -> [events : SUBSET (1..MaxEvents), actions : SUBSET ActionIds]]
  <2>1. CASE Streams!Connect(c, of)
    BY <2>1 DEF Streams!Connect, StreamsInv, StreamsTyped
  <2>2. CASE Streams!PollEvents(c)
    BY <2>2, <1>4 DEF Streams!PollEvents, StreamsInv, StreamsTyped
  <2>3. CASE Streams!PollActions(c)
    BY <2>3 DEF Streams!PollActions, StreamsInv, StreamsTyped
  <2>4. CASE Streams!Disconnect(c)
    BY <2>4 DEF Streams!Disconnect, StreamsInv, StreamsTyped, Streams!Blank
  <2> QED BY <2>1, <2>2, <2>3, <2>4
<1>7. StreamsTyped'
  BY <1>1, <1>5, <1>6 DEF StreamsInv, StreamsTyped
<1>8. EventsNumbered'
  BY <1>1 DEF StreamsInv, EventsNumbered, Known, Streams!Rows
<1> QED BY <1>7, <1>8

\* What a stream of actions remembers stays the size of what it has shown.
LEMMA StreamCounts ==
    ASSUME StreamsInv, NEW c \in Clients, NEW of \in {"events", "actions"},
           Streams!Connect(c, of) \/ Streams!PollEvents(c) \/ Streams!PollActions(c) \/ Streams!Disconnect(c)
    PROVE  CountIsOfShown'
<1>1. IsFiniteSet({}) /\ Cardinality({}) = 0
  BY FS_EmptySet
<1>2. /\ stream \in [Clients -> [of : {"none", "events", "actions"},
                                 lastID : EventIds \cup {NoId}, lastCount : Nat]]
      /\ shown \in [Clients -> [events : SUBSET (1..MaxEvents), actions : SUBSET ActionIds]]
      /\ CountIsOfShown
  BY DEF StreamsInv, StreamsTyped
<1>3. CASE Streams!Connect(c, of)
  BY <1>1, <1>2, <1>3 DEF Streams!Connect, CountIsOfShown
<1>4. CASE Streams!PollEvents(c)
  BY <1>2, <1>4 DEF Streams!PollEvents, CountIsOfShown
<1>5. CASE Streams!PollActions(c)
  BY <1>2, <1>5, SameCardinality DEF Streams!PollActions, CountIsOfShown
<1>6. CASE Streams!Disconnect(c)
  BY <1>1, <1>2, <1>6 DEF Streams!Disconnect, CountIsOfShown, Streams!Off, Streams!Blank
<1> QED BY <1>3, <1>4, <1>5, <1>6

\* Every step keeps all of it.
LEMMA StreamsStep ==
    Streams!LimitsAssumption /\ StreamsInv /\ [Streams!Next]_(Streams!vars) => StreamsInv'
<1> SUFFICES ASSUME Streams!LimitsAssumption, StreamsInv, [Streams!Next]_(Streams!vars)
             PROVE  StreamsInv'
  OBVIOUS
<1>1. ASSUME NEW i \in EventIds, NEW t \in Stamps, Streams!Publish(i, t) PROVE StreamsInv'
  <2>1. CountIsOfShown'
    BY <1>1 DEF Streams!Publish, StreamsInv, CountIsOfShown
  <2> QED BY <1>1, <2>1, PublishNumbers DEF StreamsInv
<1>2. ASSUME NEW e \in saving, Streams!SaveEvent(e) PROVE StreamsInv'
  <2>1. CountIsOfShown'
    BY <1>2 DEF Streams!SaveEvent, StreamsInv, CountIsOfShown
  <2> QED BY <1>2, <2>1, SaveNumbers DEF StreamsInv
<1>3. ASSUME NEW a \in ActionIds, Streams!SaveAction(a) PROVE StreamsInv'
  <2>1. /\ store' = store \cup {a} /\ IsFiniteSet(store')
        /\ UNCHANGED <<published, history, saving, table, stream, shown, boots>>
    BY <1>3, FS_AddElement DEF Streams!SaveAction, StreamsInv, StreamsTyped
  <2>2. StreamsTyped'
    BY <2>1 DEF StreamsInv, StreamsTyped
  <2>3. EventsNumbered'
    BY <2>1 DEF StreamsInv, EventsNumbered, Known, Streams!Rows
  <2>4. CountIsOfShown'
    BY <2>1 DEF StreamsInv, CountIsOfShown
  <2> QED BY <2>2, <2>3, <2>4 DEF StreamsInv
<1>4. ASSUME NEW c \in Clients, NEW of \in {"events", "actions"},
             Streams!Connect(c, of) \/ Streams!PollEvents(c) \/ Streams!PollActions(c) \/ Streams!Disconnect(c)
      PROVE  StreamsInv'
  BY <1>4, StreamTyped, StreamCounts DEF StreamsInv
<1>5. CASE Streams!Restart
  <2>1. CountIsOfShown'
    <3>1. Cardinality({}) = 0
      BY FS_EmptySet
    <3> QED BY <1>5, <3>1 DEF Streams!Restart, CountIsOfShown, Streams!Off, Streams!Blank
  <2> QED BY <1>5, <2>1, RestartNumbers DEF StreamsInv
<1>6. CASE UNCHANGED Streams!vars
  BY <1>6 DEF Streams!vars, StreamsInv, StreamsTyped, EventsNumbered, CountIsOfShown,
              Known, Streams!Rows
<1> QED BY <1>1, <1>2, <1>3, <1>4, <1>5, <1>6 DEF Streams!Next

LEMMA StreamsInvariant == ASSUME Streams!LimitsAssumption PROVE Streams!Spec => []StreamsInv
  BY StreamsInit, StreamsStep, PTL DEF Streams!Spec

\* Types of the streams, the history above them and the table below, for any
\* clients, limits and restarts: the history holds each event once.
THEOREM StreamsTyping == ASSUME Streams!LimitsAssumption PROVE Streams!Spec => []Streams!TypeOK
<1>1. StreamsInv => Streams!TypeOK
  <2> SUFFICES ASSUME StreamsInv PROVE Streams!TypeOK
    OBVIOUS
  <2>1. \A i \in EventIds : table[i] \in {Streams!None} \cup {e \in Streams!Events : e.id = i}
    BY DEF StreamsInv, StreamsTyped
  <2>2. Streams!IsInjective([k \in DOMAIN history |-> history[k].n])
    BY DEF StreamsInv, StreamsTyped, Distinct, Streams!IsInjective
  <2> QED BY <2>1, <2>2 DEF StreamsInv, StreamsTyped, Streams!TypeOK
<1> QED BY <1>1, StreamsInvariant, PTL

\* A list of actions is complete as soon as its length is right.
LEMMA CountTells ==
    ASSUME StreamsInv, NEW c \in Clients, stream[c].of = "actions",
           Cardinality(store) = stream[c].lastCount
    PROVE  shown[c].actions = store
<1>1. IsFiniteSet(store) /\ shown[c].actions \subseteq store
  BY DEF StreamsInv, StreamsTyped, CountIsOfShown
<1>2. Cardinality(shown[c].actions) = Cardinality(store)
  BY DEF StreamsInv, CountIsOfShown
<1> QED BY <1>1, <1>2, FS_Subset

\* A client of the action stream that nothing is due to has been sent every action:
\* comparing their number is enough, since the store only grows and each message
\* holds all of it.
THEOREM ListsTheorem ==
    ASSUME Streams!LimitsAssumption
    PROVE  Streams!Spec =>
             [](\A c \in Clients :
                  stream[c].of = "actions" /\ Cardinality(store) = stream[c].lastCount
                    => shown[c].actions = store)
<1>1. StreamsInv =>
        \A c \in Clients : stream[c].of = "actions" /\ Cardinality(store) = stream[c].lastCount
                             => shown[c].actions = store
  BY CountTells
<1> QED BY <1>1, StreamsInvariant, PTL

\* Local times of one offset compare as their times do.
LEMMA OneOffset ==
    ASSUME Streams!StampsAssumption, NEW e \in Streams!Events, NEW f \in Streams!Events,
           e.created.zone = f.created.zone, Streams!LocalTime(e) <= Streams!LocalTime(f)
    PROVE  e.created.at <= f.created.at
<1>1. /\ e.created.at \in Nat /\ e.created.zone \in Nat
      /\ f.created.at \in Nat /\ f.created.zone \in Nat
  BY DEF Streams!Events, Streams!StampsAssumption
<1> QED BY <1>1 DEF Streams!LocalTime

\* The restored history is in order and left nothing newer behind.
LEMMA RestartIsNewest ==
    ASSUME Streams!LimitsAssumption, Streams!StampsAssumption, StreamsInv,
           Streams!Restart, history' # <<>>
    PROVE  /\ \A j, k \in DOMAIN history' :
                j < k /\ history'[j].created.zone = history'[k].created.zone
                  => history'[j].created.at <= history'[k].created.at
           /\ \A e \in Streams!ToSet(history'), f \in Streams!Rows \ Streams!ToSet(history') :
                e.created.zone = f.created.zone => e.created.at >= f.created.at
           /\ \/ Len(history') \in {HistoryLimit} \cup RestoreLimits
              \/ Streams!ToSet(history') = Streams!Rows
<1>0. PICK limit \in RestoreLimits :
         \E s \in Streams!ListEvents(limit) \cup {<<>>} : history' = Streams!RestoredHistory(s)
  BY DEF Streams!Restart
<1>1. PICK s \in Streams!ListEvents(limit) \cup {<<>>} : history' = Streams!RestoredHistory(s)
  BY <1>0
<1> DEFINE h == history'
<1>2. s # <<>>
  <2> SUFFICES ASSUME s = <<>> PROVE FALSE
    OBVIOUS
  <2>1. Distinct(s) /\ s \in Seq(Streams!Events) /\ Len(s) = 0
    BY DEF Distinct
  <2>2. /\ h \in Seq(Streams!Events)
        /\ Len(h) = IF Len(s) > HistoryLimit THEN HistoryLimit ELSE Len(s)
    BY <1>1, <2>1, RestoredFrom
  <2>3. Len(h) = 0
    BY <2>1, <2>2 DEF Streams!LimitsAssumption
  <2> QED BY <2>2, <2>3
<1>3. s \in Streams!ListEvents(limit)
  BY <1>1, <1>2
<1>4. s \in Seq(Streams!Events) /\ Streams!ToSet(s) \subseteq Streams!Rows /\ Distinct(s)
  BY <1>3, ListedAreRows DEF StreamsInv
<1>5. /\ Len(s) <= limit
      /\ Len(s) = limit \/ Streams!ToSet(s) = Streams!Rows
      /\ \A j, k \in DOMAIN s : j < k => Streams!LocalTime(s[j]) >= Streams!LocalTime(s[k])
      /\ \A e \in Streams!ToSet(s), f \in Streams!Rows \ Streams!ToSet(s) :
           Streams!LocalTime(e) >= Streams!LocalTime(f)
  BY <1>3 DEF Streams!ListEvents
<1>6. /\ h \in Seq(Streams!Events)
      /\ Len(h) = IF Len(s) > HistoryLimit THEN HistoryLimit ELSE Len(s)
      /\ \A i \in 1..Len(h) : h[i] = s[Len(h) - i + 1]
      /\ Streams!ToSet(h) \subseteq Streams!ToSet(s)
  BY <1>1, <1>4, RestoredFrom
<1>7. /\ Len(s) \in Nat /\ Len(h) \in Nat /\ Len(h) <= Len(s)
      /\ DOMAIN h = 1..Len(h) /\ DOMAIN s = 1..Len(s)
  BY <1>4, <1>6 DEF Streams!LimitsAssumption
<1>8. /\ \A e \in Streams!Events : Streams!LocalTime(e) \in Nat
      /\ Streams!Rows \subseteq Streams!Events
  <2>1. ASSUME NEW e \in Streams!Events PROVE Streams!LocalTime(e) \in Nat
    <3>1. e.created.at \in Nat /\ e.created.zone \in Nat
      BY DEF Streams!Events, Streams!StampsAssumption
    <3> QED BY <3>1 DEF Streams!LocalTime
  <2> QED BY <2>1, RowsAreEvents DEF StreamsInv
<1> HIDE DEF h
<1>9. ASSUME NEW j \in DOMAIN h, NEW k \in DOMAIN h, j < k,
             h[j].created.zone = h[k].created.zone
      PROVE  h[j].created.at <= h[k].created.at
  <2>1. /\ Len(h) - j + 1 \in DOMAIN s /\ Len(h) - k + 1 \in DOMAIN s
        /\ Len(h) - k + 1 < Len(h) - j + 1
    BY <1>7, <1>9
  <2>2. Streams!LocalTime(s[Len(h) - k + 1]) >= Streams!LocalTime(s[Len(h) - j + 1])
    BY <1>5, <2>1
  <2>3. h[j] = s[Len(h) - j + 1] /\ h[k] = s[Len(h) - k + 1]
    BY <1>6, <1>7
  <2>4. /\ h[j] \in Streams!Events /\ h[k] \in Streams!Events
        /\ Streams!LocalTime(h[j]) \in Nat /\ Streams!LocalTime(h[k]) \in Nat
    BY <1>6, <1>8
  <2>5. Streams!LocalTime(h[j]) <= Streams!LocalTime(h[k])
    BY <2>2, <2>3, <2>4
  <2> QED BY <1>9, <2>4, <2>5, OneOffset
<1>10. ASSUME NEW b \in 1..Len(h) PROVE s[b] \in Streams!ToSet(h)
  <2>1. Len(h) - b + 1 \in 1..Len(h) /\ Len(h) - (Len(h) - b + 1) + 1 = b
    BY <1>7
  <2>2. s[b] = h[Len(h) - b + 1]
    BY <1>6, <2>1
  <2> QED BY <1>7, <2>1, <2>2 DEF Streams!ToSet
<1>11. ASSUME NEW e \in Streams!ToSet(h), NEW f \in Streams!Rows \ Streams!ToSet(h)
       PROVE  Streams!LocalTime(e) >= Streams!LocalTime(f)
  <2>1. CASE f \notin Streams!ToSet(s)
    BY <1>5, <1>6, <1>11, <2>1
  <2>2. CASE f \in Streams!ToSet(s)
    <3>1. PICK b \in DOMAIN s : f = s[b]
      BY <2>2 DEF Streams!ToSet
    <3>2. PICK i \in DOMAIN h : e = h[i]
      BY <1>11 DEF Streams!ToSet
    <3>3. Len(h) - i + 1 \in DOMAIN s /\ e = s[Len(h) - i + 1]
      <4>1. i \in 1..Len(h) /\ Len(h) - i + 1 \in 1..Len(s)
        BY <1>7, <3>2
      <4> QED BY <1>6, <1>7, <3>2, <4>1
    <3>4. b \notin 1..Len(h)
      BY <1>10, <1>11, <3>1
    <3>5. Len(h) - i + 1 < b
      BY <1>7, <3>1, <3>2, <3>4
    <3> QED BY <1>5, <3>1, <3>3, <3>5
  <2> QED BY <2>1, <2>2
<1>12. ASSUME NEW e \in Streams!ToSet(h), NEW f \in Streams!Rows \ Streams!ToSet(h),
              e.created.zone = f.created.zone
       PROVE  e.created.at >= f.created.at
  <2>1. e \in Streams!Events /\ f \in Streams!Events
    BY <1>4, <1>6, <1>8
  <2>2. /\ Streams!LocalTime(e) \in Nat /\ Streams!LocalTime(f) \in Nat
        /\ Streams!LocalTime(f) <= Streams!LocalTime(e)
    BY <1>8, <1>11, <2>1
  <2>3. f.created.at <= e.created.at
    BY <1>12, <2>1, <2>2, OneOffset
  <2>4. e.created.at \in Nat /\ f.created.at \in Nat
    BY <2>1 DEF Streams!Events, Streams!StampsAssumption
  <2> QED BY <2>3, <2>4
<1>13. Len(h) \in {HistoryLimit} \cup RestoreLimits \/ Streams!ToSet(h) = Streams!Rows
  <2>1. CASE Len(s) > HistoryLimit
    BY <1>6, <2>1
  <2>2. CASE ~(Len(s) > HistoryLimit)
    <3>1. Len(h) = Len(s)
      BY <1>6, <2>2
    <3>2. Streams!ToSet(s) \subseteq Streams!ToSet(h)
      BY <1>7, <1>10, <3>1 DEF Streams!ToSet
    <3> QED BY <1>5, <1>6, <3>1, <3>2
  <2> QED BY <2>1, <2>2
<1> QED BY <1>9, <1>13, <1>12 DEF h

\* Only a restart counts a boot.
LEMMA OnlyRestartBoots ==
    ASSUME Streams!Next, boots' # boots
    PROVE  Streams!Restart
  BY DEF Streams!Next, Streams!Publish, Streams!SaveEvent, Streams!SaveAction,
         Streams!Connect, Streams!PollEvents, Streams!PollActions, Streams!Disconnect

\* Of every UTC offset a restart brings back the newest part of the table and in
\* order, for any two limits, any senders in between and whichever of the rows with
\* equal local times ListEvents takes.
THEOREM RestoredTheorem ==
    ASSUME Streams!LimitsAssumption, Streams!StampsAssumption
    PROVE  Streams!Spec => Streams!RestoredIsNewest
<1>1. StreamsInv /\ [Streams!Next]_(Streams!vars) =>
        [boots' # boots /\ history' # <<>> =>
         /\ \A j, k \in DOMAIN history' :
              j < k /\ history'[j].created.zone = history'[k].created.zone
                => history'[j].created.at <= history'[k].created.at
         /\ \A e \in Streams!ToSet(history'), f \in Streams!Rows \ Streams!ToSet(history') :
              e.created.zone = f.created.zone => e.created.at >= f.created.at
         /\ \/ Len(history') \in {HistoryLimit} \cup RestoreLimits
            \/ Streams!ToSet(history') = Streams!Rows]_(Streams!vars)
  BY RestartIsNewest, OnlyRestartBoots DEF Streams!vars
<1> QED BY <1>1, StreamsInvariant, PTL DEF Streams!Spec, Streams!RestoredIsNewest

----------------------------------------------------------------------------
(* The event stream compares the last id alone.  That is enough as long as  *)
(* no event comes under the id that a client was sent last: then what lies  *)
(* before that id in the history has been shown (ShownUpToLast).            *)

\* No step publishes an event under the id that a client was sent last.
IdsMoveOn ==
    \A i \in EventIds, t \in Stamps :
        Streams!Publish(i, t) => \A c \in Clients : i # stream[c].lastID

ShownUpToLast ==
    \A c \in Clients :
        /\ stream[c].of = "none" => stream[c].lastID = NoId
        /\ stream[c].of = "events" =>
              \A k \in DOMAIN history : history[k].id = stream[c].lastID =>
                 \A j \in 1..k : history[j].n \in shown[c].events

LEMMA PublishShowsRest ==
    ASSUME StreamsInv, ShownUpToLast, IdsMoveOn,
           NEW i \in EventIds, NEW t \in Stamps, Streams!Publish(i, t)
    PROVE  ShownUpToLast'
<1> DEFINE e == [n |-> published', id |-> i, created |-> t]
           more == Append(history, e)
           h == history'
<1>1. /\ h = Streams!Trim(more) /\ UNCHANGED <<stream, shown>>
      /\ \A c \in Clients : i # stream[c].lastID
  BY DEF Streams!Publish, IdsMoveOn
<1>2. /\ more \in Seq(Streams!Events \cup {e}) /\ Len(more) = Len(history) + 1
      /\ Len(history) \in Nat /\ DOMAIN history = 1..Len(history)
      /\ \A k \in 1..Len(history) : more[k] = history[k]
      /\ more[Len(history) + 1].id = i
  BY DEF StreamsInv, StreamsTyped
<1> HIDE DEF e, more
<1>3. /\ Len(h) \in Nat /\ Len(h) <= Len(more) /\ DOMAIN h = 1..Len(h)
      /\ \A k \in 1..Len(h) : h[k] = more[k + Len(more) - Len(h)]
  <2> DEFINE S == Streams!Events \cup {e}
  <2>1. more \in Seq(S) /\ Len(more) \in Nat /\ HistoryLimit \in Nat
    BY <1>2, HistoryAssumption
  <2> HIDE DEF S
  <2>2. /\ h \in Seq(S)
        /\ Len(h) = IF Len(more) > HistoryLimit THEN HistoryLimit ELSE Len(more)
        /\ \A k \in 1..Len(h) : h[k] = more[k + Len(more) - Len(h)]
    BY <1>1, <2>1, TrimKeepsTheEnd
  <2>3. Len(h) \in Nat /\ DOMAIN h = 1..Len(h)
    BY <2>2
  <2>4. Len(h) <= Len(more)
    <3>1. (Len(h) = HistoryLimit /\ Len(more) > HistoryLimit) \/ Len(h) = Len(more)
      BY <2>2
    <3> QED BY <2>1, <3>1
  <2>5. \A k \in 1..Len(h) : h[k] = more[k + Len(more) - Len(h)]
    BY <2>2
  <2> QED BY <2>3, <2>4, <2>5
<1> HIDE DEF h
<1>4. ASSUME NEW c \in Clients, stream[c].of = "events",
             NEW k \in DOMAIN h, h[k].id = stream[c].lastID, NEW j \in 1..k
      PROVE  h[j].n \in shown[c].events
  <2> DEFINE d == Len(more) - Len(h)
  <2>1. /\ d \in Nat /\ k + d \in 1..Len(more) /\ j + d \in 1..(k + d)
        /\ h[k] = more[k + d] /\ h[j] = more[j + d]
    BY <1>2, <1>3
  <2>2. k + d # Len(history) + 1
    BY <1>1, <1>2, <1>4, <2>1
  <2>3. k + d \in 1..Len(history) /\ j + d \in 1..Len(history)
    BY <1>2, <2>1, <2>2
  <2> HIDE DEF d
  <2>4. history[k + d].id = stream[c].lastID /\ h[j] = history[j + d]
    BY <1>2, <1>4, <2>1, <2>3
  <2> QED BY <1>2, <1>4, <2>1, <2>3, <2>4 DEF ShownUpToLast
<1> QED BY <1>1, <1>4 DEF ShownUpToLast, h

LEMMA PollShowsAll ==
    ASSUME StreamsInv, ShownUpToLast, NEW c \in Clients, Streams!PollEvents(c)
    PROVE  ShownUpToLast'
<1>1. /\ stream[c].of = "events" /\ UNCHANGED history
      /\ \A d \in Clients \ {c} : stream'[d] = stream[d] /\ shown'[d] = shown[d]
      /\ stream'[c].of = "events"
      /\ shown'[c].events = {e.n : e \in Streams!ToSet(history)}
  BY DEF Streams!PollEvents, StreamsInv, StreamsTyped
<1>2. DOMAIN history = 1..Len(history) /\ Len(history) \in Nat
  BY DEF StreamsInv, StreamsTyped
<1>3. \A k \in DOMAIN history : history[k].n \in shown'[c].events
  BY <1>1 DEF Streams!ToSet
<1>4. \A k \in DOMAIN history : \A j \in 1..k : j \in DOMAIN history
  BY <1>2
<1> QED BY <1>1, <1>3, <1>4 DEF ShownUpToLast

LEMMA ShownStep ==
    ASSUME Streams!IdsAssumption, StreamsInv, ShownUpToLast,
           [Streams!Next]_(Streams!vars), [IdsMoveOn]_(Streams!vars)
    PROVE  ShownUpToLast'
<1>1. ASSUME NEW i \in EventIds, NEW t \in Stamps, Streams!Publish(i, t)
      PROVE  ShownUpToLast'
  <2>1. published' # published
    BY <1>1 DEF Streams!Publish, StreamsInv, StreamsTyped
  <2>2. IdsMoveOn
    BY <2>1 DEF Streams!vars
  <2> QED BY <1>1, <2>2, PublishShowsRest
<1>2. ASSUME UNCHANGED <<history, stream, shown>> PROVE ShownUpToLast'
  BY <1>2 DEF ShownUpToLast
<1>3. ASSUME NEW c \in Clients, NEW of \in {"events", "actions"}, Streams!Connect(c, of)
      PROVE  ShownUpToLast'
  <2>1. /\ stream[c].of = "none" /\ stream'[c].of = of /\ stream'[c].lastID = stream[c].lastID
        /\ \A d \in Clients \ {c} : stream'[d] = stream[d]
        /\ UNCHANGED <<history, shown>>
    BY <1>3 DEF Streams!Connect, StreamsInv, StreamsTyped
  <2>2. ASSUME NEW k \in DOMAIN history PROVE history[k].id # NoId
    <3>1. history[k] \in Streams!Events
      BY DEF StreamsInv, StreamsTyped
    <3> QED BY <3>1 DEF Streams!Events, Streams!IdsAssumption
  <2> QED BY <2>1, <2>2 DEF ShownUpToLast
<1>4. ASSUME NEW c \in Clients, Streams!PollEvents(c) PROVE ShownUpToLast'
  BY <1>4, PollShowsAll
<1>5. ASSUME NEW c \in Clients, Streams!PollActions(c) PROVE ShownUpToLast'
  <2>1. /\ stream'[c].of = "actions" /\ UNCHANGED history
        /\ \A d \in Clients \ {c} : stream'[d] = stream[d] /\ shown'[d] = shown[d]
    BY <1>5 DEF Streams!PollActions, StreamsInv, StreamsTyped
  <2> QED BY <2>1 DEF ShownUpToLast
<1>6. ASSUME NEW c \in Clients, Streams!Disconnect(c) PROVE ShownUpToLast'
  <2>1. /\ stream'[c].of = "none" /\ stream'[c].lastID = NoId /\ UNCHANGED history
        /\ \A d \in Clients \ {c} : stream'[d] = stream[d] /\ shown'[d] = shown[d]
    BY <1>6 DEF Streams!Disconnect, Streams!Off, StreamsInv, StreamsTyped
  <2> QED BY <2>1 DEF ShownUpToLast
<1>7. CASE Streams!Restart
  BY <1>7 DEF Streams!Restart, Streams!Off, ShownUpToLast
<1> QED BY <1>1, <1>2, <1>3, <1>4, <1>5, <1>6, <1>7
        DEF Streams!Next, Streams!vars, Streams!SaveEvent, Streams!SaveAction

\* A client of the event stream that nothing is due to has been shown the whole
\* history, as long as no event comes under the id that a client was sent last.
THEOREM ShownTheorem ==
    ASSUME Streams!LimitsAssumption, Streams!IdsAssumption
    PROVE  Streams!Spec /\ [][IdsMoveOn]_(Streams!vars) =>
             [](\A c \in Clients :
                  /\ stream[c].of = "events"
                  /\ history # <<>> /\ Streams!Last(history).id = stream[c].lastID
                  => \A e \in Streams!ToSet(history) : e.n \in shown[c].events)
<1>1. Streams!Init => ShownUpToLast
  BY DEF Streams!Init, Streams!Off, ShownUpToLast
<1>2. StreamsInv /\ ShownUpToLast /\ [Streams!Next]_(Streams!vars)
        /\ [IdsMoveOn]_(Streams!vars) => ShownUpToLast'
  BY ShownStep
<1>3. StreamsInv /\ ShownUpToLast =>
        \A c \in Clients :
           /\ stream[c].of = "events"
           /\ history # <<>> /\ Streams!Last(history).id = stream[c].lastID
           => \A e \in Streams!ToSet(history) : e.n \in shown[c].events
  <2> SUFFICES ASSUME StreamsInv, ShownUpToLast, NEW c \in Clients, stream[c].of = "events",
                      history # <<>>, Streams!Last(history).id = stream[c].lastID
               PROVE  \A e \in Streams!ToSet(history) : e.n \in shown[c].events
    OBVIOUS
  <2>1. /\ Len(history) \in DOMAIN history /\ DOMAIN history = 1..Len(history)
        /\ history[Len(history)].id = stream[c].lastID
    BY DEF Streams!Last, StreamsInv, StreamsTyped
  <2>2. \A j \in 1..Len(history) : history[j].n \in shown[c].events
    BY <2>1 DEF ShownUpToLast
  <2> QED BY <2>1, <2>2 DEF Streams!ToSet
<1> QED BY <1>1, <1>2, <1>3, StreamsInvariant, PTL DEF Streams!Spec
=================================================================================
