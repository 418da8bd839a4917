----------------------------- MODULE EventChain -----------------------------
(***************************************************************************)
(* How events lead to actions and actions to events: the workflow engine   *)
(* (internal/workflows/engine.go) behind the bus (internal/events/bus.go)  *)
(* and the handlers of internal/runtime/runtime.go that publish again.     *)
(*                                                                         *)
(* An event is named by the external event at its root, the links that led *)
(* to it, and its topic.  A link is the topic of an event and the rule     *)
(* that answered it with an action.  A topic is an event type; for         *)
(* action.executed it includes the outcome, which conditions of rules may  *)
(* tell apart (payload.status).  An action the gate does not allow waits   *)
(* for an operator; one it denies is among those nobody ever decides.      *)
(***************************************************************************)
EXTENDS Integers, Sequences

CONSTANTS Roots,       \* external events: EmitEvent, event.emit of a plugin
          Rules,       \* rule ids of the engine
          Outside,     \* the origin of an external event
          NoTrace,     \* the empty TraceID
          Triggers,    \* <<topic, origin, rule>>: rule matches such an event
          Allowed,     \* rules whose actions the gate allows at once
          DepthLimit   \* Bus.Publish refuses a greater depth (20)

Executed == {"completed", "failed"}
Topics   == {"message", "requested", "approved", "denied"} \cup Executed

Link    == [topic: Topics, rule: Rules]
EventId == [root: Roots, links: Seq(Link), topic: Topics]

ASSUME ConstantsAssumption ==
  /\ Outside \notin Rules
  /\ Triggers \subseteq Topics \X (Rules \cup {Outside}) \X Rules
  /\ Allowed \subseteq Rules
  /\ DepthLimit \in Nat
  /\ NoTrace \notin EventId

VARIABLES
  published,  \* events the bus has accepted
  due,        \* <<event, rule>>: matches HandleEvent has still to answer
  requested,  \* actions ever requested
  paused,     \* actions that wait for an operator
  running     \* actions executed by a goroutine

vars == <<published, due, requested, paused, running>>

Event  == [root: Roots, links: Seq(Link), topic: Topics,
           depth: Nat, trace: EventId \cup {NoTrace}]
Action == [root: Roots, links: Seq(Link), depth: Nat, trace: EventId]

\* Types of all variables: each action has the links that led to it, and only
\* accepted events have matches to answer.
TypeOK ==
  /\ published \subseteq Event
  /\ due \subseteq published \X Rules
  /\ requested \subseteq Action
  /\ paused \subseteq requested
  /\ running \subseteq requested

Init ==
  /\ published = {} /\ due = {} /\ requested = {}
  /\ paused = {} /\ running = {}

----------------------------------------------------------------------------
\* The rule whose action an event is about ("source" in its payload).
Origin(e) == IF e.links = <<>> THEN Outside ELSE e.links[Len(e.links)].rule

\* WorkflowRule.Matches: type, source and conditions of a trigger.
Matches(e, r) == <<e.topic, Origin(e), r>> \in Triggers

MatchesOf(e) == {<<e, r>> : r \in {s \in Rules : Matches(e, s)}}

\* Bus.Publish: an event that is too deep is refused and its error is dropped by
\* all callers; handleWorkflowEvent answers the rules that match.
\* The other matches that are due are in rest.
Publish(e, rest) ==
  IF e.depth > DepthLimit
  THEN /\ due' = rest
       /\ UNCHANGED published
  ELSE /\ due' = rest \cup MatchesOf(e)
       /\ published' = published \cup {e}

\* Status events carry neither a depth nor a trace.
Status(a, topic) ==
  [root |-> a.root, links |-> a.links, topic |-> topic, depth |-> 0, trace |-> NoTrace]

\* Mutant of ExecutedEvent: the depth is not passed on.
ExecutedEventAnew(a, topic) ==
  [root |-> a.root, links |-> a.links, topic |-> topic, depth |-> 0, trace |-> a.trace]

\* action.executed carries those of its action.
ExecutedEvent(a, topic) ==
  [root |-> a.root, links |-> a.links, topic |-> topic,
   depth |-> a.depth, trace |-> a.trace]

\* Mutant of Trace: the trace of an event is always the event.
TraceAnew(e) == [root |-> e.root, links |-> e.links, topic |-> e.topic]

Trace(e) ==
  IF e.trace = NoTrace
  THEN [root |-> e.root, links |-> e.links, topic |-> e.topic]
  ELSE e.trace

\* Engine.newActions
NewAction(e, r) ==
  [root  |-> e.root,
   links |-> Append(e.links, [topic |-> e.topic, rule |-> r]),
   depth |-> e.depth + 1,
   trace |-> Trace(e)]

\* An event from outside as handleEventEmit of a plugin completes it: it has an id
\* and a source; those of the model bring neither a depth nor a trace of their own.
External(root) ==
  [root |-> root, links |-> <<>>, topic |-> "message", depth |-> 0, trace |-> NoTrace]

\* EmitEvent and handleEventEmit publish it; each event once.
Emit(root) ==
  /\ \A e \in published : e.root # root
  /\ Publish(External(root), due)
  /\ UNCHANGED <<requested, paused, running>>

\* Mutant of Answer: HandleEvent returns after the first rule that matches.
AnswerFirstOnly(e, r) ==
  LET a == NewAction(e, r)
  IN /\ <<e, r>> \in due
     /\ requested' = requested \cup {a}
     /\ Publish(Status(a, "requested"), due \ MatchesOf(e))
     /\ running' = IF r \in Allowed THEN running \cup {a} ELSE running
     /\ paused'  = IF r \in Allowed THEN paused ELSE paused \cup {a}

\* HandleEvent answers one match through RequestAction.  The publish inside it
\* waits for its handlers at most until their timeout, so the order of the
\* answers is not determined.  (An error would end HandleEvent; the actions of a
\* rule that passed its validation cause none.)
Answer(e, r) ==
  LET a == NewAction(e, r)
  IN /\ <<e, r>> \in due
     /\ requested' = requested \cup {a}
     /\ Publish(Status(a, "requested"), due \ {<<e, r>>})
     /\ running' = IF r \in Allowed THEN running \cup {a} ELSE running
     /\ paused'  = IF r \in Allowed THEN paused ELSE paused \cup {a}

\* ApproveAction and DenyAction of an action that waits; each is decided once here
\* (nothing stops operators from deciding again, see ActionLifecycle, but then
\* they keep the core busy and not its workflows).
Approve(a) ==
  /\ a \in paused
  /\ paused' = paused \ {a}
  /\ running' = running \cup {a}
  /\ Publish(Status(a, "approved"), due)
  /\ UNCHANGED requested

Deny(a) ==
  /\ a \in paused
  /\ paused' = paused \ {a}
  /\ Publish(Status(a, "denied"), due)
  /\ UNCHANGED <<requested, running>>

\* Mutant of Finish: a refused event is published again and again.
FinishInsists(a) ==
  /\ a \in running
  /\ running' = IF a.depth > DepthLimit THEN running ELSE running \ {a}
  /\ \E topic \in Executed : Publish(ExecutedEvent(a, topic), due)
  /\ UNCHANGED <<requested, paused>>

\* executeActionAsync ends: the outcome is published with the action's depth.
Finish(a) ==
  /\ a \in running
  /\ running' = running \ {a}
  /\ \E topic \in Executed : Publish(ExecutedEvent(a, topic), due)
  /\ UNCHANGED <<requested, paused>>

AnswerAny == \E d \in due : Answer(d[1], d[2])
FinishAny == \E a \in running : Finish(a)

Next ==
  \/ \E root \in Roots : Emit(root)
  \/ AnswerAny
  \/ \E a \in paused : Approve(a) \/ Deny(a)
  \/ FinishAny

Spec == Init /\ [][Next]_vars

\* Handler and execution goroutines run; an execution has a deadline.
FairSpec == Spec /\ WF_vars(AnswerAny) /\ WF_vars(FinishAny)

----------------------------------------------------------------------------
\* No DepthLimit + 1 links in a row start from an action.executed event.
Cut(links) ==
  \A i \in 0..Len(links) - DepthLimit - 1 :
     \E k \in i+1..i+DepthLimit+1 : links[k].topic \notin Executed

\* A cycle of workflows through executions is cut: by the depth that newActions
\* counts, executeActionAsync passes on and Publish checks, and not by any look
\* at the chain itself.
RunsAreCut == \A a \in requested : Cut(a.links)

\* Every accepted event is answered for each rule that matches it, or will be:
\* no answer to one rule makes HandleEvent forget another one.
MatchesAreAnswered ==
  \A e \in published, r \in Rules :
     Matches(e, r) =>
        \/ <<e, r>> \in due
        \/ \E a \in requested :
              /\ a.root = e.root
              /\ a.links = Append(e.links, [topic |-> e.topic, rule |-> r])

\* id is the last event of the chain that was not action.executed.
StartOfRun(links, id) ==
  LET n == Len(id.links)
  IN /\ n < Len(links)
     /\ id.links = SubSeq(links, 1, n)
     /\ id.topic = links[n + 1].topic
     /\ id.topic \notin Executed
     /\ \A k \in n+2..Len(links) : links[k].topic \in Executed

\* All actions of a chain through action.executed have the event it began with as
\* their trace, through however many actions and events it was handed on.
TraceIsKept ==
  \A a \in requested : a.trace.root = a.root /\ StartOfRun(a.links, a.trace)

\* The core comes to rest after the last event from outside, although workflows
\* may trigger each other through action.executed in a circle.
Quiesces == <>[](due = {} /\ running = {})

\* "event bus cycle detected: max depth 20 exceeded" (internal/events/bus.go:86):
\* whatever workflows listen to, no chain is longer than the limit allows.
ChainsAreCut == \A a \in requested : Len(a.links) <= DepthLimit + 1
=============================================================================
