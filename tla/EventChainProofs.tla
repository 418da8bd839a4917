-------------------------- MODULE EventChainProofs --------------------------
(***************************************************************************)
(* Proofs about EventChain: types, the bound on chains through             *)
(* action.executed, complete answers, and traces.                          *)
(***************************************************************************)
EXTENDS EventChain, TLAPS

----------------------------------------------------------------------------
\* What the four places that publish have in common.

LEMMA PublishEffect ==
  ASSUME NEW e, NEW rest, Publish(e, rest)
  PROVE  /\ published' \subseteq published \cup {e}
         /\ published \subseteq published'
         /\ e \in published' \/ published' = published
         /\ \A x \in published' \ published : x = e /\ ~(e.depth > DepthLimit)
         /\ rest \subseteq due'
         /\ due' \subseteq rest \cup MatchesOf(e)
         /\ due' # rest => e \in published'
         /\ e \in published' \ published => MatchesOf(e) \subseteq due'
BY DEF Publish

LEMMA Built ==
  ASSUME TypeOK
  PROVE  /\ \A a \in requested, t \in Topics :
              Status(a, t) \in Event /\ ExecutedEvent(a, t) \in Event
         /\ \A e \in published, r \in Rules : NewAction(e, r) \in Action
<1>1. ASSUME NEW a \in requested, NEW t \in Topics
      PROVE  Status(a, t) \in Event /\ ExecutedEvent(a, t) \in Event
  BY <1>1 DEF TypeOK, Action, Event, Status, ExecutedEvent
<1>2. ASSUME NEW e \in published, NEW r \in Rules
      PROVE  NewAction(e, r) \in Action
  <2>1. e \in Event
    BY <1>2 DEF TypeOK
  <2>2. Trace(e) \in EventId
    BY <2>1 DEF Event, EventId, Trace
  <2>3. Append(e.links, [topic |-> e.topic, rule |-> r]) \in Seq(Link)
    BY <2>1, <1>2 DEF Event, Link
  <2> QED
    BY <2>1, <2>2, <2>3 DEF NewAction, Event, Action
<1> QED
  BY <1>1, <1>2

LEMMA MatchesType == \A e : MatchesOf(e) \subseteq {e} \X Rules
BY DEF MatchesOf

\* The types are preserved by every step.
LEMMA TypeStep == TypeOK /\ [Next]_vars => TypeOK'
<1> SUFFICES ASSUME TypeOK, [Next]_vars PROVE TypeOK'
  OBVIOUS
<1> USE Built, MatchesType
<1>1. ASSUME NEW root \in Roots, Emit(root) PROVE TypeOK'
  <2> DEFINE m == [root |-> root, links |-> <<>>, topic |-> "message",
                   depth |-> 0, trace |-> NoTrace]
  <2>1. m \in Event
    BY DEF Event, Topics
  <2>2. Publish(m, due)
    BY <1>1 DEF Emit, External, External
  <2> QED
    BY <1>1, <2>1, <2>2, PublishEffect DEF Emit, External, TypeOK
<1>2. ASSUME NEW e \in published, NEW r \in Rules, Answer(e, r) PROVE TypeOK'
  <2> DEFINE a == NewAction(e, r)
             s == Status(a, "requested")
  <2>1. a \in Action
    BY <1>2
  <2>2. s \in Event
    BY <2>1 DEF Status, Action, Event, Topics
  <2>3. Publish(s, due \ {<<e, r>>})
    BY <1>2 DEF Answer
  <2>4. published' \subseteq Event /\ due' \subseteq published' \X Rules
    BY <2>2, <2>3, PublishEffect DEF TypeOK
  <2> QED
    BY <1>2, <2>1, <2>4 DEF Answer, TypeOK
<1>3. ASSUME NEW a \in paused, Approve(a) \/ Deny(a) PROVE TypeOK'
  <2>1. PICK t \in Topics : Publish(Status(a, t), due)
    BY <1>3 DEF Approve, Deny, Topics
  <2>2. Status(a, t) \in Event
    BY <1>3 DEF TypeOK
  <2>3. published' \subseteq Event /\ due' \subseteq published' \X Rules
    BY <2>1, <2>2, PublishEffect DEF TypeOK
  <2> QED
    BY <1>3, <2>3 DEF Approve, Deny, TypeOK
<1>4. ASSUME NEW a \in running, Finish(a) PROVE TypeOK'
  <2>1. PICK t \in Executed : Publish(ExecutedEvent(a, t), due)
    BY <1>4 DEF Finish
  <2>2. ExecutedEvent(a, t) \in Event
    BY <1>4 DEF TypeOK, Topics
  <2>3. published' \subseteq Event /\ due' \subseteq published' \X Rules
    BY <2>1, <2>2, PublishEffect DEF TypeOK
  <2> QED
    BY <1>4, <2>3 DEF Finish, TypeOK
<1>5. CASE UNCHANGED vars
  BY <1>5 DEF TypeOK, vars
<1>6. \A d \in due : d[1] \in published /\ d[2] \in Rules
  BY DEF TypeOK
<1> QED
  BY <1>1, <1>2, <1>3, <1>4, <1>5, <1>6 DEF Next, AnswerAny, FinishAny

\* TypeOK holds for any rules, triggers and number of external events.
THEOREM Typing == Spec => []TypeOK
<1>1. Init => TypeOK
  BY DEF Init, TypeOK
<1> QED
  BY <1>1, TypeStep, PTL DEF Spec

----------------------------------------------------------------------------
(***************************************************************************)
(* RunsAreCut is not inductive: the depth must bound the number of links   *)
(* since the last event that was not action.executed.                      *)
(***************************************************************************)
\* Fewer than depth links at the end start from action.executed.
Below(links, depth) ==
  \A k \in 0..Len(links) :
     (\A j \in Len(links)-k+1..Len(links) : links[j].topic \in Executed) => k < depth

ActionCut(a) == Cut(a.links) /\ Below(a.links, a.depth) /\ a.depth <= DepthLimit + 1

EventCut(e) ==
  /\ Cut(e.links)
  /\ e.depth <= DepthLimit
  /\ e.topic \in Executed => Below(e.links, e.depth)

CutInv ==
  /\ \A a \in requested : ActionCut(a)
  /\ \A e \in published : EventCut(e)

\* An action inherits the bound from the event it answers.
LEMMA AnswerCut ==
  ASSUME NEW e \in Event, NEW r \in Rules, EventCut(e)
  PROVE  ActionCut(NewAction(e, r))
<1> DEFINE a == NewAction(e, r)
           n == Len(e.links)
           l == Append(e.links, [topic |-> e.topic, rule |-> r])
<1>1. /\ a.links = l /\ a.depth = e.depth + 1
      /\ n \in Nat /\ e.depth \in Nat /\ DepthLimit \in Nat
      /\ e.links \in Seq(Link)
  BY ConstantsAssumption DEF NewAction, Event
<1>2. /\ Len(l) = n + 1
      /\ l[n + 1].topic = e.topic
      /\ \A j \in 1..n : l[j] = e.links[j]
  BY <1>1
<1> HIDE DEF l, n, a
<1>3. Below(l, e.depth + 1)
  <2> SUFFICES ASSUME NEW k \in 0..Len(l),
                      \A j \in Len(l)-k+1..Len(l) : l[j].topic \in Executed
               PROVE  k < e.depth + 1
    BY DEF Below
  <2>a. k \in 0..n+1
    BY <1>2
  <2>b. Len(l)-k+1..Len(l) = n+1-k+1..n+1
    BY <2>a, <1>1, <1>2
  <2>0. k \in 0..n+1 /\ \A j \in n+1-k+1..n+1 : l[j].topic \in Executed
    BY <2>a, <2>b
  <2>1. CASE k = 0
    BY <2>1, <1>1
  <2>2. CASE k > 0
    <3>1. n + 1 \in n+1-k+1..n+1
      BY <2>0, <2>2, <1>1
    <3>2. e.topic \in Executed
      BY <2>0, <3>1, <1>2
    <3>3. k - 1 \in 0..n /\ \A j \in n-(k-1)+1..n : j \in n+1-k+1..n+1 /\ j \in 1..n
      BY <2>0, <2>2, <1>1
    <3>4. \A j \in n-(k-1)+1..n : e.links[j].topic \in Executed
      BY <2>0, <3>3, <1>2
    <3>5. k - 1 < e.depth
      BY <3>2, <3>3, <3>4 DEF EventCut, Below, n
    <3> QED
      BY <3>5, <1>1
  <2> QED
    BY <2>0, <2>1, <2>2, <1>1
<1>4. Cut(l)
  <2> SUFFICES ASSUME NEW i \in 0..Len(l)-DepthLimit-1
               PROVE  \E k \in i+1..i+DepthLimit+1 : l[k].topic \notin Executed
    BY DEF Cut
  <2>0. i \in 0..n-DepthLimit
    BY <1>1, <1>2
  <2>1. CASE i < n - DepthLimit
    <3>1. i \in 0..n-DepthLimit-1
      BY <2>0, <2>1, <1>1
    <3>2. PICK k \in i+1..i+DepthLimit+1 : e.links[k].topic \notin Executed
      BY <3>1 DEF EventCut, Cut, n
    <3>3. k \in 1..n
      BY <3>1, <3>2, <1>1
    <3> QED
      BY <3>2, <3>3, <1>2
  <2>2. CASE i = n - DepthLimit
    <3>1. DepthLimit + 1 \in 0..n+1
      BY <2>0, <2>2, <1>1
    <3>2. PICK j \in n+1-(DepthLimit+1)+1..n+1 : l[j].topic \notin Executed
      BY <3>1, <1>1, <1>2, <1>3 DEF EventCut, Below
    <3>3. j \in i+1..i+DepthLimit+1
      BY <2>2, <3>2, <1>1
    <3> QED
      BY <3>2, <3>3
  <2> QED
    BY <2>0, <2>1, <2>2, <1>1
<1>5. a.depth <= DepthLimit + 1
  BY <1>1 DEF EventCut
<1> QED
  BY <1>1, <1>3, <1>4, <1>5 DEF ActionCut, a

\* What Publish accepts about an action is within the bound again.
LEMMA PublishCut ==
  ASSUME NEW a \in Action, ActionCut(a), NEW t \in Topics
  PROVE  /\ t \notin Executed => EventCut(Status(a, t))
         /\ ~(a.depth > DepthLimit) => EventCut(ExecutedEvent(a, t))
<1>1. a.depth \in Nat /\ DepthLimit \in Nat
  BY ConstantsAssumption DEF Action
<1>2. t \notin Executed => EventCut(Status(a, t))
  BY <1>1 DEF Status, EventCut, ActionCut
<1>3. ~(a.depth > DepthLimit) => EventCut(ExecutedEvent(a, t))
  BY <1>1 DEF ExecutedEvent, EventCut, ActionCut
<1> QED
  BY <1>2, <1>3

LEMMA CutStep == TypeOK /\ CutInv /\ [Next]_vars => CutInv'
<1> SUFFICES ASSUME TypeOK, CutInv, [Next]_vars PROVE CutInv'
  OBVIOUS
<1>0. requested \subseteq Action /\ published \subseteq Event /\ DepthLimit \in Nat
  BY ConstantsAssumption DEF TypeOK
\* It suffices to look at the new action and the new event.
<1>a. ASSUME NEW e, NEW rest, Publish(e, rest), ~(e.depth > DepthLimit) => EventCut(e)
      PROVE  \A x \in published' : EventCut(x)
  BY <1>a, PublishEffect DEF CutInv
<1>b. (\A a \in requested' : ActionCut(a)) /\ (\A x \in published' : EventCut(x)) => CutInv'
  BY DEF CutInv, ActionCut, EventCut, Cut, Below
<1>1. ASSUME NEW root \in Roots, Emit(root) PROVE CutInv'
  <2> DEFINE m == [root |-> root, links |-> <<>>, topic |-> "message",
                   depth |-> 0, trace |-> NoTrace]
  <2>1. EventCut(m)
    BY <1>0 DEF EventCut, Cut, Executed
  <2> QED
    BY <1>1, <2>1, <1>a, <1>b DEF Emit, External, CutInv
<1>2. ASSUME NEW e \in published, NEW r \in Rules, Answer(e, r) PROVE CutInv'
  <2> DEFINE a == NewAction(e, r)
  <2>1. a \in Action /\ ActionCut(a)
    BY <1>0, AnswerCut, Built DEF CutInv
  <2>2. EventCut(Status(a, "requested"))
    BY <2>1, PublishCut DEF Topics, Executed
  <2>3. \A x \in published' : EventCut(x)
    BY <2>2, <1>a, <1>2 DEF Answer
  <2> QED
    BY <1>2, <2>1, <2>3, <1>b DEF Answer, CutInv
<1>3. ASSUME NEW a \in paused, Approve(a) \/ Deny(a) PROVE CutInv'
  <2>1. a \in Action /\ ActionCut(a)
    BY <1>0 DEF CutInv, TypeOK
  <2>2. PICK t \in Topics \ Executed : Publish(Status(a, t), due)
    BY <1>3 DEF Approve, Deny, Topics, Executed
  <2>3. \A x \in published' : EventCut(x)
    BY <2>1, <2>2, PublishCut, <1>a
  <2> QED
    BY <1>3, <2>3, <1>b DEF Approve, Deny, CutInv
<1>4. ASSUME NEW a \in running, Finish(a) PROVE CutInv'
  <2>1. a \in Action /\ ActionCut(a)
    BY <1>0 DEF CutInv, TypeOK
  <2>2. PICK t \in Executed : Publish(ExecutedEvent(a, t), due)
    BY <1>4 DEF Finish
  <2>3. ExecutedEvent(a, t).depth = a.depth
    BY DEF ExecutedEvent
  <2>4. \A x \in published' : EventCut(x)
    BY <2>1, <2>2, <2>3, PublishCut, <1>a DEF Topics
  <2> QED
    BY <1>4, <2>4, <1>b DEF Finish, CutInv
<1>5. CASE UNCHANGED vars
  BY <1>5, <1>b DEF vars, CutInv
<1>6. \A d \in due : d[1] \in published /\ d[2] \in Rules
  BY DEF TypeOK
<1> QED
  BY <1>1, <1>2, <1>3, <1>4, <1>5, <1>6 DEF Next, AnswerAny, FinishAny

\* Cycles through action.executed are cut, for any workflows and any limit.
THEOREM RunsTheorem == Spec => []RunsAreCut
<1>1. Init => CutInv
  BY DEF Init, CutInv
<1>2. CutInv => RunsAreCut
  BY DEF CutInv, ActionCut, RunsAreCut
<1> QED
  BY <1>1, <1>2, Typing, CutStep, PTL DEF Spec

----------------------------------------------------------------------------
\* A match stays due until there is an action for it.
LEMMA AnswersStep == TypeOK /\ MatchesAreAnswered /\ [Next]_vars => MatchesAreAnswered'
<1> DEFINE Answered(e, r) ==
             \E a \in requested :
                /\ a.root = e.root
                /\ a.links = Append(e.links, [topic |-> e.topic, rule |-> r])
           AnsweredNext(e, r) ==
             \E a \in requested' :
                /\ a.root = e.root
                /\ a.links = Append(e.links, [topic |-> e.topic, rule |-> r])
<1> SUFFICES ASSUME TypeOK, MatchesAreAnswered, [Next]_vars,
                    NEW e \in published', NEW r \in Rules, Matches(e, r)
             PROVE  <<e, r>> \in due' \/ AnsweredNext(e, r)
  BY DEF MatchesAreAnswered, Matches, Origin
<1>1. e \in published => <<e, r>> \in due \/ Answered(e, r)
  BY DEF MatchesAreAnswered
<1>2. requested \subseteq requested' => (Answered(e, r) => AnsweredNext(e, r))
  OBVIOUS
<1>3. <<e, r>> \in MatchesOf(e)
  BY DEF MatchesOf
<1> HIDE DEF Answered, AnsweredNext
\* An event that is new brings its matches; for the others, rest matters.
<1>4. ASSUME NEW x, NEW rest, Publish(x, rest), requested \subseteq requested'
      PROVE  \/ <<e, r>> \in due' \/ AnsweredNext(e, r)
             \/ <<e, r>> \in due \ rest
  <2>1. CASE e \in published
    BY <1>1, <1>2, <1>4, <2>1, PublishEffect
  <2>2. CASE e \notin published
    BY <1>3, <1>4, <2>2, PublishEffect
  <2> QED
    BY <2>1, <2>2
<1>5. ASSUME NEW x \in published, NEW q \in Rules, Answer(x, q)
      PROVE  <<e, r>> \in due' \/ AnsweredNext(e, r)
  <2>1. /\ requested' = requested \cup {NewAction(x, q)}
        /\ Publish(Status(NewAction(x, q), "requested"), due \ {<<x, q>>})
    BY <1>5 DEF Answer
  <2>2. CASE <<e, r>> = <<x, q>>
    <3>1. e = x /\ r = q
      BY <2>2
    <3> QED
      BY <2>1, <3>1 DEF AnsweredNext, NewAction
  <2>3. CASE <<e, r>> # <<x, q>>
    BY <1>4, <2>1, <2>3
  <2> QED
    BY <2>2, <2>3
<1>6. CASE \/ \E root \in Roots : Emit(root)
           \/ \E a \in paused : Approve(a) \/ Deny(a)
           \/ FinishAny
  <2>1. PICK x : Publish(x, due)
    BY <1>6 DEF Emit, External, Approve, Deny, FinishAny, Finish
  <2>2. requested \subseteq requested'
    BY <1>6 DEF Emit, External, Approve, Deny, FinishAny, Finish
  <2> QED
    BY <2>1, <2>2, <1>4
<1>7. CASE UNCHANGED vars
  BY <1>7, <1>1, <1>2 DEF vars
<1>8. \A d \in due : d[1] \in published /\ d[2] \in Rules
  BY DEF TypeOK
<1> QED
  BY <1>5, <1>6, <1>7, <1>8 DEF Next, AnswerAny

\* No match is forgotten, whatever is published meanwhile.
THEOREM AnswersTheorem == Spec => []MatchesAreAnswered
<1>1. Init => MatchesAreAnswered
  BY DEF Init, MatchesAreAnswered
<1> QED
  BY <1>1, Typing, AnswersStep, PTL DEF Spec

----------------------------------------------------------------------------
(***************************************************************************)
(* TraceIsKept needs the traces of events: action.executed has that of its *)
(* action, all others have none.                                           *)
(***************************************************************************)
ActionTraced(a) == a.trace.root = a.root /\ StartOfRun(a.links, a.trace)

EventTraced(e) ==
  IF e.topic \in Executed
  THEN e.trace \in EventId /\ e.trace.root = e.root /\ StartOfRun(e.links, e.trace)
  ELSE e.trace = NoTrace

TraceInv ==
  /\ \A a \in requested : ActionTraced(a)
  /\ \A e \in published : EventTraced(e)

LEMMA AnswerTraced ==
  ASSUME NEW e \in Event, NEW r \in Rules, EventTraced(e)
  PROVE  ActionTraced(NewAction(e, r))
<1> DEFINE n == Len(e.links)
           l == Append(e.links, [topic |-> e.topic, rule |-> r])
           id == Trace(e)
<1>1. e.links \in Seq(Link) /\ n \in Nat
  BY DEF Event
<1>2. /\ Len(l) = n + 1
      /\ l[n + 1].topic = e.topic
      /\ \A j \in 1..n : l[j] = e.links[j]
  BY <1>1
<1>3. /\ NewAction(e, r).root = e.root
      /\ NewAction(e, r).links = l
      /\ NewAction(e, r).trace = id
  BY DEF NewAction
<1> HIDE DEF l, n
<1>4. CASE e.topic \notin Executed
  <2>1. id = [root |-> e.root, links |-> e.links, topic |-> e.topic]
    BY <1>4 DEF EventTraced, Trace
  <2>2. SubSeq(l, 1, n) = e.links
    BY <1>1 DEF l, n
  <2>3. n + 2..n + 1 = {}
    BY <1>1
  <2>4. StartOfRun(l, id)
    BY <1>1, <1>2, <1>4, <2>1, <2>2, <2>3 DEF StartOfRun, n
  <2> QED
    BY <1>3, <2>1, <2>4 DEF ActionTraced
<1>5. CASE e.topic \in Executed
  <2> DEFINE m == Len(id.links)
  <2>1. id = e.trace /\ id \in EventId
    BY <1>5, ConstantsAssumption DEF EventTraced, Trace
  <2>2. StartOfRun(e.links, id) /\ id.root = e.root
    BY <1>5, <2>1 DEF EventTraced
  <2>3. m \in Nat /\ m < n
    BY <2>1, <2>2 DEF StartOfRun, EventId, n
  <2>4. SubSeq(l, 1, m) = SubSeq(e.links, 1, m)
    BY <1>1, <2>3 DEF l, n
  <2>5. l[m + 1] = e.links[m + 1]
    BY <1>1, <1>2, <2>3
  <2>6. \A k \in m+2..n+1 : l[k].topic \in Executed
    <3> SUFFICES ASSUME NEW k \in m+2..n+1 PROVE l[k].topic \in Executed
      OBVIOUS
    <3>1. CASE k = n + 1
      BY <3>1, <1>2, <1>5
    <3>2. CASE k # n + 1
      <4>1. k \in 1..n /\ k \in m+2..n
        BY <3>2, <2>3, <1>1
      <4> QED
        BY <4>1, <1>2, <2>2 DEF StartOfRun, n
    <3> QED
      BY <3>1, <3>2
  <2>7. StartOfRun(l, id)
    BY <1>1, <1>2, <2>2, <2>3, <2>4, <2>5, <2>6 DEF StartOfRun
  <2> QED
    BY <1>3, <2>2, <2>7 DEF ActionTraced
<1> QED
  BY <1>4, <1>5

LEMMA TraceStep == TypeOK /\ TraceInv /\ [Next]_vars => TraceInv'
<1> SUFFICES ASSUME TypeOK, TraceInv, [Next]_vars PROVE TraceInv'
  OBVIOUS
<1>0. requested \subseteq Action /\ published \subseteq Event
  BY DEF TypeOK
<1>a. ASSUME NEW e, NEW rest, Publish(e, rest), EventTraced(e)
      PROVE  \A x \in published' : EventTraced(x)
  BY <1>a, PublishEffect DEF TraceInv
<1>b. (\A a \in requested' : ActionTraced(a)) /\ (\A x \in published' : EventTraced(x))
        => TraceInv'
  BY DEF TraceInv, ActionTraced, EventTraced, StartOfRun
<1>c. \A a, t : t \notin Executed => EventTraced(Status(a, t))
  BY DEF EventTraced, Status
<1>1. ASSUME NEW root \in Roots, Emit(root) PROVE TraceInv'
  <2> DEFINE m == [root |-> root, links |-> <<>>, topic |-> "message",
                   depth |-> 0, trace |-> NoTrace]
  <2>1. EventTraced(m)
    BY DEF EventTraced, Executed
  <2> QED
    BY <1>1, <2>1, <1>a, <1>b DEF Emit, External, TraceInv
<1>2. ASSUME NEW e \in published, NEW r \in Rules, Answer(e, r) PROVE TraceInv'
  <2> DEFINE a == NewAction(e, r)
  <2>1. ActionTraced(a)
    BY <1>0, AnswerTraced DEF TraceInv
  <2>2. \A x \in published' : EventTraced(x)
    BY <1>a, <1>c, <1>2 DEF Answer, Executed
  <2> QED
    BY <1>2, <2>1, <2>2, <1>b DEF Answer, TraceInv
<1>3. ASSUME NEW a \in paused, Approve(a) \/ Deny(a) PROVE TraceInv'
  <2>1. \A x \in published' : EventTraced(x)
    BY <1>3, <1>a, <1>c DEF Approve, Deny, Executed
  <2> QED
    BY <1>3, <2>1, <1>b DEF Approve, Deny, TraceInv
<1>4. ASSUME NEW a \in running, Finish(a) PROVE TraceInv'
  <2>1. a \in Action /\ ActionTraced(a)
    BY <1>0 DEF TraceInv, TypeOK
  <2>2. PICK t \in Executed : Publish(ExecutedEvent(a, t), due)
    BY <1>4 DEF Finish
  <2>3. EventTraced(ExecutedEvent(a, t))
    BY <2>1 DEF EventTraced, ExecutedEvent, ActionTraced, Action
  <2>4. \A x \in published' : EventTraced(x)
    BY <2>2, <2>3, <1>a
  <2> QED
    BY <1>4, <2>4, <1>b DEF Finish, TraceInv
<1>5. CASE UNCHANGED vars
  BY <1>5, <1>b DEF vars, TraceInv
<1>6. \A d \in due : d[1] \in published /\ d[2] \in Rules
  BY DEF TypeOK
<1> QED
  BY <1>1, <1>2, <1>3, <1>4, <1>5, <1>6 DEF Next, AnswerAny, FinishAny

\* Every action's trace is the event its chain of executions began with.
THEOREM TraceTheorem == Spec => []TraceIsKept
<1>1. Init => TraceInv
  BY DEF Init, TraceInv
<1>2. TraceInv => TraceIsKept
  BY DEF TraceInv, ActionTraced, TraceIsKept
<1> QED
  BY <1>1, <1>2, Typing, TraceStep, PTL DEF Spec
=============================================================================
