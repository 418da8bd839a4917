---------------------------- MODULE PluginCallsProofs ----------------------------
(***************************************************************************)
(* Theorems about PluginCalls, for any number of calls.                    *)
(***************************************************************************)
EXTENDS PluginCalls, FiniteSetTheorems, TLAPS

\* The attempts made so far, each with the number it has in its call.
Made == {a \in Calls \X (1..MaxAttempts) : a[2] <= call[a[1]].attempt}

\* TypeOK alone is not inductive: that p.seq stays in Ids needs the sequence
\* number to count the attempts.
Counted == seq = Cardinality(Made)

\* What a call has done when it is at a given place.
Phases ==
    \A c \in Calls :
        /\ call[c].at = "idle" => call[c].attempt = 0
        /\ call[c].at \in InFlight => call[c].id # 0
        /\ call[c].at = "backoff" => call[c].attempt < MaxAttempts
        /\ call[c].at # "done" => call[c].result = "none"
        /\ sent[c] <= call[c].attempt
        /\ call[c].at = "registered" => sent[c] < call[c].attempt
        /\ c \in Deadline => call[c].at # "backoff" /\ call[c].attempt <= 1

\* Whose id it is: no two calls hold the same one, ids beyond p.seq are unused, and
\* a channel holds nothing but the answer to the request its id travelled with.
Owners ==
    /\ \A c \in Calls : call[c].id <= seq
    /\ \A c, d \in Calls : c # d /\ call[c].id # 0 => call[c].id # call[d].id
    /\ \A id \in Ids : asker[id] # NoCall \/ chan[id] # NoCall \/ id \in pending => id <= seq
    /\ \A id \in Ids : chan[id] \in {NoCall, asker[id]}
    /\ \A c \in Calls : call[c].id # 0 => asker[call[c].id] \in {NoCall, c}

CallsInv ==
    /\ TypeOK /\ Counted /\ Phases /\ Owners
    /\ ReaderNeverBlocks /\ AnswerIsOwn /\ PendingIsAccounted

\* There are as many ids as attempts.
LEMMA MadeIsFinite ==
  /\ IsFiniteSet(Calls \X (1..MaxAttempts))
  /\ Cardinality(Calls \X (1..MaxAttempts)) = MaxAttempts * Cardinality(Calls)
  /\ Cardinality(Calls) \in Nat
  /\ IsFiniteSet(Made)
<1>1. IsFiniteSet(1..MaxAttempts) /\ Cardinality(1..MaxAttempts) = MaxAttempts
  <2>1. \A m, n \in Int : /\ IsFiniteSet(m..n)
                          /\ Cardinality(m..n) = IF m > n THEN 0 ELSE n - m + 1
    BY FS_Interval
  <2>2. MaxAttempts \in Int /\ MaxAttempts >= 1
    BY DEF MaxAttempts
  <2> QED BY <2>1, <2>2
<1>2. IsFiniteSet(Calls) /\ Cardinality(Calls) \in Nat
  BY CallsAssumption, FS_CardinalityType
<1>3. /\ IsFiniteSet(Calls \X (1..MaxAttempts))
      /\ Cardinality(Calls \X (1..MaxAttempts)) = Cardinality(Calls) * MaxAttempts
  BY <1>1, <1>2, FS_Product
<1>4. IsFiniteSet(Made)
  BY <1>3, FS_Subset DEF Made
<1> QED BY <1>2, <1>3, <1>4 DEF MaxAttempts

\* An attempt takes the next id, and there is one.
LEMMA AttemptCounts ==
  ASSUME TypeOK, Counted, NEW c \in Calls, call[c].attempt < MaxAttempts, running,
         call' = [call EXCEPT ![c].at = "registered", ![c].id = seq + 1,
                              ![c].attempt = @ + 1]
  PROVE  /\ seq + 1 \in Ids
         /\ Cardinality(Made') = seq + 1
<1> DEFINE a == <<c, call[c].attempt + 1>>
           All == Calls \X (1..MaxAttempts)
<1>1. a \in All /\ a \notin Made
  BY DEF TypeOK, Made, MaxAttempts
<1>2. Made' = Made \cup {a}
  <2>1. ASSUME NEW d \in Calls, NEW k \in 1..MaxAttempts
        PROVE  <<d, k>> \in Made' <=> <<d, k>> \in Made \/ <<d, k>> = a
    <3>1. CASE d = c
      <4>1. call'[d].attempt = call[c].attempt + 1
        BY <3>1 DEF TypeOK
      <4> QED BY <3>1, <4>1 DEF Made, TypeOK, MaxAttempts
    <3>2. CASE d # c
      <4>1. call'[d] = call[d]
        BY <3>2 DEF TypeOK
      <4> QED BY <3>2, <4>1 DEF Made
    <3> QED BY <3>1, <3>2
  <2>2. ASSUME NEW u PROVE u \in Made' <=> u \in Made \cup {a}
    <3>1. CASE u \in All
      <4>1. PICK d \in Calls, k \in 1..MaxAttempts : u = <<d, k>>
        BY <3>1
      <4> QED BY <2>1, <4>1
    <3>2. CASE u \notin All
      BY <3>2, <1>1 DEF Made
    <3> QED BY <3>1, <3>2
  <2> QED BY <2>2
<1>3. Cardinality(Made') = seq + 1
  BY <1>1, <1>2, MadeIsFinite, FS_AddElement DEF Counted
<1>4. Made' \subseteq All
  BY <1>1, <1>2 DEF Made
<1>5. Cardinality(Made') <= Cardinality(All)
  BY <1>4, MadeIsFinite, FS_Subset
<1> QED BY <1>3, <1>5, MadeIsFinite DEF TypeOK, Ids, MaxAttempts

\* Steps that leave the attempts alone keep the count.
LEMMA CountUntouched ==
  ASSUME Counted, UNCHANGED seq, \A c \in Calls : call'[c].attempt = call[c].attempt
  PROVE  Counted'
<1>1. Made' = Made
  BY DEF Made
<1> QED BY <1>1 DEF Counted

\* A call that ends leaves the table and the channels no fuller, and takes its own
\* entry with it unless it ends in an error.
LEMMA EndsInv ==
  ASSUME CallsInv, NEW c \in Calls, call[c].at # "done",
         NEW result \in Results, NEW answer \in Calls \cup {NoCall},
         Ends(c, result, answer), result = "answered" => answer = c,
         UNCHANGED <<running, seq, expired, inbox, asker, wire, sent, reader>>,
         pending' \subseteq pending,
         chan' \in [Ids -> Calls \cup {NoCall}],
         \A id \in Ids : chan'[id] \in {NoCall, chan[id]},
         call[c].at \in InFlight /\ call[c].id \in pending' => result = "error"
  PROVE  CallsInv'
<1> USE CallsAssumption DEF CallsInv
<1>1. call' = [call EXCEPT ![c].at = "done", ![c].result = result, ![c].answer = answer]
  BY DEF Ends
<1>2. /\ \A d \in Calls \ {c} : call'[d] = call[d]
      /\ call'[c].at = "done" /\ call'[c].result = result /\ call'[c].answer = answer
      /\ call'[c].id = call[c].id /\ call'[c].attempt = call[c].attempt
  BY <1>1 DEF TypeOK
<1>3. \A d \in Calls : call'[d].id = call[d].id /\ call'[d].attempt = call[d].attempt
  BY <1>2
<1>4. TypeOK'
  <2>1. call' \in [Calls -> [at : InFlight \cup {"idle", "backoff", "done"},
                             id : Ids \cup {0}, attempt : 0..MaxAttempts,
                             result : Results, answer : Calls \cup {NoCall}]]
    <3>1. [call[c] EXCEPT !.at = "done", !.result = result, !.answer = answer]
            \in [at : InFlight \cup {"idle", "backoff", "done"},
                 id : Ids \cup {0}, attempt : 0..MaxAttempts,
                 result : Results, answer : Calls \cup {NoCall}]
      BY DEF TypeOK
    <3> QED BY <1>1, <3>1 DEF TypeOK
  <2> QED BY <2>1 DEF TypeOK
<1>5. Counted'
  BY <1>3, CountUntouched
<1>6. Phases' /\ AnswerIsOwn'
  BY <1>2 DEF Phases, AnswerIsOwn, InFlight
<1>7. Owners' /\ ReaderNeverBlocks'
  BY <1>3 DEF Owners, ReaderNeverBlocks, TypeOK
<1>8. PendingIsAccounted'
  <2> SUFFICES ASSUME NEW id \in pending'
               PROVE  \E d \in Calls : /\ call'[d].id = id
                                       /\ call'[d].at \in InFlight \/ call'[d].result = "error"
    BY DEF PendingIsAccounted
  <2>1. PICK d \in Calls : /\ call[d].id = id
                           /\ call[d].at \in InFlight \/ call[d].result = "error"
    BY DEF PendingIsAccounted
  <2>2. CASE d # c
    BY <2>1, <2>2, <1>2
  <2>3. CASE d = c
    <3>1. call[c].at \in InFlight
      BY <2>1, <2>3 DEF Phases
    <3> QED BY <2>1, <2>3, <3>1, <1>2
  <2> QED BY <2>2, <2>3
<1> QED BY <1>4, <1>5, <1>6, <1>7, <1>8

\* The first attempt of a call, or one more.
LEMMA AttemptInv ==
  ASSUME CallsInv, NEW c \in Calls, call[c].at \in {"idle", "backoff"}, Attempt(c),
         UNCHANGED <<running, chan, expired, inbox, asker, wire, sent, reader>>
  PROVE  CallsInv'
<1> USE CallsAssumption DEF CallsInv
<1>1. call[c].attempt < MaxAttempts
  BY DEF Phases, MaxAttempts
<1>2. CASE running
  <2>0. /\ seq' = seq + 1 /\ pending' = pending \cup {seq + 1}
        /\ call' = [call EXCEPT ![c].at = "registered", ![c].id = seq + 1,
                                ![c].attempt = @ + 1]
    BY <1>2 DEF Attempt
  <2>1. seq + 1 \in Ids /\ Cardinality(Made') = seq + 1
    BY <1>1, <1>2, <2>0, AttemptCounts
  <2>2. /\ \A d \in Calls \ {c} : call'[d] = call[d]
        /\ call'[c].at = "registered" /\ call'[c].id = seq + 1
        /\ call'[c].attempt = call[c].attempt + 1 /\ call'[c].result = call[c].result
        /\ call'[c].answer = call[c].answer
    BY <2>0 DEF TypeOK
  <2>3. TypeOK'
    BY <1>1, <2>0, <2>1 DEF TypeOK, InFlight, MaxAttempts
  <2>4. Counted'
    BY <2>0, <2>1 DEF Counted
  <2>5. Phases'
    BY <2>2, <2>1 DEF Phases, TypeOK, InFlight, MaxAttempts, Ids
  <2>6. Owners'
    BY <2>0, <2>1, <2>2 DEF Owners, TypeOK, Ids, MaxAttempts
  <2>7. ReaderNeverBlocks'
    BY <2>0, <2>1 DEF Owners, ReaderNeverBlocks, TypeOK, Ids
  <2>8. AnswerIsOwn'
    BY <2>2 DEF AnswerIsOwn, Phases
  <2>9. PendingIsAccounted'
    <3> SUFFICES ASSUME NEW id \in pending'
                 PROVE  \E d \in Calls : /\ call'[d].id = id
                                         /\ call'[d].at \in InFlight \/ call'[d].result = "error"
      BY DEF PendingIsAccounted
    <3>1. CASE id = seq + 1
      BY <3>1, <2>2 DEF InFlight
    <3>2. CASE id # seq + 1
      <4>1. PICK d \in Calls : /\ call[d].id = id
                               /\ call[d].at \in InFlight \/ call[d].result = "error"
        BY <3>2, <2>0 DEF PendingIsAccounted
      <4>2. d # c
        BY <4>1 DEF Phases, InFlight
      <4> QED BY <4>1, <4>2, <2>2
    <3> QED BY <3>1, <3>2
  <2> QED BY <2>3, <2>4, <2>5, <2>6, <2>7, <2>8, <2>9
<1>3. CASE ~running
  <2>0. UNCHANGED <<seq, pending>> /\ Ends(c, "not running", NoCall)
    BY <1>3 DEF Attempt
  <2>1. call[c].at \notin InFlight /\ call[c].at # "done"
    BY DEF InFlight
  <2>2. "not running" \in Results
    BY DEF Results
  <2> QED BY <2>0, <2>1, <2>2, EndsInv DEF TypeOK
<1> QED BY <1>2, <1>3 DEF TypeOK

LEMMA InitInv == Init => CallsInv
<1> SUFFICES ASSUME Init PROVE CallsInv
  OBVIOUS
<1> USE CallsAssumption
<1>1. TypeOK
  BY DEF Init, TypeOK, Results, MaxAttempts
<1>2. Counted
  <2>1. Made = {}
    BY DEF Init, Made
  <2> QED BY <2>1, FS_EmptySet DEF Counted, Init
<1>3. Phases
  BY DEF Init, Phases, InFlight, MaxAttempts
<1>4. Owners /\ ReaderNeverBlocks /\ AnswerIsOwn /\ PendingIsAccounted
  BY DEF Init, Owners, ReaderNeverBlocks, AnswerIsOwn, PendingIsAccounted
<1> QED BY <1>1, <1>2, <1>3, <1>4 DEF CallsInv

\* Every step keeps the invariant.
LEMMA StepInv == CallsInv /\ [Next]_vars => CallsInv'
<1> SUFFICES ASSUME CallsInv, [Next]_vars PROVE CallsInv'
  OBVIOUS
<1> USE CallsAssumption
<1>1. ASSUME NEW c \in Calls, Begin(c) PROVE CallsInv'
  BY <1>1, AttemptInv DEF Begin
<1>2. ASSUME NEW c \in Calls, Retry(c) PROVE CallsInv'
  BY <1>2, AttemptInv DEF Retry
<1>3. ASSUME NEW c \in Calls, Write(c) PROVE CallsInv'
  <2> USE DEF CallsInv
  <2>1. /\ \A d \in Calls \ {c} : call'[d] = call[d]
        /\ call'[c] = [call[c] EXCEPT !.at = "waiting"]
    BY <1>3 DEF Write, TypeOK
  <2>2. /\ \A d \in Calls : /\ call'[d].id = call[d].id /\ call'[d].attempt = call[d].attempt
                            /\ call'[d].result = call[d].result
                            /\ call'[d].answer = call[d].answer
        /\ call'[c].at = "waiting"
    BY <2>1 DEF TypeOK
  <2>3. call[c].id \in Ids /\ call[c].id # 0 /\ call[c].at = "registered"
    BY <1>3 DEF Write, TypeOK, Phases, InFlight
  <2>4. sent[c] < call[c].attempt /\ sent[c] + 1 \in 0..MaxAttempts
    BY <2>3 DEF Phases, TypeOK, MaxAttempts
  <2>5. TypeOK'
    BY <1>3, <2>3, <2>4 DEF Write, TypeOK, InFlight
  <2>6. Counted'
    BY <1>3, <2>2, CountUntouched DEF Write
  <2>7. Phases'
    BY <1>3, <2>1, <2>2, <2>3, <2>4 DEF Write, Phases, TypeOK, InFlight
  <2>8. Owners'
    <3>1. /\ asker'[call[c].id] = c
          /\ \A id \in Ids \ {call[c].id} : asker'[id] = asker[id]
          /\ UNCHANGED <<seq, pending, chan>>
      BY <1>3, <2>3 DEF Write, TypeOK
    <3>2. chan[call[c].id] \in {NoCall, c} /\ call[c].id <= seq
      BY <2>3 DEF Owners, TypeOK
    <3>3. \A d \in Calls : call[d].id # 0 => call[d].id \in Ids
      BY DEF TypeOK
    <3> QED BY <2>2, <2>3, <3>1, <3>2, <3>3 DEF Owners
  <2>9. ReaderNeverBlocks' /\ AnswerIsOwn'
    BY <1>3, <2>2 DEF Write, ReaderNeverBlocks, AnswerIsOwn
  <2>10. PendingIsAccounted'
    BY <1>3, <2>1, <2>2 DEF Write, PendingIsAccounted, InFlight
  <2> QED BY <2>5, <2>6, <2>7, <2>8, <2>9, <2>10
<1>4. ASSUME NEW c \in Calls, WriteFails(c) PROVE CallsInv'
  <2>1. "error" \in Results /\ call[c].at # "done"
    BY <1>4 DEF WriteFails, Results
  <2>2. \A id \in Ids : chan'[id] \in {NoCall, chan[id]}
    BY <1>4 DEF WriteFails
  <2> QED BY <1>4, <2>1, <2>2, EndsInv DEF WriteFails, CallsInv, TypeOK
<1>5. ASSUME NEW c \in Calls, Receive(c) PROVE CallsInv'
  <2>1. /\ "answered" \in Results /\ call[c].at = "waiting"
        /\ call[c].id \in Ids /\ call[c].id # 0
    BY <1>5 DEF Receive, Results, CallsInv, TypeOK, Phases, InFlight
  <2>2. chan[call[c].id] = c /\ call[c].id \notin pending
    BY <1>5, <2>1 DEF Receive, CallsInv, Owners, ReaderNeverBlocks
  <2>3. /\ chan' \in [Ids -> Calls \cup {NoCall}]
        /\ \A id \in Ids : chan'[id] \in {NoCall, chan[id]}
    BY <1>5, <2>1 DEF Receive, CallsInv, TypeOK
  <2> QED BY <1>5, <2>1, <2>2, <2>3, EndsInv DEF Receive, CallsInv
<1>6. ASSUME NEW c \in Calls, Expire(c) PROVE CallsInv'
  <2>1. TypeOK'
    BY <1>6 DEF Expire, CallsInv, TypeOK
  <2>2. Counted'
    BY <1>6, CountUntouched DEF Expire, CallsInv
  <2> QED BY <1>6, <2>1, <2>2 DEF Expire, CallsInv, Phases, Owners, ReaderNeverBlocks,
                                  AnswerIsOwn, PendingIsAccounted
<1>7. ASSUME NEW c \in Calls, TimesOut(c) PROVE CallsInv'
  <2>1. CASE call[c].attempt < MaxAttempts /\ c \notin expired
    <3> USE DEF CallsInv
    <3>1. /\ \A d \in Calls \ {c} : call'[d] = call[d]
          /\ call'[c] = [call[c] EXCEPT !.at = "backoff"]
          /\ call[c].at = "waiting" /\ c \notin Deadline
          /\ UNCHANGED <<running, seq, chan, expired, inbox, asker, wire, sent>>
          /\ pending' = pending \ {call[c].id}
      BY <1>7, <2>1 DEF TimesOut, CallCtxDone, TypeOK
    <3>2. /\ \A d \in Calls : /\ call'[d].id = call[d].id /\ call'[d].attempt = call[d].attempt
                              /\ call'[d].result = call[d].result
                              /\ call'[d].answer = call[d].answer
          /\ call'[c].at = "backoff"
      BY <3>1 DEF TypeOK
    <3>3. TypeOK'
      BY <1>7, <2>1 DEF TimesOut, TypeOK, InFlight
    <3>4. Counted'
      BY <3>1, <3>2, CountUntouched
    <3>5. Phases'
      <4>1. ASSUME NEW d \in Calls PROVE call'[d].at = IF d = c THEN "backoff" ELSE call[d].at
        BY <3>1, <3>2
      <4> QED BY <2>1, <3>1, <3>2, <4>1 DEF Phases, InFlight
    <3>6. Owners' /\ ReaderNeverBlocks' /\ AnswerIsOwn'
      BY <3>1, <3>2 DEF Owners, ReaderNeverBlocks, AnswerIsOwn
    <3>7. PendingIsAccounted'
      BY <3>1, <3>2 DEF PendingIsAccounted
    <3> QED BY <3>3, <3>4, <3>5, <3>6, <3>7
  <2>2. CASE ~(call[c].attempt < MaxAttempts /\ c \notin expired)
    <3>1. "timeout" \in Results /\ call[c].at = "waiting"
      BY <1>7 DEF TimesOut, CallCtxDone, Results
    <3>2. \A id \in Ids : chan'[id] \in {NoCall, chan[id]}
      BY <1>7 DEF TimesOut
    <3> QED BY <1>7, <2>2, <3>1, <3>2, EndsInv DEF TimesOut, CallsInv, TypeOK
  <2> QED BY <2>1, <2>2
<1>8. ASSUME NEW id \in Ids, PluginAnswers(id) PROVE CallsInv'
  <2>1. TypeOK'
    BY <1>8 DEF PluginAnswers, CallsInv, TypeOK
  <2>2. Counted'
    BY <1>8, CountUntouched DEF PluginAnswers, CallsInv
  <2> QED BY <1>8, <2>1, <2>2 DEF PluginAnswers, CallsInv, Phases, Owners,
                                  ReaderNeverBlocks, AnswerIsOwn, PendingIsAccounted
<1>9. ASSUME NEW id \in Ids, ReadLine(id) PROVE CallsInv'
  <2> USE DEF CallsInv
  <2>1. TypeOK'
    BY <1>9 DEF ReadLine, TypeOK
  <2>2. Counted'
    BY <1>9, CountUntouched DEF ReadLine
  <2>3. Owners'
    BY <1>9 DEF ReadLine, Owners, TypeOK
  <2>4. ReaderNeverBlocks'
    BY <1>9 DEF ReadLine, ReaderNeverBlocks, TypeOK
  <2> QED BY <1>9, <2>1, <2>2, <2>3, <2>4 DEF ReadLine, Phases, AnswerIsOwn, PendingIsAccounted
<1>10. CASE GoesDown
  <2> USE DEF CallsInv
  <2>1. \A d \in Calls :
          /\ call'[d].id = call[d].id /\ call'[d].attempt = call[d].attempt
          /\ call'[d].result = call[d].result /\ call'[d].answer = call[d].answer
          /\ call'[d].at = IF call[d].at = "registered" THEN "broken" ELSE call[d].at
    BY <1>10 DEF GoesDown, TypeOK
  <2>2. TypeOK'
    BY <1>10 DEF GoesDown, TypeOK, InFlight
  <2>3. Counted'
    BY <1>10, <2>1, CountUntouched DEF GoesDown
  <2>4. Phases'
    BY <1>10, <2>1 DEF GoesDown, Phases, InFlight
  <2>5. Owners' /\ ReaderNeverBlocks' /\ AnswerIsOwn'
    BY <1>10, <2>1 DEF GoesDown, Owners, ReaderNeverBlocks, AnswerIsOwn
  <2>6. PendingIsAccounted'
    BY <1>10, <2>1 DEF GoesDown, PendingIsAccounted, InFlight
  <2> QED BY <2>2, <2>3, <2>4, <2>5, <2>6
<1>11. CASE ComesUp
  <2>1. TypeOK'
    BY <1>11 DEF ComesUp, CallsInv, TypeOK
  <2>2. Counted'
    BY <1>11, CountUntouched DEF ComesUp, CallsInv
  <2> QED BY <1>11, <2>1, <2>2 DEF ComesUp, CallsInv, Phases, Owners,
                                   ReaderNeverBlocks, AnswerIsOwn, PendingIsAccounted
<1>12. CASE UNCHANGED vars
  <2>1. TypeOK'
    BY <1>12 DEF vars, CallsInv, TypeOK
  <2>2. Counted'
    BY <1>12, CountUntouched DEF vars, CallsInv
  <2> QED BY <1>12, <2>1, <2>2 DEF vars, CallsInv, Phases, Owners,
                                   ReaderNeverBlocks, AnswerIsOwn, PendingIsAccounted
<1>13. CASE HandleRequest \/ Respond \/ LineTooLong
  <2>1. UNCHANGED <<running, seq, pending, chan, call, expired, inbox, asker, wire, sent>>
    BY <1>13 DEF HandleRequest, Respond, LineTooLong
  <2>2. TypeOK'
    BY <1>13, <2>1 DEF HandleRequest, Respond, LineTooLong, CallsInv, TypeOK
  <2>3. Counted'
    BY <2>1, CountUntouched DEF CallsInv
  <2> QED BY <2>1, <2>2, <2>3 DEF CallsInv, Phases, Owners, ReaderNeverBlocks,
                                  AnswerIsOwn, PendingIsAccounted
<1> QED BY <1>1, <1>2, <1>3, <1>4, <1>5, <1>6, <1>7, <1>8, <1>9, <1>10, <1>11, <1>12,
           <1>13
        DEF Next

\* The invariant holds in every reachable state.
THEOREM CallsInduction == Spec => []CallsInv
BY InitInv, StepInv, PTL DEF Spec

\* Ids, attempts and sequence numbers stay in their ranges: there is an id for
\* every attempt of every call.  (p.seq, the retry limit.)
THEOREM CallsTyping == Spec => []TypeOK
<1>1. CallsInv => TypeOK
  BY DEF CallsInv
<1> QED BY <1>1, CallsInduction, PTL

\* However late and however often the plugin answers, readStdout's send on the
\* response channel never blocks.
THEOREM ReaderIsFree == Spec => []ReaderNeverBlocks
<1>1. CallsInv => ReaderNeverBlocks
  BY DEF CallsInv
<1> QED BY <1>1, CallsInduction, PTL

\* No call ever gets the answer to another call's request.
THEOREM AnswersAreOwn == Spec => []AnswerIsOwn
<1>1. CallsInv => AnswerIsOwn
  BY DEF CallsInv
<1> QED BY <1>1, CallsInduction, PTL

\* A call that carries the deadline of an action writes its request at most once.
THEOREM ActionsAreSentOnce == Spec => []ActionSentOnce
<1>1. CallsInv => ActionSentOnce
  <2> SUFFICES ASSUME CallsInv, NEW c \in Deadline PROVE sent[c] <= 1
    BY DEF ActionSentOnce
  <2>1. c \in Calls
    BY CallsAssumption
  <2> QED BY <2>1 DEF CallsInv, Phases, TypeOK
<1> QED BY <1>1, CallsInduction, PTL

\* The table of pending requests holds no entry of a call that timed out.
THEOREM TableIsAccounted == Spec => []PendingIsAccounted
<1>1. CallsInv => PendingIsAccounted
  BY DEF CallsInv
<1> QED BY <1>1, CallsInduction, PTL
=================================================================================
