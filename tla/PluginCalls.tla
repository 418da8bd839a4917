------------------------------- MODULE PluginCalls -------------------------------
(***************************************************************************)
(* Requests from the core to one plugin (PluginProcess.callWithRetry,      *)
(* readStdout and handleMessage in internal/plugins/supervisor/process.go):*)
(* request ids, the table of pending requests, response channels, timeouts *)
(* and retries, against a plugin that may answer late, twice or never, and *)
(* that may die and be restarted.  The plugin's own requests are handled by*)
(* the goroutine that reads its answers.                                   *)
(***************************************************************************)
EXTENDS Naturals, FiniteSets

CONSTANTS
    Calls,          \* calls of PluginProcess.Call, each made once
    Deadline,       \* the calls whose context carries the deadline of an action
    SendCanFail,    \* can marshalling, the payload limit or the write fail?
    PluginReads,    \* does the plugin keep reading its stdin?
    NoCall

MaxAttempts == 3
Ids == 1..(MaxAttempts * Cardinality(Calls))

ASSUME CallsAssumption   == IsFiniteSet(Calls) /\ Deadline \subseteq Calls /\ NoCall \notin Calls
ASSUME FaultsAssumption  == SendCanFail \in BOOLEAN /\ PluginReads \in BOOLEAN

VARIABLES
    running,    \* p.running, with the pipes of the current process
    seq,        \* p.seq
    pending,    \* the ids in p.pending
    chan,       \* the response channel of an id: which call's answer it holds
    call,       \* goroutines inside callWithRetry
    expired,    \* calls whose own context is done
    inbox,      \* requests the current process has received
    asker,      \* whose request travelled under an id
    wire,       \* response lines on the way to readStdout
    sent,       \* how often each call's request was written
    reader      \* readStdout of the current process

vars == <<running, seq, pending, chan, call, expired, inbox, asker, wire, sent, reader>>

InFlight == {"registered", "broken", "waiting"}
Results  == {"none", "answered", "error", "timeout", "not running"}

\* Types of all variables: no call makes or sends more attempts than the retry
\* limit, and there are ids for all of them.
TypeOK ==
    /\ running \in BOOLEAN
    /\ seq \in Nat
    /\ pending \subseteq Ids /\ inbox \subseteq Ids /\ wire \subseteq Ids
    /\ chan \in [Ids -> Calls \cup {NoCall}]
    /\ asker \in [Ids -> Calls \cup {NoCall}]
    /\ call \in [Calls -> [at : InFlight \cup {"idle", "backoff", "done"},
                           id : Ids \cup {0}, attempt : 0..MaxAttempts,
                           result : Results, answer : Calls \cup {NoCall}]]
    /\ expired \subseteq Calls
    /\ sent \in [Calls -> 0..MaxAttempts]
    /\ reader \in {"reading", "handling", "ended"}

Init ==
    /\ running = TRUE
    /\ seq = 0 /\ pending = {} /\ inbox = {} /\ wire = {} /\ expired = {}
    /\ chan = [id \in Ids |-> NoCall]
    /\ asker = [id \in Ids |-> NoCall]
    /\ call = [c \in Calls |-> [at |-> "idle", id |-> 0, attempt |-> 0,
                                result |-> "none", answer |-> NoCall]]
    /\ sent = [c \in Calls |-> 0]
    /\ reader = "reading"

----------------------------------------------------------------------------
Ends(c, result, answer) ==
    call' = [call EXCEPT ![c].at = "done", ![c].result = result, ![c].answer = answer]

\* Mutant of Attempt: the sequence number is read but not advanced.
AttemptReusesId(c) ==
    IF running
    THEN /\ UNCHANGED seq
         /\ pending' = pending \cup {seq + 1}
         /\ call' = [call EXCEPT ![c].at = "registered", ![c].id = seq + 1,
                                 ![c].attempt = @ + 1]
    ELSE /\ Ends(c, "not running", NoCall)
         /\ UNCHANGED <<seq, pending>>

\* The locked part of callWithRetry: a fresh id and an entry in the table.
Attempt(c) ==
    IF running
    THEN /\ seq' = seq + 1
         /\ pending' = pending \cup {seq + 1}
         /\ call' = [call EXCEPT ![c].at = "registered", ![c].id = seq + 1,
                                 ![c].attempt = @ + 1]
    ELSE /\ Ends(c, "not running", NoCall)
         /\ UNCHANGED <<seq, pending>>

Begin(c) ==
    /\ call[c].at = "idle"
    /\ Attempt(c)
    /\ UNCHANGED <<running, chan, expired, inbox, asker, wire, sent, reader>>

\* The request is written to the stdin taken under the lock.
Write(c) ==
    /\ call[c].at = "registered"
    /\ call' = [call EXCEPT ![c].at = "waiting"]
    /\ inbox' = inbox \cup {call[c].id}
    /\ asker' = [asker EXCEPT ![call[c].id] = c]
    /\ sent' = [sent EXCEPT ![c] = @ + 1]
    /\ UNCHANGED <<running, seq, pending, chan, expired, wire, reader>>

\* The request cannot be written: an error, the entry stays in the table.
WriteFails(c) ==
    /\ \/ call[c].at = "broken"
       \/ call[c].at = "registered" /\ SendCanFail
    /\ Ends(c, "error", NoCall)
    /\ UNCHANGED <<running, seq, pending, chan, expired, inbox, asker, wire, sent, reader>>

\* The plugin writes a response, any time after the request, also again.
PluginAnswers(id) ==
    /\ id \in inbox
    /\ wire' = wire \cup {id}
    /\ UNCHANGED <<running, seq, pending, chan, call, expired, inbox, asker, sent, reader>>

\* Mutant of ReadLine: the entry is looked up but not deleted.
ReadLineKeepsEntry(id) ==
    /\ reader = "reading" /\ id \in wire
    /\ wire' = wire \ {id}
    /\ chan' = IF id \in pending THEN [chan EXCEPT ![id] = asker[id]] ELSE chan
    /\ UNCHANGED <<running, seq, pending, call, expired, inbox, asker, sent, reader>>

\* handleMessage: the entry is taken out of the table and its channel filled; a
\* response nobody waits for is dropped.
ReadLine(id) ==
    /\ reader = "reading" /\ id \in wire
    /\ wire' = wire \ {id}
    /\ pending' = pending \ {id}
    /\ chan' = IF id \in pending THEN [chan EXCEPT ![id] = asker[id]] ELSE chan
    /\ UNCHANGED <<running, seq, call, expired, inbox, asker, sent, reader>>

\* The select takes the response.
Receive(c) ==
    /\ call[c].at = "waiting"
    /\ chan[call[c].id] # NoCall
    /\ Ends(c, "answered", chan[call[c].id])
    /\ chan' = [chan EXCEPT ![call[c].id] = NoCall]
    /\ UNCHANGED <<running, seq, pending, expired, inbox, asker, wire, sent, reader>>

\* The caller's context is done: its deadline passed or it was cancelled.
Expire(c) ==
    /\ call[c].at \notin {"idle", "done"}
    /\ expired' = expired \cup {c}
    /\ UNCHANGED <<running, seq, pending, chan, call, inbox, asker, wire, sent, reader>>

\* CallTimeout passed.  An action's context began before the attempt's and has the same
\* RequestTimeout: a call with a deadline of its own meets that first.
CallCtxDone(c) == call[c].at = "waiting" /\ (c \in Deadline => c \in expired)

\* Mutant of TimesOut: the attempt is repeated even if the caller's context is
\* done, and the entry stays in the table.
TimesOutCarelessly(c) ==
    /\ CallCtxDone(c)
    /\ IF call[c].attempt < MaxAttempts
       THEN call' = [call EXCEPT ![c].at = "backoff"]
       ELSE Ends(c, "timeout", NoCall)
    /\ UNCHANGED <<running, seq, pending, chan, expired, inbox, asker, wire, sent, reader>>

\* Mutant of TimesOut: retry for ever while the caller's context lives.
TimesOutForEver(c) ==
    /\ CallCtxDone(c)
    /\ pending' = pending \ {call[c].id}
    /\ call' = [call EXCEPT ![c].at = "waiting", ![c].id = @]
    /\ UNCHANGED <<running, seq, chan, expired, inbox, asker, wire, sent, reader>>

\* The select takes the timeout, even if a response arrived meanwhile.
TimesOut(c) ==
    /\ CallCtxDone(c)
    /\ pending' = pending \ {call[c].id}
    /\ IF call[c].attempt < MaxAttempts /\ c \notin expired
       THEN call' = [call EXCEPT ![c].at = "backoff"]
       ELSE Ends(c, "timeout", NoCall)
    /\ UNCHANGED <<running, seq, chan, expired, inbox, asker, wire, sent, reader>>

Retry(c) ==
    /\ call[c].at = "backoff"
    /\ Attempt(c)
    /\ UNCHANGED <<running, chan, expired, inbox, asker, wire, sent, reader>>

----------------------------------------------------------------------------
\* A request of the plugin's own.  handleMessage calls OnRequest itself, and until
\* that returns nothing is read.
HandleRequest ==
    /\ reader = "reading" /\ running
    /\ reader' = "handling"
    /\ UNCHANGED <<running, seq, pending, chan, call, expired, inbox, asker, wire, sent>>

\* The request is answered, or its answer cannot be written.  A write to a plugin
\* that does not read never ends.
Respond ==
    /\ reader = "handling"
    /\ reader' = "reading"
    /\ UNCHANGED <<running, seq, pending, chan, call, expired, inbox, asker, wire, sent>>

\* A line is longer than MaxPayloadSize: the scanner stops, and readStdout with it.
LineTooLong ==
    /\ reader = "reading" /\ running
    /\ reader' = "ended"
    /\ UNCHANGED <<running, seq, pending, chan, call, expired, inbox, asker, wire, sent>>

----------------------------------------------------------------------------
\* The process is gone: a write to its stdin fails, its last lines may be lost.
\* The table is left as it is.  Its reader ends with the request it is at.
GoesDown ==
    /\ running
    /\ running' = FALSE
    /\ inbox' = {}
    /\ wire' \in {wire, {}}
    /\ call' = [c \in Calls |-> IF call[c].at = "registered"
                                THEN [call[c] EXCEPT !.at = "broken"] ELSE call[c]]
    /\ reader' = "reading"
    /\ UNCHANGED <<seq, pending, chan, expired, asker, sent>>

\* The next process has new pipes.
ComesUp ==
    /\ ~running
    /\ running' = TRUE
    /\ UNCHANGED <<seq, pending, chan, call, expired, inbox, asker, wire, sent, reader>>

Next ==
    \/ \E c \in Calls :
         \/ Begin(c) \/ Write(c) \/ WriteFails(c) \/ Receive(c)
         \/ Expire(c) \/ TimesOut(c) \/ Retry(c)
    \/ \E id \in Ids : PluginAnswers(id) \/ ReadLine(id)
    \/ HandleRequest \/ Respond \/ LineTooLong
    \/ GoesDown \/ ComesUp

\* Timers fire and goroutines run; a write ends if the plugin reads its stdin.
\* Nothing is assumed of the plugin's answers and of its death.
Fairness ==
    \A c \in Calls :
        /\ WF_vars(TimesOut(c)) /\ WF_vars(Retry(c))
        /\ WF_vars(call[c].at = "broken" /\ WriteFails(c))
        /\ c \in Deadline => WF_vars(Expire(c))
        /\ PluginReads => WF_vars(Write(c))

Spec == Init /\ [][Next]_vars
FairSpec == Spec /\ Fairness

----------------------------------------------------------------------------
\* readStdout never blocks on a response channel: its buffer of one is empty
\* whenever the table still leads to it.  (handleMessage's send against late and
\* repeated answers.)
ReaderNeverBlocks == \A id \in pending : chan[id] = NoCall

\* A call gets the answer to its own request, whatever late or repeated answers
\* to other requests and attempts arrive.  (ids from p.seq, one channel each.)
AnswerIsOwn == \A c \in Calls : call[c].result = "answered" => call[c].answer = c

\* The request of an action reaches the plugin at most once: its deadline rules
\* out the retries other calls make.  (attempt < 3 && ctx.Err() == nil.)
ActionSentOnce == \A c \in Deadline : sent[c] <= 1

\* An entry of the table belongs to an attempt in progress, or to a call whose
\* request could not be written; a timeout or a retry leaves none behind.
PendingIsAccounted ==
    \A id \in pending :
        \E c \in Calls : /\ call[c].id = id
                         /\ call[c].at \in InFlight \/ call[c].result = "error"

\* Every call returns, also when the plugin never answers, dies or is restarted,
\* and when nobody reads its answers.
EveryCallReturns == \A c \in Calls : call[c].at # "idle" ~> call[c].at = "done"
=================================================================================
