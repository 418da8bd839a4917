---------------------------- MODULE MCEventChain ----------------------------
\* Instances of EventChain: workflows that trigger each other.
EXTENDS EventChain

CONSTANTS ping, pong, audit, any

\* ping and pong trigger each other through action.executed, ping after a
\* failure as well; audit listens to requests of pong and waits for an operator.
PingPong ==
  { <<"message", Outside, ping>>, <<"message", Outside, audit>>,
    <<"completed", ping, pong>>, <<"completed", pong, ping>>,
    <<"requested", pong, audit>>, <<"failed", ping, ping>> }

\* One rule with the trigger "*".
Wildcard == Topics \X {Outside, any} \X {any}
=============================================================================
