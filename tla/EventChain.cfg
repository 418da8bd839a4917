CONSTANTS
  ping = ping
  pong = pong
  audit = audit
  any = any
  Outside = Outside
  NoTrace = NoTrace
  Roots = {m1}
  Rules = {ping, pong, audit}
  Triggers <- PingPong
  Allowed = {ping, pong}
  DepthLimit = 4
SPECIFICATION FairSpec
INVARIANTS RunsAreCut MatchesAreAnswered TraceIsKept
PROPERTY Quiesces
CHECK_DEADLOCK FALSE
