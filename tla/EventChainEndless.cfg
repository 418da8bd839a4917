CONSTANTS
  ping = ping
  pong = pong
  audit = audit
  any = any
  Outside = Outside
  NoTrace = NoTrace
  Roots = {m1}
  Rules = {any}
  Triggers <- Wildcard
  Allowed = {any}
  DepthLimit = 2
SPECIFICATION Spec
INVARIANT ChainsAreCut
CHECK_DEADLOCK FALSE
