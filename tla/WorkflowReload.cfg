CONSTANTS
  fixed = fixed
  extra = extra
  Ids = {fixed, extra}
  Requests = {q1, q2}
  Config <- Configured
  Submissions <- Lists
SPECIFICATION Spec
INVARIANTS PromiseIsKept
PROPERTY AllOrNothing
