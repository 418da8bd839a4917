CONSTANTS
  Sessions = {s1, s2}
  Channels = {c1, c2}
  Handlers = {h1, h2}
  RestoreLimit = 1
  MaxTime = 3
SPECIFICATION Spec
INVARIANTS OneIdentity EverySessionIsSaved
