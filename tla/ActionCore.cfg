SPECIFICATION Spec
CONSTANTS
    Modes = {"dev", "local", "strict"}
    PluginIds = {1}
    MaxSeq = 1
    Callers = {c1, c2}
    Execs = {e1, e2}
    Persistent = TRUE
    StorageFaults = FALSE
    MayRestart = TRUE
    None = None
SYMMETRY Symmetry
INVARIANTS AllowedIsBeingExecuted PersistedAllowedIsFollowedUp GateRespected WorkIsOnStoredActions
PROPERTY ImplementsGrants
