SPECIFICATION FairSpec
CONSTANTS
    Modes = {"local", "strict"}
    PluginIds = {p1}
    MaxSeq = 1
    Callers = {c1, c2}
    Execs = {e1, e2}
    Persistent = FALSE
    StorageFaults = FALSE
    MayRestart = FALSE
    None = None
CHECK_DEADLOCK FALSE
PROPERTY PausedUntilDecided EveryGrantEnds
