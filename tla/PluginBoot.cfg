SPECIFICATION FairSpec
CONSTANTS
    MaxStarts = 2
    MayOverlap = FALSE
    MaxRestarts = 1
    MaxHealthFailures = 2
CHECK_DEADLOCK FALSE
INVARIANTS RestartBudget OneProcessInOrder CrashWatched StopIsFinal AnnouncedIsCurrent
PROPERTY DeathIsNoticed HungIsKilled ImplementsSwitch
