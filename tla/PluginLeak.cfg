SPECIFICATION Spec
CONSTANTS
    MaxStarts = 2
    MayOverlap = TRUE
    MaxRestarts = 1
    MaxHealthFailures = 2
CHECK_DEADLOCK FALSE
INVARIANT OneProcess
