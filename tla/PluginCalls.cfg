SPECIFICATION FairSpec
CONSTANTS
    Calls = {action, health}
    Deadline = {action}
    SendCanFail = TRUE
    PluginReads = TRUE
    NoCall = NoCall
CHECK_DEADLOCK FALSE
INVARIANTS ReaderNeverBlocks AnswerIsOwn ActionSentOnce PendingIsAccounted
PROPERTY EveryCallReturns
