CONSTANTS
    MaxMessages = 3
    MaxFaults = 1
    BatchSize = 2
    MaxAttempts = 2
    Malformed = {2}
    Unset = Unset
SPECIFICATION FairSpec
CHECK_DEADLOCK FALSE
INVARIANT WorkerTypeOK
INVARIANT ProgressFollowsOutcomes
PROPERTY ProgressIsKept
PROPERTY ImplementsContent
PROPERTY StopEndsTheWorker
PROPERTY MessagesAreSettled
