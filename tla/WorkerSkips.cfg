CONSTANTS
    MaxMessages = 2
    MaxFaults = 1
    BatchSize = 2
    MaxAttempts = 2
    Malformed = {2}
    Unset = Unset
SPECIFICATION Spec
CHECK_DEADLOCK FALSE
INVARIANT NothingIsSkipped
