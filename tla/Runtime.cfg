SPECIFICATION FairSpec
CONSTANTS
    Topics = {t1, t2}
    Dlq = dlq
    MaxFaults = 1
INVARIANT RuntimeTypeOK
INVARIANT WorkersHaveDestinations
INVARIANT NoWorkerOutlivesClose
INVARIANT CleanEndIsAskedFor
PROPERTY DeadLoopEndsTheHub
PROPERTY SignalEndsTheHub
PROPERTY ActiveTopicsGetWorkers
