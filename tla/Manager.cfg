CONSTANTS
    s1 = s1
    s2 = s2
    g1 = g1
    Subs = {s1, s2}
    GroupNames = {g1}
    NoOne = NoOne
    Unset = Unset
    Layouts <- MCLayouts
    MaxViews = 4
    MaxRestarts = 1
    MaxMessages = 2
    MaxFaults = 1
SPECIFICATION FairDelivery
CHECK_DEADLOCK FALSE
INVARIANT DeliveryTypeOK
INVARIANT OneRunPerSubscription
INVARIANT GroupProgressFollowsOutcomes
PROPERTY ImplementsContent
PROPERTY SharedProgressIsKept
PROPERTY StartsAfterReports
PROPERTY UnwantedRunsEnd
PROPERTY GroupsMakeProgress
PROPERTY PermanentStopDeletes
