SPECIFICATION Spec
CONSTANTS
    t1 = t1
    s1 = s1
    s2 = s2
    cb = cb
    json = json
    xml = xml
    r1 = r1
    r2 = r2
    gone = gone
    c1 = c1
    c2 = c2
    Blank = Blank
    Nobody = Nobody
    NoValue = NoValue
    MaximumPageSize = 2
    Topics = {t1}
    Subscriptions = {s1}
    Callbacks = {cb}
    ContentTypes = {json}
    Registrations = {r1, r2}
    Reasons = {gone}
    TopicOf <- MCTopicOf
    CallbackOf <- MCCallbackOf
    MaxEvents = 2
    Clients = {c1}
    MaxBatch = 2
    MaxFaults = 3
    Prefetch = FALSE
    InterruptedLoads = TRUE
INVARIANT LoadsGreatestRevision
