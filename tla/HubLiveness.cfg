SPECIFICATION HubFairSpec
CONSTANTS
    t1 = t1
    t2 = t2
    s1 = s1
    s2 = s2
    cb = cb
    json = json
    r1 = r1
    r2 = r2
    r3 = r3
    gone = gone
    h1 = h1
    h2 = h2
    Blank = Blank
    NotAsked = NotAsked
    Unset = Unset
    Topics = {t1}
    Subscriptions = {}
    Callbacks = {cb}
    ContentTypes = {json}
    Registrations = {r1, r2}
    Reasons = {gone}
    TopicOf <- MCTopicOf
    CallbackOf <- MCCallbackOf
    Clients = {h1, h2}
    MaxEvents = 2
    BufferMax = 3
    ShortFetches = FALSE
    MaxFaults = 1
PROPERTY HubsCatchUp
