CONSTANTS
    None = None
    Keys = {k1, k2}
    Urls = {u1, u2}
    Views = {v1, v2}
    Changes = {"login", "logout", "save", "disconnect"}
    Charts = 1
    MaxIdentity = 2
    MaxVersion = 1
    MaxQueue = 2
    MaxRestarts = 1
    Calls = {p1, p2}
    MaxCalls = 4
    MaxPrivate = 3
    MaxOutages = 2
    Nobody = Nobody
    Nodes = {k1, k2}
    MaxSessions = 2
    MaxIdb = 2
    MaxEvents = 2
    MaxReloads = 1
    Resources = {r1, r2}
    Lifetimes = {u1, u2}
    MaxReads = 4
    QueueSize = 2
    Instances = {"settings"}
SPECIFICATION Spec
INVARIANT CacheIsOwn
\* Consoles that nobody uses may rest.
CHECK_DEADLOCK FALSE
