CONSTANTS
    Device = {d1}
    MaxTimestamp = 5
    Invalid = {2}
    SpoolLimit = 2
    MaxAge = 3
    MaxFaults = 3
    MaxCrashes = 1
    Callers = {c1, c2, c3}
    MaxRows = 2
    MaxBytes = 3
    RowBytes = 1
    MaxCount = 2
    MaxRejects = 1
    Devices = {d1}
    Windows = {w1, w2}
    Readers = {q1, q2}
    Writers = {a1}
    TTL = 1
    MaxEntries = 1
    MaxEpochs = 1
    Concurrency = 1
    Capacity = 2
    MaxInserts = 1
    MaxClock = 2
    MaxRestarts = 1
    Controllers = {h1, h2}
    MaxCollectors = 3
    MaxControls = 3
    LiveTopics = {t1, t2}
    MaxSessions = 3
    MaxLiveRequests = 3
    MaxEdits = 2
    MaxProbes = 3
    Installation = {i1}
    Sockets = {c1, c2, c3}
    Query = {q1, q2}
    Viewers = {w1, w2}
    Topic = {t1}
    Nobody = Nobody
    HandshakeTime = 1
    LeaseTime = 2
    RequestTime = 1
    ResultTime = 1
    TakeoverLimit = 1
    TakeoverWindow = 2
    MaxPending = 2
    Instances = {"uploads", "writes", "reads", "collector", "channel", "probes", "sessions"}
SPECIFICATION Spec
SYMMETRY Ids
INVARIANTS DeliverySound BatcherSound HistorySound
    SupervisorSound StopSticks CrashIsRestarted LiveClientSound AcknowledgedIsAnswered
    RegistrySound NobodyWaitsInVain OneCollectionPerTopic TakeoversLimited
PROPERTIES ServedFresh
\* An agent after its last cycle, a flushed batcher, a process that answered its last read
\* and a session of the last socket may stop.
CHECK_DEADLOCK FALSE
