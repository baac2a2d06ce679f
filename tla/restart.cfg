CONSTANTS
    Device = {1, 2}
    Requests = {r1, r2}
    Operations = {"ingest", "remove", "group", "flush", "sweep"}
    Groups = {g1}
    NoGroup = NoGroup
    MaxTimestamp = 4
    MinuteWindow = 2
    HourlyWindow = 4
    MaxMinuteSamples = 2
    MaxHourlySamples = 3
    MaxPoints1m = 2
    MaxPoints5m = 3
    IdentityChangeAt = 4
    HeartbeatTimeout = 2
    PageLimit = 1
    PerKeyLimit = 2
    TotalLimit = 4
    MaxClock = 4
    MaxFaults = 1
    MaxRestarts = 1
SPECIFICATION PartSpec
SYMMETRY Slots
INVARIANTS TypeOK CleanIsWritten NoDoubleCount OrderMarkerSound
    NothingDropped StoppedIsDurable ViewAgrees RemovedIsGone NoCircularWait
PROPERTIES LiveNeverGoesBack NoFalseOffline KeepsContract
\* Each part ends where its bounds end; NoCircularWait says that nobody waits in vain.
CHECK_DEADLOCK FALSE
