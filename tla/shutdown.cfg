CONSTANTS
    Device = {1}
    Requests = {r1}
    Operations = {"ingest", "sweep"}
    Groups = {g1}
    NoGroup = NoGroup
    MaxTimestamp = 1
    MinuteWindow = 2
    HourlyWindow = 4
    MaxMinuteSamples = 4
    MaxHourlySamples = 4
    MaxPoints1m = 2
    MaxPoints5m = 3
    IdentityChangeAt = 9
    HeartbeatTimeout = 2
    PageLimit = 1
    PerKeyLimit = 2
    TotalLimit = 4
    MaxClock = 3
    MaxFaults = 1
    MaxRestarts = 1
SPECIFICATION Spec
INVARIANT FreshSnapshotAfterDrain
