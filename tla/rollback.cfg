CONSTANTS
    Device = {1}
    Requests = {r1}
    Operations = {"ingest"}
    Groups = {g1}
    NoGroup = NoGroup
    MaxTimestamp = 4
    MinuteWindow = 2
    HourlyWindow = 4
    MaxMinuteSamples = 4
    MaxHourlySamples = 4
    MaxPoints1m = 2
    MaxPoints5m = 3
    IdentityChangeAt = 9
    HeartbeatTimeout = 9
    PageLimit = 1
    PerKeyLimit = 2
    TotalLimit = 4
    MaxClock = 4
    MaxFaults = 2
    MaxRestarts = 0
SPECIFICATION Spec
PROPERTY WindowNeverRollsBack
