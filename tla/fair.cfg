CONSTANTS
    Devices = {d1}
    Installation = {i1}
    Sockets = {s1, s2}
    Query = {q1}
    Viewers = {v1}
    Topic = {t1}
    Nobody = Nobody
    HandshakeTime = 1
    LeaseTime = 1
    RequestTime = 1
    ResultTime = 1
    TakeoverLimit = 1
    TakeoverWindow = 2
    MaxPending = 1
    MaxClock = 2
    Callers = {c1, c2}
    MaxRows = 2
    MaxBytes = 3
    RowBytes = 1
    MaxCount = 1
    MaxRejects = 1
    HubTimeout = 1
    HubClock = 2
SPECIFICATION FairSpec
PROPERTIES ReadsAnswered RevokedEnds InsertsSettle RequestsFinish SilenceIsNoticed
\* Sockets, requests and time run out.
CHECK_DEADLOCK FALSE
