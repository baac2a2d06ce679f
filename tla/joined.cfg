CONSTANTS
    Devices = {d1}
    Windows = {w1, w2}
    Readers = {q1, q2}
    Writers = {a1}
    TTL = 1
    MaxEntries = 1
    MaxEpochs = 1
    Concurrency = 1
    Capacity = 2
    MaxInserts = 1
    MaxClock = 2
    MaxRestarts = 0
SPECIFICATION HistorySpec
INVARIANT NextReadSeesWrite
\* A process that answered its last read may stop.
CHECK_DEADLOCK FALSE
