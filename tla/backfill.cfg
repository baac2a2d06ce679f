CONSTANTS
    Device = {d1}
    MaxTimestamp = 6
    Invalid = {2}
    SpoolLimit = 2
    MaxAge = 3
    MaxFaults = 2
    MaxCrashes = 0
SPECIFICATION DeliverySpec
INVARIANTS BackfillDelivers
\* The last cycle of the run is the end of time.
CHECK_DEADLOCK FALSE
