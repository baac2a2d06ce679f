CONSTANTS
    Calls = {p1, p2}
    MaxCalls = 4
    MaxPrivate = 3
    MaxOutages = 2
SPECIFICATION ManagerSpec
INVARIANT ServiceKeepsRunning
\* A shell that has quit is the end of the run.
CHECK_DEADLOCK FALSE
