CONSTANTS
    Jobs = {j}
    Last = 3
    MaxFailures = 2
    MaxCrashes = 0
    Wirings = {FALSE}
    NoFile = NoFile
SPECIFICATION Spec
INVARIANTS CompletedRanAll
CHECK_DEADLOCK FALSE
