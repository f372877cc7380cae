CONSTANTS
    Jobs = {j}
    Last = 3
    MaxFailures = 2
    MaxCrashes = 2
    Wirings = {TRUE, FALSE}
    NoFile = NoFile
SPECIFICATION FairSpec
INVARIANTS NoStageSkipped FailsForAReason
PROPERTIES JobsEnd
CHECK_DEADLOCK FALSE
