CONSTANTS
    Jobs = {j, d}
    Contexts = {c}
    MaxConcurrent = 2
    Direct = {d}
    Cancellable = {d}
    Pausable = {j}
    MaxTroubles = 1
    MaxBoots = 2
    MaxRuns = 3
    NoJob = NoJob
    NoRun = NoRun
CHECK_DEADLOCK FALSE
SPECIFICATION FairSpec
INVARIANTS TypeOK OneRunPerQueuedJob BooksAgree
PROPERTIES OrphansAreDead QueuedFinish
