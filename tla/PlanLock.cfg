CONSTANTS
    Sessions = {s1, s2, s3}
    Files = {f1, f2, f3, f4}
    NoFile = NoFile
    Nobody = Nobody
    MaxTries = 2
SPECIFICATION FairSpec
INVARIANTS TypeOK
PROPERTIES RefusedOnlyByTheLiving AcquireEnds ImplementsMutex
