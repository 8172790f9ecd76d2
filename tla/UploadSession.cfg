CONSTANTS
    Requests = {r1, r2}
    Sweeper = sweeper
    TotalSize = 2
    ChunkSize = 1
    MaxOffset = 1
    CopyInPlace = TRUE
SPECIFICATION FairSpec
CHECK_DEADLOCK FALSE
INVARIANTS
    TypeOK
    PublishedContentIsVerified
    CountersNeverOvertake
PROPERTIES
    ImplementsSealedUpload
    ExpiredSessionsSettle
