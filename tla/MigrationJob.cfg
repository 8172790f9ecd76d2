CONSTANTS
    a1 = a1
    a2 = a2
    a3 = a3
    c1 = c1
    c2 = c2
    c3 = c3
    Workers = {w1, w2}
    Artifacts = {a1, a2}
    Contents = {c1, c2}
    Source <- TwoAndNone
    Content <- Contained
    Advertised <- ByShaOrNone
    CacheOnly = {a2}
    Unusable <- NoRepositories
    Existing <- SecondExists
    Parsed <- NoArtifacts
    Conflict = "skip"
    Ignores <- NoRepositories
    Limit = 1
    MaxPages = 3
    MaxPauses = 1
    MaxFaults = 1
    Garbage = Garbage
    None = None
SPECIFICATION FairSpec
CHECK_DEADLOCK FALSE
INVARIANTS
    
    CorruptionIsNotStored
    FinishedRunsAreWhole
    ProgressStaysInExtent
PROPERTIES
    
    RunningJobsEnd
