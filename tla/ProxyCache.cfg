CONSTANTS
    r1 = r1
    r2 = r2
    r3 = r3
    n1 = n1
    n2 = n2
    Nil = Nil
    Requests = {r1, r2, r3}
    Processes = {n1, n2}
    ProcessOf <- TwoAndOne
    Workloads <- Mixes
    HasEtags = TRUE
    MaxVersion = 2
    MaxFaults = 2
SPECIFICATION FairSpec
INVARIANTS
    TypeOK
    OneHydrationPerProcess
    HitsAreOneResponse
    BrokenBodiesAreNotHits
    InvalidationIsKept
PROPERTIES
    RequestsAreAnswered
CHECK_DEADLOCK FALSE
