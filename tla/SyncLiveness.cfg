CONSTANTS
    p1 = p1
    p2 = p2
    a1 = a1
    a2 = a2
    Peers = {p1}
    Artifacts = {a1, a2}
    TaskTypes = {"push", "delete"}
    Large = {}
    Filtered <- FilterSecondArtifact
    Scored <- NoPairs
    Reported = {"online"}
    Workers = {w1}
    Transfers = {x1}
    Limit = 1
    MaxRetries = 2
    MaxFaults = 0
SPECIFICATION FairSpec
PROPERTY QueuedTasksSettle
