CONSTANTS
    p1 = p1
    p2 = p2
    a1 = a1
    a2 = a2
    Peers = {p1}
    Artifacts = {a1}
    TaskTypes = {"push"}
    Large = {a1}
    Filtered <- NoPairs
    Scored <- NoPairs
    Reported = {"online"}
    Workers = {w1, w2}
    Transfers = {x1, x2}
    Limit = 1
    MaxRetries = 2
    MaxFaults = 1
SPECIFICATION Spec
SYMMETRY WorkerAndTransferSymmetry
INVARIANTS
    SlotsCoverTransfers
    CompletedPushesWereDelivered
PROPERTY SlotsLeakOnlyByFaults
