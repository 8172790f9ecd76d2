CONSTANTS
    Webhooks = {h1}
    Events = {e1}
    Blocked = {}
    Loops = {l1, l2}
    Requests = {q1}
    Batch = 1
    MaxAttempts = 2
    MaxRedeliveries = 1
    MaxRotations = 2
    MaxFaults = 1
SPECIFICATION FairSpec
INVARIANTS
    TypeOK
    DisabledOnlyAfterBudget
    
    AttemptsWereSent
PROPERTIES
    SuccessIsKept
    DeliveriesSettle
