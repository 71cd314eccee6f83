CONSTANTS
    e1 = e1
    d1 = d1
    d2 = d2
    r1 = r1
    Events = {e1}
    Replays = {r1}
    Deliveries = {d1, d2, r1}
    EventOf <- OneEventTwoEndpoints
    SourceOf <- ReplayOfFirst
    MaxAttempts = 2
    MayCrash = TRUE
    FaultBound = 1
SPECIFICATION FairSpec
\* All calls are over and all jobs settled: the system rests.
CHECK_DEADLOCK FALSE
INVARIANTS
    RowsTellTheTruth
PROPERTIES
    DeliveredIsFinal
    EveryDeliverySettles
    QueueImplemented
