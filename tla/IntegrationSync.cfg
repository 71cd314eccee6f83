CONSTANTS
    Syncs = {s1}
    Pushes = {p1}
    Tests = {t1}
    MaxAttempts = 2
SPECIFICATION FairSpec
\* All operations are over.
CHECK_DEADLOCK FALSE
INVARIANTS
    OneRemoteObject
    SyncRowsTellTheTruth
    HealthIsLastOutcome
PROPERTIES
    EverySyncSettles
