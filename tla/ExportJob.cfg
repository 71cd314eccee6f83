CONSTANTS
    c1 = c1
    c2 = c2
    Export = x1
    Replays = {r1, r2}
    ConnOf <- SharedConnection
    MaxAttempts = 2
SPECIFICATION FairSpec
\* All is over.
CHECK_DEADLOCK FALSE
INVARIANTS
    RecordedDeliveriesHappened
    RecordedIsLastOutcome
PROPERTIES
    EveryExportSettles
