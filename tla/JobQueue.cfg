\* Four jobs, one of a type without a handler, three attempts, restarts.
CONSTANTS
    Jobs = {j1, j2, j3, j4}
    Handled = {j1, j2, j3}
    MaxAttempts = 3
    MayCrash = TRUE
SPECIFICATION FairSpec
INVARIANTS
    OneLoopWhileWork
    EarlierJobsAreNotBehind
PROPERTIES
    RetryImplemented
