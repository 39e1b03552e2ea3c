SPECIFICATION FairQueueSpec
CONSTANTS
    Workers = {w1, w2}
    Items = {i1, i2}
    NoItem = NoItem
    MaxRetries = 2
INVARIANTS
    QueueTypeOK
    Exclusion
    FailureIsRetried
PROPERTIES
    EventNeverAbsorbed
    EventuallyReconciled
    RetriesEnd
