CONSTANTS
    d1 = d1
    d2 = d2
    Events = {1, 2, 3, 4}
    Drainers = {d1, d2}
    Batch = 2
    RetryDelay = 1
    DrainTimeout = 1
    Poison = {1, 2}
    Dropped = {4}
    MaxFaults = 2
SPECIFICATION MCSpec
INVARIANTS JobsMatchRows BatchesPartitionPending
PROPERTIES ImplementsPromise StoredIsDispatched
