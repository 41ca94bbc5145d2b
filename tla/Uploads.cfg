CONSTANTS
    Requests = {r1, r2}
    Drain = drain
    States = {s1, s2, s3}
    Nil = nil
    Size = 1
    Callbacks <- MCCallbacks
    MaxCalls = 2
    MaxMishaps = 2
SPECIFICATION MCSpec
INVARIANTS OneHolder UploadKept
PROPERTY UploadsProgress
CHECK_DEADLOCK FALSE
