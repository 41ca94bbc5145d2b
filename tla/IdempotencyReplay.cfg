CONSTANTS
    Requests = {r1, r2}
    Keys = {k1}
    GRPCKeys = {}
    Fingerprints = {f1}
    Backends = {"memory"}
    TTL = 2
    MaxClaimAttempts = 4
    SweepBatch = 1
    MaxTime = 2
SPECIFICATION Spec
INVARIANT CompletedRetriesReplay
