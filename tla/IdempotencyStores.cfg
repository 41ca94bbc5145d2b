CONSTANTS
    Requests = {r1, r2}
    Keys = {k1, g1}
    GRPCKeys = {g1}
    Fingerprints = {f1, f2}
    Backends = {"sql", "redis"}
    TTL = 1
    MaxClaimAttempts = 2
    SweepBatch = 1
    MaxTime = 2
SPECIFICATION FairSpec
INVARIANTS ExclusiveExecution ReplayIsFaithful
PROPERTIES NoRerun EveryRequestAnswered
