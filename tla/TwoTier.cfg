CONSTANTS
    Replicas = {a}
    Peer = b
    Slots = {1, 2}
    Keys = {k}
    HasL2 = TRUE
    MaxVersion = 2
    MaxEpoch = 2
SPECIFICATION MCSpec
INVARIANT GetsAreFresh
PROPERTY EveryGetReturns
