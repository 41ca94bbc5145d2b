CONSTANTS
    Replicas = {a, b}
    Slots = {1}
    Keys = {k}
    HasL2 = TRUE
    MaxVersion = 1
    MaxEpoch = 1
SPECIFICATION ReadThroughSpec
PROPERTY L2HoldsPeersWrite
