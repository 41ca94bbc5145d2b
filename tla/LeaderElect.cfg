CONSTANTS
    Replicas = {a, b}
    Backends = {"pg", "k8s"}
    Gated = TRUE
    MaxFaults = 2
SPECIFICATION FairSpec
INVARIANTS LoopsHoldLock StatusTracksTerm
PROPERTIES LeadershipRecovers StatusSettles
CHECK_DEADLOCK FALSE
