CONSTANTS
    Replicas = {a, b}
    Backends = {"pg"}
    Gated = FALSE
    MaxFaults = 1
SPECIFICATION Spec
INVARIANT RunsUntilCanceled
CHECK_DEADLOCK FALSE
