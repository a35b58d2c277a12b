SPECIFICATION Spec
CONSTANTS
    Requests = {x1, x2, x3}
    Kinds = {"start", "logout", "drain", "idle", "evict"}
    Restarts = {r1, r2}
    Monitor = monitor
    Nobody = nobody
    MaxContainers = 2
    MaxAttempts = 1
    Filtered = TRUE
    Faults = {"die", "boot", "refuse"}
SYMMETRY TaskSymmetry
CHECK_DEADLOCK FALSE
INVARIANTS TypeOK RunningIsTracked ExpectedStaysDown
PROPERTIES CrashSparesLive
