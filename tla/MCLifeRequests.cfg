SPECIFICATION FairSpec
CONSTANTS
    Requests = {x1, x2}
    Kinds = {"start", "stop", "restart"}
    Restarts = {r1}
    Monitor = monitor
    Nobody = nobody
    MaxContainers = 2
    MaxAttempts = 1
    Filtered = TRUE
    Faults = {"die", "rm", "sidecar"}
CHECK_DEADLOCK FALSE
PROPERTIES RequestsEnd DeadIsDropped
