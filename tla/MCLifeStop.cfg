SPECIFICATION Spec
CONSTANTS
    Requests = {x1, x2}
    Kinds = {"start", "stop"}
    Restarts = {r1, r2}
    Monitor = monitor
    Nobody = nobody
    MaxContainers = 2
    MaxAttempts = 1
    Filtered = TRUE
    Faults = {"die"}
CHECK_DEADLOCK FALSE
INVARIANT StopHolds
