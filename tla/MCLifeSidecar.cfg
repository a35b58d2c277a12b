SPECIFICATION Spec
CONSTANTS
    Requests = {x1, x2}
    Kinds = {"start", "idle"}
    Restarts = {r1, r2}
    Monitor = monitor
    Nobody = nobody
    MaxContainers = 1
    MaxAttempts = 1
    Filtered = TRUE
    Faults = {}
CHECK_DEADLOCK FALSE
INVARIANT SidecarGoesToo
