SPECIFICATION Spec
CONSTANTS
    i1 = i1
    Ifaces = {i1}
    PingPong = {i1}
    Slots = {1, 2}
    MaxAttempts = 2
    MaxDisruptions = 1
INVARIANTS NeverHealthyInRecovery
CHECK_DEADLOCK FALSE
