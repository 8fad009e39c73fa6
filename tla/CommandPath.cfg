CONSTANTS
    w1 = w1  w2 = w2  stop = stop  key = key  NoKey = NoKey  None = None
    Calls = {w1, w2, stop}
    Keys = {key}
    Prio <- PathPrio
    Key <- PathKey
    Deadlines = {}
    Capacity = 1
    MaxQueueDepth = 1
    Paced = FALSE
    FailureThreshold = 1
    HalfOpenSuccess = 1
    MaxAttempts = 2
    MaxDisruptions = 1
SPECIFICATION Spec
INVARIANTS PermitsConserved NoIdlePermit OneExecutionPerKey WaitersAreServed NoInventedSuccess OpensOnEvidence SlotHasOwner
PROPERTIES ThrottleInPath
