CONSTANTS
    w1 = w1  w2 = w2  stop = stop  key = key  NoKey = NoKey  None = None
    Calls = {w1, w2}
    Keys = {key}
    Prio <- PathPrio
    Key <- PathKey
    Deadlines = {w1}
    Capacity = 1
    MaxQueueDepth = 1
    Paced = TRUE
    FailureThreshold = 1
    HalfOpenSuccess = 1
    MaxAttempts = 2
    MaxDisruptions = 2
SPECIFICATION FairSpec
PROPERTIES EveryCallReturns
