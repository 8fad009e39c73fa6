SPECIFICATION FairSpec
CONSTANTS
    i1 = i1
    Ifaces = {i1}
    PingPong = {i1}
    Slots = {1, 2}
    MaxAttempts = 2
    MaxDisruptions = 2
INVARIANTS RunsAreSerial StopLeavesNothing
PROPERTIES InterfacesComeBack CentralSettles ShutdownEnds
CHECK_DEADLOCK FALSE
