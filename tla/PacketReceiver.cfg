CONSTANTS
    plain = plain
    acked = acked
    routeRequest = routeRequest
    foreign = foreign
    apsAck = apsAck
    forged = forged
    lastHop = lastHop
    s1 = s1
    s2 = s2
    Frames <- AllFrames
    Header <- MCHeader
    Starts = {s1, s2}
    MaxArrivals = 2
CHECK_DEADLOCK FALSE
SPECIFICATION FairSpec
INVARIANTS
    TwiceOnlyIfStartedTwice
    UnacknowledgedKeepOrder
    HandedUpWasTuned
PROPERTIES
    WantedReachesZigpy
