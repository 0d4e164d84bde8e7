SPECIFICATION ToolsSpec
CONSTANTS
    stream = stream
    Properties = {stream}
    Consumers = {1, 2, 3}
    Watched <- MCWatched
    Capacity = 2
    MaxUpdates = 4
    NumTids = 3
    FirstTid <- MCFirstTid
    MaxRequests = 6

CHECK_DEADLOCK FALSE
INVARIANTS
    GapsOnlyWhenFull
    StaleAnswersRunOut
PROPERTY
    LostPortEndsTool
