SPECIFICATION FairSpec
CONSTANTS
    c1 = c1
    c2 = c2
    Calls = {c1, c2}
    MaxOwnStarts = 1
    MaxStatuses = 1
    MaxLost = 1
CHECK_DEADLOCK FALSE
INVARIANTS
    OwnReportIsKept
    EarlyOnlyOnOtherStart
PROPERTIES
    ResetEnds
