CONSTANTS
    Durations <- MCDurations
    MaxCalls = 4
CHECK_DEADLOCK FALSE
SPECIFICATION PermitSpec
INVARIANTS
    OpenHasItsTimer
    CutShortOnlyByLeftover
