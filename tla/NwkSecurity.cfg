SPECIFICATION SecuritySpec
CONSTANTS
    k1 = k1
    k2 = k2
    k3 = k3
    Keys = {k1, k3}
    KeyList <- MCKeyList
    Bursts <- MCBursts
    NwkFrames <- MCFrames
    MaxFrames = 2
    MaxChanges = 2
CHECK_DEADLOCK FALSE
INVARIANTS
    OpensWhatWasSealed
    NothingElseOpens
    HeadersSurvive
    ApsSurvives
