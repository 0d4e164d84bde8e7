SPECIFICATION Spec
CONSTANTS
    Payloads <- Awkward
    Poison <- PoisonFrames
    Commands <- KnownCommands
    Noise <- Disturbances
    MaxWrites = 2
    MaxErrors = 1
CHECK_DEADLOCK FALSE
INVARIANTS
    ReadsAsOneStream
    HeldBackOnlyBehindPoison
    OneFramePerError
    OnlyWhatWasSent
