SPECIFICATION DumpSpec
CONSTANTS
    Built <- MCBuilt
    Foreign <- MCForeign
    Noise <- MCNoise
    MaxDamaged = 2
CHECK_DEADLOCK FALSE
INVARIANTS
    FcsIsCrc16
    DamageIsCaught
    FieldsSurvive
    DumpedAsCaptured
