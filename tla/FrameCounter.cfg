CONSTANTS
    packet = packet
    ack = ack
    Frames <- MCFrames
    AttemptsOf <- MCAttempts
    Margin = 2
    Backups = {3}
    MaxBoots = 2
    MaxNumber = 5
CHECK_DEADLOCK FALSE
SPECIFICATION FairSpec
INVARIANTS
    NumbersAreUsedOnce
PROPERTIES
    SendsEnd
