SPECIFICATION FairSpec
CONSTANTS
    Calls = {c1, c2, c3}
    NoCall = NoCall
    NumTids = 2
    FirstTid = 2
CHECK_DEADLOCK FALSE
INVARIANTS
    AnswerIsOwnOrWrapped
    EntriesAreRight
PROPERTY
    AnswerIsKept
    CallsEnd
    ImplementsCalls
