SPECIFICATION FairSpec
CONSTANTS
    c1 = c1
    c2 = c2
    c3 = c3
    Calls <- MCCalls
    NoCall = NoCall
    Notice = Notice
    Alien = Alien
    MaxTid = 3
    Retries = 1
    MaxNotices = 1
CHECK_DEADLOCK FALSE
ACTION_CONSTRAINTS
    InOrder
    NoticeEarly
INVARIANTS
    AnswerIsOwnOrWrapped
    EntriesAreRight
    CollisionNeedsRetryOrOverrun
PROPERTIES
    ImplementsCalls
    CallsEnd
    AnswerBeforeLastAttemptCounts
