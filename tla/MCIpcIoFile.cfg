CONSTANTS
    r1 = r1
    r2 = r2
    r3 = r3
    w1 = w1
    Requests = {r1, r2, w1}
    Kind <- MCKind
    Pages = {p1, p2}
    QueueCapacity = 2
    IdWidth = 3
    MaxNested = 1
    MayRestart = TRUE
    None = None
CHECK_DEADLOCK FALSE
SPECIFICATION FairIoSpec
INVARIANTS
    IoTypeOK
    CompletedOnce
    PagesNotShared
    AnswersMatch
PROPERTIES
    EveryIoCompletes
