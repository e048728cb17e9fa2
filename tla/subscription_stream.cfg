CONSTANTS
    Stream = {s1}
    NoCursor = NoCursor
    MaxBuffered = 2
    MaxBatch = 2
    Overlap = 1
    MaxJournal = 5
SPECIFICATION SubscriptionSpec
INVARIANTS
    NothingSkipped
    NobodyForgotten
CHECK_DEADLOCK FALSE
