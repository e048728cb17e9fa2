CONSTANTS
    Client = {a, b}
    NoClient = NoClient
    Credential = {k1, k2}
    Cursor = {0, 1, 3}
    RingCap = 2
    QueueCap = 2
    ObserverCap = 1
    MaxChunk = 2
    MaxOutput = 3
SPECIFICATION FairSpec
CONSTRAINT MeetEarly
INVARIANTS
    NoLossNoDuplicate
    OneController
PROPERTIES
    EverythingArrives
CHECK_DEADLOCK FALSE
