CONSTANTS
    Watcher = {w1}
    Channel = {c1, c2}
    Global = Global
    NoAfterCursor = NoAfterCursor
    Bound = 2
    MaxChanges = 4
    MaxAborts = 1
SPECIFICATION FairWatchSpec
INVARIANTS
    CursorOrder
    NoGapWhileLive
PROPERTIES
    BufferDrains
CHECK_DEADLOCK FALSE
