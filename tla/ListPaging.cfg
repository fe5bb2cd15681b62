INIT ReadInit
NEXT ListingNext
CONSTANTS
    MaxSessions = 3
    MaxTick = 3
    TicksPerMs = 2
    PageSize = 1
    MaxPages = 4
    MaxEvents = 0
    Costly = {}
INVARIANTS
    NoOverlapNoGap
CHECK_DEADLOCK FALSE
