SPECIFICATION RunServiceSpec
CONSTANTS
    MaxLog = 2
    ChanBuffer = 1
    MaxCalls = 2
    Transports = {"grpc", "rest", "mcp", "mcp_buffered"}
    LastEventID = FALSE
    MaxFaults = 1
    MaxRuns = 3
    Sessions = {s1}
    Decisions = {"allow"}
    MaxInFlight = 2
    PoolSize = 3
INVARIANTS
    DeliveryIsExact
PROPERTIES
    FramesArrive
    ApprovalsArrive
    
CHECK_DEADLOCK FALSE
