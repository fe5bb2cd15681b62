SPECIFICATION ProjectionSpec
CONSTANTS
    Workers = {w1}
    MaxTx = 3
    MaxEvents = 4
    BatchSize = 2
    MaxFaults = 2
    Every = 2
    MaxOpen = 1
    FaultKinds = {"head", "insert", "save", "crash"}
    CostSessions = {"a", "b"}
    Forked = {"b"}
    Models = {"m", "n"}
    MaxFeed = 4
    CostBatch = 2
    MaxCostFaults = 2
    MaxRows = 3
    SiemBatch = 2
    Sinks = {"file", "http"}
    MaxSiemFaults = 3
    Contents = {"a", "b"}
    Leftovers = {"x"}
    MaxOutputs = 3
    AppendPaths = {"Append", "AppendWithBlob"}
    MaxBlobFaults = 2
INVARIANTS
    NothingSkipped
    RollupIsTheFold
    
    
PROPERTIES
    FeedIsConsumed
    
CHECK_DEADLOCK FALSE
