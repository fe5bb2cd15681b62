SPECIFICATION RunsSpec
CONSTANTS
    Loops = {l1, l2}
    MaxRuns = 3
    Batches <- MCSingle
    Decisions = {"deny", "allow", "ask"}
    Costs = {1}
    MaxTurns = 1
    MaxBudget = 0
    DoomLoopThreshold <- MCNever
    MaxRetries = 0
    Structured = FALSE
    Compaction = FALSE
    ReadOnlyConcurrency = 1
    NoCall = NoCall
INVARIANTS
    TurnsAreWellFormed
    AtMostOnce
    
PROPERTIES
    RunsEnd
CHECK_DEADLOCK FALSE
