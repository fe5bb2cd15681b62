SPECIFICATION Spec
CONSTANTS
    Loops = {l1}
    MaxRuns = 1
    Batches <- MCPair
    Decisions = {"allow"}
    Costs = {1}
    MaxTurns = 2
    MaxBudget = 0
    DoomLoopThreshold <- MCNever
    MaxRetries = 0
    Structured = FALSE
    Compaction = FALSE
    ReadOnlyConcurrency = 1
    NoCall = NoCall
INVARIANT ResultsAreOwn
CHECK_DEADLOCK FALSE
