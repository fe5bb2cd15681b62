SPECIFICATION TurnSpec
CONSTANTS
    Loops = {l1}
    MaxRuns = 1
    Batches <- MCBatches
    Decisions = {"allow"}
    Costs = {0, 2}
    MaxTurns = 2
    MaxBudget = 1
    DoomLoopThreshold = 2
    MaxRetries = 1
    Structured = TRUE
    Compaction = TRUE
    ReadOnlyConcurrency = 1
    NoCall = NoCall
    Providers = {"anthropic", "responses", "chat", "gemini", "stub"}
    MaxToolCalls = 2
    MaxAttempts = 2
    MaxPauses = 2
    MaxStreamFaults = 2
    ModelProviders = {"anthropic", "responses", "chat", "gemini"}
    CompactAt = 3
    MaxInputs = 2
    MaxReplies = 3
    SubAgentMaxDepth = 2
    Rules <- MCRules
    MaxRules = 2
    ToolArgs <- MCToolArgs
    HookSpecs <- MCHooks
    EditTools = {"edit", "write"}
INVARIANTS
    MutationsAreSerial
    RunsAreBounded
    
    

    
CHECK_DEADLOCK FALSE
