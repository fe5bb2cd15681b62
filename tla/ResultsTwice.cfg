INIT DialogInit
NEXT DialogNext
CONSTANTS
    ModelProviders = {"anthropic", "responses", "chat", "gemini"}
    CompactAt = 3
    MaxInputs = 2
    MaxReplies = 3
    SubAgentMaxDepth = 2
INVARIANTS
    OneResultPerCall
CHECK_DEADLOCK FALSE
