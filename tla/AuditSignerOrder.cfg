SPECIFICATION AuditSpec
CONSTANTS
    Workers = {w1}
    MaxTx = 2
    MaxEvents = 3
    BatchSize = 2
    MaxFaults = 0
    Every = 2
    MaxOpen = 2
    FaultKinds = {}
INVARIANTS UntamperedVerifies
