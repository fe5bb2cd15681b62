SPECIFICATION EdgePartsSpec
CONSTANTS
    Sessions = {s1}
    Requests = {r1, r2}
    Calls = {c1, c2}
    None = None
    MaxHead = 2
    MaxEpoch = 1
    MaxBatch = 1
    Tenants = {t1, t2}
    EdgeSessions = {e1, e2}
    Kids = {k1, k2}
    Callers = {a1, a2}
    MinRefresh = 2
    MaxSessions = 3
    MaxTick = 3
    TicksPerMs = 2
    PageSize = 1
    MaxPages = 4
    MaxEvents = 3
    Costly = {"a", "b"}
    MaxSeq = 4
    ForkPoints = {0, 2}
    MaxLegacy = 2
    DevSessions = {"a", "b"}
    MaxDevLog = 3
    TailBuffer = 1
    OutBuffer = 1
    Settings <- MCSettings
    MaxSettings = 2
    Subcommands = {"run", "fork", "audit", "approve"}
    MaxFrames = 3
    Handlers = {h1, h2, h3}
    Protocols = {"grpc", "http"}
    Migrators = {p1, p2, p3}
    Latest = 3
    MaxLosses = 2
INVARIANTS
    ReadsCohere
    VerdictIsRight
    DevStoreIsALog
    CommandIsCarriedOut
    ClosedAfterDrain
    SchemaIsVersion
PROPERTIES
    AppendReturns
    AnswersHold
    KeysAreKeptFresh
CHECK_DEADLOCK FALSE
