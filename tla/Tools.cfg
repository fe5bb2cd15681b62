SPECIFICATION ToolsSpec
CONSTANTS
    Runs = {r1, r2}
    Calls <- MCCalls
    Keys = {k1}
    NoCall = NoCall
    BoxSessions = {"a"}
    MaxBoxCalls = 3
    MaxLive = 1
    MaxCrashes = 1
    MaxBoxFaults = 1
    MaxLookups = 2
    NativeTools = {"read"}
    Listings = {{"read"}, {"docs", "bad"}}
    Malformed = {"bad"}
    VersionPin = "pinned"
    MaxUpsets = 1
    Hosts <- MCHosts
    AllowLists <- MCLists
    DefaultHosts <- MCDefault
    SearchHost <- MCSearch
    WebSessions = {"a", "b"}
    MaxFetches = 2
    MaxRedirects = 2
    MaxChanges = 1
    MemTenants = {"t"}
    MemKeys = {"m1", "m2"}
    Texts <- MCTexts
    Queries <- MCQueries
    MemTags = {"x", "y"}
    MaxWrites = 3
    SearchLimit = 2
    FileTexts <- MCFileTexts
    MaxToolRuns = 3
    MaxText = 12
INVARIANTS
    ContactsAreCleared
    
    
PROPERTIES
    ImplementsToolService
    LedgerKeepsItsWord
    SandboxesAreKept
    ExchangesEnd
    CatalogIsOneAnswer
CHECK_DEADLOCK FALSE
