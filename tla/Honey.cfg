SPECIFICATION FairSpec
CONSTANTS
    Ids = {"r1", "r2", "r3"}
    RequestOf <- MCRequestOf
    PathThreats <- MCPathThreats
    MethodThreats <- MCMethodThreats
    BodyThreats <- MCBodyThreats
    SensitiveKeys = {"password", "token"}
    SkipPaths = {"/health"}
    ValidIps = {"exit", "visitor"}
    LocalIps = {"0.0.0.0"}
    AgentsOf <- MCAgentsOf
    AsnDataOf <- MCAsnDataOf
    ASN_REGISTRY <- MCRegistry
    ORG_PATTERNS <- MCOrgPatterns
    RateLimits = {"medium"}
    TorLists = {{"exit"}, {"other"}}
    Fetches = {"f1", "f2"}
INVARIANTS
    TypeOK
    LevelCoversSignals
    EveryMatchIsSignalled
    LoggedAtMostOnce
    NoSecretIsStored
    SpoofedMeansPreloaded
PROPERTIES
    TorListStaysWhole
    FinishedIsSettled
CHECK_DEADLOCK FALSE
