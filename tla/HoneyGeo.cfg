SPECIFICATION Spec
CONSTANTS
    Ids = {"r1", "r3"}
    RequestOf <- MCRequestOf
    PathThreats <- MCPathThreats
    MethodThreats <- MCMethodThreats
    BodyThreats <- MCBodyThreats
    SensitiveKeys = {"password", "token"}
    SkipPaths = {}
    ValidIps = {"exit", "visitor"}
    LocalIps = {"0.0.0.0"}
    AgentsOf <- MCAgentsOf
    AsnDataOf <- MCAsnDataOf
    ASN_REGISTRY <- MCRegistry
    ORG_PATTERNS <- MCOrgPatterns
    RateLimits = {"low"}
    TorLists = {{"exit"}}
    Fetches = {"f1"}
PROPERTIES
    LoadedLayersAreUsed
CHECK_DEADLOCK FALSE
