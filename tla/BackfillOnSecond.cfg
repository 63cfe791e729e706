SPECIFICATION Spec
CONSTANTS
    Lines <- MCLines
    At <- MCAt
    Parseable = {"l1", "l2", "l3", "l4", "l5", "l6"}
    RequestOf <- MCRequestOf
    LoggedAgent <- MCLoggedAgent
    PathThreats <- MCPathThreats
    MethodThreats <- MCMethodThreats
    BodyThreats <- MCBodyThreats
    AgentsOf <- MCAgentsOf
    LocalIps = {"local"}
    AsnDataOf <- MCAsnDataOf
    ASN_REGISTRY <- MCRegistry
    ORG_PATTERNS <- MCOrgPatterns
    RealAt = {1, 7}
    Now = 11
    Windows <- OnSeconds
    BatchSize = 2
    Runs = {"r1"}
    MaxRuns = 2
PROPERTIES
    OccupiedWindowsRefused
CHECK_DEADLOCK FALSE
