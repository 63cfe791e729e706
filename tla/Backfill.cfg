SPECIFICATION Spec
CONSTANTS
    r1 = r1
    r2 = r2
    Lines <- MCLines
    At <- MCAt
    Parseable = {"l1", "l2", "l3", "l4", "l5", "l6"}
    RequestOf <- MCRequestOf
    LoggedAgent <- MCLoggedAgent
    PathThreats <- MCPathThreats
    MethodThreats <- MCMethodThreats
    BodyThreats <- MCBodyThreats
    AgentsOf <- MCAgentsOf
    LocalIps = {"local"}
    AsnDataOf <- MCAsnDataOf
    ASN_REGISTRY <- MCRegistry
    ORG_PATTERNS <- MCOrgPatterns
    RealAt = {1, 7}
    Now = 11
    Windows <- MCWindows
    BatchSize = 2
    Runs = {r1, r2}
    MaxRuns = 4
SYMMETRY Processes
INVARIANTS
    BackfilledLikeLive
PROPERTIES
    NoLineTwice
    DoneMeansComplete
CHECK_DEADLOCK FALSE
