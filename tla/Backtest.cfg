SPECIFICATION FairSpec
CONSTANTS
    Identifiers = {}
    Ips = {"a", "b", "c", "v6"}
    Times = {0}
    Confidences = {0}
    Figures = {}
    KeyOrders = {"asWritten", "asSorted"}
    JsonbOrder = "asSorted"
    StoredForm <- MCStoredForm
    AttackPaths = {"/.env"}
    SubnetOf <- MCSubnetOf
    NoAsn = "null"
    ToolUas = {"tool"}
    MinClusterIps = 2
    Confidence <- MCConfidence
    Logs <- MCLogs
    FromArgs <- MCFromArgs
    ScanTo = 8
    WindowIn = 3
    StepIns = {2, 3}
    MinConfidence = 2
    SuppressFor = 4
    MaxRuns = 2
    MaxSetAside = 1
    Closable = {"subnet-fingerprint-overlap"}
INVARIANTS
    BurstsStandDown
    ClusterEvidenceIsItsOwn
    DominantClusterUnbeaten
    EveryRequestScanned
    CampaignsStayInScanRange
    ReportsAddUp
    OutputMatchesTable
    TrackerWouldAgree
PROPERTIES
    ScansEnd
CHECK_DEADLOCK FALSE
