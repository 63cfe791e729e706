SPECIFICATION ToolsSpec
CONSTANTS
    AttackPaths = {"/.env", "/wp"}
    SubnetOf <- MCSubnetOf
    NoAsn = "null"
    ToolUas = {}
    MinClusterIps = 2
    Confidence <- MCConfidence
    Pool <- MCPool
    CorpusStart = 1
    CorpusEnd = 4
    MinedAsn = "AS1"
    MinExpectedIps = 2
    FoundNow = {1, 2, 3, 4, 5, 6, 7, 8}
    MaxReplays = 2
    WINDOW_MS = 2
    MIN_IPS = 2
    PATH_THREATS <- MCPathThreats
    maxOR <- MCMaxOR
INVARIANTS
    ReplaysAgreeOnCluster
    TuningScoresWhatTheStrategySees
CHECK_DEADLOCK FALSE
