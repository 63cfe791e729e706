SPECIFICATION Spec
CONSTANTS
    Identifiers = {"burst", "cluster"}
    Ips = {"ip1", "ip2"}
    Times = {1, 2, 3}
    Confidences = {1, 2, 3}
    Figures <- MCFigures
    KeyOrders = {"asWritten", "asSorted"}
    JsonbOrder = "asSorted"
    StoredForm <- MCStoredForm
    Candidates <- MCCandidates
    MaxFires = 4
INVARIANTS
    TypeOK
    OneOpenRowPerKey
    HistoryFollowsEvidence
PROPERTIES
    EpisodesOnlyWiden
    ImplementsContract
CHECK_DEADLOCK FALSE
