SPECIFICATION WeekSpec
CONSTANTS
    c1 = c1
    c2 = c2
    Connections = {c1, c2}
    FirstRows = 2
    MaxId = 4
    MaxMinute = 1
    SinceIds = {0, 3}
    MayDie = TRUE
    RequestOf <- MCRequestOf
    AllPath <- MCAllPath
    AllBody <- MCAllBody
    AllMethod <- MCAllMethod
    MaxAdded = 1
    FirstPatterns <- MCFirst
    StoredText <- MCStoredText
    LegitRoutes <- MCLegitRoutes
    Subnet24 <- MCSubnet24
    MinRequests = 2
    MinIpPaths = 2
    MinSubnetIps = 2
    MinSubnetPaths = 3
    MinAsnIps = 2
    MinAsnPaths = 2
    Severities = {"low"}
SYMMETRY Writers
INVARIANTS
    NothingSkipped
    NothingIsHidden
    ValidationForetells
    ClustersCountTheirRows
CHECK_DEADLOCK FALSE
