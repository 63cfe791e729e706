SPECIFICATION FairSpec
CONSTANTS
    Runners = {"r1", "r2"}
    Files <- MCFiles
    Checkouts <- BothCheckouts
    Commands <- AllCommands
    MaxCommands = 3
INVARIANTS
    TypeOK
    AppliedIsPrefix
    RecordMatchesTables
    DownRollsBackAtMostCount
PROPERTIES
    CommandsEnd
CHECK_DEADLOCK FALSE
