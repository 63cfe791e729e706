SPECIFICATION Spec
CONSTANTS
    Runners = {"r1"}
    Files <- MCFiles
    Checkouts <- CurrentOnly
    Commands <- CountZero
    MaxCommands = 2
INVARIANTS
    DownRollsBackAtMostCount
CHECK_DEADLOCK FALSE
