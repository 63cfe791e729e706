SPECIFICATION InstallSpec
CONSTANTS
    Runners = {"r1"}
    Files <- MCFiles
    Checkouts <- MCCheckouts
    Commands <- MCCommands
    MaxCommands = 1
    Installed = "001"
INVARIANTS
    ReadmeInstallApplies
CHECK_DEADLOCK FALSE
