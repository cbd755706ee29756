SPECIFICATION AppSpec
CONSTANTS
    Kinds <- AllWays
    Versions = {"v1", "v2"}
    MaxJobs = 2
INVARIANTS
    RunsAsked
    StopLeavesNothing
    InstallReplaces
CHECK_DEADLOCK FALSE
