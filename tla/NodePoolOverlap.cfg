SPECIFICATION HistorySpec
CONSTANTS
    n1 = n1  n2 = n2  d1 = d1  j1 = j1  j2 = j2  j3 = j3  c1 = c1
    Empty = Empty  None = None
    Nodes <- MCNodes
    NodeInfo <- MCNodeInfo
    Jobs = {j1, j2}
    JobName <- MCJobName
    Request <- MCTwoVms
    Cleaners = {c1}
    MobileOS = {"android", "ios"}
    MobileVersion = "7"
    BuildNames <- MCBuildNames
    MaxRetry = 1
    Errors = FALSE
    Overlap = TRUE
INVARIANT TypeOK
INVARIANT HandsRight
INVARIANT HeldAlone
PROPERTY SawFreeTookFree
CHECK_DEADLOCK FALSE
