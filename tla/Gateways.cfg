SPECIFICATION GatewaySpec
CONSTANTS
  GatewayList <- MCGatewayList
  DbList <- MCDbList
  Accels = {"a1"}
  Versions = {200, 300}
  FlagSets <- MCFlagSets
  CbsVersions = {450, 550}
  PushConfigs <- MCPushConfigs
  MaxOps = 2
  MaxFaults = 1
INVARIANT FilesRight
INVARIANT RunsItsFile
INVARIANT UpgradeInOrder
INVARIANT PushRight
INVARIANT Provisioned
PROPERTY NewFileRuns
CHECK_DEADLOCK FALSE
