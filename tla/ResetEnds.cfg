SPECIFICATION ResetFairSpec
CONSTANTS
    b1 = b1  b2 = b2  g1 = g1  g2 = g2  a1 = a1
    Buckets = {b1, b2}
    None = None
    OldServer = TRUE
    Ram = 5
    MaxRounds = 5
    MaxTries = 5
    MaxPolls = 5
    Lose <- AnyRequest
    Refuse = {"delete", "adduser"}
    Late = FALSE
    QueryErrors = FALSE
    Gateways = {g1}
    Accels = {a1}
    Configs <- MCConfigs
    Cpcs = {TRUE}
    FailingSteps <- AnyStep
    MaxResets = 1
PROPERTY ResetEnds
