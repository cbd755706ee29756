SPECIFICATION ResetSpec
CONSTANTS
    b1 = b1  b2 = b2  g1 = g1  g2 = g2  a1 = a1
    Buckets = {b1, b2}
    None = None
    OldServer = FALSE
    Ram = 5
    MaxRounds = 2
    MaxTries = 2
    MaxPolls = 2
    Lose <- AnyRequest
    Refuse <- AnyRequest
    Late = TRUE
    QueryErrors = FALSE
    Gateways = {g1, g2}
    Accels = {a1}
    Configs <- MCConfigs
    Cpcs = {TRUE, FALSE}
    FailingSteps <- AnyStep
    MaxResets = 3
INVARIANT ResetRight
INVARIANT SafeOrder
INVARIANT NeverOverCommits
INVARIANT CalmResetSucceeds
SYMMETRY Alike
