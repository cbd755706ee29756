SPECIFICATION ServerSpec
CONSTANTS
    n1 = n1  n2 = n2  n3 = n3
    Nodes = {n1, n2, n3}
    Primary = n1
    MaxTries = 2
    MaxOps = 5
    MaxFaults = 1
INVARIANT FitSucceeds
INVARIANT RebalanceTrue
PROPERTY CallEnds
CHECK_DEADLOCK FALSE
