SPECIFICATION UsersSpec
CONSTANTS
    u1 = u1  u2 = u2  d1 = d1  d2 = d2  d3 = d3
    Users = {u1, u2}
    DocsOf <- MCDocsOf
    Fin = Fin
    NumRevs = {2}
    TrackedRevs = {1}
    MaxCalls = 3
    MaxFaults = 1
INVARIANT CallsTrue
INVARIANT VerifiersTrue
PROPERTY TrackedAll
CHECK_DEADLOCK FALSE
