CONSTANTS
    Docs = {d1, d2}
    MaxTimes = 3
    MaxIdle = 2
    StopTimes = 1
    YieldTimes = 2
    Quiet = 1
SPECIFICATION Spec
INVARIANTS IdleMeansDone EndsTrue
PROPERTY CallsEnd
