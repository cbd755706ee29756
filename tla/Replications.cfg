SPECIFICATION ReplSpec
CONSTANTS
    Ids = {i1}
    MaxTimes = 7
    RetryMax = 2
    MaxTries = 2
    MaxDocs = 1
    MaxCalls = 3
    MaxFaults = 1
INVARIANT GivesUpLate
INVARIANT ReturnMeansDone
INVARIANT CalmSucceeds
PROPERTY CallsEnd
CHECK_DEADLOCK FALSE
