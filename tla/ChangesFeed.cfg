SPECIFICATION FairSpec
CONSTANTS
    d1 = d1  d2 = d2  p1 = p1  t1 = t1  t2 = t2  w1 = w1  w2 = w2
    None = None
    Docs = {d1, p1}
    Principals = {p1}
    Branches = {"a", "b"}
    MaxSeq = 3
    Runs = {t1}
    Waiters = {w1}
    Prefix <- MCPrefix
    Conflicts = TRUE
    Resend = TRUE
    Faults = TRUE
    Deadlines = TRUE
INVARIANT NothingMissed
INVARIANT WaitSound
INVARIANT RecordedRight
PROPERTY FeedEnds
