SPECIFICATION FairSpec
CONSTANTS
    Workers = {w1}
    Readers = {r1}
    MaxJobs = 1
    w1 = w1
    r1 = r1
PROPERTY StopReturns
CHECK_DEADLOCK FALSE
