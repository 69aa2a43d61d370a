SPECIFICATION FairSpec
CONSTANTS
    Jobs = {j1, j2}
    SeededJobs = {j1}
    Workers = {w1, w2}
    Msgs = {m1, m2, m3}
    Retriers = {}
    j1 = j1
    j2 = j2
    w1 = w1
    w2 = w2
    m1 = m1
    m2 = m2
    m3 = m3
    BridgeBatch = 10
    MaxJobRetries = 2
    NoJob = NoJob
    NoMsg = NoMsg
    Env = {"bridge", "encerr"}
INVARIANT ProcessingIsExecuted
PROPERTY JobSettles
PROPERTY QueueDrains
CHECK_DEADLOCK FALSE
