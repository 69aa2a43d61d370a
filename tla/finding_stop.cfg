SPECIFICATION Spec
CONSTANTS
    Jobs = {j1}
    SeededJobs = {}
    Workers = {w1}
    Msgs = {m1, m2}
    Retriers = {}
    j1 = j1
    w1 = w1
    m1 = m1
    m2 = m2
    BridgeBatch = 10
    MaxJobRetries = 2
    NoJob = NoJob
    NoMsg = NoMsg
    Env = {"stop"}
INVARIANT StoppedLeavesNoneProcessing
CHECK_DEADLOCK FALSE
