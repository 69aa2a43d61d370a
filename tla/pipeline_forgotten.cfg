SPECIFICATION Spec
CONSTANTS
    Jobs = {j1}
    SeededJobs = {}
    Workers = {w1, w2}
    Msgs = {m1, m2, m3, m4}
    Retriers = {c1}
    j1 = j1
    w1 = w1
    w2 = w2
    m1 = m1
    m2 = m2
    m3 = m3
    m4 = m4
    c1 = c1
    BridgeBatch = 10
    MaxJobRetries = 2
    NoJob = NoJob
    NoMsg = NoMsg
    Env = {"cancel", "cleanup", "retry", "ttl", "dberr", "encerr", "stop"}
SYMMETRY Symmetry
INVARIANT PendingNotForgotten
CHECK_DEADLOCK FALSE
