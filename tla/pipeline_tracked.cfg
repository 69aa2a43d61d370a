SPECIFICATION Spec
CONSTANTS
    Jobs = {j1, j2}
    SeededJobs = {}
    Workers = {w1, w2}
    Msgs = {m1, m2, m3, m4}
    Retriers = {}
    j1 = j1
    j2 = j2
    w1 = w1
    w2 = w2
    m1 = m1
    m2 = m2
    m3 = m3
    m4 = m4
    BridgeBatch = 10
    MaxJobRetries = 2
    NoJob = NoJob
    NoMsg = NoMsg
    Env = {"cancel", "cleanup", "encerr", "puberr", "connloss", "midcopy"}
SYMMETRY Symmetry
INVARIANT TypeInv
INVARIANT RowConsistent
INVARIANT PendingIsTracked
CHECK_DEADLOCK FALSE
