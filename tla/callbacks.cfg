SPECIFICATION CallbackSpec
CONSTANTS
    Jobs = {j1}
    SeededJobs = {}
    Workers = {w1, w2}
    Msgs = {m1, m2}
    Retriers = {}
    j1 = j1
    w1 = w1
    w2 = w2
    m1 = m1
    m2 = m2
    BridgeBatch = 10
    MaxJobRetries = 2
    NoJob = NoJob
    NoMsg = NoMsg
    Env = {"cleanup", "dberr", "dblost", "connloss", "stop", "crash"}
    CallbackRetries = 3
    MaxCalls = 2
INVARIANT CallbackTypeOK
INVARIANT ToldIsTrue
INVARIANT NoticesBounded
INVARIANT EndsAccountedFor
PROPERTY CallbackEnds
CHECK_DEADLOCK FALSE
