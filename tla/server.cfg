SPECIFICATION ServerSpec
CONSTANTS
    Workers = {w1, w2}
    Readers = {r1}
    MaxJobs = 1
    w1 = w1
    w2 = w2
    r1 = r1
INVARIANT ServerTypeOK
INVARIANT ReturnedMeansCancelled
INVARIANT MetricsAddUp
INVARIANT MetricsNotAhead
INVARIANT GracefulMeansDrained
INVARIANT RequestsMeetNoStop
PROPERTY ProcessExits
PROPERTY RequestsAnswered
CHECK_DEADLOCK FALSE
