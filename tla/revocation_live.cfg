\* Two concurrent revocations of one session, live mode, fairness, a restart.
CONSTANTS
    Sessions = {s1}
    Requests = {1, 2}
    Jobs = {1, 2, 3}
    Workers = {w1}
    LedgerMode = "iota"
    MaxRestarts = 1
    None = None
SPECIFICATION MCFairSpec
PROPERTIES RevocationTakesEffect JobsSettle
CHECK_DEADLOCK FALSE
