\* The documented default of the live backend: LEDGER_WORKER_COUNT=1.
CONSTANTS
    Sessions = {s1, s2}
    Jobs = {j1, j2, j3}
    Workers = {w1}
    LedgerMode = "iota"
    MaxRestarts = 0
    None = None
SPECIFICATION Spec
INVARIANT OneSubmissionAtATime
CHECK_DEADLOCK FALSE
