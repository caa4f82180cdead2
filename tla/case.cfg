\* One benchmark case, with the timeouts and deadlines of the client, while the
\* adapter may restart once.
CONSTANTS
    Sessions = {a, b}
    session_a = a
    session_b = b
    Requests = {r1}
    Jobs = {1, 2, 3}
    Workers = {w1}
    LedgerMode = "simulated"
    MaxRestarts = 1
    None = None
SPECIFICATION MCFairSpec
INVARIANTS CaseTypeOK CaseTruthful RejectedAfterConfirmed RevokedOnlyOnRequest
PROPERTY CaseEnds
CHECK_DEADLOCK FALSE
