\* One session, two concurrent revoke requests, live mode, a restart.
CONSTANTS
    Sessions = {s1}
    Requests = {r1, r2}
    Jobs = {j1, j2, j3}
    Workers = {w1}
    LedgerMode = "iota"
    MaxRestarts = 1
    None = None
SPECIFICATION Spec
SYMMETRY Symmetry
INVARIANTS TypeOK EnforcedOnlyIfConfirmed PostedIsAccepted GatewaysAgreeOnCommitment RecordedRevocationAccepted
PROPERTY ImplementsLifecycle
CHECK_DEADLOCK FALSE
