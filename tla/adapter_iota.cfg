\* Live mode, two workers of each kind, a container restart.
CONSTANTS
    Sessions = {s1, s2}
    Jobs = {j1, j2, j3, j4}
    Workers = {w1, w2}
    LedgerMode = "iota"
    MaxRestarts = 1
    None = None
SPECIFICATION Spec
SYMMETRY Symmetry
INVARIANTS TypeOK JobsOwned OneLiveCommitment RevocationsAnchored ConfirmedIsFinal
PROPERTY SettledForGood
CHECK_DEADLOCK FALSE
