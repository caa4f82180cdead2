\* The default mode, with simulated finality, fairness and a restart.
CONSTANTS
    Sessions = {s1, s2}
    Jobs = {j1, j2, j3}
    Workers = {w1, w2}
    LedgerMode = "simulated"
    MaxRestarts = 1
    None = None
SPECIFICATION FairSpec
INVARIANT SimulatedCommitsOnce
PROPERTY SimulatedConfirms
CHECK_DEADLOCK FALSE
