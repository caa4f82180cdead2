\* One whole restart by a script, and crashes and failed fetches at any time.
CONSTANTS
    Attempts = 2
    Crashable = {"sac", "ledger", "a", "b"}
    MaxFaults = 2
SPECIFICATION FairSpec
INVARIANTS TypeOK RestartLeavesAgreement
PROPERTIES OutageRecovers EventuallyReady
CHECK_DEADLOCK FALSE
