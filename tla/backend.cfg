\* One session, committed again and again, by two workers, a restart.
CONSTANTS
    Sessions = {s1}
    Jobs = {1, 2, 3}
    Workers = {w1, w2}
    MaxRestarts = 1
    None = None
    Polls = 2
SPECIFICATION MCFairSpec
INVARIANTS TypeOK DuplicatesOnlyAfterFailure
PROPERTIES ImplementsAdapter CommitmentsSettle
CHECK_DEADLOCK FALSE
