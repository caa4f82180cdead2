\* One session, no restart: a lost confirmation response is enough.
CONSTANTS
    Sessions = {s1}
    Actions = {read}
    Policy = {read}
    MaxRestarts = 0
    None = None
SPECIFICATION Spec
INVARIANT UsableOnlyIfConfirmedAtA
CHECK_DEADLOCK FALSE
