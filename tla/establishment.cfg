\* Two concurrent sessions, one asking for an action the policy denies or both for the
\* one it allows, a restart of every service, Gateway A's event loop fair.
CONSTANTS
    Sessions = {s1, s2}
    Actions = {read, reset}
    Policy = {read}
    MaxRestarts = 1
    None = None
SPECIFICATION FairSpec
INVARIANTS TypeOK KeyConfirmed Agreement SingleUse
PROPERTY RequestsEnd ImplementsSetup
CHECK_DEADLOCK FALSE
