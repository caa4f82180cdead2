\* Every pair of derivations.
CONSTANTS
    Fixed <- MCFixed
    Salts <- MCFixed
    Text <- MCText
    Epoch <- MCEpoch
    Keys = {k1, k2}
    MaxDerived = 2
SPECIFICATION Spec
INVARIANT ValuesBindInputs
CHECK_DEADLOCK FALSE
