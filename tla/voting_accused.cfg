SPECIFICATION Spec
CONSTANTS
    Voters = {v1}
    N = 2
    MaxAttempts = 1
    TryLimit = 1
    MaxFaults = 0
INVARIANTS
    HonestEspNotAccused
CHECK_DEADLOCK FALSE
