SPECIFICATION SerialFairSpec
CONSTANTS
    Tellers = {t1, t2}
    Esp = esp
    Calls = {c1, c2}
    MaxFaults = 2
INVARIANTS
    ServersAgree
    ClosedEverywhere
PROPERTIES
    StatesOnlyAdvance
    RetryCompletes
    ImplementsLifecycle
