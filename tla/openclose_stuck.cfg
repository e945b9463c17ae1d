SPECIFICATION FairSpec
CONSTANTS
    Tellers = {t1}
    Esp = esp
    Calls = {c1, c2}
    MaxFaults = 0
PROPERTIES
    RetryCompletes
