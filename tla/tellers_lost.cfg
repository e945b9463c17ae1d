SPECIFICATION FairSpec
CONSTANTS
    Tellers = {t1, t2}
    Calls = {c1}
    None = None
    MaxFaults = 1
PROPERTIES
    UnavailableIsTemporary
