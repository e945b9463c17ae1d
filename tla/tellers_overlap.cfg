SPECIFICATION Spec
CONSTANTS
    Tellers = {t1, t2}
    Calls = {c1, c2, c3}
    None = none
    MaxFaults = 1
INVARIANTS
    TypeOK
    ListedTellersHoldElection
    SignedTellersAreListed
PROPERTIES
    SignaturesAreFinal
    SignedTellersAreAll
