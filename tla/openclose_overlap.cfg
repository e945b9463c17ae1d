SPECIFICATION Spec
CONSTANTS
    Tellers = {t1}
    Esp = esp
    Calls = {c1, c2}
    MaxFaults = 2
SYMMETRY Symmetry
INVARIANTS
    TypeOK
    OpenedEverywhere
    NoneClosedBeforeAllOpened
