SPECIFICATION Spec
CONSTANTS
    Ballots = {b1}
    N = 3
    Routes <- Mixed
    Files <- WholeFile
    Finals = {f1}
    MaxFaults = 0
PROPERTIES
    HonestResultsKept
