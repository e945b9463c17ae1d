SPECIFICATION FairSpec
CONSTANTS
    Ballots = {b1, b2}
    N = 2
    Routes <- Mixed
    Files <- AnyFile
    Finals = {f1, f2}
    MaxFaults = 1
INVARIANTS
    TypeOK
    PublishedIsWhole
PROPERTIES
    PublishedIsFinal
    EventuallyPublished
