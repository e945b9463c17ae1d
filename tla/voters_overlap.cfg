SPECIFICATION FairSpec
CONSTANTS
    v1 = v1
    v2 = v2
    v3 = v3
    Voters = {v1, v2, v3}
    MaxRid = 3
    Batches <- MCBatches
    Calls = {c1, c2}
    PageSize = 2
    Loads = {"reg", "load"}
    MaxFaults = 1
INVARIANTS
    TypeOK
    VoterCountExact
PROPERTIES
    VotersStayAfterFreeze
    SignedListIsWhole
    DumpIsWhole
    CountToldIsFinal
    EveryCallEnds
