SPECIFICATION FairSpec
CONSTANTS
    Voters = {v1}
    N = 2
    MaxAttempts = 2
    TryLimit = 2
    MaxFaults = 1
INVARIANTS
    TypeOK
    AcceptedSharesStored
    ReceiptsAreOfAccepted
    HonestEspNotAccused
    NoTellerHoldsAllShares
PROPERTIES
    ImplementsBallotBox
    AttemptEnds
CHECK_DEADLOCK FALSE
