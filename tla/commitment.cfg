SPECIFICATION Spec
CONSTANTS
    q = 3
    N = 2
    C = 2
    Rand <- MCRand
    Hashes <- MCHashes
    MaxBallots = 2
INVARIANTS
    TypeOK
    HonestBallotAccepted
    ResultIsCount
