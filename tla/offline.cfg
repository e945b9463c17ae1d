SPECIFICATION Spec
CONSTANTS
    CR = cr
    LF = lf
    X = x
    Texts <- ShortTexts
    ChunkSize = 2
    W = 3
    Parsable <- MCParsable
    Honest <- MCHonest
    Claims <- MCClaims
    MaxDeaths = 1
INVARIANTS
    TypeOK
    
    SuccessIsWhole
    HandedOutOnce
PROPERTIES
    RunsEnd
    
