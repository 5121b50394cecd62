SPECIFICATION FairSpec
CONSTANTS
    s1 = s1  n1 = n1  c1 = c1  c2 = c2
    Session <- MCSession
    Note <- MCNote
    Content <- MCContent
    None = None
    Torn = Torn
    Sync = Sync
    Ticker = Ticker
    Rebuilder = Rebuilder
    First = c1
    MaxEdits = 1
    MaxReloads = 1
    MaxMishaps = 1
INVARIANTS
    TypeOK
    HashHasChunk
    OneContentPerPath
    NoteSurvives
    MemoryMatchesFiles
PROPERTIES
    SessionsCatchUp
    ReloadEnds
CHECK_DEADLOCK FALSE
