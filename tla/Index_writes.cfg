SPECIFICATION Spec
CONSTANTS
    File = {f, g}
    Content = {c, d}
    None = None
    Torn = Torn
    MaxEdits = 3
    MaxStops = 2
    MaxFailures = 1
SYMMETRY Symmetric
CHECK_DEADLOCK FALSE
INVARIANTS
    TypeOK
    IInv
    OneContentPerFile
    RebuildHeals
    ScanDelivers
    SymbolsMatchChunks
PROPERTY ImplementsSearchIndex
