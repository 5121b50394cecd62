SPECIFICATION Spec
CONSTANTS
    File = {f, g}
    Content = {c, d}
    None = None
    Torn = Torn
    MaxEdits = 0
    MaxStops = 1
    MaxFailures = 0
SYMMETRY Symmetric
CHECK_DEADLOCK FALSE
INVARIANT ScanStoresEverything
