SPECIFICATION FairSpec
CONSTANTS
    root = root  sub = sub  deep = deep  file = file
    Dir <- MCDir
    Root = root
    File <- MCFile
    Parent <- MCParent
    Above <- MCAbove
    Free = Free
    MaxStarts = 2
    MaxChanges = 2
    MaxTimers = 1
    MaxMishaps = 1
INVARIANTS
    TypeOK
    NothingForgotten
    PendingHasTimer
    DirectoriesAreWatched
PROPERTIES
    ChangesAreReported
CHECK_DEADLOCK FALSE
