SPECIFICATION FairSpec
CONSTANTS
    pRoot = pRoot  pApp = pApp  pVendor = pVendor  pLib = pLib  pOther = pOther
    app = app  root = root  vendor = vendor
    Path <- MCPath
    Label <- MCLabel
    Base <- MCBase
    Joined <- MCJoined
    SkippedNames <- MCSkippedNames
    Above <- MCAbove
    WalkOrder <- MCWalkOrder
    Folders <- MCFolders
    Depth = 3
    UserFile <- MCUserFile
    NewRepository <- MCNewRepository
    Unnamed = Unnamed
    MaxRequests = 2
    MaxEdits = 1
    MaxMishaps = 1
INVARIANTS
    TypeOK
    NamesUnique
    SettledAgrees
    FileKeepsRequests
    ServesProjects
PROPERTIES
    EditsTakeEffect
CHECK_DEADLOCK FALSE
