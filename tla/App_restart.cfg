SPECIFICATION Spec
CONSTANTS
    Project = {p}
    Configured = {p}
    AllProjects = AllProjects
    Startup = Startup
    Handler = Handler
    Callback = Callback
    NoThread = NoThread
    NoJob = NoJob
    NoProject = NoProject
    MaxJobs = 2
    MaxStops = 2
    MaxEdits = 0
    MaxFailures = 1
    MaxLostSaves = 1
INVARIANTS
    IInv
    ProjectJobDelivers
PROPERTIES
    ImplementsJobSlot
    RemovedStaysRemoved
