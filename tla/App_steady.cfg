SPECIFICATION Spec
CONSTANTS
    Project = {p, q}
    Configured = {p, q}
    AllProjects = AllProjects
    Startup = Startup
    Handler = Handler
    Callback = Callback
    NoThread = NoThread
    NoJob = NoJob
    NoProject = NoProject
    MaxJobs = 2
    MaxStops = 0
    MaxEdits = 1
    MaxFailures = 1
    MaxLostSaves = 0
SYMMETRY Symmetry
INVARIANTS
    TypeOK
    OneActiveJob
    RunningJobIsReported
    RunningIsBacked
    JobDelivers
    WatcherCoversProjects
PROPERTY
    RemovedStaysRemoved
