SPECIFICATION Spec
CONSTANTS
    Project = {p, q}
    Configured = {p}
    AllProjects = AllProjects
    Startup = Startup
    Handler = Handler
    Callback = Callback
    NoThread = NoThread
    NoJob = NoJob
    NoProject = NoProject
    MaxJobs = 1
    MaxStops = 1
    MaxEdits = 0
    MaxFailures = 0
    MaxLostSaves = 0
INVARIANT RebuildIndexRebuildsEverything
