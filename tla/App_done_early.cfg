SPECIFICATION Spec
CONSTANTS
    Project = {p, q}
    Configured = {p}
    AllProjects = AllProjects
    Startup = Startup
    Handler = Handler
    Callback = Callback
    NoThread = NoThread
    NoJob = NoJob
    NoProject = NoProject
    MaxJobs = 2
    MaxStops = 0
    MaxEdits = 0
    MaxFailures = 0
    MaxLostSaves = 0
INVARIANT DoneJobIsFinished
