SPECIFICATION FairSpec
CONSTANTS
    Project = {p}
    Configured = {p}
    AllProjects = AllProjects
    Startup = Startup
    Handler = Handler
    Callback = Callback
    NoThread = NoThread
    NoJob = NoJob
    NoProject = NoProject
    MaxJobs = 1
    MaxStops = 1
    MaxEdits = 0
    MaxFailures = 1
    MaxLostSaves = 0
PROPERTIES
    JobsEnd
    StartupEnds
    ShutdownEnds
