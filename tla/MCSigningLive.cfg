CONSTANTS
    q1 = q1
    q2 = q2
    gui = gui
    gui2 = gui2
    bat = bat
    NoProc = NoProc
    Procs = {gui, gui2}
    Batch = {}
    Qsos = {q1, q2}
    Jobs <- MCJobsLive
    MaxJobs = 2
    MaxTries = 1
    MaxGen = 0
    DbMayFail = FALSE
SPECIFICATION FairSpec
PROPERTIES
    EveryJobEnds
CHECK_DEADLOCK FALSE
