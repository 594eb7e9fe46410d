CONSTANTS
    q1 = q1
    q2 = q2
    gui = gui
    gui2 = gui2
    bat = bat
    NoProc = NoProc
    Procs = {gui, bat}
    Batch = {bat}
    Qsos = {q1, q2}
    Jobs <- MCJobsDbFails
    MaxJobs = 2
    MaxTries = 1
    MaxGen = 1
    DbMayFail = TRUE
SPECIFICATION Spec
INVARIANTS
    SigningInv
CHECK_DEADLOCK FALSE
