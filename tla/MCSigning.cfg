CONSTANTS
    q1 = q1
    q2 = q2
    gui = gui
    gui2 = gui2
    bat = bat
    NoProc = NoProc
    Procs = {gui, bat}
    Batch = {bat}
    Qsos = {q1, q2}
    Jobs <- MCJobs
    MaxJobs = 2
    MaxTries = 1
    MaxGen = 0
    DbMayFail = FALSE
SPECIFICATION Spec
INVARIANTS
    TypeOK
    RecordedWasDelivered
    DupCheckFresh
    NoSharedClaim
    SuccessIsRecorded
    SavedMeansAllSigned
PROPERTIES
    OnlyWholeJobsRecorded
    ImplementsLedger
CHECK_DEADLOCK FALSE
