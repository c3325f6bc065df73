\* A call takes the status of the solution of another one.
CONSTANTS
    Calls = {c1, c2}
    PipeSize = 1
    ReadSize = 1
    OutLimit = 1
    CpuMsec = 1000
    MaxOut = 0
    MaxErr = 0
    ExitCodes = {0, 1}
    MayCrash = TRUE
    MaySleep = FALSE
    ForkMayFail = FALSE
SPECIFICATION Spec
INVARIANT PassedMeansSuccess
