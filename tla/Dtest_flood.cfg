\* A solution that only writes, more than the pipe holds: nobody reads on.
CONSTANTS
    Calls = {c1}
    PipeSize = 1
    ReadSize = 1
    OutLimit = 2
    CpuMsec = 1000
    MaxOut = 4
    MaxErr = 0
    ExitCodes = {0}
    MayCrash = TRUE
    MaySleep = FALSE
    ForkMayFail = FALSE
SPECIFICATION FairSpec
PROPERTY CallsReturn
CHECK_DEADLOCK FALSE
