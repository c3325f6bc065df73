\* The pair: two calls of busy solutions in one JVM, which share children,
\* inherit each other's pipes and write more than the pipes hold.
CONSTANTS
    Lone = c1
    Calls = {c1, c2}
    PipeSize = 1
    ReadSize = 1
    OutLimit = 1
    CpuMsec = 1000
    MaxOut = 3
    MaxErr = 0
    ExitCodes = {0}
    MayCrash = FALSE
    MaySleep = FALSE
    ForkMayFail = TRUE
SPECIFICATION CallsSpec
INVARIANTS CallsTyped LoneVerdictTrue CallsOutputWhole CallsNoChildLeft
PROPERTY PairReturnsUnlessStuck
CHECK_DEADLOCK FALSE
