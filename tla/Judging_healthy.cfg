\* What makes a problem healthy: violated by the first save of any solution.
CONSTANTS
    Solutions = {s1}
    Clients = {c1}
    Workers = {w1}
    MaxTests = 1
    InitialTests = 1
    MaxSends = 1
    MaxCrashes = 0
    RunAllTests = {}
SPECIFICATION Spec
PROPERTY HealthyMeansPassed
CHECK_DEADLOCK FALSE
