\* Two solutions are enough: a failure and then a success.
CONSTANTS
    ann = ann
    bob = bob
    pa = pa
    pb = pb
    Users = {ann, bob}
    Admins = {bob}
    Problems = {pa, pb}
    Name <- MCName
    Contests <- MCContests
    FirstContest <- MCFirst
    Penalty = 2
    IntMax = 6
    MaxTime = 4
    MaxSolutions = 2
    MaxEdits = 0
SPECIFICATION Spec
INVARIANTS FirstAcceptedCounts
CHECK_DEADLOCK FALSE
