\* Two contestants, one of them an administrator of the system, two problems,
\* three solutions, one edit of the contest.
CONSTANTS
    ann = ann
    bob = bob
    pa = pa
    pb = pb
    Users = {ann, bob}
    Admins = {bob}
    Problems = {pa, pb}
    Name <- MCName
    Contests <- MCContests
    FirstContest <- MCFirst
    Penalty = 2
    IntMax = 6
    MaxTime = 4
    MaxSolutions = 3
    MaxEdits = 1
SPECIFICATION Spec
SYMMETRY Symmetry
INVARIANTS TypeOK LiveUntilFrozen
PROPERTIES FreezeHides SolvedStays FailureNeverHelps OnlyVerdictsCount
CHECK_DEADLOCK FALSE
