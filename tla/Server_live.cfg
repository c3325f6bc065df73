\* One contestant with two connections: who may wait for whom needs no second
\* user, since a lock of a user is only ever taken after that of the list.
CONSTANTS
    Names = {n1}
    Conns = {c1, c2}
    Tasks = {t1}
    Null = Null
    Capacity = 1
    LargeSources = TRUE
    MaxSubmits = 2
    MaxPasses = 1
    MaxQuits = 0
SPECIFICATION FairSpec
PROPERTIES Served SendAgain
CHECK_DEADLOCK FALSE
