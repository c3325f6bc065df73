\* Two contestants, one connection each or two for one; a source is larger than
\* what a connection holds, so a client may block inside its Send.
CONSTANTS
    Names = {n1, n2}
    Conns = {c1, c2}
    Tasks = {t1}
    Null = Null
    Capacity = 1
    LargeSources = TRUE
    MaxSubmits = 2
    MaxPasses = 1
    MaxQuits = 1
SPECIFICATION Spec
INVARIANTS TypeOK NoUseAfterDelete ScoreTrue RowsWhole BoardSorted
SYMMETRY Symmetry
CHECK_DEADLOCK FALSE
