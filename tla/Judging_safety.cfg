\* One solution, three messages: submit, and two resubmits that race with the
\* slaves; one of two tests can be created, each can be deleted; one crash.
CONSTANTS
    Solutions = {s1}
    Clients = {c1, c2}
    Workers = {w1, w2}
    MaxTests = 2
    InitialTests = 1
    MaxSends = 3
    MaxCrashes = 1
    RunAllTests = {}
SYMMETRY Symmetry
SPECIFICATION Spec
INVARIANTS TypeOK    
 
CHECK_DEADLOCK FALSE
