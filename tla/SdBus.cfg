\* Two servers and two clients, started in any order; one failure.
CONSTANTS
    s1 = s1
    s2 = s2
    c1 = c1
    c2 = c2
    Servers = {s1, s2}
    Clients = {c1, c2}
    Values <- Arguments
    Half = 128
    MaxFaults = 1
SPECIFICATION FairSpec
INVARIANTS
    TypeOK
    ResultIsTheProduct
    FoundMeansServed
PROPERTY EveryClientEnds
\* The clients end, and the servers then wait.
CHECK_DEADLOCK FALSE
