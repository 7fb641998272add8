\* Two clients whose calls overlap: the race on `argument', over two batches.
CONSTANTS
    c1 = c1
    c2 = c2
    Clients = {c1, c2}
    Functions = {"OPEN", "WRITE"}
    BatchSize = 2
    Slots = 3
    Descriptors = {4, 5, 6}
    MaxConns = 3
    MaxFaults = 0
    MaxAbandons = 0
SPECIFICATION FairSpec
INVARIANTS
    RaceConfinedToBatch
    LastOfBatchServesItself
PROPERTY BarrierOpens
\* The clients stop when they have made MaxConns calls; the server may abort.
CHECK_DEADLOCK FALSE
