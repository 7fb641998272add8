\* One client: calls never overlap.  Two batches of two.
CONSTANTS
    c1 = c1
    Clients = {c1}
    Functions = {"OPEN", "CLOSE", "WRITE", "OTHER"}
    BatchSize = 2
    Slots = 3
    Descriptors = {4, 5, 6}
    MaxConns = 4
    MaxFaults = 0
    MaxAbandons = 0
SPECIFICATION FairSpec
INVARIANTS
    ServedByItsThread
    RepliesReachTheirCaller
    NoUseAfterFree
    HandlesDenoteFiles
    NoOrphanedFile
PROPERTIES
    EveryCallReturns
    ImplementsService
\* The client stops when it has made MaxConns calls.
CHECK_DEADLOCK FALSE
