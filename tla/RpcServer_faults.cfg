\* Failing library calls, short reads, SIGINT, and calls given up half way.
CONSTANTS
    c1 = c1
    Clients = {c1}
    Functions = {"OPEN", "CLOSE"}
    BatchSize = 2
    Slots = 3
    Descriptors = {4, 5}
    MaxConns = 3
    MaxFaults = 1
    MaxAbandons = 1
SPECIFICATION FairSpec
INVARIANTS
    TypeOK
    EveryLiveThreadWillBeJoined
    BatchInv
PROPERTY AcceptLoopGoesOn
\* The server may exit.
CHECK_DEADLOCK FALSE
