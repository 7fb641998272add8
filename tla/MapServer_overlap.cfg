\* Two clients of each of the three servers, whose calls overlap.
CONSTANTS
    k1 = k1
    k2 = k2
    Clients = {k1, k2}
    Servers <- AllServers
    Descriptors = {3, 4}
    Hashes = {11, 12}
    MaxCalls <- CallBounds
    MaxFaults = 1
SPECIFICATION FairSpec
INVARIANTS
    TypeOK
    KeysDenoteTheirFiles
    NoFileIsLost
    ClosedEntriesAreLeaving
PROPERTY EveryCallReturns
\* The clients stop when they have made MaxCalls calls.
CHECK_DEADLOCK FALSE
