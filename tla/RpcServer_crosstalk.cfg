\* Two overlapping calls: a reply may reach the other client.
CONSTANTS
    c1 = c1
    c2 = c2
    Clients = {c1, c2}
    Functions = {"OTHER"}
    BatchSize = 2
    Slots = 3
    Descriptors = {4, 5, 6}
    MaxConns = 2
    MaxFaults = 0
    MaxAbandons = 0
SYMMETRY ClientSymmetry
SPECIFICATION Spec
INVARIANT RepliesReachTheirCaller
CHECK_DEADLOCK FALSE
