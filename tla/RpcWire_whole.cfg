\* Requests and responses that arrive whole, for every function.
CONSTANTS
    IntMax = 2147483647
    SizeofInt = 4
    SizeofSize = 8
    SizeofOff = 8
    SizeofMode = 4
    SizeofStat = 2
    Paths <- AllPaths
    Targets <- RemotePaths
    OFlags = {0, 2, 64}
    Modes = {384, 420}
    Lengths = {0, 1, 3}
    LocalFds = {0, 1073741823}
    ServerFds = {0, 4, 1073741823}
    ShortRecvs = {}
SPECIFICATION Spec
INVARIANTS
    ArgumentsIntact
    ResultsIntact
    DispatchIsRight
