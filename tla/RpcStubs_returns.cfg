\* Two threads share sock, every library call fails at will, and the server
\* goes away.
CONSTANTS
    t1 = t1
    t2 = t2
    Threads = {t1, t2}
    Stubs = {"READ"}
    Fds = {3, 4}
    Faults <- AllFaults
    MaxCalls = 3
SPECIFICATION FairSpec
PROPERTY EveryCallReturns
\* The program stops when it has made MaxCalls calls, or is killed.
CHECK_DEADLOCK FALSE
