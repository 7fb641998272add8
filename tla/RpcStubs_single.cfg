\* One thread: library calls fail, and the server may go away.
CONSTANTS
    t1 = t1
    Threads = {t1}
    Stubs = {"HEAP", "STACK", "READ"}
    Fds = {3, 4}
    Faults <- CallFaults
    MaxCalls = 5
SPECIFICATION Spec
INVARIANTS
    NoSocketLeak
    OwnReply
    ConnectedWhenReceiving
\* The program stops when it has made MaxCalls calls, or is killed.
CHECK_DEADLOCK FALSE
