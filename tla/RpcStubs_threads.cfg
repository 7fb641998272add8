\* Two threads share sock.
CONSTANTS
    t1 = t1
    t2 = t2
    Threads = {t1, t2}
    Stubs = {"STACK"}
    Fds = {3, 4}
    Faults = {}
    MaxCalls = 2
SPECIFICATION Spec
INVARIANT ConnectedWhenReceiving
\* The program stops when it has made MaxCalls calls.
CHECK_DEADLOCK FALSE
