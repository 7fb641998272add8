\* local.c, every program of one thread with up to four hooked calls and
\* every one of two threads with up to two each.
CONSTANTS
    t1 = t1
    t2 = t2
    Threads = {t1, t2}
    MaxCalls = 4
    Programs <- MCPrograms
SPECIFICATION FairSpec
INVARIANTS
    TypeOK
    SizeIsReadFromALiveBuffer
    FirstWatchedSizeIsReported
    OpensReportedUntilWatched
PROPERTY MessagesArePrinted
\* The program ends and the control script prints.
CHECK_DEADLOCK FALSE
