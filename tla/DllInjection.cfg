\* Any two of the Windows calls may fail.
CONSTANTS
    ImportTables <- Tables
    MaxFaults = 2
SPECIFICATION FairSpec
INVARIANTS
    TypeOK
    HookedBeforeItRuns
    HookReachesCreateFile
    PathLivesLongEnough
PROPERTY ProgramGoesOn
\* The program ends.
CHECK_DEADLOCK FALSE
