--------------------------- MODULE MCDllInjection ---------------------------
(* Import tables for the run of DllInjection: the library first or last,    *)
(* and under a name that winshim.c does not look for.                       *)
EXTENDS DllInjection, SequencesExt

Of(dll, fns) == [i \in 1..Len(fns) |-> [dll |-> dll, fn |-> fns[i]]]

Imported == <<"ReadFile", "SetFilePointer", "CreateFileA", "WriteFile", "SetEndOfFile",
              "FlushFileBuffers", "CloseHandle", "MoveFileA", "DeleteFileA",
              "FindFirstFileA", "FindNextFileA", "FindClose">>
Tables ==
    {Of("KERNEL32.dll", Imported) \o Of("msvcrt.dll", <<"stat">>),
     Of("msvcrt.dll", <<"stat">>) \o Of("KERNEL32.dll", Reverse(Imported)),
     Of("msvcrt.dll", <<"stat">>) \o Of("kernel32.dll", Imported)}
=============================================================================
