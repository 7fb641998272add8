----------------------------- MODULE DllInjection -----------------------------
(***************************************************************************)
(* The Windows example: src/c/dll_injector.c starts src/c/winlocal.c in a  *)
(* suspended process, has a thread created there load src/c/winshim.c,     *)
(* whose DllMain replaces an entry of the program's import address table   *)
(* (IAT), and resumes the program.  Three threads take part: the           *)
(* injector's, the loader (the remote thread, which runs LoadLibraryA and  *)
(* in it DllMain) and the program's own.                                   *)
(***************************************************************************)
EXTENDS Integers, Sequences

CONSTANTS
    ImportTables,  \* import tables the program may be linked with, see Import
    MaxFaults      \* bound: Windows calls that fail

(* The functions of winlocal.c in the order it calls them; FindNextFileA   *)
(* is repeated as long as there are files, which changes nothing here.     *)
Program == <<"stat", "CreateFileA", "ReadFile", "SetFilePointer", "ReadFile", "WriteFile",
             "SetFilePointer", "SetEndOfFile", "FlushFileBuffers", "CloseHandle", "MoveFileA",
             "DeleteFileA", "FindFirstFileA", "FindNextFileA", "FindClose">>

Called == {Program[i] : i \in 1..Len(Program)}
Import == [dll : {"KERNEL32.dll", "kernel32.dll", "msvcrt.dll"}, fn : Called]
Hook   == "HookedCreateFileA"

(* The linker gives every function that the program calls one entry.       *)
ASSUME DllInjectionAssumption ==
    /\ MaxFaults \in Nat
    /\ \A t \in ImportTables :
         /\ t \in Seq(Import)
         /\ \A f \in Called : \E i \in 1..Len(t) : t[i].fn = f
         /\ \A i, j \in 1..Len(t) : t[i].fn = t[j].fn => i = j

VARIABLES
    imports,   \* the program's import table
    iat,       \* per import, the function it is bound to, or the hook
    writable,  \* whether VirtualProtect has made the entry to hook writable
    original,  \* originalCreateFileA of winshim.c
    memory,    \* the block allocated in the program's process for the path
    injector,  \* control point of dll_injector.c
    loader,    \* control point of the remote thread
    child,     \* the program's process
    at,        \* number of calls the program has made
    faults     \* failures so far

shimVars == <<imports, iat, writable, original>>
vars == <<shimVars, memory, injector, loader, child, at, faults>>

TypeOK ==
    /\ imports \in ImportTables
    /\ iat \in [1..Len(imports) -> Called \cup {Hook}]
    /\ writable \in BOOLEAN
    /\ original \in Called \cup {Hook, "NULL"}
    /\ memory \in {"none", "allocated", "written", "freed"}
    /\ injector \in {"create", "alloc", "write", "thread", "wait", "resume", "exited"}
    /\ loader \in {"none", "load", "protect", "save", "overwrite", "ended"}
    /\ child \in {"none", "suspended", "running", "ended", "crashed"}
    /\ at \in 0..Len(Program)
    /\ faults \in 0..MaxFaults

Init ==
    /\ imports \in ImportTables
    /\ iat = [i \in 1..Len(imports) |-> imports[i].fn]
    /\ writable = FALSE /\ original = "NULL" /\ memory = "none"
    /\ injector = "create" /\ loader = "none" /\ child = "none"
    /\ at = 0 /\ faults = 0

CanFail == faults < MaxFaults
Fault   == faults' = faults + 1
Step(from, to) == injector = from /\ injector' = to
Load(from, to) == loader = from /\ loader' = to

-----------------------------------------------------------------------------
(* dll_injector.c. *)

(* Mutant of CreateProcess: the program is not suspended.                  *)
CreateProcessRunning ==
    /\ Step("create", "alloc") /\ child' = "running" /\ UNCHANGED faults
    /\ UNCHANGED <<shimVars, memory, loader, at>>

(* CreateProcessA(..., CREATE_SUSPENDED, ...).                             *)
CreateProcess ==
    /\ \/ Step("create", "alloc") /\ child' = "suspended" /\ UNCHANGED faults
       \/ Step("create", "exited") /\ CanFail /\ Fault /\ UNCHANGED child
    /\ UNCHANGED <<shimVars, memory, loader, at>>

(* Mutant of VirtualAllocEx: without the memory the injector gives up.     *)
VirtualAllocExOrExit ==
    /\ \/ Step("alloc", "write") /\ memory' = "allocated" /\ UNCHANGED faults
       \/ Step("alloc", "exited") /\ CanFail /\ Fault /\ UNCHANGED memory
    /\ UNCHANGED <<shimVars, loader, child, at>>

(* InjectDLL(): memory for the path; without it the DLL is not injected.   *)
VirtualAllocEx ==
    /\ \/ Step("alloc", "write") /\ memory' = "allocated" /\ UNCHANGED faults
       \/ Step("alloc", "resume") /\ CanFail /\ Fault /\ UNCHANGED memory
    /\ UNCHANGED <<shimVars, loader, child, at>>

(* Its result is not tested.                                               *)
WriteProcessMemory ==
    /\ Step("write", "thread")
    /\ \/ memory' = "written" /\ UNCHANGED faults
       \/ CanFail /\ Fault /\ UNCHANGED memory
    /\ UNCHANGED <<shimVars, loader, child, at>>

(* A thread in the program's process that runs LoadLibraryA(path); without *)
(* it the memory is freed and the DLL is not injected.                     *)
CreateRemoteThread ==
    /\ \/ Step("thread", "wait") /\ loader' = "load" /\ UNCHANGED <<memory, faults>>
       \/ Step("thread", "resume") /\ memory' = "freed" /\ CanFail /\ Fault /\ UNCHANGED loader
    /\ UNCHANGED <<shimVars, child, at>>

(* Mutant of WaitForThread: the wait is left out.                          *)
WaitForNothing ==
    /\ Step("wait", "resume")
    /\ memory' = "freed"
    /\ UNCHANGED <<shimVars, loader, child, at, faults>>

(* WaitForSingleObject(hThread, INFINITE): the thread has ended, by itself *)
(* or with its process; then VirtualFreeEx.                                *)
WaitForThread ==
    /\ Step("wait", "resume") /\ loader = "ended"
    /\ memory' = "freed"
    /\ UNCHANGED <<shimVars, loader, child, at, faults>>

(* ResumeThread(pi.hThread), whether or not the DLL was injected; exit.    *)
ResumeThread ==
    /\ Step("resume", "exited")
    /\ child' = IF child = "suspended" THEN "running" ELSE child
    /\ UNCHANGED <<shimVars, memory, loader, at, faults>>

-----------------------------------------------------------------------------
(* winshim.c, in the remote thread. *)

(* LoadLibraryA finds the DLL by its path and calls DllMain, or fails.     *)
LoadLibrary ==
    /\ \/ Load("load", "protect") /\ memory = "written" /\ UNCHANGED faults
       \/ Load("load", "ended") /\ memory # "written" /\ UNCHANGED faults
       \/ Load("load", "ended") /\ memory = "written" /\ CanFail /\ Fault
    /\ UNCHANGED <<shimVars, memory, injector, child, at>>

(* The entries HookIAT looks for: the library's name is compared as it is  *)
(* written, and the address with that of CreateFileA.  It hooks the first. *)
Thunks == {i \in 1..Len(imports) : imports[i].dll = "KERNEL32.dll" /\ iat[i] = "CreateFileA"}
First(i) == i \in Thunks /\ \A j \in Thunks : i <= j

(* The walk through the table; VirtualProtect, whose result is not tested. *)
Protect ==
    /\ \/ /\ Load("protect", "save") /\ Thunks # {}
          /\ \/ writable' = TRUE /\ UNCHANGED faults
             \/ CanFail /\ Fault /\ UNCHANGED writable
       \/ Load("protect", "ended") /\ Thunks = {} /\ UNCHANGED <<writable, faults>>
    /\ UNCHANGED <<imports, iat, original, memory, injector, child, at>>

(* Mutant of SaveOriginal: pFunction instead of *pFunction.                *)
SaveAddress ==
    /\ Load("save", "overwrite")
    /\ original' = "pFunction"
    /\ UNCHANGED <<imports, iat, writable, memory, injector, child, at, faults>>

(* originalCreateFileA = *pFunction, before the entry is overwritten.      *)
SaveOriginal ==
    /\ Load("save", "overwrite")
    /\ \E i \in Thunks : First(i) /\ original' = iat[i]
    /\ UNCHANGED <<imports, iat, writable, memory, injector, child, at, faults>>

(* Mutant of Overwrite: the pointer is saved after it is overwritten.      *)
OverwriteThenSave ==
    /\ Load("overwrite", "ended")
    /\ \E i \in Thunks : First(i) /\ iat' = [iat EXCEPT ![i] = Hook]
    /\ original' = Hook
    /\ UNCHANGED <<imports, writable, memory, injector, child, at, faults>>

(* *pFunction = hookFunction, then the protection is restored; a write to  *)
(* a page that is still protected ends the process.                        *)
Overwrite ==
    /\ Load("overwrite", "ended")
    /\ writable' = FALSE
    /\ \E i \in Thunks : First(i) /\ iat' = IF writable THEN [iat EXCEPT ![i] = Hook] ELSE iat
    /\ child' = IF writable THEN child ELSE "crashed"
    /\ UNCHANGED <<imports, original, memory, injector, at, faults>>

-----------------------------------------------------------------------------
(* winlocal.c, in the program's own thread: a call through its entry of    *)
(* the table, directly or by HookedCreateFileA to the function it saved.   *)
CallFunction ==
    LET entry == CHOOSE i \in 1..Len(imports) : imports[i].fn = Program[at + 1] IN
    /\ child = "running" /\ at < Len(Program)
    /\ at' = at + 1
    /\ child' = CASE iat[entry] = Hook /\ original # "CreateFileA" -> "crashed"
                  [] at + 1 = Len(Program)                        -> "ended"
                  [] OTHER                                        -> "running"
    /\ UNCHANGED <<shimVars, memory, injector, loader, faults>>

Inject == CreateProcess \/ VirtualAllocEx \/ WriteProcessMemory \/ CreateRemoteThread
          \/ WaitForThread \/ ResumeThread
Shim   == LoadLibrary \/ Protect \/ SaveOriginal \/ Overwrite

Next == Inject \/ Shim \/ CallFunction

(* Fairness: Windows schedules the three threads.                          *)
Spec == Init /\ [][Next]_vars

FairSpec == Spec /\ WF_vars(Inject) /\ WF_vars(Shim) /\ WF_vars(CallFunction)

-----------------------------------------------------------------------------
(***************************************************************************)
(* Once the program runs the import table is final: the entry of           *)
(* CreateFileA, and no other, is the hook if nothing failed and the table  *)
(* names the library as winshim.c does.  So no call of the program slips   *)
(* past the hook before it is installed.                                   *)
(***************************************************************************)
HookedBeforeItRuns ==
    child \in {"running", "ended"} =>
        /\ loader \in {"none", "ended"}
        /\ \A i \in 1..Len(imports) :
             LET wanted == imports[i].dll = "KERNEL32.dll" /\ imports[i].fn = "CreateFileA"
             IN /\ iat[i] = Hook => wanted
                /\ wanted /\ faults = 0 => iat[i] = Hook

(* The saved pointer is that of CreateFileA as soon as the hook can be     *)
(* called: HookedCreateFileA never calls NULL or itself.                   *)
HookReachesCreateFile ==
    (\E i \in 1..Len(imports) : iat[i] = Hook) => original = "CreateFileA"

(* The path is there as long as LoadLibraryA may read it, and its memory   *)
(* is freed on every path before the program goes on.                      *)
PathLivesLongEnough ==
    /\ loader = "load" => memory \in {"allocated", "written"}
    /\ injector \in {"resume", "exited"} => memory \in {"none", "freed"}

(* A process once created does not stay suspended: whatever fails in       *)
(* InjectDLL, the program runs to its end or is brought down by the shim.  *)
ProgramGoesOn == child = "suspended" ~> child \in {"ended", "crashed"}
=============================================================================
