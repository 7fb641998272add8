-------------------------- MODULE DllInjectionProofs --------------------------
(***************************************************************************)
(* Proofs about DllInjection, for every set of import tables in which each *)
(* function that the program calls has one entry, and any number of        *)
(* failures of the Windows calls.                                          *)
(***************************************************************************)
EXTENDS DllInjection, TLAPS

(* The entry that winshim.c is after.                                      *)
Wanted(i) == imports[i].dll = "KERNEL32.dll" /\ imports[i].fn = "CreateFileA"

(* Where each of the three threads is while another one is at some point,  *)
(* and what the block for the path holds there.                            *)
ControlInv ==
    /\ injector \in {"create", "alloc", "write", "thread"} => loader = "none"
    /\ injector = "wait" => loader # "none"
    /\ injector \in {"resume", "exited"} => loader \in {"none", "ended"}
    /\ injector = "create" => child = "none"
    /\ injector \in {"alloc", "write", "thread", "wait", "resume"} => child \in {"suspended", "crashed"}
    /\ injector \in {"create", "alloc"} => memory = "none"
    /\ injector = "write" => memory = "allocated"
    /\ injector \in {"thread", "wait"} => memory \in {"allocated", "written"}
    /\ injector \in {"resume", "exited"} => memory \in {"none", "freed"}

(* The table as the program was linked, until the hook is written over the *)
(* entry that is wanted, which happens last.                               *)
TableInv ==
    /\ \A i \in 1..Len(imports) : iat[i] = imports[i].fn \/ (iat[i] = Hook /\ Wanted(i))
    /\ loader # "ended" => \A i \in 1..Len(imports) : iat[i] = imports[i].fn
    /\ loader = "overwrite" => original = "CreateFileA"
    /\ HookReachesCreateFile

(* Without failures every thread comes to do its part.                     *)
FaultlessInv ==
    faults = 0 =>
        /\ injector \in {"resume", "exited"} => loader = "ended"
        /\ injector = "thread" => memory = "written"
        /\ injector = "wait" => memory = "written"
        /\ loader \in {"save", "overwrite"} => writable
        /\ loader = "ended" => \A i \in 1..Len(imports) : Wanted(i) => iat[i] = Hook

(* The inductive invariant.                                                *)
InjectionInv == TypeOK /\ ControlInv /\ TableInv /\ FaultlessInv

-----------------------------------------------------------------------------
(* The hook is none of the functions that the program calls.               *)
LEMMA HookIsNew == Hook \notin Called /\ "CreateFileA" \in Called /\ Len(Program) = 15
  BY DEF Hook, Called, Program

(* What the assumption says of the program's own table.                    *)
LEMMA Table ==
  ASSUME imports \in ImportTables
  PROVE  /\ Len(imports) \in Nat
         /\ \A i \in 1..Len(imports) : imports[i] \in Import /\ imports[i].fn \in Called
         /\ \A i, j \in 1..Len(imports) : imports[i].fn = imports[j].fn => i = j
<1>1. imports \in Seq(Import) /\ Len(imports) \in Nat
  BY DllInjectionAssumption
<1>2. \A i \in 1..Len(imports) : imports[i] \in Import
  BY <1>1
<1>3. \A m \in Import : m.fn \in Called
  BY DEF Import
<1>. QED
  BY <1>1, <1>2, <1>3, DllInjectionAssumption

LEMMA InitInjection == Init => InjectionInv
<1>. SUFFICES ASSUME Init PROVE InjectionInv
  OBVIOUS
<1>1. \A i \in 1..Len(imports) : iat[i] = imports[i].fn /\ iat[i] # Hook
  BY Table, HookIsNew DEF Init
<1>2. TypeOK
  <2>1. iat \in [1..Len(imports) -> Called \cup {Hook}]
    BY Table DEF Init
  <2>2. writable \in BOOLEAN
    BY Zenon DEF Init
  <2>3. at \in 0..Len(Program) /\ faults \in 0..MaxFaults
    BY HookIsNew, DllInjectionAssumption DEF Init
  <2>. QED
    BY <2>1, <2>2, <2>3 DEF Init, TypeOK
<1>. QED
  BY <1>1, <1>2 DEF Init, InjectionInv, ControlInv, TableInv, FaultlessInv, HookReachesCreateFile

(* The steps that leave the import table and the shim alone.               *)
LEMMA OutsideTheShim ==
  ASSUME InjectionInv, Inject \/ LoadLibrary
  PROVE  InjectionInv'
<1>. USE DEF InjectionInv, TypeOK, ControlInv, TableInv, FaultlessInv, HookReachesCreateFile, Wanted,
             shimVars, Step, Load, CanFail, Fault
<1>0. MaxFaults \in Nat
  BY DllInjectionAssumption
<1>1. CASE CreateProcess
  BY <1>0, <1>1 DEF CreateProcess
<1>2. CASE VirtualAllocEx
  BY <1>0, <1>2 DEF VirtualAllocEx
<1>3. CASE WriteProcessMemory
  BY <1>0, <1>3 DEF WriteProcessMemory
<1>4. CASE CreateRemoteThread
  BY <1>0, <1>4 DEF CreateRemoteThread
<1>5. CASE WaitForThread
  BY <1>0, <1>5 DEF WaitForThread
<1>6. CASE ResumeThread
  BY <1>0, <1>6 DEF ResumeThread
<1>7. CASE LoadLibrary
  BY <1>0, <1>7 DEF LoadLibrary
<1>. QED
  BY <1>1, <1>2, <1>3, <1>4, <1>5, <1>6, <1>7 DEF Inject

(* The steps of winshim.c.                                                 *)
LEMMA InsideTheShim ==
  ASSUME InjectionInv, Protect \/ SaveOriginal \/ Overwrite
  PROVE  InjectionInv'
<1>. USE DEF InjectionInv, Load, CanFail, Fault
<1>0. /\ MaxFaults \in Nat
      /\ \A i \in 1..Len(imports) : imports[i].fn \in Called
      /\ \A i, j \in 1..Len(imports) : imports[i].fn = imports[j].fn => i = j
  BY DllInjectionAssumption, Table DEF TypeOK
<1>1. CASE Protect
  (* Without a failure a table with no entry to hook has no wanted one.    *)
  <2>1. Thunks = {} => \A i \in 1..Len(imports) : ~Wanted(i)
    BY <1>1 DEF Protect, TableInv, Thunks, Wanted
  <2>2. TypeOK'
    <3>1. writable' \in BOOLEAN
      BY <1>1, Zenon DEF Protect, TypeOK
    <3>2. faults' \in 0..MaxFaults
      BY <1>0, <1>1 DEF Protect, TypeOK
    <3>. QED
      BY <1>1, <3>1, <3>2 DEF Protect, TypeOK
  <2>3. ControlInv'
    BY <1>1 DEF Protect, ControlInv, TypeOK
  <2>4. TableInv'
    BY <1>1 DEF Protect, TableInv, HookReachesCreateFile, Wanted
  <2>5. FaultlessInv'
    BY <1>1, <2>1 DEF Protect, FaultlessInv, ControlInv, TypeOK, Wanted
  <2>. QED
    BY <2>2, <2>3, <2>4, <2>5
<1>2. CASE SaveOriginal
  <2>1. original' = "CreateFileA"
    BY <1>2 DEF SaveOriginal, Thunks, First
  <2>2. TypeOK'
    BY <1>2, <2>1, HookIsNew DEF SaveOriginal, TypeOK
  <2>3. ControlInv' /\ FaultlessInv'
    BY <1>2 DEF SaveOriginal, ControlInv, FaultlessInv, TypeOK, Wanted
  <2>4. TableInv'
    BY <1>2, <2>1 DEF SaveOriginal, TableInv, HookReachesCreateFile, Wanted
  <2>. QED
    BY <2>2, <2>3, <2>4
<1>3. CASE Overwrite
  <2>1. PICK i \in Thunks : iat' = IF writable THEN [iat EXCEPT ![i] = Hook] ELSE iat
    BY <1>3 DEF Overwrite
  <2>2. i \in 1..Len(imports) /\ Wanted(i)
    BY <1>0, <1>3, <2>1, HookIsNew DEF Overwrite, Thunks, TableInv, Wanted
  (* The linker has made one entry only.                                   *)
  <2>3. \A j \in 1..Len(imports) : Wanted(j) => j = i
    BY <1>0, <2>2 DEF Wanted
  <2>4. \A j \in 1..Len(imports) : iat'[j] = IF writable /\ j = i THEN Hook ELSE iat[j]
    BY <2>1, <2>2 DEF TypeOK
  <2>5. TypeOK'
    BY <1>3, <2>1, <2>2 DEF Overwrite, TypeOK
  <2>6. ControlInv'
    BY <1>3 DEF Overwrite, ControlInv, TypeOK
  <2>7. TableInv'
    BY <1>3, <2>2, <2>4 DEF Overwrite, TableInv, HookReachesCreateFile, Wanted
  <2>8. FaultlessInv'
    BY <1>3, <2>2, <2>3, <2>4 DEF Overwrite, FaultlessInv, ControlInv, TypeOK, Wanted
  <2>. QED
    BY <2>5, <2>6, <2>7, <2>8
<1>. QED
  BY <1>1, <1>2, <1>3

(* A call of the program changes the program's own state only.             *)
LEMMA CallInjection ==
  ASSUME InjectionInv, CallFunction
  PROVE  InjectionInv'
<1>1. child = "running" /\ child' \in {"crashed", "ended", "running"} /\ injector = "exited"
  BY DEF CallFunction, InjectionInv, ControlInv, TypeOK
<1>2. at' \in 0..Len(Program)
  BY HookIsNew DEF CallFunction, InjectionInv, TypeOK
<1>. QED
  BY <1>1, <1>2 DEF CallFunction, InjectionInv, TypeOK, ControlInv, TableInv, FaultlessInv,
                    HookReachesCreateFile, Wanted, shimVars

LEMMA NextInjection == InjectionInv /\ [Next]_vars => InjectionInv'
<1>. SUFFICES ASSUME InjectionInv, [Next]_vars PROVE InjectionInv'
  OBVIOUS
<1>1. CASE UNCHANGED vars
  BY <1>1 DEF vars, shimVars, InjectionInv, TypeOK, ControlInv, TableInv, FaultlessInv,
              HookReachesCreateFile, Wanted
<1>. QED
  BY <1>1, OutsideTheShim, InsideTheShim, CallInjection DEF Next, Shim

-----------------------------------------------------------------------------
(* The three threads keep to the order that dll_injector.c gives them,     *)
(* whatever fails.                                                         *)
THEOREM Injection == Spec => []InjectionInv
  BY InitInjection, NextInjection, PTL DEF Spec

THEOREM TypeCorrect == Spec => []TypeOK
<1>1. InjectionInv => TypeOK
  BY DEF InjectionInv
<1>. QED
  BY <1>1, Injection, PTL

(* The program never runs before the hook is in place: if nothing failed,  *)
(* the entry of CreateFileA is the hook, and never is another entry.       *)
THEOREM Hooked == Spec => []HookedBeforeItRuns
<1>1. InjectionInv => HookedBeforeItRuns
  <2>. SUFFICES ASSUME InjectionInv, child \in {"running", "ended"}
                PROVE  HookedBeforeItRuns
    BY DEF HookedBeforeItRuns
  <2>1. injector = "exited" /\ loader \in {"none", "ended"}
    BY DEF InjectionInv, ControlInv, TypeOK
  <2>2. \A i \in 1..Len(imports) : iat[i] = Hook => Wanted(i)
    BY HookIsNew, Table DEF InjectionInv, TableInv, TypeOK
  <2>3. faults = 0 => \A i \in 1..Len(imports) : Wanted(i) => iat[i] = Hook
    BY <2>1 DEF InjectionInv, FaultlessInv
  <2>. QED
    BY <2>1, <2>2, <2>3 DEF HookedBeforeItRuns, Wanted
<1>. QED
  BY <1>1, Injection, PTL

(* The hook finds the function it replaced: its pointer is saved before    *)
(* the entry is overwritten.                                               *)
THEOREM HookReaches == Spec => []HookReachesCreateFile
<1>1. InjectionInv => HookReachesCreateFile
  BY DEF InjectionInv, TableInv
<1>. QED
  BY <1>1, Injection, PTL

(* The block for the path outlives the thread that reads it, and is freed  *)
(* on every path through InjectDLL.                                        *)
THEOREM PathLives == Spec => []PathLivesLongEnough
<1>1. InjectionInv => PathLivesLongEnough
  BY DEF InjectionInv, ControlInv, TypeOK, PathLivesLongEnough
<1>. QED
  BY <1>1, Injection, PTL
=============================================================================
