------------------------------ MODULE MapServer ------------------------------
(***************************************************************************)
(* The RPC servers in Go (src/go/rpc_server/server.go), Java               *)
(* (src/javarpc/Server.java) and Python (src/python/server.py).  All three *)
(* serve every call in a goroutine or thread of its own.  Go and Java keep *)
(* a map `files' from a key to the open file, without a lock: the key is   *)
(* the file's descriptor in Go and its hashCode() in Java.  The Python     *)
(* server keeps nothing and hands the number to the operating system.      *)
(*                                                                         *)
(* A client makes one call at a time, so a goroutine is known by its       *)
(* client; a file is known by the number of the call that opened it.       *)
(***************************************************************************)
EXTENDS Integers, FiniteSets

CONSTANTS
    Clients,      \* client processes
    Servers,      \* the servers considered, among "go", "java", "python"
    Descriptors,  \* descriptor numbers of the server process
    Hashes,       \* values of hashCode(); two files may have the same
    MaxCalls,     \* bound: calls made, per server
    MaxFaults     \* bound: close() that throws, SIGINT

ASSUME MapServerAssumption ==
    /\ Servers \subseteq {"go", "java", "python"}
    /\ Descriptors \subseteq Nat \ {0}
    /\ Hashes \subseteq Nat \ {0}
    /\ MaxCalls \in [Servers -> Nat]
    /\ MaxFaults \in Nat

Ids   == UNION {1..MaxCalls[s] : s \in Servers}   \* of calls
Files == Ids
Keys  == Descriptors \cup Hashes
nil   == 0

VARIABLES
    server,    \* which of the servers runs
    alive,     \* its process
    fdt,       \* its descriptor table: a file or nil
    file,      \* the file objects: state, descriptor, key
    files,     \* the map: a file or nil
    call,      \* per client, the call in progress
    handles,   \* per client, the keys it holds, each with the file it stands for
    made,      \* number of calls made
    mishaps,   \* history: what has happened to the map, see Mishaps
    faults     \* faults so far

vars == <<server, alive, fdt, file, files, call, handles, made, mishaps, faults>>

(***************************************************************************)
(* USE stands for the functions that look a file up and act on it (read,   *)
(* write, lseek, ftruncate, fsync, offset).  Those that are given a path   *)
(* (truncate, size, rename, unlink ...) touch neither the map nor a        *)
(* descriptor and are left out.                                            *)
(***************************************************************************)
Ops    == {"OPEN", "CLOSE", "USE"}
NoCall == [pc |-> "idle", op |-> "USE", id |-> 0, key |-> nil, file |-> nil]
NoFile == [state |-> "none", fd |-> nil, key |-> nil]

(***************************************************************************)
(* What may befall an entry of the map: a new entry meets a Close that is  *)
(* about to delete its key (reuse), a new entry replaces that of an open   *)
(* file (collision), or of two overlapping accesses one has no effect      *)
(* (race).                                                                 *)
(***************************************************************************)
Mishaps == {"reuse", "collision", "race"}

TypeOK ==
    /\ server \in Servers
    /\ alive \in BOOLEAN
    /\ fdt \in [Descriptors -> Files \cup {nil}]
    /\ file \in [Files -> [state : {"none", "open", "closed", "broken"},
                           fd : Descriptors \cup {nil}, key : Keys \cup {nil}]]
    /\ files \in [Keys -> Files \cup {nil}]
    /\ call \in [Clients -> [pc : {"idle", "open", "insert", "lookup", "act", "delete"},
                             op : Ops, id : Ids \cup {0}, key : Keys \cup {nil},
                             file : Files \cup {nil}]]
    /\ handles \in [Clients -> SUBSET (Keys \X Files)]
    /\ made \in Ids \cup {0}
    /\ mishaps \subseteq Mishaps
    /\ faults \in 0..MaxFaults

Init ==
    /\ server \in Servers /\ alive = TRUE
    /\ fdt = [d \in Descriptors |-> nil]
    /\ file = [o \in Files |-> NoFile]
    /\ files = [x \in Keys |-> nil]
    /\ call = [k \in Clients |-> NoCall]
    /\ handles = [k \in Clients |-> {}]
    /\ made = 0 /\ mishaps = {} /\ faults = 0

HasMap  == server # "python"
At(k, pc) == alive /\ call[k].pc = pc
Goto(k, pc) == call' = [call EXCEPT ![k].pc = pc]
Return(k) == call' = [call EXCEPT ![k] = NoCall]

FreeFds  == {d \in Descriptors : fdt[d] = nil}
LowestFd == {d \in FreeFds : \A e \in FreeFds : d <= e}   \* at most one

(* Overlapping accesses to the map, one of them a write, are undefined in  *)
(* Go and in Java.                                                         *)
Writing(k)   == call[k].pc \in {"insert", "delete"}
Accessing(k) == Writing(k) \/ call[k].pc = "lookup"
Contended(k) ==
    \E j \in Clients \ {k} : Accessing(k) /\ Accessing(j) /\ (Writing(k) \/ Writing(j))

-----------------------------------------------------------------------------
(* The clients. *)

(* A client calls a function.  It closes a file that it holds, once; it    *)
(* may use a key that is no longer, or never was, open.                    *)
Invoke(k, op, key) ==
    /\ At(k, "idle") /\ made < MaxCalls[server]
    /\ key \in CASE op = "CLOSE" -> {h[1] : h \in handles[k]}
                 [] op = "USE"   -> IF server = "java" THEN Hashes ELSE Descriptors
                 [] op = "OPEN"  -> {nil}
    /\ made' = made + 1
    /\ call' = [call EXCEPT ![k] = [pc |-> CASE op = "OPEN" -> "open"
                                             [] op # "OPEN" /\ HasMap -> "lookup"
                                             [] op # "OPEN" /\ ~HasMap -> "act",
                                    op |-> op, id |-> made + 1, key |-> key, file |-> nil]]
    /\ handles' = [handles EXCEPT ![k] = {h \in @ : op = "CLOSE" => h[1] # key}]
    /\ UNCHANGED <<server, alive, fdt, file, files, mishaps, faults>>

(* The server is gone: the call returns with an error.                     *)
ServerGone(k) ==
    /\ ~alive /\ call[k].pc # "idle"
    /\ Return(k)
    /\ UNCHANGED <<server, alive, fdt, file, files, handles, made, mishaps, faults>>

-----------------------------------------------------------------------------
(* The calls, in the goroutine or thread that serves client k. *)

(* Mutant of OpenFile: an error is not returned but goes on as a file.     *)
OpenFileIgnoresError(k) ==
    /\ At(k, "open")
    /\ Return(k)
    /\ handles' = [handles EXCEPT ![k] = @ \cup {<<nil, call[k].id>>}]
    /\ UNCHANGED <<server, alive, fdt, file, files, made, mishaps, faults>>

(* os.OpenFile, new RandomAccessFile or os.open.                           *)
OpenFile(k) ==
    /\ At(k, "open")
    /\ \/ Return(k) /\ UNCHANGED <<fdt, file, handles>>
       \/ \E d \in LowestFd : \E key \in IF server = "java" THEN Hashes ELSE {d} :
            LET o == call[k].id IN
            /\ fdt' = [fdt EXCEPT ![d] = o]
            /\ file' = [file EXCEPT ![o] = [state |-> "open", fd |-> d, key |-> key]]
            /\ IF HasMap
               THEN /\ call' = [call EXCEPT ![k].pc = "insert", ![k].key = key]
                    /\ UNCHANGED handles
               ELSE /\ Return(k)
                    /\ handles' = [handles EXCEPT ![k] = @ \cup {<<key, o>>}]
    /\ UNCHANGED <<server, alive, files, made, mishaps, faults>>

(* The reply of an Open, which tells the client the key.                   *)
GiveKey(k) ==
    /\ handles' = [handles EXCEPT ![k] = @ \cup {<<call[k].key, call[k].id>>}]
    /\ Return(k)
    /\ UNCHANGED <<server, alive, fdt, file, made, faults>>

(* Mutant of Insert: the file is not entered.                              *)
InsertForgets(k) ==
    /\ At(k, "insert")
    /\ GiveKey(k)
    /\ UNCHANGED <<files, mishaps>>

(* files[file.Fd()] = file, files.put(file.hashCode(), file); reply.       *)
Insert(k) ==
    LET key == call[k].key IN
    /\ At(k, "insert")
    /\ files' = [files EXCEPT ![key] = call[k].id]
    /\ mishaps' = mishaps
         \cup {m \in {"reuse"} : \E j \in Clients : call[j].pc = "delete" /\ call[j].key = key}
         \cup {m \in {"collision"} : files[key] # nil /\ file[files[key]].state = "open"}
    /\ GiveKey(k)

(* Mutant of Lookup: it waits for an entry.                                *)
LookupWaits(k) ==
    /\ At(k, "lookup") /\ files[call[k].key] # nil
    /\ call' = [call EXCEPT ![k].pc = "act", ![k].file = files[call[k].key]]
    /\ UNCHANGED <<server, alive, fdt, file, files, handles, made, mishaps, faults>>

(* file := files[fildes], files.get(fd): nil when there is no entry.       *)
Lookup(k) ==
    /\ At(k, "lookup")
    /\ call' = [call EXCEPT ![k].pc = "act", ![k].file = files[call[k].key]]
    /\ UNCHANGED <<server, alive, fdt, file, files, handles, made, mishaps, faults>>

(* The file a Close acts on: the one looked up, or what the number is now. *)
Target(k) == IF HasMap THEN call[k].file ELSE fdt[call[k].key]

(* What follows the close() of a Close: Go deletes the key whether or not  *)
(* there was a file, Java's null throws before the removal.                *)
AfterClose(k) ==
    IF server = "go" \/ (server = "java" /\ call[k].file # nil) THEN Goto(k, "delete")
                                                                ELSE Return(k)

(* Mutant of Act: a Close does not close the file.                         *)
ActForgetsClose(k) ==
    /\ At(k, "act")
    /\ IF call[k].op = "CLOSE" THEN AfterClose(k) ELSE Return(k)
    /\ UNCHANGED <<server, alive, fdt, file, files, handles, made, mishaps, faults>>

(* The operation on the file.  Close() of a file already closed, or of     *)
(* nil, does nothing; of the other operations only the lookup matters.     *)
Act(k) ==
    LET o == Target(k) IN
    /\ At(k, "act")
    /\ IF call[k].op = "CLOSE" THEN AfterClose(k) ELSE Return(k)
    /\ IF call[k].op = "CLOSE" /\ o # nil /\ file[o].state = "open"
       THEN /\ fdt' = [fdt EXCEPT ![file[o].fd] = nil]
            /\ file' = [file EXCEPT ![o].state = "closed"]
       ELSE UNCHANGED <<fdt, file>>
    /\ UNCHANGED <<server, alive, files, handles, made, mishaps, faults>>

(* Java: close() throws, which skips the removal.                          *)
CloseThrows(k) ==
    LET o == call[k].file IN
    /\ server = "java" /\ At(k, "act") /\ call[k].op = "CLOSE"
    /\ faults < MaxFaults /\ faults' = faults + 1
    /\ o # nil /\ file[o].state = "open"
    /\ fdt' = [fdt EXCEPT ![file[o].fd] = nil]
    /\ file' = [file EXCEPT ![o].state = "broken"]
    /\ Return(k)
    /\ UNCHANGED <<server, alive, files, handles, made, mishaps>>

(* Mutant of Delete: the entry stays.                                      *)
DeleteForgets(k) ==
    /\ At(k, "delete")
    /\ Return(k)
    /\ UNCHANGED <<server, alive, fdt, file, files, handles, made, mishaps, faults>>

(* delete(files, fildes), files.remove(fd): whatever is there now.         *)
Delete(k) ==
    /\ At(k, "delete")
    /\ files' = [files EXCEPT ![call[k].key] = nil]
    /\ Return(k)
    /\ UNCHANGED <<server, alive, fdt, file, handles, made, mishaps, faults>>

-----------------------------------------------------------------------------
(* What overlapping accesses to the map do, and the runtime. *)

(* The access is lost to the other one: a write has no effect, a read      *)
(* finds nothing.  HashMap does not notice; Go's runtime need not either.  *)
LostAccess(k) ==
    /\ HasMap /\ alive /\ Contended(k)
    /\ mishaps' = mishaps \cup {"race"}
    /\ \/ call[k].pc = "insert" /\ GiveKey(k)
       \/ /\ call[k].pc = "delete" /\ Return(k)
          /\ UNCHANGED <<server, alive, fdt, file, handles, made, faults>>
       \/ /\ call[k].pc = "lookup" /\ Goto(k, "act")
          /\ UNCHANGED <<server, alive, fdt, file, handles, made, faults>>
    /\ UNCHANGED files

(* Go: the runtime notices ("concurrent map writes") and ends the process. *)
GoRaceAborts(k) ==
    /\ server = "go" /\ alive /\ Contended(k)
    /\ alive' = FALSE
    /\ UNCHANGED <<server, fdt, file, files, call, handles, made, mishaps, faults>>

(* Go and Java: a file object that nothing refers to is finalized, which   *)
(* closes its descriptor.                                                  *)
Finalize(o) ==
    /\ HasMap /\ alive /\ file[o].state = "open"
    /\ \A x \in Keys : files[x] # o
    /\ \A k \in Clients : call[k].file # o /\ ~(call[k].pc = "insert" /\ call[k].id = o)
    /\ fdt' = [fdt EXCEPT ![file[o].fd] = nil]
    /\ file' = [file EXCEPT ![o].state = "closed"]
    /\ UNCHANGED <<server, alive, files, call, handles, made, mishaps, faults>>

(* Python: SIGINT closes the server and exits.                             *)
SignalHandler ==
    /\ server = "python" /\ alive
    /\ faults < MaxFaults /\ faults' = faults + 1
    /\ alive' = FALSE
    /\ UNCHANGED <<server, fdt, file, files, call, handles, made, mishaps>>

Serve(k) == OpenFile(k) \/ Insert(k) \/ Lookup(k) \/ Act(k) \/ Delete(k)

Next ==
    \/ \E k \in Clients :
         \/ \E op \in Ops : \E key \in Keys \cup {nil} : Invoke(k, op, key)
         \/ ServerGone(k) \/ Serve(k) \/ CloseThrows(k) \/ LostAccess(k) \/ GoRaceAborts(k)
    \/ \E o \in Files : Finalize(o)
    \/ SignalHandler

(***************************************************************************)
(* Fairness: goroutines and threads are scheduled, and a broken connection *)
(* is noticed.  Nobody has to make another call.                           *)
(***************************************************************************)
Spec == Init /\ [][Next]_vars

FairSpec == Spec /\ \A k \in Clients : WF_vars(Serve(k)) /\ WF_vars(ServerGone(k))

-----------------------------------------------------------------------------
(***************************************************************************)
(* A key a client holds denotes the file that client opened, which is      *)
(* open, however calls overlap: until an access to the map is lost to an   *)
(* overlapping one (Go, Java), an Open is given a key that a Close is yet  *)
(* to delete (Go, Java), or two open files share a hashCode() (Java).  In  *)
(* Python, which has no map, always.                                       *)
(***************************************************************************)
KeysDenoteTheirFiles ==
    (alive /\ mishaps = {}) =>
        \A k \in Clients : \A h \in handles[k] :
            /\ file[h[2]].state = "open"
            /\ h[2] = IF HasMap THEN files[h[1]] ELSE fdt[h[1]]

(***************************************************************************)
(* No file stays open that nobody can close, with the same exceptions: its *)
(* key is held, or on its way to the client, or its Close is in progress.  *)
(***************************************************************************)
NoFileIsLost ==
    (alive /\ mishaps = {}) =>
        \A o \in Files : file[o].state = "open" =>
            \E k \in Clients :
                \/ <<file[o].key, o>> \in handles[k]
                \/ call[k].pc = "insert" /\ call[k].id = o
                \/ call[k].pc \in {"lookup", "act"} /\ call[k].op = "CLOSE"
                     /\ call[k].key = file[o].key

(***************************************************************************)
(* Whatever descriptors are reused, hash codes shared or files finalized,  *)
(* an entry whose file is closed is one that a Close is about to delete    *)
(* (unless that close() threw): no closed file is served for good.         *)
(***************************************************************************)
ClosedEntriesAreLeaving ==
    "race" \notin mishaps =>
        \A x \in Keys : files[x] # nil /\ file[files[x]].state = "closed" =>
            ~alive \/ \E k \in Clients : call[k].pc = "delete" /\ call[k].key = x

(* Every call returns, with an error if its key is unknown, if its file is *)
(* closed under it, or if the server is gone.                              *)
EveryCallReturns == \A k \in Clients : call[k].pc # "idle" ~> call[k].pc = "idle"
=============================================================================
