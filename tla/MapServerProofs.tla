--------------------------- MODULE MapServerProofs ---------------------------
(***************************************************************************)
(* Proofs about MapServer: the Go, the Java and the Python server, for any *)
(* number of clients, calls, descriptors and hash codes.                   *)
(***************************************************************************)
EXTENDS MapServer, TLAPS

CallType == [pc : {"idle", "open", "insert", "lookup", "act", "delete"}, op : Ops,
             id : Ids \cup {0}, key : Keys \cup {nil}, file : Files \cup {nil}]
FileType == [state : {"none", "open", "closed", "broken"},
             fd : Descriptors \cup {nil}, key : Keys \cup {nil}]

KeySpace   == IF server = "java" THEN Hashes ELSE Descriptors
Opening(k) == call[k].pc \in {"open", "insert"}
Closer(k)  == call[k].op = "CLOSE" /\ call[k].pc \in {"lookup", "act", "delete"}

(* What the server takes a key for.                                        *)
Denoted(x) == IF HasMap THEN files[x] ELSE fdt[x]

(* A file that has been opened, and is not being opened any more.          *)
Known(o) == o <= made /\ \A k \in Clients : Opening(k) => call[k].id # o

(* A file has a number of its own, which nothing refers to before its Open *)
(* has entered it.                                                         *)
IdInv ==
    /\ made \in 0..MaxCalls[server]
    /\ \A k \in Clients : call[k].pc # "idle" => call[k].id \in 1..made
    /\ \A j, k \in Clients : j # k /\ Opening(j) /\ Opening(k) => call[j].id # call[k].id
    /\ \A k \in Clients : call[k].pc = "open" => file[call[k].id].state = "none"
    /\ \A o \in Files : file[o].state # "none" => o <= made
    /\ \A x \in Keys : files[x] # nil => Known(files[x])
    /\ \A k \in Clients : call[k].file # nil => Known(call[k].file)
    /\ \A k \in Clients : \A h \in handles[k] : Known(h[2])

(* What a call has at each of its steps.                                   *)
CallInv ==
    /\ \A k \in Clients :
         /\ call[k].pc \in {"insert", "lookup", "act", "delete"} => call[k].key \in KeySpace
         /\ call[k].pc \in {"insert", "lookup", "delete"} => HasMap
         /\ call[k].pc = "delete" => call[k].op = "CLOSE"
         /\ call[k].file # nil => /\ call[k].pc \in {"act", "delete"} /\ HasMap
                                  /\ file[call[k].file].key = call[k].key
         /\ call[k].pc = "insert" => /\ file[call[k].id].state = "open"
                                     /\ file[call[k].id].key = call[k].key
    /\ \A k \in Clients : \A h \in handles[k] : h[1] \in KeySpace

(* Open files and descriptors in use correspond, and an entry of the map   *)
(* is under the key of its file.                                           *)
FileInv ==
    /\ \A o \in Files : file[o].state = "open" =>
         /\ file[o].fd \in Descriptors /\ fdt[file[o].fd] = o
         /\ file[o].key \in KeySpace
         /\ server # "java" => file[o].key = file[o].fd
    /\ \A d \in Descriptors : fdt[d] # nil => file[fdt[d]].state = "open" /\ file[fdt[d]].fd = d
    /\ \A x \in Keys : files[x] # nil => HasMap /\ file[files[x]].key = x

(* As long as no mishap has befallen the map: a key is held by one client  *)
(* or being closed by one call, and denotes an open file until then.       *)
KeyInv ==
    /\ \A k \in Clients : \A h \in handles[k] :
         /\ Denoted(h[1]) = h[2] /\ file[h[2]].state = "open" /\ file[h[2]].key = h[1]
         /\ \A j \in Clients : Closer(j) => call[j].key # h[1]
         /\ \A j \in Clients \ {k} : \A g \in handles[j] : g[1] # h[1]
    /\ \A k \in Clients : Closer(k) =>
         /\ \A j \in Clients \ {k} : Closer(j) => call[j].key # call[k].key
         /\ IF call[k].pc = "delete"
            THEN files[call[k].key] # nil => file[files[call[k].key]].state # "open"
            ELSE /\ Denoted(call[k].key) # nil
                 /\ file[Denoted(call[k].key)].state = "open"
                 /\ call[k].pc = "act" /\ HasMap => call[k].file = files[call[k].key]

(* ... and an open file that is entered is the one its key denotes.        *)
EntryInv ==
    \A o \in Files : file[o].state = "open" =>
        \/ \E k \in Clients : call[k].pc = "insert" /\ call[k].id = o
        \/ Denoted(file[o].key) = o

(* The inductive invariant: what holds whatever befalls the map, and what  *)
(* holds until a mishap.                                                   *)
Struct == TypeOK /\ IdInv /\ CallInv /\ FileInv /\ ClosedEntriesAreLeaving
Keyed  == alive /\ mishaps = {} => KeyInv /\ EntryInv /\ NoFileIsLost

(* The mishaps that each server is exposed to.                             *)
MishapInv ==
    /\ server = "go" => "collision" \notin mishaps
    /\ server = "python" => mishaps = {}

-----------------------------------------------------------------------------
LEMMA Basics ==
  /\ Ids \subseteq Nat /\ nil \notin Ids /\ Files = Ids
  /\ Keys \subseteq Nat /\ nil \notin Keys /\ nil \notin Descriptors
  /\ Descriptors \subseteq Keys /\ Hashes \subseteq Keys
  /\ \A s \in Servers : MaxCalls[s] \in Nat /\ 1..MaxCalls[s] \subseteq Ids
  BY MapServerAssumption DEF Ids, Files, Keys, nil

LEMMA KeySpaces == KeySpace \subseteq Keys /\ (server # "java" => KeySpace = Descriptors)
  BY Basics DEF KeySpace

LEMMA NoCallType == NoCall \in CallType /\ NoCall.pc = "idle" /\ NoCall.file = nil
  BY DEF NoCall, CallType, Ops

(* An open file loses its descriptor, by a close() or by being finalized.  *)
Closes(o, state) ==
    /\ fdt' = [fdt EXCEPT ![file[o].fd] = nil]
    /\ file' = [file EXCEPT ![o].state = state]

LEMMA ClosedFile ==
  ASSUME TypeOK, FileInv, NEW o \in Files, file[o].state = "open",
         NEW s \in {"closed", "broken"}, Closes(o, s), UNCHANGED server
  PROVE  /\ fdt' \in [Descriptors -> Files \cup {nil}] /\ file' \in [Files -> FileType]
         /\ \A p \in Files : /\ file'[p].key = file[p].key /\ file'[p].fd = file[p].fd
                             /\ file'[p].state = IF p = o THEN s ELSE file[p].state
         /\ \A d \in Descriptors : fdt'[d] = IF d = file[o].fd THEN nil ELSE fdt[d]
         /\ file[o].fd \in Descriptors /\ fdt[file[o].fd] = o
<1>1. file[o].fd \in Descriptors /\ fdt[file[o].fd] = o
  BY DEF FileInv
<1>2. /\ fdt' \in [Descriptors -> Files \cup {nil}]
      /\ \A d \in Descriptors : fdt'[d] = IF d = file[o].fd THEN nil ELSE fdt[d]
  BY <1>1 DEF TypeOK, Closes
<1>3. /\ file' \in [Files -> FileType]
      /\ \A p \in Files : /\ file'[p].key = file[p].key /\ file'[p].fd = file[p].fd
                          /\ file'[p].state = IF p = o THEN s ELSE file[p].state
  BY DEF TypeOK, Closes, FileType
<1>. QED
  BY <1>1, <1>2, <1>3

(* The descriptors in use and the open files still correspond.             *)
LEMMA ClosedFileInv ==
  ASSUME TypeOK, FileInv, NEW o \in Files, file[o].state = "open",
         NEW s \in {"closed", "broken"}, Closes(o, s), UNCHANGED <<server, files>>
  PROVE  FileInv'
<1>1. /\ \A p \in Files : /\ file'[p].key = file[p].key /\ file'[p].fd = file[p].fd
                          /\ file'[p].state = IF p = o THEN s ELSE file[p].state
      /\ \A d \in Descriptors : fdt'[d] = IF d = file[o].fd THEN nil ELSE fdt[d]
      /\ file[o].fd \in Descriptors /\ fdt[file[o].fd] = o
  BY ClosedFile
<1>2. \A d \in Descriptors : fdt[d] # nil => fdt[d] \in Files
  BY DEF TypeOK
<1>3. \A x \in Keys : files[x] # nil => files[x] \in Files
  BY DEF TypeOK
<1>. QED
  BY <1>1, <1>2, <1>3 DEF FileInv, KeySpace, HasMap

(* A call moves on or returns, entries may leave the map and a file may be *)
(* closed; nothing is opened.                                              *)
LEMMA CallStep ==
  ASSUME TypeOK, IdInv, CallInv, NEW k \in Clients, NEW r \in CallType,
         call' = [call EXCEPT ![k] = r], UNCHANGED <<server, handles, made>>,
         \A x \in Keys : files'[x] \in {files[x], nil},
         \A p \in Files : /\ file'[p].key = file[p].key
                          /\ file'[p].state = "none" <=> file[p].state = "none",
         \A j \in Clients : call[j].pc = "insert" => file'[call[j].id].state = "open",
         \/ r = NoCall
         \/ /\ call[k].pc = "lookup" /\ r.pc = "act" /\ r.key = call[k].key /\ r.id = call[k].id
            /\ r.file \in {nil, files[call[k].key]}
         \/ /\ call[k].pc = "act" /\ r.pc = "delete" /\ r.key = call[k].key /\ r.id = call[k].id
            /\ r.file = call[k].file /\ r.op = "CLOSE" /\ HasMap,
         \A x \in Keys : files[x] # nil => HasMap /\ file[files[x]].key = x
  PROVE  IdInv' /\ CallInv'
<1>1. /\ \A j \in Clients \ {k} : call'[j] = call[j]
      /\ call'[k] = r
  BY DEF TypeOK
<1>2. \A j \in Clients : Opening(j)' <=> Opening(j) /\ j # k
  BY <1>1, NoCallType DEF Opening
<1>3. \A p : Known(p) => p <= made' /\ \A j \in Clients : Opening(j)' => call'[j].id # p
  BY <1>1, <1>2 DEF Known
<1>4. \A x \in Keys : files'[x] # nil => files'[x] = files[x]
  OBVIOUS
<1>5. r.file # nil => Known(r.file)
  <2>1. call[k].pc = "lookup" => call[k].key \in Keys
    BY KeySpaces DEF CallInv
  <2>. QED
    BY <2>1, NoCallType DEF IdInv
<1>6. IdInv'
  <2>1. \A j \in Clients : call[j].pc = "open" => call[j].id \in Files
    BY Basics, MapServerAssumption DEF IdInv, TypeOK
  <2>2. /\ \A j \in Clients : call'[j].pc # "idle" => call'[j].id \in 1..made
        /\ \A i, j \in Clients : i # j /\ Opening(i)' /\ Opening(j)' => call'[i].id # call'[j].id
    BY <1>1, <1>2, NoCallType DEF IdInv
  <2>3. \A j \in Clients : call'[j].pc = "open" => file'[call'[j].id].state = "none"
    BY <1>1, <2>1, NoCallType DEF IdInv
  <2>4. \A j \in Clients : (call[j].file # nil => Known(call[j].file))'
    <3>1. \A j \in Clients : call'[j].file # nil => Known(call'[j].file)
      BY <1>1, <1>5 DEF IdInv
    <3>. QED
      BY <1>3, <3>1 DEF Known
  <2>5. /\ \A x \in Keys : (files[x] # nil => Known(files[x]))'
        /\ \A j \in Clients : (\A h \in handles[j] : Known(h[2]))'
    <3>1. \A x \in Keys : files'[x] # nil => Known(files'[x])
      BY <1>4 DEF IdInv
    <3>. QED
      BY <1>3, <3>1 DEF Known, IdInv
  <2>. QED
    BY <2>2, <2>3, <2>4, <2>5 DEF IdInv
<1>7. CallInv'
  <2>1. \A j \in Clients : /\ call[j].file # nil => call[j].file \in Files
                           /\ call[j].pc = "insert" => call[j].id \in Files
    BY Basics, MapServerAssumption DEF IdInv, TypeOK
  <2>2. r.file # nil => /\ r.pc \in {"act", "delete"} /\ HasMap /\ r.file \in Files
                        /\ file[r.file].key = r.key
    <3>1. call[k].pc = "lookup" => call[k].key \in Keys
      BY KeySpaces DEF CallInv
    <3>. QED
      BY <2>1, <3>1, NoCallType DEF CallInv, TypeOK
  <2>3. UNCHANGED <<HasMap, KeySpace>>
    BY DEF HasMap, KeySpace
  <2>. QED
    BY <1>1, <2>1, <2>2, <2>3, NoCallType DEF CallInv
<1>. QED
  BY <1>6, <1>7

(* What a step of a call leaves in it.                                     *)
LEMMA GotoCall ==
  ASSUME TypeOK, NEW k \in Clients, NEW p \in {"act", "delete"}, NEW f \in Files \cup {nil},
         call' = [call EXCEPT ![k].pc = p, ![k].file = f]
  PROVE  \E r \in CallType :
            /\ call' = [call EXCEPT ![k] = r]
            /\ r.pc = p /\ r.file = f
            /\ r.op = call[k].op /\ r.id = call[k].id /\ r.key = call[k].key
<1>. DEFINE r == [call[k] EXCEPT !.pc = p, !.file = f]
<1>1. r \in CallType /\ r.pc = p /\ r.file = f
      /\ r.op = call[k].op /\ r.id = call[k].id /\ r.key = call[k].key
  BY DEF TypeOK, CallType
<1>2. call' = [call EXCEPT ![k] = r]
  OBVIOUS
<1>. QED
  BY <1>1, <1>2

(* Steps that change no file: a call returns, or goes on.                  *)
LEMMA QuietStep ==
  ASSUME Struct, NEW k \in Clients, NEW r \in CallType,
         call' = [call EXCEPT ![k] = r], UNCHANGED <<server, fdt, file, files, handles, made>>,
         alive' \in BOOLEAN, mishaps' \subseteq Mishaps, mishaps \subseteq mishaps',
         faults' \in 0..MaxFaults,
         alive' => alive, call[k].pc = "delete" => ~alive \/ "race" \in mishaps',
         \/ r = NoCall
         \/ /\ call[k].pc = "lookup" /\ r.pc = "act" /\ r.key = call[k].key /\ r.id = call[k].id
            /\ r.file \in {nil, files[call[k].key]}
         \/ /\ call[k].pc = "act" /\ r.pc = "delete" /\ r.key = call[k].key /\ r.id = call[k].id
            /\ r.file = call[k].file /\ r.op = "CLOSE" /\ HasMap
  PROVE  Struct'
<1>. USE DEF Struct
<1>1. IdInv' /\ CallInv'
  <2>1. \A x \in Keys : files'[x] \in {files[x], nil}
    OBVIOUS
  <2>2. \A p \in Files : /\ file'[p].key = file[p].key
                         /\ file'[p].state = "none" <=> file[p].state = "none"
    OBVIOUS
  <2>3. \A j \in Clients : call[j].pc = "insert" => file'[call[j].id].state = "open"
    BY DEF CallInv
  <2>4. \A x \in Keys : files[x] # nil => HasMap /\ file[files[x]].key = x
    BY DEF FileInv
  <2>. QED
    BY <2>1, <2>2, <2>3, <2>4, CallStep
<1>2. TypeOK'
  BY DEF TypeOK, CallType
<1>3. FileInv'
  BY DEF FileInv, KeySpace, HasMap
<1>4. ClosedEntriesAreLeaving'
  <2>1. \A j \in Clients \ {k} : call'[j] = call[j]
    BY DEF TypeOK
  <2>. QED
    BY <2>1 DEF ClosedEntriesAreLeaving
<1>. QED
  BY <1>1, <1>2, <1>3, <1>4

LEMMA ServerGoneStruct ==
  ASSUME Struct, NEW k \in Clients, ServerGone(k)
  PROVE  Struct'
<1>1. /\ call' = [call EXCEPT ![k] = NoCall] /\ ~alive
      /\ UNCHANGED <<server, alive, fdt, file, files, handles, made, mishaps, faults>>
  BY DEF ServerGone, Return
<1>. QED
  BY <1>1, QuietStep, NoCallType DEF Struct, TypeOK

LEMMA LookupStruct ==
  ASSUME Struct, NEW k \in Clients, Lookup(k)
  PROVE  Struct'
<1>. USE DEF Struct
<1>1. /\ call[k].pc = "lookup"
      /\ call' = [call EXCEPT ![k].pc = "act", ![k].file = files[call[k].key]]
      /\ UNCHANGED <<server, alive, fdt, file, files, handles, made, mishaps, faults>>
  BY DEF Lookup, At
<1>2. files[call[k].key] \in Files \cup {nil}
  BY <1>1, KeySpaces DEF CallInv, TypeOK
<1>3. PICK r \in CallType :
        /\ call' = [call EXCEPT ![k] = r]
        /\ r.pc = "act" /\ r.file = files[call[k].key]
        /\ r.op = call[k].op /\ r.id = call[k].id /\ r.key = call[k].key
  <2>1. PICK f \in Files \cup {nil} : f = files[call[k].key]
    BY <1>2
  <2>2. call' = [call EXCEPT ![k].pc = "act", ![k].file = f]
    BY <1>1, <2>1
  <2>3. TypeOK /\ "act" \in {"act", "delete"}
    OBVIOUS
  <2>4. \E r \in CallType :
           /\ call' = [call EXCEPT ![k] = r]
           /\ r.pc = "act" /\ r.file = f
           /\ r.op = call[k].op /\ r.id = call[k].id /\ r.key = call[k].key
    BY <2>2, <2>3, GotoCall
  <2>. QED
    BY <2>1, <2>4
<1>. QED
  BY <1>1, <1>3, QuietStep DEF TypeOK

(* A Close closes its file, and stays to delete the key unless close() has *)
(* thrown.                                                                 *)
LEMMA ClosingStep ==
  ASSUME Struct, NEW k \in Clients, NEW r \in CallType, call[k].pc = "act", alive,
         call' = [call EXCEPT ![k] = r], UNCHANGED <<server, alive, files, handles, made, mishaps>>,
         faults' \in 0..MaxFaults,
         NEW o \in Files, o = Target(k), file[o].state = "open",
         NEW s \in {"closed", "broken"}, Closes(o, s),
         \/ r = NoCall /\ (s = "broken" \/ ~HasMap)
         \/ /\ r.pc = "delete" /\ r.key = call[k].key /\ r.id = call[k].id
            /\ r.file = call[k].file /\ r.op = "CLOSE" /\ HasMap
  PROVE  Struct'
<1>. USE DEF Struct
<1>1. /\ fdt' \in [Descriptors -> Files \cup {nil}] /\ file' \in [Files -> FileType]
      /\ \A p \in Files : /\ file'[p].key = file[p].key /\ file'[p].fd = file[p].fd
                          /\ file'[p].state = IF p = o THEN s ELSE file[p].state
  BY ClosedFile
(* It is not a file that is still being opened.                            *)
<1>2. \A j \in Clients : call[j].pc = "insert" => call[j].id \in Files /\ call[j].id # o
  <2>. SUFFICES ASSUME NEW j \in Clients, call[j].pc = "insert"
                PROVE  call[j].id \in Files /\ call[j].id # o
    OBVIOUS
  <2>1. call[j].id \in Files /\ HasMap
    BY Basics, MapServerAssumption DEF IdInv, CallInv, TypeOK
  <2>2. o = call[k].file /\ o # nil
    BY <2>1, Basics DEF Target
  <2>. QED
    BY <2>1, <2>2 DEF IdInv, Known, Opening
<1>3. IdInv' /\ CallInv'
  <2>1. \A x \in Keys : files'[x] \in {files[x], nil}
    OBVIOUS
  <2>2. \A p \in Files : /\ file'[p].key = file[p].key
                         /\ file'[p].state = "none" <=> file[p].state = "none"
    BY <1>1
  <2>3. \A j \in Clients : call[j].pc = "insert" => file'[call[j].id].state = "open"
    BY <1>1, <1>2 DEF CallInv
  <2>4. \A x \in Keys : files[x] # nil => HasMap /\ file[files[x]].key = x
    BY DEF FileInv
  <2>. QED
    BY <2>1, <2>2, <2>3, <2>4, CallStep
<1>4. FileInv'
  BY ClosedFileInv
<1>5. TypeOK'
  BY <1>1 DEF TypeOK, CallType, FileType
(* The entry of the file, if any, is the one this call is about to delete. *)
<1>6. ClosedEntriesAreLeaving'
  <2>1. call'[k] = r /\ \A j \in Clients \ {k} : call'[j] = call[j]
    BY DEF TypeOK
  <2>2. ASSUME NEW x \in Keys, files[x] = o PROVE HasMap /\ call[k].key = x
    BY <2>2, Basics DEF FileInv, CallInv, Target
  <2>3. \A x \in Keys : files[x] # nil => files[x] \in Files
    BY DEF TypeOK
  <2>. QED
    BY <1>1, <2>1, <2>2, <2>3 DEF ClosedEntriesAreLeaving
<1>. QED
  BY <1>3, <1>4, <1>5, <1>6

(* The file a call acts on, and what it does after closing it.             *)
LEMMA AfterClosing ==
  ASSUME Struct, NEW k \in Clients, call[k].pc = "act"
  PROVE  /\ Target(k) \in Files \cup {nil}
         /\ AfterClose(k) =>
              \/ call' = [call EXCEPT ![k] = NoCall] /\ (HasMap => Target(k) = nil)
              \/ /\ HasMap
                 /\ \E r \in CallType :
                      /\ call' = [call EXCEPT ![k] = r]
                      /\ r.pc = "delete" /\ r.file = call[k].file
                      /\ r.op = call[k].op /\ r.id = call[k].id /\ r.key = call[k].key
<1>. USE DEF Struct
<1>1. Target(k) \in Files \cup {nil}
  BY KeySpaces DEF Target, HasMap, CallInv, TypeOK
<1>2. ASSUME Goto(k, "delete")
      PROVE  \E r \in CallType :
               /\ call' = [call EXCEPT ![k] = r]
               /\ r.pc = "delete" /\ r.file = call[k].file
               /\ r.op = call[k].op /\ r.id = call[k].id /\ r.key = call[k].key
  <2>. DEFINE r == [call[k] EXCEPT !.pc = "delete"]
  <2>1. /\ r \in CallType /\ r.pc = "delete" /\ r.file = call[k].file
        /\ r.op = call[k].op /\ r.id = call[k].id /\ r.key = call[k].key
    BY DEF TypeOK, CallType
  <2>2. call' = [call EXCEPT ![k] = r]
    BY <1>2 DEF Goto
  <2>. QED
    BY <2>1, <2>2
<1>3. server \in {"go", "java", "python"}
  BY MapServerAssumption DEF TypeOK
<1>. QED
  BY <1>1, <1>2, <1>3 DEF AfterClose, Return, Target, HasMap

LEMMA ActStruct ==
  ASSUME Struct, NEW k \in Clients, Act(k)
  PROVE  Struct'
<1>. USE DEF Struct
<1>1. /\ call[k].pc = "act" /\ alive
      /\ UNCHANGED <<server, alive, files, handles, made, mishaps, faults>>
  BY DEF Act, At
<1>2. /\ alive \in BOOLEAN /\ mishaps \subseteq Mishaps /\ faults \in 0..MaxFaults
  BY DEF TypeOK
<1>3. CASE call[k].op # "CLOSE"
  <2>1. call' = [call EXCEPT ![k] = NoCall] /\ UNCHANGED <<fdt, file>>
    BY <1>3 DEF Act, Return
  <2>. QED
    BY <1>1, <1>2, <2>1, QuietStep, NoCallType
<1>4. CASE call[k].op = "CLOSE" /\ UNCHANGED <<fdt, file>>
  <2>1. AfterClose(k)
    BY <1>4 DEF Act
  <2>2. CASE call' = [call EXCEPT ![k] = NoCall]
    BY <1>1, <1>2, <1>4, <2>2, QuietStep, NoCallType
  <2>3. ASSUME HasMap, NEW r \in CallType, call' = [call EXCEPT ![k] = r], r.pc = "delete",
               r.file = call[k].file, r.op = call[k].op, r.id = call[k].id, r.key = call[k].key
        PROVE  Struct'
    BY <1>1, <1>2, <1>4, <2>3, QuietStep
  <2>. QED
    BY <1>1, <2>1, <2>2, <2>3, AfterClosing
<1>5. CASE /\ call[k].op = "CLOSE" /\ Target(k) # nil /\ file[Target(k)].state = "open"
           /\ Closes(Target(k), "closed")
  <2>1. AfterClose(k)
    BY <1>5 DEF Act
  <2>2. PICK o \in Files : o = Target(k)
    BY <1>1, <1>5, AfterClosing
  <2>3. "closed" \in {"closed", "broken"}
    OBVIOUS
  <2>4. CASE call' = [call EXCEPT ![k] = NoCall] /\ ~HasMap
    BY <1>1, <1>2, <1>5, <2>2, <2>3, <2>4, ClosingStep, NoCallType
  <2>5. ASSUME HasMap, NEW r \in CallType, call' = [call EXCEPT ![k] = r], r.pc = "delete",
               r.file = call[k].file, r.op = call[k].op, r.id = call[k].id, r.key = call[k].key
        PROVE  Struct'
    BY <1>1, <1>2, <1>5, <2>2, <2>3, <2>5, ClosingStep
  <2>. QED
    BY <1>1, <1>5, <2>1, <2>4, <2>5, AfterClosing
<1>. QED
  BY <1>3, <1>4, <1>5 DEF Act, Closes

LEMMA CloseThrowsStruct ==
  ASSUME Struct, NEW k \in Clients, CloseThrows(k)
  PROVE  Struct'
<1>. USE DEF Struct
<1>1. /\ call[k].pc = "act" /\ alive /\ HasMap
      /\ UNCHANGED <<server, alive, files, handles, made, mishaps>>
      /\ call' = [call EXCEPT ![k] = NoCall]
  BY DEF CloseThrows, At, Return, HasMap
<1>2. faults' \in 0..MaxFaults
  BY MapServerAssumption DEF CloseThrows, TypeOK
<1>3. PICK o \in Files : o = Target(k) /\ file[o].state = "open" /\ Closes(o, "broken")
  BY <1>1, AfterClosing DEF CloseThrows, Target, Closes
<1>4. "broken" \in {"closed", "broken"}
  OBVIOUS
<1>. QED
  BY <1>1, <1>2, <1>3, <1>4, ClosingStep, NoCallType

(* The entry leaves the map, whatever it is.                               *)
LEMMA DeleteStruct ==
  ASSUME Struct, NEW k \in Clients, Delete(k)
  PROVE  Struct'
<1>. USE DEF Struct
<1>1. /\ call[k].pc = "delete" /\ alive
      /\ UNCHANGED <<server, alive, fdt, file, handles, made, mishaps, faults>>
      /\ call' = [call EXCEPT ![k] = NoCall]
      /\ files' = [files EXCEPT ![call[k].key] = nil]
  BY DEF Delete, At, Return
<1>2. /\ call[k].key \in Keys
      /\ files' \in [Keys -> Files \cup {nil}]
      /\ \A x \in Keys : files'[x] = IF x = call[k].key THEN nil ELSE files[x]
  BY <1>1, KeySpaces DEF CallInv, TypeOK
<1>3. IdInv' /\ CallInv'
  <2>1. \A p \in Files : /\ file'[p].key = file[p].key
                         /\ file'[p].state = "none" <=> file[p].state = "none"
    BY <1>1
  <2>2. \A j \in Clients : call[j].pc = "insert" => file'[call[j].id].state = "open"
    BY <1>1 DEF CallInv
  <2>3. \A x \in Keys : files[x] # nil => HasMap /\ file[files[x]].key = x
    BY DEF FileInv
  <2>. QED
    BY <1>1, <1>2, <2>1, <2>2, <2>3, CallStep, NoCallType
<1>4. TypeOK'
  BY <1>1, <1>2, NoCallType DEF TypeOK, CallType
<1>5. FileInv'
  BY <1>1, <1>2 DEF FileInv, KeySpace, HasMap
<1>6. ClosedEntriesAreLeaving'
  <2>1. \A j \in Clients \ {k} : call'[j] = call[j]
    BY <1>1 DEF TypeOK
  <2>. QED
    BY <1>1, <1>2, <2>1 DEF ClosedEntriesAreLeaving
<1>. QED
  BY <1>3, <1>4, <1>5, <1>6

LEMMA FinalizeStruct ==
  ASSUME Struct, NEW o \in Files, Finalize(o)
  PROVE  Struct'
<1>. USE DEF Struct
<1>1. /\ file[o].state = "open" /\ Closes(o, "closed") /\ "closed" \in {"closed", "broken"}
      /\ \A x \in Keys : files[x] # o
      /\ \A k \in Clients : ~(call[k].pc = "insert" /\ call[k].id = o)
      /\ UNCHANGED <<server, alive, files, call, handles, made, mishaps, faults>>
  BY DEF Finalize, Closes
<1>2. /\ fdt' \in [Descriptors -> Files \cup {nil}] /\ file' \in [Files -> FileType]
      /\ \A p \in Files : /\ file'[p].key = file[p].key /\ file'[p].fd = file[p].fd
                          /\ file'[p].state = IF p = o THEN "closed" ELSE file[p].state
  BY <1>1, ClosedFile
<1>3. /\ \A j \in Clients : Opening(j) => call[j].id \in Files
      /\ \A j \in Clients : call[j].file # nil => call[j].file \in Files
      /\ \A x \in Keys : files[x] # nil => files[x] \in Files
  BY Basics, MapServerAssumption DEF IdInv, TypeOK, Opening
<1>4. TypeOK'
  BY <1>1, <1>2 DEF TypeOK, FileType
<1>5. IdInv'
  BY <1>1, <1>2, <1>3 DEF IdInv, Known, Opening
<1>6. CallInv'
  BY <1>1, <1>2, <1>3 DEF CallInv,
         KeySpace, HasMap, Opening
<1>7. FileInv'
  BY <1>1, ClosedFileInv
<1>8. ClosedEntriesAreLeaving'
  BY <1>1, <1>2, <1>3 DEF ClosedEntriesAreLeaving
<1>. QED
  BY <1>4, <1>5, <1>6, <1>7, <1>8

(* The process ends.                                                       *)
LEMMA EndStruct ==
  ASSUME Struct, alive' = FALSE, faults' \in 0..MaxFaults,
         UNCHANGED <<server, fdt, file, files, call, handles, made, mishaps>>
  PROVE  Struct'
<1>. USE DEF Struct
<1>1. alive' \in BOOLEAN
  BY Zenon
<1>2. TypeOK'
  BY <1>1 DEF TypeOK
<1>3. IdInv' /\ CallInv'
  BY DEF IdInv, CallInv, Known, Opening, KeySpace, HasMap
<1>4. FileInv' /\ ClosedEntriesAreLeaving'
  BY DEF FileInv, KeySpace, HasMap, ClosedEntriesAreLeaving
<1>. QED
  BY <1>2, <1>3, <1>4

(* A new call: its number is greater than any before.                      *)
LEMMA InvokeStruct ==
  ASSUME Struct, NEW k \in Clients, NEW op \in Ops, NEW key \in Keys \cup {nil}, Invoke(k, op, key)
  PROVE  Struct'
<1>. USE DEF Struct
<1>. DEFINE pc == CASE op = "OPEN" -> "open"
                    [] op # "OPEN" /\ HasMap -> "lookup"
                    [] op # "OPEN" /\ ~HasMap -> "act"
<1>1. /\ call[k].pc = "idle" /\ made < MaxCalls[server] /\ made' = made + 1
      /\ call' = [call EXCEPT ![k] = [pc |-> pc, op |-> op, id |-> made + 1, key |-> key,
                                      file |-> nil]]
      /\ UNCHANGED <<server, alive, fdt, file, files, mishaps, faults>>
  BY DEF Invoke, At
<1>2. /\ made \in Nat /\ made + 1 \in Ids /\ made' \in 0..MaxCalls[server]
  BY <1>1, Basics DEF IdInv, TypeOK
<1>3. /\ pc \in {"open", "lookup", "act"}
      /\ pc = "open" <=> op = "OPEN"
      /\ pc = "lookup" => HasMap
  OBVIOUS
<1>4. key \in KeySpace \/ op = "OPEN"
  <2>1. op = "CLOSE" => \E h \in handles[k] : key = h[1]
    BY DEF Invoke
  <2>. QED
    BY <2>1 DEF Invoke, CallInv, KeySpace, Ops
<1>. HIDE DEF pc
<1>5. /\ call' \in [Clients -> CallType]
      /\ call'[k] = [pc |-> pc, op |-> op, id |-> made + 1, key |-> key, file |-> nil]
      /\ \A j \in Clients \ {k} : call'[j] = call[j]
  BY <1>1, <1>2, <1>3 DEF TypeOK, CallType
<1>6. /\ call'[k].pc = pc /\ call'[k].op = op /\ call'[k].id = made + 1
      /\ call'[k].key = key /\ call'[k].file = nil
  BY <1>5
<1>7. /\ handles' \in [Clients -> SUBSET (Keys \X Files)]
      /\ \A j \in Clients : handles'[j] \subseteq handles[j]
  BY DEF Invoke, TypeOK
<1>8. \A p \in Files : Known(p) => p <= made' /\ \A j \in Clients : Opening(j)' => call'[j].id # p
  BY <1>1, <1>2, <1>5, <1>6, Basics DEF Known, Opening
<1>9. TypeOK'
  <2>1. made' \in Ids \cup {0}
    BY <1>1, <1>2
  <2>. QED
    BY <1>1, <1>5, <1>7, <2>1 DEF TypeOK, CallType
<1>10. IdInv'
  <2>1. \A o \in Files : file[o].state # "none" => o <= made'
    BY <1>1, <1>2, Basics DEF IdInv
  <2>2. \A j \in Clients : call'[j].pc # "idle" => call'[j].id \in 1..made'
    BY <1>1, <1>2, <1>5, <1>6 DEF IdInv
  <2>3. \A i, j \in Clients : i # j /\ Opening(i)' /\ Opening(j)' => call'[i].id # call'[j].id
    <3>1. \A j \in Clients \ {k} : Opening(j)' => call'[j].id \in 1..made /\ Opening(j)
      BY <1>5 DEF Opening, IdInv
    <3>. QED
      BY <1>2, <1>5, <1>6, <3>1 DEF IdInv
  <2>4. \A j \in Clients : call'[j].pc = "open" => file'[call'[j].id].state = "none"
    <3>1. file[made + 1].state = "none"
      BY <1>2, Basics DEF IdInv
    <3>. QED
      BY <1>1, <1>5, <1>6, <3>1 DEF IdInv
  <2>5. /\ \A x \in Keys : files[x] # nil => files[x] \in Files /\ Known(files[x])
        /\ \A j \in Clients : call'[j].file # nil => call'[j].file \in Files /\ Known(call'[j].file)
        /\ \A j \in Clients : \A h \in handles'[j] : h[2] \in Files /\ Known(h[2])
    BY <1>5, <1>6, <1>7 DEF IdInv, TypeOK
  <2>6. /\ \A x \in Keys : (files[x] # nil => Known(files[x]))'
        /\ \A j \in Clients : (call[j].file # nil => Known(call[j].file))'
        /\ \A j \in Clients : (\A h \in handles[j] : Known(h[2]))'
    BY <1>1, <1>8, <2>5 DEF Known
  <2>. QED
    BY <1>1, <1>2, <2>1, <2>2, <2>3, <2>4, <2>6 DEF IdInv
<1>11. CallInv'
  BY <1>1, <1>3, <1>4, <1>5, <1>6, <1>7 DEF CallInv, KeySpace, HasMap
<1>12. FileInv'
  BY <1>1 DEF FileInv, KeySpace, HasMap
<1>13. ClosedEntriesAreLeaving'
  BY <1>1, <1>5 DEF ClosedEntriesAreLeaving
<1>. QED
  BY <1>9, <1>10, <1>11, <1>12, <1>13

(* A file is opened: its call goes on to enter it in the map, or returns.  *)
LEMMA OpenStruct ==
  ASSUME Struct, NEW k \in Clients, OpenFile(k)
  PROVE  Struct'
<1>. USE DEF Struct
<1>1. /\ call[k].pc = "open" /\ UNCHANGED <<server, alive, files, made, mishaps, faults>>
      /\ alive \in BOOLEAN /\ mishaps \subseteq Mishaps /\ faults \in 0..MaxFaults
  BY DEF OpenFile, At, TypeOK
<1>2. CASE Return(k) /\ UNCHANGED <<fdt, file, handles>>
  BY <1>1, <1>2, QuietStep, NoCallType DEF Return
<1>3. ASSUME NEW d \in LowestFd, NEW key \in IF server = "java" THEN Hashes ELSE {d},
             fdt' = [fdt EXCEPT ![d] = call[k].id],
             file' = [file EXCEPT ![call[k].id] = [state |-> "open", fd |-> d, key |-> key]],
             IF HasMap
             THEN /\ call' = [call EXCEPT ![k].pc = "insert", ![k].key = key]
                  /\ UNCHANGED handles
             ELSE /\ Return(k)
                  /\ handles' = [handles EXCEPT ![k] = @ \cup {<<key, call[k].id>>}]
      PROVE  Struct'
  <2>1. /\ d \in Descriptors /\ fdt[d] = nil
        /\ key \in KeySpace /\ key \in Keys /\ (server # "java" => key = d)
    BY Basics DEF LowestFd, FreeFds, KeySpace
  <2>2. PICK o \in Files : o = call[k].id /\ o \in 1..made /\ file[o].state = "none" /\ o # nil
    BY <1>1, Basics, MapServerAssumption DEF IdInv, TypeOK
  <2>3. /\ fdt' \in [Descriptors -> Files \cup {nil}]
        /\ \A e \in Descriptors : fdt'[e] = IF e = d THEN o ELSE fdt[e]
    BY <1>3, <2>1, <2>2 DEF TypeOK
  <2>4. /\ file' \in [Files -> FileType]
        /\ file'[o].state = "open" /\ file'[o].fd = d /\ file'[o].key = key
        /\ \A p \in Files \ {o} : file'[p] = file[p]
    BY <1>3, <2>1, <2>2 DEF TypeOK, FileType
  (* Nothing refers to the new file yet.                                   *)
  <2>5. /\ \A e \in Descriptors : fdt[e] # o
        /\ \A x \in Keys : files[x] # o
        /\ \A j \in Clients : call[j].file # o
        /\ \A j \in Clients : \A h \in handles[j] : h[2] # o
        /\ \A j \in Clients \ {k} : Opening(j) => call[j].id # o
    BY <1>1, <2>2 DEF IdInv, Known, Opening, FileInv
  <2>6. /\ \A e \in Descriptors : fdt[e] # nil => fdt[e] \in Files
        /\ \A x \in Keys : files[x] # nil => files[x] \in Files
        /\ \A j \in Clients : call[j].file # nil => call[j].file \in Files
        /\ \A j \in Clients : Opening(j) => call[j].id \in Files
    BY Basics, MapServerAssumption DEF TypeOK, IdInv, Opening
  <2>7. FileInv'
    <3>1. UNCHANGED <<KeySpace, HasMap>>
      BY <1>1 DEF KeySpace, HasMap
    <3>2. \A p \in Files : file'[p].state = "open" =>
            /\ file'[p].fd \in Descriptors /\ fdt'[file'[p].fd] = p
            /\ file'[p].key \in KeySpace
            /\ server # "java" => file'[p].key = file'[p].fd
      <4>1. \A p \in Files \ {o} : file[p].state = "open" => file[p].fd # d
        <5>1. nil \notin Files
          BY Basics
        <5>2. \A p \in Files : file[p].state = "open" => fdt[file[p].fd] = p
          BY DEF FileInv
        <5>. QED
          BY <2>1, <5>1, <5>2
      <4>. QED
        BY <2>1, <2>2, <2>3, <2>4, <4>1 DEF FileInv
    <3>3. \A e \in Descriptors : fdt'[e] # nil =>
            file'[fdt'[e]].state = "open" /\ file'[fdt'[e]].fd = e
      <4>1. \A e \in Descriptors \ {d} : fdt[e] # nil => file'[fdt[e]] = file[fdt[e]]
        BY <2>4, <2>5, <2>6
      <4>. QED
        BY <2>1, <2>2, <2>3, <2>4, <4>1 DEF FileInv
    <3>4. \A x \in Keys : files[x] # nil => HasMap /\ file'[files[x]].key = x
      BY <2>4, <2>5, <2>6 DEF FileInv
    <3>. QED
      BY <1>1, <3>1, <3>2, <3>3, <3>4 DEF FileInv
  <2>8. CASE HasMap
    <3>1. /\ call' \in [Clients -> CallType]
          /\ call'[k].pc = "insert" /\ call'[k].key = key /\ call'[k].op = call[k].op
          /\ call'[k].id = o /\ call'[k].file = call[k].file
          /\ \A j \in Clients \ {k} : call'[j] = call[j]
      <4>. DEFINE r == [call[k] EXCEPT !.pc = "insert", !.key = key]
      <4>1. /\ r \in CallType /\ r.pc = "insert" /\ r.key = key /\ r.op = call[k].op
            /\ r.id = o /\ r.file = call[k].file
        <5>1. call[k] \in CallType /\ call[k].id = o
          BY <2>2 DEF TypeOK, CallType
        <5>. QED
          BY <2>1, <5>1 DEF CallType
      <4>2. call' = [call EXCEPT ![k] = r]
        BY <1>3, <2>8
      <4>. HIDE DEF r
      <4>. QED
        BY <4>1, <4>2 DEF TypeOK, CallType
    <3>2. handles' = handles /\ call[k].file = nil
      BY <1>1, <1>3, <2>8 DEF CallInv
    <3>3. TypeOK'
      BY <1>1, <2>3, <2>4, <3>1, <3>2 DEF TypeOK, CallType, FileType
    <3>4. \A j \in Clients : Opening(j)' <=> Opening(j)
      BY <1>1, <3>1 DEF Opening
    <3>5. \A j \in Clients : call'[j].id = call[j].id /\ call'[j].file = call[j].file
      BY <2>2, <3>1
    <3>6. \A p : Known(p) => p <= made' /\ \A j \in Clients : Opening(j)' => call'[j].id # p
      BY <1>1, <3>4, <3>5 DEF Known
    <3>7. IdInv'
      <4>1. /\ \A j \in Clients : call'[j].pc # "idle" => call'[j].id \in 1..made'
            /\ \A i, j \in Clients : i # j /\ Opening(i)' /\ Opening(j)' => call'[i].id # call'[j].id
            /\ \A p \in Files : file'[p].state # "none" => p <= made'
        BY <1>1, <2>2, <2>4, <3>1, <3>4, <3>5 DEF IdInv
      <4>2. \A j \in Clients : call'[j].pc = "open" => file'[call'[j].id].state = "none"
        BY <2>4, <2>5, <2>6, <3>1 DEF IdInv, Opening
      <4>3. /\ \A x \in Keys : (files[x] # nil => Known(files[x]))'
            /\ \A j \in Clients : (call[j].file # nil => Known(call[j].file))'
            /\ \A j \in Clients : (\A h \in handles[j] : Known(h[2]))'
        BY <1>1, <3>2, <3>5, <3>6 DEF Known, IdInv
      <4>. QED
        BY <1>1, <4>1, <4>2, <4>3 DEF IdInv
    <3>8. CallInv'
      <4>1. UNCHANGED <<KeySpace, HasMap>>
        BY <1>1 DEF KeySpace, HasMap
      <4>2. \A j \in Clients \ {k} : /\ call[j].file # nil => file'[call[j].file] = file[call[j].file]
                                     /\ call[j].pc = "insert" => file'[call[j].id] = file[call[j].id]
        BY <2>4, <2>5, <2>6 DEF Opening
      <4>. QED
        BY <2>1, <2>4, <2>8, <3>1, <3>2, <4>1, <4>2 DEF CallInv
    <3>9. ClosedEntriesAreLeaving'
      BY <1>1, <2>4, <2>5, <2>6, <3>1 DEF ClosedEntriesAreLeaving
    <3>. QED
      BY <2>7, <3>3, <3>7, <3>8, <3>9
  <2>9. CASE ~HasMap
    <3>1. /\ call' \in [Clients -> CallType] /\ call'[k] = NoCall
          /\ \A j \in Clients \ {k} : call'[j] = call[j]
      BY <1>3, <2>9, NoCallType DEF Return, TypeOK, CallType
    <3>2. /\ handles' \in [Clients -> SUBSET (Keys \X Files)]
          /\ \A j \in Clients : \A h \in handles'[j] : h \in handles[j] \/ h = <<key, o>>
      BY <1>3, <2>1, <2>2, <2>9 DEF TypeOK
    <3>3. TypeOK'
      BY <1>1, <2>3, <2>4, <3>1, <3>2 DEF TypeOK, CallType, FileType
    <3>4. \A j \in Clients : Opening(j)' <=> Opening(j) /\ j # k
      BY <3>1, NoCallType DEF Opening
    <3>5. \A p : Known(p) \/ p = o
             => p <= made' /\ \A j \in Clients : Opening(j)' => call'[j].id # p
      BY <1>1, <2>2, <2>5, <3>1, <3>4, Basics DEF Known, IdInv
    <3>6. IdInv'
      <4>1. /\ \A j \in Clients : call'[j].pc # "idle" => call'[j].id \in 1..made'
            /\ \A i, j \in Clients : i # j /\ Opening(i)' /\ Opening(j)' => call'[i].id # call'[j].id
            /\ \A p \in Files : file'[p].state # "none" => p <= made'
        BY <1>1, <2>2, <2>4, <3>1, <3>4, NoCallType DEF IdInv
      <4>2. \A j \in Clients : call'[j].pc = "open" => file'[call'[j].id].state = "none"
        BY <2>4, <2>5, <2>6, <3>1, NoCallType DEF IdInv, Opening
      <4>3. \A j \in Clients : \A h \in handles'[j] : Known(h[2]) \/ h[2] = o
        BY <3>2 DEF IdInv
      <4>4. /\ \A x \in Keys : (files[x] # nil => Known(files[x]))'
            /\ \A j \in Clients : (call[j].file # nil => Known(call[j].file))'
            /\ \A j \in Clients : (\A h \in handles[j] : Known(h[2]))'
        BY <1>1, <3>1, <3>5, <4>3, NoCallType DEF Known, IdInv
      <4>. QED
        BY <1>1, <4>1, <4>2, <4>4 DEF IdInv
    <3>7. CallInv'
      BY <1>1, <2>1, <2>4, <2>5, <2>6, <2>9, <3>1, <3>2, NoCallType DEF CallInv,
         KeySpace, HasMap, Opening
    <3>8. ClosedEntriesAreLeaving'
      BY <1>1, <2>4, <2>5, <2>6, <3>1 DEF ClosedEntriesAreLeaving
    <3>. QED
      BY <2>7, <3>3, <3>6, <3>7, <3>8
  <2>. QED
    BY <2>8, <2>9
<1>. QED
  BY <1>2, <1>3 DEF OpenFile

(* The reply of an Open, after the file was entered, or not, which counts  *)
(* as a mishap.                                                            *)
LEMMA GiveStruct ==
  ASSUME Struct, NEW k \in Clients, call[k].pc = "insert", GiveKey(k),
         NEW f \in {call[k].id, files[call[k].key]}, files' = [files EXCEPT ![call[k].key] = f],
         f # call[k].id => "race" \in mishaps',
         mishaps' \subseteq Mishaps, mishaps \subseteq mishaps'
  PROVE  Struct'
<1>. USE DEF Struct
<1>1. /\ UNCHANGED <<server, alive, fdt, file, made, faults>>
      /\ call' = [call EXCEPT ![k] = NoCall]
      /\ handles' = [handles EXCEPT ![k] = @ \cup {<<call[k].key, call[k].id>>}]
  BY DEF GiveKey, Return
<1>2. PICK o \in Files, key \in KeySpace :
        /\ o = call[k].id /\ key = call[k].key /\ o \in 1..made /\ HasMap
        /\ file[o].state = "open" /\ file[o].key = key /\ o # nil /\ key \in Keys
  <2>1. call[k].id \in 1..made /\ call[k].id \in Files /\ call[k].id # nil
    BY Basics, MapServerAssumption DEF IdInv, TypeOK
  <2>2. call[k].key \in KeySpace /\ call[k].key \in Keys
    BY KeySpaces DEF CallInv
  <2>. QED
    BY <2>1, <2>2 DEF CallInv
<1>3. /\ files' \in [Keys -> Files \cup {nil}] /\ files'[key] \in {o, files[key]}
      /\ files'[key] # o => "race" \in mishaps'
      /\ \A x \in Keys \ {key} : files'[x] = files[x]
  BY <1>2 DEF TypeOK
<1>4. /\ handles' \in [Clients -> SUBSET (Keys \X Files)]
      /\ \A j \in Clients : \A h \in handles'[j] : h \in handles[j] \/ h = <<key, o>>
  BY <1>1, <1>2 DEF TypeOK
<1>5. /\ call' \in [Clients -> CallType] /\ call'[k] = NoCall
      /\ \A j \in Clients \ {k} : call'[j] = call[j]
  BY <1>1, NoCallType DEF TypeOK, CallType
<1>6. TypeOK'
  BY <1>1, <1>3, <1>4, <1>5 DEF TypeOK, CallType
<1>7. \A j \in Clients : Opening(j)' <=> Opening(j) /\ j # k
  BY <1>5, NoCallType DEF Opening
<1>8. \A p : Known(p) \/ p = o
         => p <= made' /\ \A j \in Clients : Opening(j)' => call'[j].id # p
  BY <1>1, <1>2, <1>5, <1>7 DEF Known, IdInv, Opening
<1>9. IdInv'
  <2>1. /\ \A j \in Clients : call'[j].pc # "idle" => call'[j].id \in 1..made'
        /\ \A i, j \in Clients : i # j /\ Opening(i)' /\ Opening(j)' => call'[i].id # call'[j].id
        /\ \A p \in Files : file'[p].state # "none" => p <= made'
        /\ \A j \in Clients : call'[j].pc = "open" => file'[call'[j].id].state = "none"
    BY <1>1, <1>5, <1>7, NoCallType DEF IdInv
  <2>2. /\ \A x \in Keys : files'[x] # nil => Known(files'[x]) \/ files'[x] = o
        /\ \A j \in Clients : call'[j].file # nil => Known(call'[j].file)
        /\ \A j \in Clients : \A h \in handles'[j] : Known(h[2]) \/ h[2] = o
    BY <1>2, <1>3, <1>4, <1>5, NoCallType DEF IdInv
  <2>3. /\ \A x \in Keys : (files[x] # nil => Known(files[x]))'
        /\ \A j \in Clients : (call[j].file # nil => Known(call[j].file))'
        /\ \A j \in Clients : (\A h \in handles[j] : Known(h[2]))'
    BY <1>8, <2>2 DEF Known
  <2>. QED
    BY <1>1, <2>1, <2>3 DEF IdInv
<1>10. CallInv'
  BY <1>1, <1>2, <1>4, <1>5, NoCallType DEF CallInv, KeySpace, HasMap
<1>11. FileInv'
  BY <1>1, <1>2, <1>3 DEF FileInv, KeySpace, HasMap
<1>12. ClosedEntriesAreLeaving'
  BY <1>1, <1>2, <1>3, <1>5 DEF ClosedEntriesAreLeaving
<1>. QED
  BY <1>6, <1>9, <1>10, <1>11, <1>12

LEMMA InsertStruct ==
  ASSUME Struct, NEW k \in Clients, Insert(k)
  PROVE  Struct'
<1>1. /\ call[k].pc = "insert" /\ GiveKey(k) /\ files' = [files EXCEPT ![call[k].key] = call[k].id]
      /\ mishaps \subseteq mishaps'
  BY DEF Insert, At
<1>2. mishaps' \subseteq Mishaps
  BY DEF Insert, Struct, TypeOK, Mishaps
<1>. QED
  BY <1>1, <1>2, GiveStruct

LEMMA LostAccessStruct ==
  ASSUME Struct, NEW k \in Clients, LostAccess(k)
  PROVE  Struct'
<1>. USE DEF Struct
<1>1. /\ mishaps' \subseteq Mishaps /\ mishaps \subseteq mishaps' /\ "race" \in mishaps'
      /\ files' = files
  BY DEF LostAccess, TypeOK, Mishaps
<1>2. CASE call[k].pc = "insert" /\ GiveKey(k)
  <2>1. files' = [files EXCEPT ![call[k].key] = files[call[k].key]]
    BY <1>1 DEF TypeOK
  <2>. QED
    BY <1>1, <1>2, <2>1, GiveStruct
<1>3. CASE /\ call[k].pc = "delete" /\ Return(k)
           /\ UNCHANGED <<server, alive, fdt, file, handles, made, faults>>
  <2>1. alive \in BOOLEAN /\ faults \in 0..MaxFaults
    BY DEF TypeOK
  <2>. QED
    BY <1>1, <1>3, <2>1, QuietStep, NoCallType DEF Return
<1>4. CASE /\ call[k].pc = "lookup" /\ Goto(k, "act")
           /\ UNCHANGED <<server, alive, fdt, file, handles, made, faults>>
  <2>1. alive \in BOOLEAN /\ faults \in 0..MaxFaults /\ call[k].file = nil
    BY <1>4 DEF TypeOK, CallInv
  <2>. DEFINE r == [call[k] EXCEPT !.pc = "act"]
  <2>2. /\ r \in CallType /\ r.pc = "act" /\ r.file = nil
        /\ r.id = call[k].id /\ r.key = call[k].key
    BY <2>1 DEF TypeOK, CallType
  <2>3. call' = [call EXCEPT ![k] = r]
    BY <1>4 DEF Goto
  <2>. HIDE DEF r
  <2>. QED
    BY <1>1, <1>4, <2>1, <2>2, <2>3, QuietStep
<1>. QED
  BY <1>2, <1>3, <1>4 DEF LostAccess

LEMMA InitStruct == Init => Struct
<1>. SUFFICES ASSUME Init PROVE Struct
  OBVIOUS
<1>1. alive \in BOOLEAN
  BY Zenon DEF Init
<1>2. NoFile \in FileType /\ NoFile.state = "none"
  BY DEF NoFile, FileType
<1>3. TypeOK
  <2>1. fdt \in [Descriptors -> Files \cup {nil}] /\ files \in [Keys -> Files \cup {nil}]
    BY DEF Init
  <2>2. file \in [Files -> FileType] /\ call \in [Clients -> CallType]
    BY <1>2, NoCallType DEF Init
  <2>3. faults \in 0..MaxFaults /\ made \in Ids \cup {0}
    BY MapServerAssumption DEF Init
  <2>4. handles \in [Clients -> SUBSET (Keys \X Files)] /\ mishaps \subseteq Mishaps
    BY DEF Init
  <2>. QED
    BY <1>1, <2>1, <2>2, <2>3, <2>4 DEF Init, TypeOK, FileType, CallType
<1>4. IdInv
  BY <1>2, NoCallType, Basics DEF Init, IdInv, Opening
<1>5. CallInv /\ FileInv /\ ClosedEntriesAreLeaving
  BY <1>2, NoCallType DEF Init, CallInv, FileInv, ClosedEntriesAreLeaving
<1>. QED
  BY <1>3, <1>4, <1>5 DEF Struct

LEMMA NextStruct == Struct /\ [Next]_vars => Struct'
<1>. SUFFICES ASSUME Struct, [Next]_vars PROVE Struct'
  OBVIOUS
<1>1. CASE UNCHANGED vars
  BY <1>1 DEF vars, Struct, TypeOK, IdInv, CallInv, FileInv, ClosedEntriesAreLeaving, Known,
              Opening, KeySpace, HasMap
<1>2. ASSUME NEW k \in Clients, GoRaceAborts(k) PROVE Struct'
  BY <1>2, EndStruct DEF GoRaceAborts, Struct, TypeOK
<1>3. CASE SignalHandler
  <2>1. faults' \in 0..MaxFaults
    BY <1>3, MapServerAssumption DEF SignalHandler, Struct, TypeOK
  <2>. QED
    BY <1>3, <2>1, EndStruct DEF SignalHandler
<1>. QED
  BY <1>1, <1>2, <1>3, ServerGoneStruct, LookupStruct, ActStruct, CloseThrowsStruct, DeleteStruct,
     FinalizeStruct, InvokeStruct, OpenStruct, InsertStruct, LostAccessStruct DEF Next, Serve

-----------------------------------------------------------------------------
(* A key that denotes a file is the key of that file.                      *)
LEMMA DenotedKey ==
  ASSUME Struct, NEW x \in KeySpace, Denoted(x) # nil
  PROVE  /\ Denoted(x) \in Files /\ file[Denoted(x)].key = x
         /\ ~HasMap => file[Denoted(x)].state = "open" /\ file[Denoted(x)].fd = x
  BY KeySpaces DEF Denoted, Struct, FileInv, TypeOK, HasMap

(* What the keys held and the keys being closed are.                       *)
LEMMA KeyTypes ==
  ASSUME Struct
  PROVE  /\ \A j \in Clients : \A h \in handles[j] :
              h[1] \in KeySpace /\ h[1] \in Keys /\ h[2] \in Files /\ h[2] # nil
         /\ \A j \in Clients : Closer(j) => call[j].key \in KeySpace /\ call[j].key \in Keys
         /\ \A x \in Keys : files[x] # nil => files[x] \in Files
<1>1. \A j \in Clients : \A h \in handles[j] :
        h[1] \in KeySpace /\ h[1] \in Keys /\ h[2] \in Files /\ h[2] # nil
  BY Basics, KeySpaces DEF Struct, CallInv, TypeOK
<1>2. \A j \in Clients : Closer(j) => call[j].key \in KeySpace /\ call[j].key \in Keys
  BY KeySpaces DEF Struct, CallInv, Closer
<1>3. \A x \in Keys : files[x] # nil => files[x] \in Files
  BY DEF Struct, TypeOK
<1>. QED
  BY <1>1, <1>2, <1>3

(* What a step has to preserve, once no mishap has happened in it.         *)
LEMMA KeyedSuffices ==
  ASSUME Keyed, alive' => alive, mishaps \subseteq mishaps',
         alive /\ mishaps = {} /\ alive' /\ mishaps' = {} /\ KeyInv /\ EntryInv /\ NoFileIsLost
           => KeyInv' /\ EntryInv' /\ NoFileIsLost'
  PROVE  Keyed'
  BY DEF Keyed

LEMMA LookupKeyed ==
  ASSUME Struct, Keyed, NEW k \in Clients, Lookup(k)
  PROVE  Keyed'
<1>. USE DEF Struct
<1>1. /\ call[k].pc = "lookup" /\ UNCHANGED <<server, alive, fdt, file, files, handles, mishaps>>
  BY DEF Lookup, At
<1>. SUFFICES ASSUME alive, mishaps = {}, KeyInv, EntryInv, NoFileIsLost
              PROVE  KeyInv' /\ EntryInv' /\ NoFileIsLost'
  BY <1>1, KeyedSuffices
<1>2. /\ \A j \in Clients \ {k} : call'[j] = call[j]
      /\ call'[k].pc = "act" /\ call'[k].file = files[call[k].key]
      /\ call'[k].op = call[k].op /\ call'[k].id = call[k].id /\ call'[k].key = call[k].key
  <2>1. call' = [call EXCEPT ![k].pc = "act", ![k].file = files[call[k].key]]
    BY DEF Lookup
  <2>. QED
    BY <2>1 DEF TypeOK
<1>3. /\ \A j \in Clients : (Closer(j)' <=> Closer(j)) /\ call'[j].key = call[j].key
      /\ \A x : Denoted(x)' = Denoted(x)
  BY <1>1, <1>2 DEF Closer, Denoted, HasMap
<1>4. KeyInv'
  <2>1. \A j \in Clients : Closer(j) => call'[j].pc = "delete" <=> call[j].pc = "delete"
    BY <1>1, <1>2
  <2>2. \A j \in Clients : Closer(j) /\ call'[j].pc = "act" /\ HasMap
          => call'[j].file = files[call[j].key]
    BY <1>2 DEF KeyInv
  <2>. QED
    BY <1>1, <1>3, <2>1, <2>2 DEF KeyInv, HasMap
<1>5. EntryInv'
  BY <1>1, <1>2, <1>3 DEF EntryInv
<1>6. NoFileIsLost'
  BY <1>1, <1>2 DEF NoFileIsLost
<1>. QED
  BY <1>4, <1>5, <1>6

(* A Close, and nobody else, takes its key from the client.                *)
LEMMA InvokeKeyed ==
  ASSUME Struct, Keyed, NEW k \in Clients, NEW op \in Ops, NEW key \in Keys \cup {nil},
         Invoke(k, op, key)
  PROVE  Keyed'
<1>. USE DEF Struct
<1>. DEFINE pc == CASE op = "OPEN" -> "open"
                    [] op # "OPEN" /\ HasMap -> "lookup"
                    [] op # "OPEN" /\ ~HasMap -> "act"
<1>1. /\ call[k].pc = "idle" /\ UNCHANGED <<server, alive, fdt, file, files, mishaps>>
      /\ call' = [call EXCEPT ![k] = [pc |-> pc, op |-> op, id |-> made + 1, key |-> key,
                                      file |-> nil]]
      /\ handles' = [handles EXCEPT ![k] = {h \in @ : op = "CLOSE" => h[1] # key}]
      /\ op = "CLOSE" => \E h \in handles[k] : h[1] = key
  BY DEF Invoke, At
<1>. SUFFICES ASSUME alive, mishaps = {}, KeyInv, EntryInv, NoFileIsLost
              PROVE  KeyInv' /\ EntryInv' /\ NoFileIsLost'
  BY <1>1, KeyedSuffices
<1>2. /\ pc \in {"open", "lookup", "act"}
      /\ op = "CLOSE" => pc \in {"lookup", "act"} /\ (pc = "act" => ~HasMap)
  OBVIOUS
<1>. HIDE DEF pc
<1>3. /\ \A j \in Clients \ {k} : call'[j] = call[j]
      /\ call'[k].pc = pc /\ call'[k].op = op /\ call'[k].key = key
  BY <1>1 DEF TypeOK
<1>4. /\ \A j \in Clients \ {k} : handles'[j] = handles[j]
      /\ \A h : h \in handles'[k] <=> h \in handles[k] /\ (op = "CLOSE" => h[1] # key)
  BY <1>1 DEF TypeOK
<1>5. /\ \A j \in Clients \ {k} : Closer(j)' <=> Closer(j)
      /\ ~Closer(k) /\ (Closer(k)' <=> op = "CLOSE")
      /\ \A x : Denoted(x)' = Denoted(x)
  BY <1>1, <1>2, <1>3 DEF Closer, Denoted, HasMap
<1>6. KeyInv'
  <2>1. ASSUME NEW j \in Clients, NEW h \in handles'[j]
        PROVE  /\ Denoted(h[1])' = h[2] /\ file'[h[2]].state = "open" /\ file'[h[2]].key = h[1]
               /\ \A i \in Clients : Closer(i)' => call'[i].key # h[1]
               /\ \A i \in Clients \ {j} : \A g \in handles'[i] : g[1] # h[1]
    <3>1. h \in handles[j] /\ \A i \in Clients : \A g \in handles'[i] : g \in handles[i]
      BY <1>4, <2>1
    <3>2. /\ Denoted(h[1])' = h[2] /\ file'[h[2]].state = "open" /\ file'[h[2]].key = h[1]
          /\ \A i \in Clients \ {j} : \A g \in handles'[i] : g[1] # h[1]
      BY <1>1, <1>5, <3>1 DEF KeyInv
    <3>3. op = "CLOSE" => h[1] # key
      BY <1>1, <1>4, <2>1, <3>1 DEF KeyInv
    <3>. QED
      BY <1>3, <1>5, <3>1, <3>2, <3>3 DEF KeyInv
  <2>2. ASSUME NEW j \in Clients, Closer(j)'
        PROVE  /\ \A i \in Clients \ {j} : Closer(i)' => call'[i].key # call'[j].key
               /\ IF call'[j].pc = "delete"
                  THEN files'[call'[j].key] # nil => file'[files'[call'[j].key]].state # "open"
                  ELSE /\ Denoted(call'[j].key) # nil
                       /\ file'[Denoted(call'[j].key)].state = "open"
                       /\ call'[j].pc = "act" /\ HasMap => call'[j].file = files'[call'[j].key]
    <3>1. op = "CLOSE" => \A i \in Clients : Closer(i) => call[i].key # key
      BY <1>1 DEF KeyInv
    <3>2. op = "CLOSE" => Denoted(key) # nil /\ file[Denoted(key)].state = "open"
      <4>1. \A h \in handles[k] : h[2] # nil
        BY Basics DEF TypeOK
      <4>. QED
        BY <1>1, <4>1 DEF KeyInv
    <3>3. CASE j = k
      BY <1>1, <1>2, <1>3, <1>5, <2>2, <3>1, <3>2, <3>3
    <3>4. CASE j # k
      BY <1>1, <1>3, <1>5, <2>2, <3>1, <3>4 DEF KeyInv
    <3>. QED
      BY <3>3, <3>4
  <2>3. \A x : Denoted(x)' = Denoted(x) /\ (HasMap' <=> HasMap)
    BY <1>1, <1>5 DEF HasMap
  <2>. QED
    BY <2>1, <2>2, <2>3 DEF KeyInv
<1>7. EntryInv'
  BY <1>1, <1>3, <1>5 DEF EntryInv
<1>8. NoFileIsLost'
  <2>. SUFFICES ASSUME NEW o \in Files, file[o].state = "open"
                PROVE  \E j \in Clients :
                         \/ <<file[o].key, o>> \in handles'[j]
                         \/ call'[j].pc = "insert" /\ call'[j].id = o
                         \/ call'[j].pc \in {"lookup", "act"} /\ call'[j].op = "CLOSE"
                              /\ call'[j].key = file[o].key
    BY <1>1 DEF NoFileIsLost
  <2>1. PICK j \in Clients :
          \/ <<file[o].key, o>> \in handles[j]
          \/ call[j].pc = "insert" /\ call[j].id = o
          \/ call[j].pc \in {"lookup", "act"} /\ call[j].op = "CLOSE" /\ call[j].key = file[o].key
    BY DEF NoFileIsLost
  <2>2. CASE <<file[o].key, o>> \in handles[j]
    <3>1. <<file[o].key, o>> \in handles'[j] \/ (j = k /\ op = "CLOSE" /\ key = file[o].key)
      BY <1>4, <2>2
    <3>. QED
      BY <1>2, <1>3, <3>1
  <2>3. CASE <<file[o].key, o>> \notin handles[j]
    BY <1>1, <1>3, <2>1, <2>3
  <2>. QED
    BY <2>2, <2>3
<1>. QED
  BY <1>6, <1>7, <1>8

(* A new file disturbs no key: in Python its descriptor was free, so it is *)
(* neither held nor being closed.                                          *)
LEMMA OpenKeyed ==
  ASSUME Struct, Keyed, NEW k \in Clients, OpenFile(k)
  PROVE  Keyed'
<1>. USE DEF Struct
<1>1. call[k].pc = "open" /\ UNCHANGED <<server, alive, files, made, mishaps>> /\ (HasMap' <=> HasMap)
  BY DEF OpenFile, At, HasMap
<1>. SUFFICES ASSUME alive, mishaps = {}, KeyInv, EntryInv, NoFileIsLost
              PROVE  KeyInv' /\ EntryInv' /\ NoFileIsLost'
  BY <1>1, KeyedSuffices
<1>2. CASE Return(k) /\ UNCHANGED <<fdt, file, handles>>
  <2>1. call'[k] = NoCall /\ \A j \in Clients \ {k} : call'[j] = call[j]
    BY <1>2 DEF Return, TypeOK
  <2>2. /\ \A j \in Clients : Closer(j)' <=> Closer(j)
        /\ \A j \in Clients : Closer(j) => call'[j] = call[j]
        /\ \A x : Denoted(x)' = Denoted(x)
    BY <1>1, <1>2, <2>1, NoCallType DEF Closer, Denoted
  <2>3. KeyInv'
    BY <1>1, <1>2, <2>2 DEF KeyInv
  <2>4. EntryInv' /\ NoFileIsLost'
    BY <1>1, <1>2, <2>1, <2>2 DEF EntryInv, NoFileIsLost
  <2>. QED
    BY <2>3, <2>4
<1>3. ASSUME NEW d \in LowestFd, NEW key \in IF server = "java" THEN Hashes ELSE {d},
             fdt' = [fdt EXCEPT ![d] = call[k].id],
             file' = [file EXCEPT ![call[k].id] = [state |-> "open", fd |-> d, key |-> key]],
             IF HasMap
             THEN /\ call' = [call EXCEPT ![k].pc = "insert", ![k].key = key]
                  /\ UNCHANGED handles
             ELSE /\ Return(k)
                  /\ handles' = [handles EXCEPT ![k] = @ \cup {<<key, call[k].id>>}]
      PROVE  KeyInv' /\ EntryInv' /\ NoFileIsLost'
  <2>1. /\ d \in Descriptors /\ fdt[d] = nil /\ (~HasMap => key = d)
    BY DEF LowestFd, FreeFds, HasMap
  <2>2. PICK o \in Files : o = call[k].id /\ file[o].state = "none" /\ o # nil
    BY <1>1, Basics, MapServerAssumption DEF IdInv, TypeOK
  <2>3. \A e \in Descriptors : fdt'[e] = IF e = d THEN o ELSE fdt[e]
    BY <1>3, <2>1, <2>2 DEF TypeOK
  <2>4. /\ file'[o].state = "open" /\ file'[o].fd = d /\ file'[o].key = key
        /\ \A p \in Files \ {o} : file'[p] = file[p]
    BY <1>3, <2>2 DEF TypeOK
  <2>5. /\ \A x \in Keys : files[x] # o
        /\ \A j \in Clients : \A h \in handles[j] : h[2] # o
    BY <1>1, <2>2 DEF IdInv, Known, Opening
  <2>6. /\ \A j \in Clients \ {k} : call'[j] = call[j]
        /\ ~Closer(k) /\ ~Closer(k)'
        /\ HasMap => call'[k].pc = "insert" /\ call'[k].id = o
        /\ ~HasMap => call'[k] = NoCall
    <3>1. CASE HasMap
      BY <1>1, <1>3, <2>2, <3>1 DEF TypeOK, Closer
    <3>2. CASE ~HasMap
      BY <1>1, <1>3, <3>2, NoCallType DEF TypeOK, Closer, Return
    <3>. QED
      BY <3>1, <3>2
  <2>7. \A j \in Clients : (Closer(j)' <=> Closer(j)) /\ (Closer(j) => j # k /\ call'[j] = call[j])
    BY <2>6 DEF Closer
  (* Keys that denote a file go on to do so, the new one aside.            *)
  <2>8. \A x \in KeySpace : Denoted(x) # nil =>
          /\ Denoted(x)' = Denoted(x) /\ Denoted(x) \in Files \ {o}
          /\ ~HasMap => x # key
    <3>1. CASE HasMap
      BY <1>1, <2>5, <3>1, KeySpaces DEF Denoted, TypeOK
    <3>2. CASE ~HasMap
      BY <1>1, <2>1, <2>2, <2>3, <3>2, KeySpaces DEF Denoted, TypeOK, FileInv, HasMap
    <3>. QED
      BY <3>1, <3>2
  <2>9. /\ \A j \in Clients : \A h \in handles[j] : h[1] \in KeySpace /\ h[2] \in Files /\ h[2] # nil
        /\ \A j \in Clients : Closer(j) => call[j].key \in KeySpace /\ call[j].key \in Keys
    BY KeyTypes
  <2>10. \A j \in Clients : \A h \in handles'[j] :
           h \in handles[j] \/ (~HasMap /\ j = k /\ h = <<key, o>>)
    BY <1>3, <2>2 DEF TypeOK
  <2>11. ~HasMap => Denoted(key)' = o
    BY <1>1, <2>1, <2>3 DEF Denoted
  <2>12. KeyInv'
    <3>1. ASSUME NEW j \in Clients, NEW h \in handles'[j]
          PROVE  /\ Denoted(h[1])' = h[2] /\ file'[h[2]].state = "open" /\ file'[h[2]].key = h[1]
                 /\ \A i \in Clients : Closer(i)' => call'[i].key # h[1]
                 /\ \A i \in Clients \ {j} : \A g \in handles'[i] : g[1] # h[1]
      <4>1. CASE h \in handles[j]
        <5>1. Denoted(h[1]) = h[2] /\ Denoted(h[1]) # nil /\ h[1] \in KeySpace
          BY <2>9, <4>1 DEF KeyInv
        <5>2. Denoted(h[1])' = h[2] /\ h[2] \in Files \ {o} /\ (~HasMap => h[1] # key)
          BY <2>8, <5>1
        <5>. QED
          BY <2>4, <2>7, <2>10, <4>1, <5>2 DEF KeyInv
      <4>2. CASE ~HasMap /\ j = k /\ h = <<key, o>>
        <5>1. \A i \in Clients : Closer(i) => call[i].key # key
          <6>1. \A i \in Clients : Closer(i) => call[i].pc # "delete"
            BY <4>2 DEF CallInv
          <6>. QED
            BY <2>8, <2>9, <4>2, <6>1 DEF KeyInv
        <5>2. \A i \in Clients : \A g \in handles[i] : g[1] # key
          BY <2>8, <2>9, <4>2 DEF KeyInv
        <5>. QED
          BY <2>4, <2>7, <2>10, <2>11, <4>2, <5>1, <5>2
      <4>. QED
        BY <2>10, <3>1, <4>1, <4>2
    <3>2. ASSUME NEW j \in Clients, Closer(j)'
          PROVE  /\ \A i \in Clients \ {j} : Closer(i)' => call'[i].key # call'[j].key
                 /\ IF call'[j].pc = "delete"
                    THEN files'[call'[j].key] # nil => file'[files'[call'[j].key]].state # "open"
                    ELSE /\ Denoted(call[j].key)' # nil
                         /\ file'[Denoted(call[j].key)'].state = "open"
                         /\ call'[j].pc = "act" /\ HasMap' => call'[j].file = files'[call'[j].key]
      <4>1. Closer(j) /\ call'[j] = call[j] /\ call[j].key \in KeySpace /\ call[j].key \in Keys
        BY <2>7, <2>9, <3>2
      <4>2. \A x \in Keys : files[x] # nil => files[x] \in Files
        BY DEF TypeOK
      <4>3. CASE call[j].pc = "delete"
        BY <1>1, <2>4, <2>5, <2>7, <4>1, <4>2, <4>3 DEF KeyInv
      <4>4. CASE call[j].pc # "delete"
        <5>1. PICK x \in KeySpace : x = call[j].key
          BY <4>1
        <5>2. Denoted(x)' = Denoted(x) /\ Denoted(x) \in Files \ {o} /\ Denoted(x) # nil
          BY <2>8, <4>1, <4>4, <5>1 DEF KeyInv
        <5>3. Denoted(call[j].key)' = Denoted(x)'
          BY <4>1, <5>1 DEF Denoted
        <5>. QED
          BY <1>1, <2>4, <2>7, <4>1, <4>4, <5>1, <5>2, <5>3 DEF KeyInv
      <4>. QED
        BY <4>3, <4>4, <4>1
    <3>. QED
      BY <3>1, <3>2 DEF KeyInv
  <2>13. EntryInv'
    <3>1. ASSUME NEW p \in Files \ {o}, file[p].state = "open"
          PROVE  \/ \E j \in Clients : call'[j].pc = "insert" /\ call'[j].id = p
                 \/ Denoted(file[p].key)' = p
      <4>1. PICK x \in KeySpace : x = file[p].key
        BY <3>1 DEF FileInv
      <4>2. CASE \E j \in Clients : call[j].pc = "insert" /\ call[j].id = p
        BY <1>1, <2>6, <4>2
      <4>3. CASE Denoted(x) = p
        <5>1. Denoted(x)' = p
          BY <2>8, <4>3, Basics
        <5>2. file'[p].key = x
          BY <2>4, <4>1
        <5>. QED
          BY <5>1, <5>2 DEF Denoted
      <4>. QED
        BY <3>1, <4>1, <4>2, <4>3 DEF EntryInv
    <3>2. \/ \E j \in Clients : call'[j].pc = "insert" /\ call'[j].id = o
          \/ Denoted(file[o].key)' = o
      <4>1. ~HasMap => Denoted(file[o].key)' = o
        BY <2>4, <2>11 DEF Denoted
      <4>. QED
        BY <2>6, <4>1
    <3>. QED
      BY <2>4, <3>1, <3>2 DEF EntryInv
  <2>14. NoFileIsLost'
    <3>1. ASSUME NEW p \in Files, file'[p].state = "open"
          PROVE  \E j \in Clients :
                   \/ <<file'[p].key, p>> \in handles'[j]
                   \/ call'[j].pc = "insert" /\ call'[j].id = p
                   \/ call'[j].pc \in {"lookup", "act"} /\ call'[j].op = "CLOSE"
                        /\ call'[j].key = file'[p].key
      <4>1. CASE p = o
        <5>1. ~HasMap => <<key, o>> \in handles'[k]
          BY <1>3, <2>2 DEF TypeOK
        <5>. QED
          BY <2>4, <2>6, <4>1, <5>1
      <4>2. CASE p # o
        <5>1. PICK j \in Clients :
                \/ <<file[p].key, p>> \in handles[j]
                \/ call[j].pc = "insert" /\ call[j].id = p
                \/ call[j].pc \in {"lookup", "act"} /\ call[j].op = "CLOSE"
                     /\ call[j].key = file[p].key
          BY <2>4, <3>1, <4>2 DEF NoFileIsLost
        <5>2. handles[j] \subseteq handles'[j]
          BY <1>3 DEF TypeOK
        <5>. QED
          BY <1>1, <2>4, <2>6, <4>2, <5>1, <5>2
      <4>. QED
        BY <4>1, <4>2
    <3>. QED
      BY <3>1 DEF NoFileIsLost
  <2>. QED
    BY <2>12, <2>13, <2>14
<1>. QED
  BY <1>2, <1>3 DEF OpenFile

(* A file is entered under a key that, without a mishap, is neither held   *)
(* nor being closed.                                                       *)
LEMMA InsertKeyed ==
  ASSUME Struct, Keyed, NEW k \in Clients, Insert(k)
  PROVE  Keyed'
<1>. USE DEF Struct
<1>1. call[k].pc = "insert" /\ UNCHANGED <<server, alive, fdt, file>> /\ mishaps \subseteq mishaps'
  BY DEF Insert, At, GiveKey
<1>2. PICK o \in Files, key \in KeySpace :
        /\ o = call[k].id /\ key = call[k].key /\ HasMap /\ HasMap'
        /\ file[o].state = "open" /\ file[o].key = key /\ o # nil /\ key \in Keys
  <2>1. call[k].id \in Files /\ call[k].id # nil
    BY <1>1, Basics, MapServerAssumption DEF IdInv, TypeOK
  <2>2. call[k].key \in KeySpace /\ call[k].key \in Keys
    BY <1>1, KeySpaces DEF CallInv
  <2>. QED
    BY <1>1, <2>1, <2>2 DEF CallInv, HasMap
<1>. SUFFICES ASSUME alive, mishaps = {}, mishaps' = {}, KeyInv, EntryInv, NoFileIsLost
              PROVE  KeyInv' /\ EntryInv' /\ NoFileIsLost'
  BY <1>1, KeyedSuffices
(* No mishap in this step.                                                 *)
<1>3. /\ \A j \in Clients : call[j].pc = "delete" => call[j].key # key
      /\ files[key] # nil => file[files[key]].state # "open"
  <2>1. /\ {m \in {"reuse"} : \E j \in Clients : call[j].pc = "delete" /\ call[j].key = key} = {}
        /\ {m \in {"collision"} : files[key] # nil /\ file[files[key]].state = "open"} = {}
    BY <1>2 DEF Insert
  <2>. QED
    BY <2>1
<1>4. \A x \in Keys : files'[x] = IF x = key THEN o ELSE files[x]
  BY <1>2 DEF Insert, TypeOK
<1>5. call'[k] = NoCall /\ \A j \in Clients \ {k} : call'[j] = call[j]
  BY DEF Insert, GiveKey, Return, TypeOK
<1>6. /\ \A j \in Clients : handles[j] \subseteq handles'[j]
      /\ \A j \in Clients : \A h \in handles'[j] : h \in handles[j] \/ (j = k /\ h = <<key, o>>)
      /\ <<key, o>> \in handles'[k]
  BY <1>2 DEF Insert, GiveKey, TypeOK
<1>7. \A j \in Clients : (Closer(j)' <=> Closer(j)) /\ (Closer(j) => call'[j] = call[j])
  BY <1>1, <1>5, NoCallType DEF Closer
<1>8. \A x \in Keys : Denoted(x) = files[x] /\ Denoted(x)' = files'[x]
  BY <1>2 DEF Denoted
<1>9. \A j \in Clients : \A h \in handles[j] : h[1] # key
  BY <1>3, <1>8, KeyTypes DEF KeyInv
<1>10. \A j \in Clients : Closer(j) => call[j].key # key
  BY <1>2, <1>3, <1>8 DEF KeyInv
<1>11. KeyInv'
  <2>1. ASSUME NEW j \in Clients, NEW h \in handles'[j]
        PROVE  /\ Denoted(h[1])' = h[2] /\ file'[h[2]].state = "open" /\ file'[h[2]].key = h[1]
               /\ \A i \in Clients : Closer(i)' => call'[i].key # h[1]
               /\ \A i \in Clients \ {j} : \A g \in handles'[i] : g[1] # h[1]
    <3>1. CASE h \in handles[j]
      <4>1. h[1] \in Keys /\ h[1] # key
        BY <1>9, <3>1, KeyTypes
      <4>. QED
        BY <1>1, <1>4, <1>6, <1>7, <1>8, <3>1, <4>1 DEF KeyInv
    <3>2. CASE j = k /\ h = <<key, o>>
      BY <1>1, <1>2, <1>4, <1>6, <1>7, <1>8, <1>9, <1>10, <3>2
    <3>. QED
      BY <1>6, <2>1, <3>1, <3>2
  <2>2. ASSUME NEW j \in Clients, Closer(j)'
        PROVE  /\ \A i \in Clients \ {j} : Closer(i)' => call'[i].key # call'[j].key
               /\ IF call'[j].pc = "delete"
                  THEN files'[call'[j].key] # nil => file'[files'[call'[j].key]].state # "open"
                  ELSE /\ Denoted(call[j].key)' # nil
                       /\ file'[Denoted(call[j].key)'].state = "open"
                       /\ call'[j].pc = "act" /\ HasMap' => call'[j].file = files'[call'[j].key]
    <3>1. /\ Closer(j) /\ call'[j] = call[j] /\ call[j].key \in Keys /\ call[j].key # key
      BY <1>7, <1>10, <2>2, KeyTypes
    <3>2. /\ Denoted(call[j].key)' = files[call[j].key] /\ Denoted(call[j].key) = files[call[j].key]
          /\ files'[call[j].key] = files[call[j].key]
      BY <1>2, <1>4, <1>8, <3>1 DEF Denoted
    <3>. QED
      BY <1>1, <1>2, <1>7, <3>1, <3>2 DEF KeyInv
  <2>. QED
    BY <2>1, <2>2 DEF KeyInv
<1>12. EntryInv'
  <2>. SUFFICES ASSUME NEW p \in Files, file[p].state = "open"
                PROVE  \/ \E j \in Clients : call'[j].pc = "insert" /\ call'[j].id = p
                       \/ Denoted(file[p].key)' = p
    BY <1>1 DEF EntryInv
  <2>1. file[p].key \in Keys /\ Denoted(file[p].key)' = files'[file[p].key]
    BY <1>1, <1>2, KeySpaces DEF FileInv, Denoted
  <2>2. CASE p = o
    BY <1>2, <1>4, <2>1, <2>2
  <2>3. CASE p # o /\ \E j \in Clients : call[j].pc = "insert" /\ call[j].id = p
    BY <1>2, <1>5, <2>3
  <2>4. CASE Denoted(file[p].key) = p
    BY <1>3, <1>4, <1>8, <2>1, <2>4, Basics
  <2>. QED
    BY <2>2, <2>3, <2>4 DEF EntryInv
<1>13. NoFileIsLost'
  <2>. SUFFICES ASSUME NEW p \in Files, file[p].state = "open"
                PROVE  \E j \in Clients :
                         \/ <<file[p].key, p>> \in handles'[j]
                         \/ call'[j].pc = "insert" /\ call'[j].id = p
                         \/ call'[j].pc \in {"lookup", "act"} /\ call'[j].op = "CLOSE"
                              /\ call'[j].key = file[p].key
    BY <1>1 DEF NoFileIsLost
  <2>1. PICK j \in Clients :
          \/ <<file[p].key, p>> \in handles[j]
          \/ call[j].pc = "insert" /\ call[j].id = p
          \/ call[j].pc \in {"lookup", "act"} /\ call[j].op = "CLOSE" /\ call[j].key = file[p].key
    BY DEF NoFileIsLost
  <2>. QED
    BY <1>1, <1>2, <1>5, <1>6, <2>1
<1>. QED
  BY <1>11, <1>12, <1>13

(* A Close closes the file that its key denotes, and no other.             *)
LEMMA ClosingKeyed ==
  ASSUME Struct, Keyed, NEW k \in Clients, call[k].pc = "act", call[k].op = "CLOSE",
         UNCHANGED <<server, alive, files, handles, mishaps>>,
         \/ call' = [call EXCEPT ![k] = NoCall]
         \/ \E r \in CallType : /\ call' = [call EXCEPT ![k] = r]
                                /\ r.pc = "delete" /\ r.key = call[k].key /\ HasMap,
         alive /\ mishaps = {} =>
           /\ Target(k) \in Files /\ file[Target(k)].state = "open"
           /\ \E s \in {"closed", "broken"} : Closes(Target(k), s)
  PROVE  Keyed'
<1>. USE DEF Struct
<1>. SUFFICES ASSUME alive, mishaps = {}, KeyInv, EntryInv, NoFileIsLost
              PROVE  KeyInv' /\ EntryInv' /\ NoFileIsLost'
  BY KeyedSuffices
<1>1. PICK o \in Files, key \in KeySpace :
        /\ key = call[k].key /\ o = Target(k) /\ Denoted(key) = o /\ file[o].state = "open"
        /\ o # nil /\ file[o].key = key /\ (~HasMap => file[o].fd = key) /\ Closer(k) /\ key \in Keys
  <2>1. Closer(k) /\ call[k].key \in KeySpace /\ call[k].key \in Keys
    BY KeyTypes DEF Closer
  <2>2. Denoted(call[k].key) = Target(k)
    BY <2>1 DEF KeyInv, Target, Denoted
  <2>3. PICK x \in KeySpace : x = call[k].key
    BY <2>1
  <2>4. Target(k) \in Files /\ Target(k) # nil /\ file[Target(k)].state = "open"
    BY Basics
  <2>5. file[Denoted(x)].key = x /\ (~HasMap => file[Denoted(x)].fd = x)
    BY <2>2, <2>3, <2>4, DenotedKey
  <2>. QED
    BY <2>1, <2>2, <2>3, <2>4, <2>5
<1>2. PICK s \in {"closed", "broken"} : Closes(o, s)
  BY <1>1
<1>3. /\ \A p \in Files : /\ file'[p].key = file[p].key /\ file'[p].fd = file[p].fd
                          /\ file'[p].state = IF p = o THEN s ELSE file[p].state
      /\ \A d \in Descriptors : fdt'[d] = IF d = file[o].fd THEN nil ELSE fdt[d]
  BY <1>1, <1>2, ClosedFile
<1>4. /\ \A j \in Clients \ {k} : call'[j] = call[j]
      /\ call'[k].pc \in {"idle", "delete"}
      /\ Closer(k)' => call'[k].pc = "delete" /\ call'[k].key = key /\ HasMap
  BY <1>1, NoCallType DEF TypeOK, Closer
<1>5. /\ \A j \in Clients \ {k} : Closer(j)' <=> Closer(j)
      /\ HasMap' <=> HasMap
  BY <1>4 DEF Closer, HasMap
(* Other keys denote what they did.                                        *)
<1>6. \A x \in KeySpace \ {key} : /\ Denoted(x)' = Denoted(x)
                                  /\ Denoted(x) # nil => Denoted(x) \in Files \ {o}
  <2>. SUFFICES ASSUME NEW x \in KeySpace \ {key}
                PROVE  /\ Denoted(x)' = Denoted(x)
                       /\ Denoted(x) # nil => Denoted(x) \in Files \ {o}
    OBVIOUS
  <2>1. ~HasMap => x \in Descriptors /\ x # file[o].fd
    BY <1>1, KeySpaces DEF HasMap
  <2>. QED
    BY <1>1, <1>3, <1>5, <2>1, DenotedKey DEF Denoted
<1>7. KeyInv'
  <2>1. ASSUME NEW j \in Clients, NEW h \in handles'[j]
        PROVE  /\ Denoted(h[1])' = h[2] /\ file'[h[2]].state = "open" /\ file'[h[2]].key = h[1]
               /\ \A i \in Clients : Closer(i)' => call'[i].key # h[1]
               /\ \A i \in Clients \ {j} : \A g \in handles'[i] : g[1] # h[1]
    <3>1. /\ h \in handles[j] /\ h[1] \in KeySpace \ {key} /\ h[2] # nil
          /\ Denoted(h[1]) = h[2] /\ file[h[2]].state = "open" /\ file[h[2]].key = h[1]
      BY <1>1, <2>1, KeyTypes DEF KeyInv
    <3>2. Denoted(h[1])' = h[2] /\ h[2] \in Files \ {o}
      BY <1>6, <3>1
    <3>. QED
      BY <1>3, <1>4, <1>5, <3>1, <3>2 DEF KeyInv
  <2>2. ASSUME NEW j \in Clients, Closer(j)'
        PROVE  /\ \A i \in Clients \ {j} : Closer(i)' => call'[i].key # call'[j].key
               /\ IF call'[j].pc = "delete"
                  THEN files'[call'[j].key] # nil => file'[files'[call'[j].key]].state # "open"
                  ELSE /\ Denoted(call[j].key)' # nil
                       /\ file'[Denoted(call[j].key)'].state = "open"
                       /\ call'[j].pc = "act" /\ HasMap' => call'[j].file = files'[call'[j].key]
    <3>1. CASE j = k
      <4>1. files[key] = o /\ call'[k].pc = "delete" /\ call'[k].key = key
        BY <1>1, <1>4, <2>2, <3>1 DEF Denoted
      <4>2. file'[o].state # "open"
        BY <1>3
      <4>3. \A i \in Clients \ {k} : Closer(i)' => call'[i].key # key
        BY <1>1, <1>4, <1>5 DEF KeyInv
      <4>. QED
        BY <3>1, <4>1, <4>2, <4>3
    <3>2. CASE j # k
      <4>1. /\ Closer(j) /\ call'[j] = call[j]
            /\ call[j].key \in KeySpace \ {key} /\ call[j].key \in Keys
        BY <1>1, <1>4, <1>5, <2>2, <3>2, KeyTypes DEF KeyInv
      <4>2. \A i \in Clients \ {j} : Closer(i)' => call'[i].key # call'[j].key
        BY <1>4, <1>5, <4>1 DEF KeyInv
      <4>3. CASE call[j].pc = "delete"
        BY <1>3, <4>1, <4>2, <4>3, KeyTypes DEF KeyInv
      <4>4. CASE call[j].pc # "delete"
        <5>1. PICK x \in KeySpace \ {key} : x = call[j].key
          BY <4>1
        <5>2. Denoted(x)' = Denoted(x) /\ Denoted(x) \in Files \ {o} /\ Denoted(x) # nil
          BY <1>6, <4>1, <4>4, <5>1 DEF KeyInv
        <5>3. Denoted(call[j].key)' = Denoted(x)'
          BY <4>1, <5>1 DEF Denoted
        <5>. QED
          BY <1>3, <1>5, <4>1, <4>2, <4>4, <5>1, <5>2, <5>3 DEF KeyInv
      <4>. QED
        BY <4>1, <4>3, <4>4
    <3>. QED
      BY <3>1, <3>2
  <2>. QED
    BY <2>1, <2>2 DEF KeyInv
<1>8. EntryInv'
  <2>. SUFFICES ASSUME NEW p \in Files, file'[p].state = "open"
                PROVE  \/ \E j \in Clients : call'[j].pc = "insert" /\ call'[j].id = p
                       \/ Denoted(file[p].key)' = p
    BY DEF EntryInv
  <2>1. p # o /\ file[p].state = "open" /\ file'[p].key = file[p].key
    BY <1>3
  <2>2. PICK x \in KeySpace : x = file[p].key
    BY <2>1 DEF FileInv
  <2>3. CASE \E j \in Clients : call[j].pc = "insert" /\ call[j].id = p
    BY <1>4, <2>3
  <2>4. CASE Denoted(x) = p
    <3>1. Denoted(x)' = p
      BY <1>1, <1>6, <2>1, <2>4
    <3>. QED
      BY <2>1, <2>2, <3>1 DEF Denoted
  <2>. QED
    BY <2>1, <2>2, <2>3, <2>4 DEF EntryInv
<1>9. NoFileIsLost'
  <2>. SUFFICES ASSUME NEW p \in Files, file'[p].state = "open"
                PROVE  \E j \in Clients :
                         \/ <<file'[p].key, p>> \in handles'[j]
                         \/ call'[j].pc = "insert" /\ call'[j].id = p
                         \/ call'[j].pc \in {"lookup", "act"} /\ call'[j].op = "CLOSE"
                              /\ call'[j].key = file'[p].key
    BY DEF NoFileIsLost
  <2>1. p # o /\ file[p].state = "open" /\ file'[p].key = file[p].key
    BY <1>3
  <2>2. PICK j \in Clients :
          \/ <<file[p].key, p>> \in handles[j]
          \/ call[j].pc = "insert" /\ call[j].id = p
          \/ call[j].pc \in {"lookup", "act"} /\ call[j].op = "CLOSE" /\ call[j].key = file[p].key
    BY <2>1 DEF NoFileIsLost
  <2>3. CASE file[p].key # key
    BY <1>1, <1>4, <2>1, <2>2, <2>3
  <2>4. CASE file[p].key = key
    <3>1. \E i \in Clients : call[i].pc = "insert" /\ call[i].id = p
      BY <1>1, <2>1, <2>4 DEF EntryInv
    <3>. QED
      BY <1>4, <3>1
  <2>. QED
    BY <2>3, <2>4
<1>. QED
  BY <1>7, <1>8, <1>9

LEMMA ActKeyed ==
  ASSUME Struct, Keyed, NEW k \in Clients, Act(k)
  PROVE  Keyed'
<1>. USE DEF Struct
<1>1. call[k].pc = "act" /\ UNCHANGED <<server, alive, files, handles, mishaps>>
  BY DEF Act, At
<1>2. CASE call[k].op # "CLOSE"
  <2>1. UNCHANGED <<fdt, file>> /\ (HasMap' <=> HasMap)
    BY <1>1, <1>2 DEF Act, HasMap
  <2>2. call'[k] = NoCall /\ \A j \in Clients \ {k} : call'[j] = call[j]
    BY <1>2 DEF Act, Return, TypeOK
  <2>3. /\ \A j \in Clients : (Closer(j)' <=> Closer(j)) /\ (Closer(j) => call'[j] = call[j])
        /\ \A x : Denoted(x)' = Denoted(x)
    BY <1>1, <1>2, <2>1, <2>2, NoCallType DEF Closer, Denoted
  <2>. SUFFICES ASSUME alive, mishaps = {}, KeyInv, EntryInv, NoFileIsLost
                PROVE  KeyInv' /\ EntryInv' /\ NoFileIsLost'
    BY <1>1, KeyedSuffices
  <2>4. KeyInv'
    BY <1>1, <2>1, <2>3 DEF KeyInv
  <2>5. EntryInv' /\ NoFileIsLost'
    BY <1>1, <1>2, <2>1, <2>2, <2>3 DEF EntryInv, NoFileIsLost
  <2>. QED
    BY <2>4, <2>5
<1>3. CASE call[k].op = "CLOSE"
  (* The key of a Close denotes an open file, so there is one to close.    *)
  <2>1. ASSUME alive, mishaps = {}
        PROVE  /\ Target(k) \in Files /\ file[Target(k)].state = "open"
               /\ Closes(Target(k), "closed")
    <3>1. KeyInv /\ Closer(k)
      BY <1>1, <1>3, <2>1 DEF Keyed, Closer
    <3>2. Denoted(call[k].key) = Target(k)
      BY <1>1, <3>1 DEF KeyInv, Target, Denoted
    <3>3. Target(k) # nil /\ file[Target(k)].state = "open"
      BY <1>1, <3>1, <3>2 DEF KeyInv
    <3>. QED
      BY <1>1, <1>3, <3>3, AfterClosing DEF Act, Closes
  <2>2. AfterClose(k)
    BY <1>3 DEF Act
  <2>3. \/ call' = [call EXCEPT ![k] = NoCall]
        \/ \E r \in CallType : /\ call' = [call EXCEPT ![k] = r]
                               /\ r.pc = "delete" /\ r.key = call[k].key /\ HasMap
    BY <1>1, <2>2, AfterClosing
  <2>. QED
    BY <1>1, <1>3, <2>1, <2>3, ClosingKeyed
<1>. QED
  BY <1>2, <1>3

LEMMA CloseThrowsKeyed ==
  ASSUME Struct, Keyed, NEW k \in Clients, CloseThrows(k)
  PROVE  Keyed'
<1>1. /\ call[k].pc = "act" /\ call[k].op = "CLOSE" /\ HasMap
      /\ UNCHANGED <<server, alive, files, handles, mishaps>>
      /\ call' = [call EXCEPT ![k] = NoCall]
  BY DEF CloseThrows, At, Return, HasMap
<1>2. Target(k) \in Files /\ file[Target(k)].state = "open" /\ Closes(Target(k), "broken")
  BY <1>1, AfterClosing DEF CloseThrows, Target, Closes
<1>. QED
  BY <1>1, <1>2, ClosingKeyed

(* Only a closed file is deleted from the map.                             *)
LEMMA DeleteKeyed ==
  ASSUME Struct, Keyed, NEW k \in Clients, Delete(k)
  PROVE  Keyed'
<1>. USE DEF Struct
<1>1. call[k].pc = "delete" /\ UNCHANGED <<server, alive, fdt, file, handles, mishaps>>
  BY DEF Delete, At
<1>. SUFFICES ASSUME alive, mishaps = {}, KeyInv, EntryInv, NoFileIsLost
              PROVE  KeyInv' /\ EntryInv' /\ NoFileIsLost'
  BY <1>1, KeyedSuffices
<1>2. PICK key \in KeySpace : key = call[k].key /\ key \in Keys /\ Closer(k) /\ HasMap /\ HasMap'
  BY <1>1, KeySpaces DEF CallInv, Closer, HasMap
<1>3. \A x \in Keys : files'[x] = IF x = key THEN nil ELSE files[x]
  BY <1>2 DEF Delete, TypeOK
<1>4. call'[k] = NoCall /\ \A j \in Clients \ {k} : call'[j] = call[j]
  BY DEF Delete, Return, TypeOK
<1>5. /\ ~Closer(k)' /\ \A j \in Clients \ {k} : Closer(j)' <=> Closer(j)
      /\ \A j \in Clients : Closer(j)' => Closer(j) /\ call'[j] = call[j] /\ j # k
  BY <1>4, NoCallType DEF Closer
<1>6. \A x \in Keys : Denoted(x) = files[x] /\ Denoted(x)' = files'[x]
  BY <1>2 DEF Denoted
<1>7. /\ \A j \in Clients : \A h \in handles[j] : h[1] \in Keys \ {key}
      /\ \A j \in Clients \ {k} : Closer(j) => call[j].key \in Keys \ {key}
  BY <1>2, KeyTypes DEF KeyInv
<1>8. KeyInv'
  <2>1. ASSUME NEW j \in Clients, NEW h \in handles'[j]
        PROVE  /\ Denoted(h[1])' = h[2] /\ file'[h[2]].state = "open" /\ file'[h[2]].key = h[1]
               /\ \A i \in Clients : Closer(i)' => call'[i].key # h[1]
               /\ \A i \in Clients \ {j} : \A g \in handles'[i] : g[1] # h[1]
    BY <1>1, <1>3, <1>5, <1>6, <1>7, <2>1 DEF KeyInv
  <2>2. ASSUME NEW j \in Clients, Closer(j)'
        PROVE  /\ \A i \in Clients \ {j} : Closer(i)' => call'[i].key # call'[j].key
               /\ IF call'[j].pc = "delete"
                  THEN files'[call'[j].key] # nil => file'[files'[call'[j].key]].state # "open"
                  ELSE /\ Denoted(call[j].key)' # nil
                       /\ file'[Denoted(call[j].key)'].state = "open"
                       /\ call'[j].pc = "act" /\ HasMap' => call'[j].file = files'[call'[j].key]
    <3>1. Closer(j) /\ call'[j] = call[j] /\ call[j].key \in Keys \ {key}
      BY <1>5, <1>7, <2>2
    <3>2. /\ Denoted(call[j].key)' = files[call[j].key] /\ Denoted(call[j].key) = files[call[j].key]
          /\ files'[call[j].key] = files[call[j].key]
      BY <1>2, <1>3, <1>6, <3>1 DEF Denoted
    <3>. QED
      BY <1>1, <1>2, <1>5, <3>1, <3>2 DEF KeyInv
  <2>. QED
    BY <2>1, <2>2 DEF KeyInv
<1>9. EntryInv'
  <2>. SUFFICES ASSUME NEW p \in Files, file[p].state = "open"
                PROVE  \/ \E j \in Clients : call'[j].pc = "insert" /\ call'[j].id = p
                       \/ Denoted(file[p].key)' = p
    BY <1>1 DEF EntryInv
  <2>1. file[p].key \in Keys /\ Denoted(file[p].key)' = files'[file[p].key]
    BY <1>1, <1>2, KeySpaces DEF FileInv, Denoted
  <2>2. CASE \E j \in Clients : call[j].pc = "insert" /\ call[j].id = p
    BY <1>1, <1>4, <2>2
  <2>3. CASE Denoted(file[p].key) = p
    <3>1. files[key] # nil => file[files[key]].state # "open"
      BY <1>1, <1>2 DEF KeyInv
    <3>. QED
      BY <1>3, <1>6, <2>1, <2>3, <3>1, Basics
  <2>. QED
    BY <2>2, <2>3 DEF EntryInv
<1>10. NoFileIsLost'
  BY <1>1, <1>4 DEF NoFileIsLost
<1>. QED
  BY <1>8, <1>9, <1>10

(* Without a mishap there is nothing to finalize: every open file is in    *)
(* the map or about to be entered.                                         *)
LEMMA FinalizeKeyed ==
  ASSUME Struct, Keyed, NEW o \in Files, Finalize(o)
  PROVE  Keyed'
<1>. USE DEF Struct
<1>1. /\ HasMap /\ file[o].state = "open" /\ \A x \in Keys : files[x] # o
      /\ \A k \in Clients : ~(call[k].pc = "insert" /\ call[k].id = o)
      /\ UNCHANGED <<alive, mishaps>>
  BY DEF Finalize
<1>2. file[o].key \in Keys
  BY <1>1, KeySpaces DEF FileInv
<1>3. ~EntryInv
  BY <1>1, <1>2 DEF EntryInv, Denoted
<1>. QED
  BY <1>1, <1>3 DEF Keyed

LEMMA InitKeyed == Init => Keyed
<1>. SUFFICES ASSUME Init PROVE KeyInv /\ EntryInv /\ NoFileIsLost
  BY DEF Keyed
<1>1. \A o \in Files : file[o].state = "none"
  BY DEF Init, NoFile
<1>2. \A k \in Clients : handles[k] = {} /\ ~Closer(k)
  BY NoCallType DEF Init, Closer
<1>. QED
  BY <1>1, <1>2 DEF KeyInv, EntryInv, NoFileIsLost

LEMMA NextKeyed == Struct /\ Keyed /\ [Next]_vars => Keyed'
<1>. SUFFICES ASSUME Struct, Keyed, [Next]_vars PROVE Keyed'
  OBVIOUS
<1>1. CASE UNCHANGED vars
  BY <1>1 DEF vars, Keyed, KeyInv, EntryInv, NoFileIsLost, Closer, Denoted, HasMap
<1>2. ASSUME NEW k \in Clients, ServerGone(k) \/ GoRaceAborts(k) \/ LostAccess(k) PROVE Keyed'
  BY <1>2 DEF ServerGone, GoRaceAborts, LostAccess, Keyed
<1>3. CASE SignalHandler
  BY <1>3 DEF SignalHandler, Keyed
<1>. QED
  BY <1>1, <1>2, <1>3, LookupKeyed, ActKeyed, CloseThrowsKeyed, DeleteKeyed, FinalizeKeyed,
     InvokeKeyed, OpenKeyed, InsertKeyed DEF Next, Serve

(* The keys of Go are descriptors in use: a new entry never replaces that  *)
(* of an open file.                                                        *)
LEMMA NextMishap == Struct /\ MishapInv /\ [Next]_vars => MishapInv'
<1>. SUFFICES ASSUME Struct, MishapInv, [Next]_vars PROVE MishapInv'
  OBVIOUS
<1>1. ASSUME NEW k \in Clients, Insert(k) PROVE MishapInv'
  <2>1. call[k].pc = "insert" /\ server' = server /\ HasMap
    BY <1>1 DEF Insert, At, GiveKey, Struct, CallInv
  <2>2. PICK o \in Files : o = call[k].id /\ file[o].state = "open" /\ file[o].key = call[k].key
    BY <2>1, Basics, MapServerAssumption DEF Struct, IdInv, CallInv, TypeOK
  <2>3. PICK key \in Keys : key = call[k].key
    BY <2>1, KeySpaces DEF Struct, CallInv
  <2>4. ASSUME server = "go", files[key] # nil, file[files[key]].state = "open" PROVE FALSE
    <3>1. files[key] \in Files /\ files[key] # o /\ file[files[key]].key = key
      BY <2>1, <2>2, <2>4 DEF Struct, TypeOK, IdInv, Known, Opening, FileInv
    <3>. QED
      BY <2>2, <2>3, <2>4, <3>1 DEF Struct, FileInv
  <2>5. mishaps' = mishaps
          \cup {m \in {"reuse"} : \E j \in Clients : call[j].pc = "delete" /\ call[j].key = key}
          \cup {m \in {"collision"} : files[key] # nil /\ file[files[key]].state = "open"}
    BY <1>1, <2>3 DEF Insert
  <2>. QED
    BY <2>1, <2>4, <2>5 DEF MishapInv, HasMap
<1>2. ASSUME NEW k \in Clients, LostAccess(k) PROVE MishapInv'
  <2>1. HasMap /\ server' = server /\ mishaps' = mishaps \cup {"race"}
    BY <1>2 DEF LostAccess, GiveKey
  <2>. QED
    BY <2>1 DEF HasMap, MishapInv
<1>3. CASE UNCHANGED <<server, mishaps>>
  BY <1>3 DEF MishapInv
<1>. QED
  BY <1>1, <1>2, <1>3 DEF Next, Serve, vars, Invoke, ServerGone, OpenFile, Lookup, Act, Delete,
     CloseThrows, GoRaceAborts, Finalize, SignalHandler

-----------------------------------------------------------------------------
(* The inductive invariant.                                                *)
THEOREM Maps == Spec => [](Struct /\ Keyed)
  BY InitStruct, NextStruct, InitKeyed, NextKeyed, PTL DEF Spec

(* The exceptions of KeysDenoteTheirFiles and NoFileIsLost are no more     *)
(* than each server has: in Go an Open never replaces the entry of an open *)
(* file, although entries outlive their files, files outlive their entries *)
(* and accesses are lost; in Python nothing befalls a key.                 *)
THEOREM MishapsExplained == Spec => []MishapInv
<1>1. Init => MishapInv
  BY DEF Init, MishapInv
<1>. QED
  BY <1>1, InitStruct, NextStruct, NextMishap, PTL DEF Spec

(* The state of each of the three servers is well formed.                  *)
THEOREM TypeCorrect == Spec => []TypeOK
<1>1. Struct => TypeOK
  BY DEF Struct
<1>. QED
  BY <1>1, Maps, PTL

(* An entry whose file is closed is about to be deleted, whatever          *)
(* descriptors are reused and hash codes shared.                           *)
THEOREM ClosedLeave == Spec => []ClosedEntriesAreLeaving
<1>1. Struct => ClosedEntriesAreLeaving
  BY DEF Struct
<1>. QED
  BY <1>1, Maps, PTL

(* Until a mishap befalls the map, a key that a client holds denotes the   *)
(* file it opened, which is open; with MishapsExplained, always in Python. *)
THEOREM KeysDenote == Spec => []KeysDenoteTheirFiles
<1>1. Struct /\ Keyed => KeysDenoteTheirFiles
  BY DEF Keyed, KeyInv, Denoted, KeysDenoteTheirFiles
<1>. QED
  BY <1>1, Maps, PTL

(* ... and no open file is out of its clients' reach.                      *)
THEOREM NoneLost == Spec => []NoFileIsLost
<1>1. Struct /\ Keyed => NoFileIsLost
  BY DEF Keyed, NoFileIsLost
<1>. QED
  BY <1>1, Maps, PTL
=============================================================================
