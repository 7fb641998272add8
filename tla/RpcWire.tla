------------------------------- MODULE RpcWire -------------------------------
(***************************************************************************)
(* The data path of a call, from the stubs of src/c/rpc_stubs.c to the     *)
(* switch of client_handler() in src/c/server.c and back: which calls are  *)
(* remote, how arguments are laid out in the request and found again by    *)
(* the server, how descriptors are renumbered, how the result travels      *)
(* back, and what the recv() calls make of a stream that arrives in parts. *)
(*                                                                         *)
(* A byte is a pair <<v, i>>, the i-th byte of the object v.  Offsets and  *)
(* sizes are those of the code with sizeof(...) as constants.              *)
(***************************************************************************)
EXTENDS Integers, Sequences

CONSTANTS
    IntMax,       \* INT_MAX
    SizeofInt, SizeofSize, SizeofOff, SizeofMode, SizeofStat,
    Paths,        \* path arguments, sequences of characters without the NUL
    Targets,      \* second arguments of rename()
    OFlags,       \* oflag arguments of open()
    Modes,        \* its mode arguments
    Lengths,      \* nbyte, offset and length arguments
    LocalFds,     \* descriptors of the client's own
    ServerFds,    \* descriptors that open() may return in the server
    ShortRecvs    \* the recv() calls that may return before all has arrived

Slash   == 47
NUL     == <<0, 1>>
Uninit  == <<-1, 0>>     \* a byte of memory nothing was copied to
Garbled == -999          \* what a memcpy of bytes of several objects yields
NoMode  == -1
O_CREAT == 64            \* of Linux, as any other bit of oflag

ASSUME WireAssumption ==
    /\ IntMax \in Nat /\ IntMax % 2 = 1
    /\ {SizeofInt, SizeofSize, SizeofOff, SizeofMode, SizeofStat} \subseteq Nat \ {0}
    /\ LocalFds \subseteq 0..(IntMax \div 2)
    /\ ServerFds \subseteq 0..(IntMax \div 2)
    /\ Paths \cup Targets \subseteq Seq(Nat \ {0})
    /\ OFlags \cup Modes \cup Lengths \subseteq Nat
    /\ ShortRecvs \subseteq {"size", "payload", "reply"}

PathCalls == {"OPEN", "TRUNCATE", "STAT", "RENAME", "UNLINK"}
FdCalls   == {"CLOSE", "READ", "WRITE", "LSEEK", "FTRUNCATE", "FSTAT", "FSYNC"}

(* enum function: the function code, in the order of the declaration.      *)
Code == [OPEN |-> 0, CLOSE |-> 1, READ |-> 2, WRITE |-> 3, LSEEK |-> 4, TRUNCATE |-> 5,
         FTRUNCATE |-> 6, STAT |-> 7, FSTAT |-> 8, FSYNC |-> 9, RENAME |-> 10, UNLINK |-> 11]

VARIABLES
    pc,       \* where the call is
    call,     \* the call the client program makes
    stream,   \* bytes sent and not yet received
    size,     \* payload_size
    payload,  \* payload, in the server
    executed, \* the call the server makes
    answer,   \* what that call returned
    result,   \* what the stub returns
    fd,       \* the server's descriptor of the file the client has open, or -1
    handle    \* the client's descriptor of it, or -1

vars == <<pc, call, stream, size, payload, executed, answer, result, fd, handle>>

-----------------------------------------------------------------------------
(* memcpy to and from byte buffers. *)

Encode(v, n) == [i \in 1..n |-> <<v, i>>]

(* n bytes at offset off of p; what lies past the end of p is not ours.    *)
Bytes(p, off, n) ==
    [i \in 1..n |-> IF off + i \in 1..Len(p) THEN p[off + i] ELSE Uninit]

Decode(b) ==
    IF \A i \in 1..Len(b) : b[i] = <<b[1][1], i>> THEN b[1][1] ELSE Garbled

Field(p, off, n) == Decode(Bytes(p, off, n))

(* strlen() of the characters at offset off.                               *)
StrLen(p, off) ==
    CHOOSE n \in 0..Len(p) :
        /\ Bytes(p, off + n, 1)[1] \in {NUL, Uninit}
        /\ \A m \in 0..n-1 : Bytes(p, off + m, 1)[1] \notin {NUL, Uninit}

Chars(b) == [i \in 1..Len(b) |-> b[i][1]]
CString(p, off) == Chars(Bytes(p, off, StrLen(p, off)))
Block(data) == [i \in 1..Len(data) |-> <<data[i], 1>>]

-----------------------------------------------------------------------------
(* The client. *)

HasPrefix(path) == Len(path) >= 2 /\ path[1] = Slash /\ path[2] = Slash

(* Mutant of Remote: off by one at the lowest remote descriptor.           *)
RemoteAbove(c) ==
    IF c.fn \in PathCalls THEN HasPrefix(c.path) ELSE c.fildes > IntMax \div 2 + 1

(* The stubs' test of a path or of a descriptor.                           *)
Remote(c) ==
    IF c.fn \in PathCalls THEN HasPrefix(c.path) ELSE c.fildes > IntMax \div 2

(* Mutant of PathSize: the NUL is not counted.                             *)
PathSizeNoNul(path) == Len(path) - 2

(* path + 2, for strlen(path) - 1 bytes: without the prefix, with the NUL. *)
PathSize(path) == Len(path) - 1
PathBytes(path) == Block(SubSeq(path, 3, Len(path))) \o <<NUL>>

(***************************************************************************)
(* The stubs.  For a remote call c, size is request_payload_size less the  *)
(* byte of the function code, args the arguments, each copied behind the   *)
(* one before, width the size of the value in the response and data that   *)
(* of the bytes behind it.                                                 *)
(***************************************************************************)
open(c) ==
    [size |-> PathSize(c.path) + SizeofInt + (IF c.oflag = O_CREAT THEN SizeofMode ELSE 0),
     args |-> PathBytes(c.path) \o Encode(c.oflag, SizeofInt)
                \o (IF c.oflag = O_CREAT THEN Encode(c.mode, SizeofMode) ELSE <<>>),
     width |-> SizeofInt, data |-> 0]

close(c) ==
    [size |-> SizeofInt, args |-> Encode(c.fildes, SizeofInt), width |-> SizeofInt, data |-> 0]

(* Mutant of read: the response is taken for the value only.               *)
readNoData(c) ==
    [size |-> SizeofInt + SizeofSize,
     args |-> Encode(c.fildes, SizeofInt) \o Encode(c.nbyte, SizeofSize),
     width |-> SizeofSize, data |-> 0]

read(c) ==
    [size |-> SizeofInt + SizeofSize,
     args |-> Encode(c.fildes, SizeofInt) \o Encode(c.nbyte, SizeofSize),
     width |-> SizeofSize, data |-> c.nbyte]

write(c) ==
    [size |-> SizeofInt + c.nbyte + SizeofSize,
     args |-> Encode(c.fildes, SizeofInt) \o Block(c.buf) \o Encode(c.nbyte, SizeofSize),
     width |-> SizeofSize, data |-> 0]

lseek(c) ==
    [size |-> SizeofInt + SizeofOff + SizeofInt,
     args |-> Encode(c.fildes, SizeofInt) \o Encode(c.offset, SizeofOff)
                \o Encode(c.whence, SizeofInt),
     width |-> SizeofOff, data |-> 0]

truncate(c) ==
    [size |-> PathSize(c.path) + SizeofOff,
     args |-> PathBytes(c.path) \o Encode(c.offset, SizeofOff),
     width |-> SizeofInt, data |-> 0]

ftruncate(c) ==
    [size |-> SizeofInt + SizeofOff,
     args |-> Encode(c.fildes, SizeofInt) \o Encode(c.offset, SizeofOff),
     width |-> SizeofInt, data |-> 0]

stat(c) ==
    [size |-> PathSize(c.path), args |-> PathBytes(c.path),
     width |-> SizeofInt, data |-> SizeofStat]

fstat(c) ==
    [size |-> SizeofInt, args |-> Encode(c.fildes, SizeofInt),
     width |-> SizeofInt, data |-> SizeofStat]

fsync(c) ==
    [size |-> SizeofInt, args |-> Encode(c.fildes, SizeofInt), width |-> SizeofInt, data |-> 0]

rename(c) ==
    [size |-> PathSize(c.path) + PathSize(c.new),
     args |-> PathBytes(c.path) \o PathBytes(c.new),
     width |-> SizeofInt, data |-> 0]

unlink(c) ==
    [size |-> PathSize(c.path), args |-> PathBytes(c.path), width |-> SizeofInt, data |-> 0]

Stub(c) ==
    CASE c.fn = "OPEN"     -> open(c)     [] c.fn = "CLOSE"     -> close(c)
      [] c.fn = "READ"     -> read(c)     [] c.fn = "WRITE"     -> write(c)
      [] c.fn = "LSEEK"    -> lseek(c)    [] c.fn = "FTRUNCATE" -> ftruncate(c)
      [] c.fn = "TRUNCATE" -> truncate(c) [] c.fn = "STAT"      -> stat(c)
      [] c.fn = "FSTAT"    -> fstat(c)    [] c.fn = "FSYNC"     -> fsync(c)
      [] c.fn = "RENAME"   -> rename(c)   [] c.fn = "UNLINK"    -> unlink(c)

PayloadSize(c) == 1 + Stub(c).size

(* request_buf: a block of just that size.                                 *)
RequestBuf(c) ==
    Bytes(Encode(PayloadSize(c), SizeofSize) \o Encode(Code[c.fn], 1) \o Stub(c).args,
          0, SizeofSize + PayloadSize(c))

ResponseSize(c) == Stub(c).width + Stub(c).data

(* What the stub extracts from the response: the value and the data.       *)
Extract(c, p) ==
    [value |-> Field(p, 0, Stub(c).width),
     data |-> Chars(Bytes(p, Stub(c).width, Stub(c).data))]

-----------------------------------------------------------------------------
(* The server. *)

(* INT_MAX - fildes: from the server's descriptor to the client's and back. *)
Renumber(n) == IntMax - n

(***************************************************************************)
(* The cases of the switch: the call made with what they find in payload p *)
(* (of size n), and the size of its value in the response.                 *)
(***************************************************************************)
Fildes(p)   == Renumber(Field(p, 1, SizeofInt))
PastPath(p) == 1 + StrLen(p, 1) + 1

OPEN(p) ==
    LET oflag == Field(p, PastPath(p), SizeofInt) IN
    [call |-> <<"OPEN", CString(p, 1), oflag,
                IF oflag = O_CREAT THEN Field(p, PastPath(p) + SizeofInt, SizeofMode)
                ELSE NoMode>>,
     width |-> SizeofInt]

CLOSE(p) == [call |-> <<"CLOSE", Fildes(p)>>, width |-> SizeofInt]

READ(p) == [call |-> <<"READ", Fildes(p), Field(p, 1 + SizeofInt, SizeofSize)>>,
            width |-> SizeofSize]

WRITE(p, n) ==
    LET nbyte == Field(p, n - SizeofSize, SizeofSize) IN
    [call |-> <<"WRITE", Fildes(p), nbyte,
                IF nbyte \in Nat THEN Chars(Bytes(p, 1 + SizeofInt, nbyte)) ELSE <<>>>>,
     width |-> SizeofSize]

LSEEK(p) == [call |-> <<"LSEEK", Fildes(p), Field(p, 1 + SizeofInt, SizeofOff),
                        Field(p, 1 + SizeofInt + SizeofOff, SizeofInt)>>,
             width |-> SizeofOff]

TRUNCATE(p) == [call |-> <<"TRUNCATE", CString(p, 1), Field(p, PastPath(p), SizeofOff)>>,
                width |-> SizeofInt]

FTRUNCATE(p) == [call |-> <<"FTRUNCATE", Fildes(p), Field(p, 1 + SizeofInt, SizeofOff)>>,
                 width |-> SizeofInt]

STAT(p)   == [call |-> <<"STAT", CString(p, 1)>>, width |-> SizeofInt]
FSTAT(p)  == [call |-> <<"FSTAT", Fildes(p)>>, width |-> SizeofInt]
FSYNC(p)  == [call |-> <<"FSYNC", Fildes(p)>>, width |-> SizeofInt]
RENAME(p) == [call |-> <<"RENAME", CString(p, 1), CString(p, PastPath(p))>>,
              width |-> SizeofInt]
UNLINK(p) == [call |-> <<"UNLINK", CString(p, 1)>>, width |-> SizeofInt]

(* switch(function_code); nothing is sent, and nothing closed, by default. *)
Switch(p, n) ==
    LET code == Field(p, 0, 1) IN
    CASE code = Code["OPEN"]     -> OPEN(p)     [] code = Code["CLOSE"]     -> CLOSE(p)
      [] code = Code["READ"]     -> READ(p)     [] code = Code["WRITE"]     -> WRITE(p, n)
      [] code = Code["LSEEK"]    -> LSEEK(p)    [] code = Code["FTRUNCATE"] -> FTRUNCATE(p)
      [] code = Code["TRUNCATE"] -> TRUNCATE(p) [] code = Code["STAT"]      -> STAT(p)
      [] code = Code["FSTAT"]    -> FSTAT(p)    [] code = Code["FSYNC"]     -> FSYNC(p)
      [] code = Code["RENAME"]   -> RENAME(p)   [] code = Code["UNLINK"]    -> UNLINK(p)
      [] OTHER -> [call |-> <<"UNSUPPORTED">>, width |-> 0]

NoResult == [value |-> Garbled, data |-> <<>>]

(* What the system call of e may return, and the data it yields: read()    *)
(* and write() may do less than asked for.  read() fills only as much of   *)
(* the nbyte bytes as it returns, and a failing stat() fills nothing: the  *)
(* rest is what the heap or the stack held.                                *)
Unset == -1

Answers(e) ==
    CASE e[1] = "OPEN" -> [value : ServerFds \cup {-1}, data : {<<>>}]
      [] e[1] = "READ" ->
           {[value |-> v, data |-> [i \in 1..e[3] |-> IF i <= v THEN 8 ELSE Unset]] :
              v \in {-1} \cup 0..e[3]}
      [] e[1] \in {"STAT", "FSTAT"} ->
           [value : {0}, data : {[i \in 1..SizeofStat |-> 9]}]
           \cup [value : {-1}, data : {[i \in 1..SizeofStat |-> Unset]}]
      [] e[1] \in {"WRITE", "LSEEK"} -> [value : {-1} \cup 0..e[3], data : {<<>>}]
      [] e[1] = "UNSUPPORTED" -> {NoResult}
      [] OTHER -> [value : {-1, 0}, data : {<<>>}]

(* The response payload: the value, renumbered if it is a descriptor, then *)
(* the data.                                                               *)
Response(e, width, a) ==
    Encode(IF e[1] = "OPEN" /\ a.value >= 0 THEN Renumber(a.value) ELSE a.value, width)
        \o Block(a.data)

-----------------------------------------------------------------------------
NoCall   == [fn |-> "NONE"]
Data(n)  == [i \in 1..n |-> 7]

(* The calls a client program makes: descriptors are its own, or the one   *)
(* that open() gave it.                                                    *)
Calls ==
    LET fds == LocalFds \cup ({handle} \ {-1}) IN
    [fn : {"OPEN"}, path : Paths, oflag : OFlags, mode : Modes]
    \cup [fn : {"STAT", "UNLINK"}, path : Paths]
    \cup [fn : {"TRUNCATE"}, path : Paths, offset : Lengths]
    \cup [fn : {"RENAME"}, path : Paths, new : Targets]
    \cup [fn : {"CLOSE", "FSTAT", "FSYNC"}, fildes : fds]
    \cup [fn : {"READ"}, fildes : fds, nbyte : Lengths]
    \cup {[fn |-> "WRITE", fildes |-> f, nbyte |-> n, buf |-> Data(n)] :
            f \in fds, n \in Lengths}
    \cup [fn : {"LSEEK"}, fildes : fds, offset : Lengths, whence : {0, 2}]
    \cup [fn : {"FTRUNCATE"}, fildes : fds, offset : Lengths]

Init ==
    /\ pc = "idle" /\ call = NoCall /\ stream = <<>> /\ size = 0 /\ payload = <<>>
    /\ executed = <<>> /\ answer = NoResult /\ result = NoResult
    /\ fd = -1 /\ handle = -1

(* How many bytes recv(..., n, 0) may return: all that was sent, up to n,  *)
(* or fewer, if the rest is still on its way.                              *)
Most(n) == IF n <= Len(stream) THEN n ELSE Len(stream)
Arrivals(n) == {Most(n)} \cup {k \in 1..Most(n)-1 : pc \in ShortRecvs}

Recv(k) == stream' = SubSeq(stream, k + 1, Len(stream))

(* What a buffer of n bytes holds after a recv() of k of them.             *)
Filled(n, k) == SubSeq(stream, 1, k) \o [i \in 1..n-k |-> Uninit]

(* The stub builds the request and sends it.                               *)
Marshal(c) ==
    /\ pc = "idle" /\ Remote(c)
    /\ call' = c
    /\ stream' = RequestBuf(c)
    /\ pc' = "size"
    /\ UNCHANGED <<size, payload, executed, answer, result, fd, handle>>

(* The stub calls the function of the C library instead.                   *)
CallLocally(c) ==
    /\ pc = "idle" /\ ~Remote(c)
    /\ call' = c
    /\ pc' = "local"
    /\ UNCHANGED <<stream, size, payload, executed, answer, result, fd, handle>>

(* main(): the bytes of the size that did not arrive are left over from    *)
(* before, and so is the size they make (no larger than this request's).   *)
RecvSize ==
    /\ pc = "size"
    /\ \E k \in Arrivals(SizeofSize) :
         /\ Recv(k)
         /\ size' \in IF k = SizeofSize THEN {Decode(Filled(SizeofSize, k))}
                      ELSE 1..PayloadSize(call)
    /\ pc' = "payload"
    /\ UNCHANGED <<call, payload, executed, answer, result, fd, handle>>

RecvPayload ==
    /\ pc = "payload"
    /\ \E k \in Arrivals(size) : Recv(k) /\ payload' = Filled(size, k)
    /\ pc' = "execute"
    /\ UNCHANGED <<call, size, executed, answer, result, fd, handle>>

(* client_handler(): the switch, and send() of the response.               *)
Execute ==
    /\ pc = "execute"
    /\ LET case == Switch(payload, size) IN
         /\ executed' = case.call
         /\ \E a \in Answers(case.call) :
              /\ answer' = a
              /\ stream' = Response(case.call, case.width, a)
              /\ fd' = IF case.call[1] = "OPEN" /\ fd = -1 THEN a.value ELSE fd
    /\ pc' = "reply"
    /\ UNCHANGED <<call, size, payload, result, handle>>

(* recv_data() or recv_data_buf(), then the copies out of the response.    *)
RecvReply ==
    /\ pc = "reply" /\ stream # <<>>
    /\ \E k \in Arrivals(ResponseSize(call)) :
         /\ Recv(k)
         /\ result' = Extract(call, Filled(ResponseSize(call), k))
    /\ pc' = "returned"
    /\ UNCHANGED <<call, size, payload, executed, answer, fd, handle>>

(* The client program goes on; it remembers one open file.                 *)
Return ==
    /\ pc \in {"returned", "local"}
    /\ handle' = CASE pc = "returned" /\ call.fn = "OPEN" /\ handle = -1 -> result.value
                   [] pc = "returned" /\ call.fn = "CLOSE" -> -1
                   [] OTHER -> handle
    /\ fd' = IF pc = "returned" /\ call.fn = "CLOSE" THEN -1 ELSE fd
    /\ pc' = "idle"
    /\ call' = NoCall /\ stream' = <<>> /\ size' = 0 /\ payload' = <<>>
    /\ executed' = <<>> /\ answer' = NoResult /\ result' = NoResult

Next ==
    \/ \E c \in Calls : Marshal(c) \/ CallLocally(c)
    \/ RecvSize \/ RecvPayload \/ Execute \/ RecvReply \/ Return

Spec == Init /\ [][Next]_vars
-----------------------------------------------------------------------------
Strip(path) == IF HasPrefix(path) THEN SubSeq(path, 3, Len(path)) ELSE path
Creates(oflag) == (oflag \div O_CREAT) % 2 = 1

(* The call the client program means: open() takes a mode whenever the     *)
(* O_CREAT bit is set, and a descriptor means the file the server opened.  *)
Meaning(c) ==
    CASE c.fn = "OPEN" -> <<"OPEN", Strip(c.path), c.oflag,
                            IF Creates(c.oflag) THEN c.mode ELSE NoMode>>
      [] c.fn = "READ"      -> <<"READ", fd, c.nbyte>>
      [] c.fn = "WRITE"     -> <<"WRITE", fd, c.nbyte, c.buf>>
      [] c.fn = "LSEEK"     -> <<"LSEEK", fd, c.offset, c.whence>>
      [] c.fn = "TRUNCATE"  -> <<"TRUNCATE", Strip(c.path), c.offset>>
      [] c.fn = "FTRUNCATE" -> <<"FTRUNCATE", fd, c.offset>>
      [] c.fn = "RENAME"    -> <<"RENAME", Strip(c.path), Strip(c.new)>>
      [] c.fn \in {"STAT", "UNLINK"}          -> <<c.fn, Strip(c.path)>>
      [] c.fn \in {"CLOSE", "FSTAT", "FSYNC"} -> <<c.fn, fd>>

(***************************************************************************)
(* The call the server makes is the one the client program means, with     *)
(* each of its arguments: what the stubs marshal, client_handler finds.    *)
(***************************************************************************)
ArgumentsIntact == pc \in {"reply", "returned"} => executed = Meaning(call)

(***************************************************************************)
(* The stub returns what the server's call returned, and each byte of data *)
(* that the call produced is where the caller expects it: all of a stat(), *)
(* of a read() as many as it returns.  A descriptor is renumbered, but an  *)
(* error stays one.                                                        *)
(***************************************************************************)
ResultsIntact ==
    pc = "returned" =>
        IF call.fn = "OPEN" THEN result.value = -1 <=> answer.value = -1
        ELSE /\ result.value = answer.value
             /\ Len(result.data) = Len(answer.data)
             /\ \A i \in 1..Len(answer.data) :
                  answer.data[i] # Unset => result.data[i] = answer.data[i]

(***************************************************************************)
(* The stubs' tests send a descriptor to the server exactly if open() got  *)
(* it from there, and a path exactly if it starts with "//".               *)
(***************************************************************************)
DispatchIsRight ==
    pc # "idle" =>
        (pc = "local" <=> \/ call.fn \in FdCalls /\ call.fildes # handle
                          \/ call.fn \in PathCalls /\ Strip(call.path) = call.path)

=============================================================================
