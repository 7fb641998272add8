---------------------------- MODULE RpcStubsProofs ----------------------------
(***************************************************************************)
(* Proofs about RpcStubs for a program of one thread, whatever the number  *)
(* of calls and of descriptors and whichever library calls fail.  With two *)
(* threads the theorems are false: they share sock.                        *)
(***************************************************************************)
EXTENDS RpcStubs, TLAPS

OneThread == \E t : Threads = {t}

(* Where a stub has a socket.                                              *)
Holding == {"setsockopt", "connect", "send", "alloc", "recv", "receiving", "close"}

PCs == {"idle", "dead", "malloc", "socket"} \cup Holding

ConnType == [state : {"none", "open", "connected"}, requests : Seq(Nat),
             reply : {"none", "sent", "ended", "lost", "gone"}]

Types ==
    /\ pc \in [Threads -> PCs]
    /\ call \in [Threads -> Nat]
    /\ result \in [Threads -> Int]
    /\ on \in [Threads -> Nat]
    /\ table \in [Fds -> Nat]
    /\ conn \in [Calls -> ConnType]
    /\ calls \in 0..MaxCalls /\ sockets \in 0..calls

(* sock is the socket this call has made, the newest, in the state that    *)
(* the steps so far have brought it to.                                    *)
SockInv(t) ==
    /\ pc[t] \in {"malloc", "socket"} => sockets < calls
    /\ pc[t] \in Holding => sock \in Fds /\ table[sock] = sockets /\ sockets # 0
    /\ pc[t] \in {"setsockopt", "connect"} => conn[sockets].state = "open"
    /\ pc[t] \in {"send", "alloc", "recv", "receiving"} => conn[sockets].state = "connected"
    /\ pc[t] \in {"setsockopt", "connect", "send"} => conn[sockets].requests = <<>>
    /\ pc[t] \in {"alloc", "recv", "receiving", "close"} => conn[sockets].requests = <<call[t]>>
    /\ pc[t] \in {"receiving", "close"} => on[t] = sockets
    /\ \A c \in Calls : c > sockets => conn[c].requests = <<>>

(* recv() finds an answer to this call or the end of its connection, and   *)
(* the result is what OwnReply says.                                       *)
Unanswered(t, c) == result[t] = 0 /\ conn[c].reply = "gone" /\ conn[c].requests = <<call[t]>>

AnswerInv(t) ==
    /\ pc[t] \notin {"idle", "dead", "close"} => result[t] = -1
    /\ pc[t] \in {"setsockopt", "connect", "send", "alloc", "recv", "receiving"}
         => conn[sockets].reply # "ended"
    /\ pc[t] = "close" => result[t] = call[t] \/ Unanswered(t, sockets)
    /\ pc[t] = "idle" => result[t] \in {-1, call[t]} \/ (on[t] \in Calls /\ Unanswered(t, on[t]))
    /\ \A c \in Calls : conn[c].requests = <<>> => conn[c].reply \in {"none", "gone"}

(* As long as read() has memory for its response, sock is the only socket. *)
OnlyInv(t) ==
    \A d \in Fds : table[d] # 0 => pc[t] \in Holding /\ d = sock

(* The inductive invariant.                                                *)
StubInv ==
    /\ Types
    /\ \A t \in Threads : /\ SockInv(t)
                          /\ AnswerInv(t)
                          /\ "alloc" \notin Faults => OnlyInv(t)

-----------------------------------------------------------------------------
LEMMA InitStub == Init => StubInv
<1>. SUFFICES ASSUME Init PROVE StubInv
  OBVIOUS
<1>1. Types
  BY StubsAssumption DEF Init, Types, PCs, ConnType, Calls
<1>2. ASSUME NEW t \in Threads PROVE SockInv(t) /\ AnswerInv(t) /\ OnlyInv(t)
  BY StubsAssumption DEF Init, SockInv, AnswerInv, OnlyInv, Holding, Calls
<1>. QED
  BY <1>1, <1>2 DEF StubInv

(* What close(sock) does to the table while a stub has a socket.           *)
LEMMA Closing ==
  ASSUME Types, NEW t \in Threads, SockInv(t), pc[t] \in Holding, CloseSock
  PROVE  /\ table' \in [Fds -> Nat]
         /\ \A d \in Fds : table'[d] = IF d = sock THEN 0 ELSE table[d]
  BY DEF Types, SockInv, CloseSock

(* A stub fails once it has a socket, which it has closed.                 *)
LEMMA FailStub ==
  ASSUME OneThread, StubInv, NEW t \in Threads, pc[t] \in Holding \ {"close"},
         CloseSock, Fail(t), UNCHANGED <<call, conn, sockets, calls>>
  PROVE  StubInv'
<1>. USE DEF StubInv
<1>0. Threads = {t}
  BY DEF OneThread
<1>1. pc' \in [Threads -> PCs] /\ pc'[t] = "idle"
      /\ UNCHANGED <<result, on>>
  BY DEF Fail, Goto, Types, PCs, Holding
<1>2. table' \in [Fds -> Nat] /\ \A d \in Fds : table'[d] = IF d = sock THEN 0 ELSE table[d]
  BY Closing
<1>3. Types'
  BY <1>1, <1>2 DEF Types
<1>4. SockInv(t)'
  BY <1>1 DEF SockInv, Holding
<1>5. AnswerInv(t) => AnswerInv(t)'
  BY <1>1 DEF AnswerInv, Holding
<1>6. OnlyInv(t) => OnlyInv(t)'
  BY <1>1, <1>2 DEF OnlyInv
<1>. QED
  BY <1>0, <1>3, <1>4, <1>5, <1>6

(* A step that moves a thread on within a stub and disturbs nothing else.  *)
LEMMA MoveStub ==
  ASSUME OneThread, StubInv, NEW t \in Threads, NEW p, Goto(t, p),
         UNCHANGED <<call, result, on, sock, table, conn, sockets, calls>>,
         \/ pc[t] = "malloc" /\ p = "socket"
         \/ pc[t] = "setsockopt" /\ p = "connect"
         \/ pc[t] = "alloc" /\ p = "recv"
         \/ pc[t] \in {"malloc", "alloc"} /\ p = "idle" /\ (pc[t] = "alloc" => "alloc" \in Faults)
  PROVE  StubInv'
<1>. USE DEF StubInv
<1>0. Threads = {t}
  BY DEF OneThread
<1>1. pc' \in [Threads -> PCs] /\ pc'[t] = p
  BY DEF Goto, Types, PCs, Holding
<1>2. Types'
  BY <1>1 DEF Types
<1>3. SockInv(t)'
  BY <1>1 DEF SockInv, Holding
<1>4. AnswerInv(t) => AnswerInv(t)'
  BY <1>1 DEF AnswerInv
<1>5. OnlyInv(t) /\ "alloc" \notin Faults => OnlyInv(t)'
  BY <1>1 DEF OnlyInv, Holding
<1>. QED
  BY <1>0, <1>2, <1>3, <1>4, <1>5

LEMMA EnterStub ==
  ASSUME OneThread, StubInv, NEW t \in Threads, NEW k, Enter(t, k)
  PROVE  StubInv'
<1>. USE DEF StubInv
<1>0. Threads = {t} /\ MaxCalls \in Nat
  BY StubsAssumption DEF OneThread
<1>1. /\ pc' \in [Threads -> PCs]
      /\ pc'[t] \in {"malloc", "socket"}
      /\ call' \in [Threads -> Nat] /\ result' \in [Threads -> Int] /\ result'[t] = -1
      /\ calls' = calls + 1 /\ calls < MaxCalls /\ calls \in Nat /\ pc[t] = "idle"
      /\ UNCHANGED <<on, sock, table, conn, sockets>>
  BY <1>0 DEF Enter, Goto, Types, PCs, Holding
<1>2. Types'
  BY <1>0, <1>1 DEF Types
<1>3. SockInv(t)'
  BY <1>1 DEF SockInv, Holding, Types
<1>4. AnswerInv(t) => AnswerInv(t)'
  BY <1>1 DEF AnswerInv
<1>5. OnlyInv(t) => OnlyInv(t)'
  BY <1>1 DEF OnlyInv, Holding
<1>. QED
  BY <1>0, <1>2, <1>3, <1>4, <1>5

LEMMA SocketStub ==
  ASSUME OneThread, StubInv, NEW t \in Threads, Socket(t)
  PROVE  StubInv'
<1>. USE DEF StubInv
<1>0. Threads = {t} /\ MaxCalls \in Nat
  BY StubsAssumption DEF OneThread
<1>1. pc[t] = "socket" /\ UNCHANGED <<call, calls, result, on>>
  BY DEF Socket, Fail
<1>2. ASSUME NEW d \in LowestFd, sock' = d, table' = [table EXCEPT ![d] = sockets + 1],
             conn' = [conn EXCEPT ![sockets + 1].state = "open"], sockets' = sockets + 1,
             Goto(t, "setsockopt")
      PROVE  StubInv'
  <2>1. d \in Fds /\ table[d] = 0
    BY DEF LowestFd, FreeFds
  <2>2. sockets \in Nat /\ sockets + 1 \in Calls /\ sockets + 1 \in 0..calls
    BY <1>0, <1>1 DEF SockInv, Types, Calls
  <2>3. pc' \in [Threads -> PCs] /\ pc'[t] = "setsockopt"
    BY <1>2 DEF Goto, Types, PCs, Holding
  <2>4. /\ table' \in [Fds -> Nat] /\ table'[d] = sockets + 1
        /\ \A e \in Fds \ {d} : table'[e] = table[e]
    BY <1>2, <2>1, <2>2 DEF Types
  <2>5. /\ conn' \in [Calls -> ConnType]
        /\ conn'[sockets + 1].state = "open"
        /\ \A c \in Calls : conn'[c].requests = conn[c].requests /\ conn'[c].reply = conn[c].reply
    BY <1>2, <2>2 DEF Types, ConnType
  <2>6. Types'
    BY <1>1, <1>2, <2>2, <2>3, <2>4, <2>5 DEF Types
  <2>7. SockInv(t)'
    BY <1>1, <1>2, <2>1, <2>2, <2>3, <2>4, <2>5 DEF SockInv, Holding, Types, Calls
  <2>8. AnswerInv(t) => AnswerInv(t)'
    BY <1>1, <1>2, <2>2, <2>3, <2>5 DEF AnswerInv, SockInv
  <2>9. OnlyInv(t) => OnlyInv(t)'
    BY <1>1, <1>2, <2>3, <2>4 DEF OnlyInv, Holding
  <2>. QED
    BY <1>0, <2>6, <2>7, <2>8, <2>9
<1>3. CASE sock' = -1 /\ Fail(t) /\ UNCHANGED <<table, conn, sockets>>
  <2>1. pc' \in [Threads -> PCs] /\ pc'[t] = "idle"
    BY <1>3 DEF Fail, Goto, Types, PCs, Holding
  <2>2. Types'
    BY <1>1, <1>3, <2>1 DEF Types
  <2>3. SockInv(t)'
    BY <1>1, <1>3, <2>1 DEF SockInv, Holding
  <2>4. AnswerInv(t) => AnswerInv(t)'
    BY <1>1, <1>3, <2>1 DEF AnswerInv
  <2>5. OnlyInv(t) => OnlyInv(t)'
    BY <1>1, <1>3, <2>1 DEF OnlyInv, Holding
  <2>. QED
    BY <1>0, <2>2, <2>3, <2>4, <2>5
<1>. QED
  BY <1>2, <1>3 DEF Socket

(* While a stub has a socket, sock denotes it.                             *)
LEMMA CurrentSock ==
  ASSUME StubInv, NEW t \in Threads, pc[t] \in Holding
  PROVE  /\ Current = sockets /\ sockets \in Calls /\ sockets # 0
         /\ sock \in Fds /\ table[sock] = sockets
  BY StubsAssumption DEF StubInv, SockInv, Types, Current, Calls

LEMMA ConnectStub ==
  ASSUME OneThread, StubInv, NEW t \in Threads, Connect(t)
  PROVE  StubInv'
<1>. USE DEF StubInv
<1>0. Threads = {t} /\ pc[t] = "connect" /\ pc[t] \in Holding
  BY DEF OneThread, Connect, Holding
<1>1. CASE CloseSock /\ Fail(t) /\ UNCHANGED conn
  BY <1>0, <1>1, FailStub DEF Connect
<1>2. CASE /\ conn' = [conn EXCEPT ![Current].state = "connected"]
           /\ Goto(t, "send") /\ UNCHANGED <<table, result, on>>
  <2>1. UNCHANGED <<call, sock, sockets, calls>>
    BY DEF Connect
  <2>2. pc' \in [Threads -> PCs] /\ pc'[t] = "send"
    BY <1>2 DEF Goto, Types, PCs, Holding
  <2>3. /\ conn' \in [Calls -> ConnType]
        /\ conn'[sockets].state = "connected"
        /\ \A c \in Calls : conn'[c].requests = conn[c].requests /\ conn'[c].reply = conn[c].reply
    BY <1>0, <1>2, CurrentSock DEF Types, ConnType
  <2>4. Types'
    BY <1>2, <2>1, <2>2, <2>3 DEF Types
  <2>5. SockInv(t)'
    BY <1>0, <1>2, <2>1, <2>2, <2>3, CurrentSock DEF SockInv, Holding
  <2>6. AnswerInv(t) => AnswerInv(t)'
    BY <1>0, <1>2, <2>1, <2>2, <2>3, CurrentSock DEF AnswerInv
  <2>7. OnlyInv(t) => OnlyInv(t)'
    BY <1>0, <1>2, <2>1, <2>2 DEF OnlyInv, Holding
  <2>. QED
    BY <1>0, <2>4, <2>5, <2>6, <2>7
<1>. QED
  BY <1>1, <1>2 DEF Connect

LEMMA SendStub ==
  ASSUME OneThread, StubInv, NEW t \in Threads, Send(t)
  PROVE  StubInv'
<1>. USE DEF StubInv
<1>0. Threads = {t} /\ pc[t] = "send" /\ pc[t] \in Holding
  BY DEF OneThread, Send, Holding
<1>1. CASE CloseSock /\ Fail(t) /\ UNCHANGED conn
  BY <1>0, <1>1, FailStub DEF Send
<1>2. CASE /\ conn' = [conn EXCEPT ![Current].requests = Append(@, call[t])]
           /\ Goto(t, IF stub[t] = "READ" THEN "alloc" ELSE "recv")
           /\ UNCHANGED <<table, result, on>>
  <2>1. UNCHANGED <<call, sock, sockets, calls>>
    BY DEF Send
  <2>2. pc' \in [Threads -> PCs] /\ pc'[t] \in {"alloc", "recv"}
    BY <1>2 DEF Goto, Types, PCs, Holding
  <2>3. conn[sockets].requests = <<>> /\ sockets \in Calls /\ call[t] \in Nat
    BY <1>0, CurrentSock DEF SockInv, Types
  <2>4. Append(conn[sockets].requests, call[t]) = <<call[t]>> /\ <<call[t]>> \in Seq(Nat)
    BY <2>3
  <2>5. conn' = [conn EXCEPT ![sockets].requests = <<call[t]>>]
    BY <1>0, <1>2, <2>4, CurrentSock
  <2>6. /\ conn' \in [Calls -> ConnType]
        /\ conn'[sockets].requests = <<call[t]>>
        /\ \A c \in Calls : conn'[c].state = conn[c].state /\ conn'[c].reply = conn[c].reply
        /\ \A c \in Calls \ {sockets} : conn'[c].requests = conn[c].requests
    BY <2>3, <2>4, <2>5 DEF Types, ConnType
  <2>7. Types'
    BY <1>2, <2>1, <2>2, <2>6 DEF Types
  <2>8. SockInv(t)'
    BY <1>0, <1>2, <2>1, <2>2, <2>3, <2>6, CurrentSock DEF SockInv, Holding, Types, Calls
  <2>9. AnswerInv(t) => AnswerInv(t)'
    <3>1. <<call[t]>> # <<>>
      OBVIOUS
    <3>. QED
      BY <1>0, <1>2, <2>1, <2>2, <2>3, <2>6, <3>1 DEF AnswerInv
  <2>10. OnlyInv(t) => OnlyInv(t)'
    BY <1>0, <1>2, <2>1, <2>2 DEF OnlyInv, Holding
  <2>. QED
    BY <1>0, <2>7, <2>8, <2>9, <2>10
<1>. QED
  BY <1>1, <1>2 DEF Send, Sent

LEMMA RecvStub ==
  ASSUME OneThread, StubInv, NEW t \in Threads, Recv(t)
  PROVE  StubInv'
<1>. USE DEF StubInv
<1>0. Threads = {t} /\ pc[t] = "recv" /\ pc[t] \in Holding
  BY DEF OneThread, Recv, Holding
<1>1. CASE CloseSock /\ Fail(t)
  BY <1>0, <1>1, FailStub DEF Recv
<1>2. CASE on' = [on EXCEPT ![t] = Current] /\ Goto(t, "receiving") /\ UNCHANGED <<table, result>>
  <2>1. UNCHANGED <<call, sock, conn, sockets, calls>>
    BY DEF Recv
  <2>2. pc' \in [Threads -> PCs] /\ pc'[t] = "receiving"
    BY <1>2 DEF Goto, Types, PCs, Holding
  <2>3. on' \in [Threads -> Nat] /\ on'[t] = sockets
    BY <1>0, <1>2, CurrentSock DEF Types, ConnType
  <2>4. Types'
    BY <1>2, <2>1, <2>2, <2>3 DEF Types
  <2>5. SockInv(t)'
    BY <1>0, <1>2, <2>1, <2>2, <2>3 DEF SockInv, Holding
  <2>6. AnswerInv(t) => AnswerInv(t)'
    BY <1>0, <1>2, <2>1, <2>2 DEF AnswerInv
  <2>7. OnlyInv(t) => OnlyInv(t)'
    BY <1>0, <1>2, <2>1, <2>2 DEF OnlyInv, Holding
  <2>. QED
    BY <1>0, <2>4, <2>5, <2>6, <2>7
<1>. QED
  BY <1>1, <1>2 DEF Recv

LEMMA ReceivedStub ==
  ASSUME OneThread, StubInv, NEW t \in Threads, Received(t)
  PROVE  StubInv'
<1>. USE DEF StubInv
<1>0. /\ Threads = {t} /\ pc[t] = "receiving" /\ pc[t] \in Holding
      /\ UNCHANGED <<call, on, sock, table, sockets, calls>>
  BY DEF OneThread, Received, Holding
<1>1. /\ on[t] = sockets /\ sockets \in Calls /\ conn[sockets].requests = <<call[t]>>
      /\ call[t] \in Nat
  BY <1>0, CurrentSock DEF SockInv, Types
<1>2. Head(conn[on[t]].requests) = call[t]
  BY <1>1
<1>3. pc' \in [Threads -> PCs] /\ pc'[t] = "close"
  BY DEF Received, Goto, Types, PCs, Holding
<1>4. /\ result' \in [Threads -> Int] /\ result'[t] \in {call[t], 0}
      /\ \/ result'[t] = call[t]
         \/ result'[t] = 0 /\ conn' = conn /\ conn[sockets].reply \in {"ended", "gone"}
  BY <1>0, <1>1, <1>2 DEF Received, Types
<1>5. /\ conn' \in [Calls -> ConnType]
      /\ \A c \in Calls : conn'[c].state = conn[c].state /\ conn'[c].requests = conn[c].requests
      /\ \A c \in Calls \ {sockets} : conn'[c].reply = conn[c].reply
  <2>1. CASE conn' = [conn EXCEPT ![sockets].reply = "ended"]
    BY <1>1, <2>1 DEF Types, ConnType
  <2>2. CASE conn' = conn
    BY <2>2 DEF Types
  <2>. QED
    BY <1>1, <2>1, <2>2 DEF Received
<1>6. Types'
  BY <1>0, <1>3, <1>4, <1>5 DEF Types
<1>7. SockInv(t)'
  BY <1>0, <1>1, <1>3, <1>5 DEF SockInv, Holding
<1>8. AnswerInv(t) => AnswerInv(t)'
  <2>1. <<call[t]>> # <<>>
    OBVIOUS
  <2>. QED
    BY <1>0, <1>1, <1>3, <1>4, <1>5, <2>1 DEF AnswerInv, Unanswered
<1>9. OnlyInv(t) => OnlyInv(t)'
  BY <1>0, <1>3 DEF OnlyInv, Holding
<1>. QED
  BY <1>0, <1>6, <1>7, <1>8, <1>9

LEMMA CloseStub ==
  ASSUME OneThread, StubInv, NEW t \in Threads, Close(t)
  PROVE  StubInv'
<1>. USE DEF StubInv
<1>0. /\ Threads = {t} /\ pc[t] = "close" /\ pc[t] \in Holding
      /\ UNCHANGED <<call, on, sock, conn, sockets, calls>>
  BY DEF OneThread, Close, Holding
<1>1. pc' \in [Threads -> PCs] /\ pc'[t] = "idle"
  BY DEF Close, Goto, Types, PCs, Holding
<1>2. result' \in [Threads -> Int] /\ result'[t] \in {-1, result[t]}
  BY DEF Close, Types
<1>3. table' \in [Fds -> Nat] /\ \A d \in Fds : table'[d] = IF d = sock THEN 0 ELSE table[d]
  BY <1>0, Closing DEF Close
<1>4. Types'
  BY <1>0, <1>1, <1>2, <1>3 DEF Types
<1>5. SockInv(t)'
  BY <1>0, <1>1 DEF SockInv, Holding
<1>6. AnswerInv(t) => AnswerInv(t)'
  <2>1. on[t] = sockets /\ sockets \in Calls
    BY <1>0, CurrentSock DEF SockInv
  <2>. QED
    BY <1>0, <1>1, <1>2, <2>1 DEF AnswerInv, Unanswered
<1>7. OnlyInv(t) => OnlyInv(t)'
  BY <1>0, <1>1, <1>3 DEF OnlyInv
<1>. QED
  BY <1>0, <1>4, <1>5, <1>6, <1>7

(* The server answers, does not, or is gone.                               *)
LEMMA ServerStub ==
  ASSUME StubInv, NEW c \in Calls, Answer(c) \/ Stranded(c) \/ ServerGone(c)
  PROVE  StubInv'
<1>. USE DEF StubInv
<1>1. PICK r \in {"sent", "lost", "gone"} :
        /\ conn' = [conn EXCEPT ![c].reply = r]
        /\ r # "gone" => conn[c].requests # <<>>
  BY DEF Answer, Stranded, ServerGone
<1>2. /\ conn[c].reply \in {"none", "lost"}
      /\ UNCHANGED <<pc, call, result, on, sock, table, sockets, calls>>
  BY DEF Answer, Stranded, ServerGone
<1>3. /\ conn' \in [Calls -> ConnType]
      /\ \A d \in Calls : conn'[d].state = conn[d].state /\ conn'[d].requests = conn[d].requests
      /\ \A d \in Calls : conn'[d].reply = IF d = c THEN r ELSE conn[d].reply
  BY <1>1 DEF Types, ConnType
<1>4. Types'
  BY <1>2, <1>3 DEF Types
<1>5. ASSUME NEW t \in Threads
      PROVE  SockInv(t)' /\ AnswerInv(t)' /\ ("alloc" \notin Faults => OnlyInv(t)')
  <2>1. pc[t] \in Holding => sockets \in Calls
    BY CurrentSock
  <2>2. SockInv(t)'
    BY <1>2, <1>3, <2>1 DEF SockInv, Holding
  <2>3. AnswerInv(t)'
    BY <1>1, <1>2, <1>3, <2>1 DEF AnswerInv, Unanswered, Holding
  <2>4. "alloc" \notin Faults => OnlyInv(t)'
    BY <1>2 DEF OnlyInv
  <2>. QED
    BY <2>2, <2>3, <2>4
<1>. QED
  BY <1>4, <1>5

(* SIGPIPE ends the program, with all its descriptors.                     *)
LEMMA KilledStub ==
  ASSUME OneThread, StubInv, NEW t \in Threads, SendKills(t)
  PROVE  StubInv'
<1>. USE DEF StubInv
<1>0. Threads = {t} /\ UNCHANGED <<call, result, on, sock, conn, sockets, calls>>
  BY DEF OneThread, SendKills
<1>1. pc' \in [Threads -> PCs] /\ pc'[t] = "dead"
  BY DEF SendKills, PCs
<1>2. table' \in [Fds -> Nat] /\ \A d \in Fds : table'[d] = 0
  BY DEF SendKills
<1>3. Types'
  BY <1>0, <1>1, <1>2 DEF Types
<1>4. SockInv(t)' /\ AnswerInv(t)' /\ OnlyInv(t)'
  BY <1>0, <1>1, <1>2 DEF SockInv, AnswerInv, OnlyInv, Holding
<1>. QED
  BY <1>0, <1>3, <1>4

LEMMA NextStub ==
  ASSUME OneThread
  PROVE  StubInv /\ [Next]_vars => StubInv'
<1>. SUFFICES ASSUME StubInv, [Next]_vars PROVE StubInv'
  OBVIOUS
<1>1. CASE UNCHANGED vars
  BY <1>1 DEF vars, StubInv, Types, SockInv, AnswerInv, Unanswered, OnlyInv
<1>2. ASSUME NEW t \in Threads, Malloc(t) PROVE StubInv'
  BY <1>2, MoveStub DEF Malloc, Fail
<1>3. ASSUME NEW t \in Threads, Setsockopt(t) PROVE StubInv'
  <2>1. pc[t] \in Holding \ {"close"}
    BY <1>3 DEF Setsockopt, Holding
  <2>2. CASE CloseSock /\ Fail(t)
    BY <1>3, <2>1, <2>2, FailStub DEF Setsockopt
  <2>. QED
    BY <1>3, <2>2, MoveStub DEF Setsockopt
<1>4. ASSUME NEW t \in Threads, Alloc(t) PROVE StubInv'
  BY <1>4, MoveStub DEF Alloc, Fail
<1>5. ASSUME NEW t \in Threads, RecvFails(t) PROVE StubInv'
  <2>1. pc[t] \in Holding \ {"close"}
    BY <1>5 DEF RecvFails, Holding
  <2>. QED
    BY <1>5, <2>1, FailStub DEF RecvFails
<1>. QED
  BY <1>1, <1>2, <1>3, <1>4, <1>5, EnterStub, SocketStub, ConnectStub, SendStub, RecvStub,
     ReceivedStub, CloseStub, ServerStub, KilledStub DEF Next, StubStep

-----------------------------------------------------------------------------
(* A stub's socket is the one sock denotes until the stub closes it, and   *)
(* carries its own request alone.                                          *)
THEOREM StubsSound ==
  ASSUME OneThread
  PROVE  Spec => []StubInv
  BY InitStub, NextStub, PTL DEF Spec

(* recv() is called on a connected socket on which this call has sent its  *)
(* request, whatever has failed before.                                    *)
THEOREM Connected ==
  ASSUME OneThread
  PROVE  Spec => []ConnectedWhenReceiving
<1>1. StubInv => ConnectedWhenReceiving
  <2>. SUFFICES ASSUME StubInv, NEW t \in Threads, pc[t] \in {"recv", "receiving"}
                PROVE  /\ Current # 0
                       /\ conn[Current].state = "connected"
                       /\ conn[Current].requests = <<call[t]>>
    BY DEF ConnectedWhenReceiving
  <2>1. pc[t] \in Holding
    BY DEF Holding
  <2>. QED
    BY <2>1, CurrentSock DEF StubInv, SockInv
<1>. QED
  BY <1>1, StubsSound, PTL

(* No socket is left open between calls, if read() has memory for its      *)
(* response: that error path alone does not close the socket.              *)
THEOREM NoLeak ==
  ASSUME OneThread, "alloc" \notin Faults
  PROVE  Spec => []NoSocketLeak
<1>1. StubInv => NoSocketLeak
  BY DEF OneThread, StubInv, OnlyInv, Holding, NoSocketLeak, FreeFds
<1>. QED
  BY <1>1, StubsSound, PTL

(* A stub returns -1 or the answer to its own request; or what its buffer  *)
(* held, if the server has ended its connection without an answer, which   *)
(* recv_data() takes for success.                                          *)
THEOREM OwnReplies ==
  ASSUME OneThread
  PROVE  Spec => []OwnReply
<1>1. StubInv => OwnReply
  BY DEF StubInv, AnswerInv, Unanswered, OwnReply
<1>. QED
  BY <1>1, StubsSound, PTL
=============================================================================
