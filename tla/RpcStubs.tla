------------------------------ MODULE RpcStubs ------------------------------
(***************************************************************************)
(* The client library src/c/rpc_stubs.c: what a remote call does between   *)
(* entering a stub and returning from it.  connect_to_server(),            *)
(* send_data() and recv_data() speak through one static variable, `sock',  *)
(* which every call of the process assigns and every step reads again, so  *)
(* each library call is a step of its own.  The stubs replace functions of *)
(* the C library that any thread of the program may call.                  *)
(*                                                                         *)
(* The server is seen through the connections: main() of src/c/server.c    *)
(* takes them in order and waits for the request of each before it takes   *)
(* the next; a request is answered and its connection closed, or is never  *)
(* answered, or the server goes away.                                      *)
(***************************************************************************)
EXTENDS Integers, Sequences, FiniteSets

CONSTANTS
    Threads,    \* threads of the client program that call the stubs
    Stubs,      \* kinds of stub called, see Kinds
    Fds,        \* descriptors left to the client process
    Faults,     \* library calls that may fail, and "end": the server goes away
    MaxCalls    \* bound: calls made

(* read() allocates its response after sending; open(), write(), truncate(),*)
(* stat(), rename() and unlink() (HEAP) allocate their request; the others *)
(* (STACK) allocate nothing.                                               *)
Kinds == {"HEAP", "STACK", "READ"}

ASSUME StubsAssumption ==
    /\ Stubs \subseteq Kinds
    /\ Fds \subseteq Nat
    /\ MaxCalls \in Nat
    /\ Faults \subseteq {"malloc", "socket", "setsockopt", "connect", "send", "alloc",
                         "recv", "close", "end"}

Calls == 1..MaxCalls

VARIABLES
    pc,      \* per thread, the next library call; "dead" when the program is
    stub,    \* per thread, the kind of stub it is in
    call,    \* per thread, the number of its latest call
    result,  \* per thread: -1, the number of the call answered, or 0: whatever
             \*   the buffer held that recv() was given
    on,      \* per thread, the connection its recv() waits on
    sock,    \* static int sock
    table,   \* descriptors of the process: the socket's number, or 0
    conn,    \* the sockets: state, requests sent, what there is to receive
    sockets, \* sockets made
    calls,   \* calls made
    overlap  \* history: a call was made while another thread was in a stub or
             \*   the server had not done with an earlier request

vars == <<pc, stub, call, result, on, sock, table, conn, sockets, calls, overlap>>

Init ==
    /\ pc = [t \in Threads |-> "idle"] /\ stub = [t \in Threads |-> "STACK"]
    /\ call = [t \in Threads |-> 0] /\ result = [t \in Threads |-> -1]
    /\ on = [t \in Threads |-> 0]
    /\ sock = 0 /\ table = [d \in Fds |-> 0]
    /\ conn = [c \in Calls |-> [state |-> "none", requests |-> <<>>, reply |-> "none"]]
    /\ sockets = 0 /\ calls = 0 /\ overlap = FALSE

-----------------------------------------------------------------------------
FreeFds  == {d \in Fds : table[d] = 0}
LowestFd == {d \in FreeFds : \A e \in FreeFds : d <= e}

(* The socket that sock now denotes, 0 if none.                            *)
Current == IF sock \in Fds THEN table[sock] ELSE 0

Inside(t) == pc[t] \notin {"idle", "dead"}

Goto(t, p) == pc' = [pc EXCEPT ![t] = p]

(* The stub returns; its result is the -1 it started with.                 *)
Fail(t) == Goto(t, "idle") /\ UNCHANGED <<result, on>>

(* The server does not, or no longer, read from this socket.               *)
Broken(c) == conn[c].state = "open" \/ conn[c].reply \in {"sent", "ended", "gone"}

(* The server has, or will be given, a request it has not answered.        *)
Pending(c) == conn[c].requests # <<>> /\ conn[c].reply \in {"none", "lost"}

Overlapping == (\E u \in Threads : Inside(u)) \/ (\E c \in Calls : Pending(c))

CloseSock == table' = IF sock \in Fds THEN [table EXCEPT ![sock] = 0] ELSE table

(* Mutant of Enter: the result is not set to -1 first.                     *)
EnterNoInit(t, k) ==
    /\ pc[t] = "idle" /\ calls < MaxCalls
    /\ calls' = calls + 1
    /\ overlap' = (overlap \/ Overlapping)
    /\ call' = [call EXCEPT ![t] = calls + 1]
    /\ stub' = [stub EXCEPT ![t] = k]
    /\ Goto(t, IF k = "HEAP" THEN "malloc" ELSE "socket")
    /\ UNCHANGED <<result, on, sock, table, conn, sockets>>

(* Entering a stub, for a path or a descriptor that is remote.             *)
Enter(t, k) ==
    /\ pc[t] = "idle" /\ calls < MaxCalls
    /\ calls' = calls + 1
    /\ overlap' = (overlap \/ Overlapping)
    /\ call' = [call EXCEPT ![t] = calls + 1]
    /\ stub' = [stub EXCEPT ![t] = k]
    /\ result' = [result EXCEPT ![t] = -1]
    /\ Goto(t, IF k = "HEAP" THEN "malloc" ELSE "socket")
    /\ UNCHANGED <<on, sock, table, conn, sockets>>

Malloc(t) ==
    /\ pc[t] = "malloc"
    /\ \/ Goto(t, "socket") /\ UNCHANGED <<result, on>>
       \/ "malloc" \in Faults /\ Fail(t)
    /\ UNCHANGED <<stub, call, sock, table, conn, sockets, calls, overlap>>

(* sock = socket(...): -1 when there is no descriptor left.                *)
Socket(t) ==
    /\ pc[t] = "socket"
    /\ \/ /\ \E d \in LowestFd : sock' = d /\ table' = [table EXCEPT ![d] = sockets + 1]
          /\ conn' = [conn EXCEPT ![sockets + 1].state = "open"]
          /\ sockets' = sockets + 1
          /\ Goto(t, "setsockopt") /\ UNCHANGED <<result, on>>
       \/ /\ FreeFds = {} \/ "socket" \in Faults
          /\ sock' = -1
          /\ Fail(t) /\ UNCHANGED <<table, conn, sockets>>
    /\ UNCHANGED <<stub, call, calls, overlap>>

(* Mutant of Setsockopt: the error path does not close the socket.         *)
SetsockoptNoClose(t) ==
    /\ pc[t] = "setsockopt"
    /\ \/ Current # 0 /\ Goto(t, "connect") /\ UNCHANGED <<result, on>>
       \/ (Current = 0 \/ "setsockopt" \in Faults) /\ Fail(t)
    /\ UNCHANGED <<stub, call, sock, table, conn, sockets, calls, overlap>>

Setsockopt(t) ==
    /\ pc[t] = "setsockopt"
    /\ \/ Current # 0 /\ Goto(t, "connect") /\ UNCHANGED <<table, result, on>>
       \/ (Current = 0 \/ "setsockopt" \in Faults) /\ CloseSock /\ Fail(t)
    /\ UNCHANGED <<stub, call, sock, conn, sockets, calls, overlap>>

(* connect() of a socket already connected fails.                          *)
Connect(t) ==
    /\ pc[t] = "connect"
    /\ \/ /\ Current # 0
          /\ conn[Current].state = "open"
          /\ conn' = [conn EXCEPT ![Current].state = "connected"]
          /\ Goto(t, "send") /\ UNCHANGED <<table, result, on>>
       \/ /\ Current # 0 => conn[Current].state = "connected" \/ "connect" \in Faults
          /\ CloseSock /\ Fail(t) /\ UNCHANGED conn
    /\ UNCHANGED <<stub, call, sock, sockets, calls, overlap>>

(* The request leaves the stub; a broken connection may still take it.     *)
Sent(t) ==
    /\ Current # 0 /\ conn[Current].state = "connected"
    /\ conn' = [conn EXCEPT ![Current].requests = Append(@, call[t])]
    /\ Goto(t, IF stub[t] = "READ" THEN "alloc" ELSE "recv")
    /\ UNCHANGED <<table, result, on>>

SendError == Current # 0 => Broken(Current) \/ "send" \in Faults

(* Mutant of Send: after an error the stub goes on to recv().              *)
SendIgnoresError(t) ==
    /\ pc[t] = "send"
    /\ \/ Sent(t)
       \/ SendError /\ CloseSock /\ Goto(t, "recv") /\ UNCHANGED <<result, on, conn>>
    /\ UNCHANGED <<stub, call, sock, sockets, calls, overlap>>

(* Mutant of Send: after an error the socket stays open.                   *)
SendNoClose(t) ==
    /\ pc[t] = "send"
    /\ \/ Sent(t)
       \/ SendError /\ Fail(t) /\ UNCHANGED <<table, conn>>
    /\ UNCHANGED <<stub, call, sock, sockets, calls, overlap>>

Send(t) ==
    /\ pc[t] = "send"
    /\ \/ Sent(t)
       \/ SendError /\ CloseSock /\ Fail(t) /\ UNCHANGED conn
    /\ UNCHANGED <<stub, call, sock, sockets, calls, overlap>>

(* send() without MSG_NOSIGNAL on a broken connection also raises SIGPIPE, *)
(* which ends the program unless it ignores the signal.                    *)
SendKills(t) ==
    /\ pc[t] = "send" /\ Current # 0 /\ Broken(Current)
    /\ pc' = [u \in Threads |-> "dead"]
    /\ table' = [d \in Fds |-> 0]
    /\ UNCHANGED <<stub, call, result, on, sock, conn, sockets, calls, overlap>>

(* read(): response_payload = malloc(...).                                 *)
Alloc(t) ==
    /\ pc[t] = "alloc"
    /\ \/ Goto(t, "recv") /\ UNCHANGED <<result, on>>
       \/ "alloc" \in Faults /\ Fail(t)
    /\ UNCHANGED <<stub, call, sock, table, conn, sockets, calls, overlap>>

(* recv(sock, ...) starts: the kernel looks the descriptor up once.        *)
Recv(t) ==
    /\ pc[t] = "recv"
    /\ \/ /\ Current # 0
          /\ conn[Current].state = "connected"
          /\ on' = [on EXCEPT ![t] = Current]
          /\ Goto(t, "receiving") /\ UNCHANGED <<table, result>>
       \/ /\ Current # 0 => conn[Current].state = "open"
          /\ CloseSock /\ Fail(t)
    /\ UNCHANGED <<stub, call, sock, conn, sockets, calls, overlap>>

(* ... and returns: the answer; 0 bytes, which is not taken for an error,  *)
(* if there is no more to come.                                            *)
Received(t) ==
    LET c == conn[on[t]] IN
    /\ pc[t] = "receiving"
    /\ \/ /\ c.reply = "sent"
          /\ result' = [result EXCEPT ![t] = Head(c.requests)]
          /\ conn' = [conn EXCEPT ![on[t]].reply = "ended"]
       \/ /\ c.reply \in {"ended", "gone"}
          /\ result' = [result EXCEPT ![t] = 0]
          /\ UNCHANGED conn
    /\ Goto(t, "close")
    /\ UNCHANGED <<stub, call, on, sock, table, sockets, calls, overlap>>

(* ... or it fails: a signal, or the connection is reset.                  *)
RecvFails(t) ==
    /\ pc[t] = "receiving" /\ ("recv" \in Faults \/ conn[on[t]].reply = "gone")
    /\ CloseSock /\ Fail(t)
    /\ UNCHANGED <<stub, call, sock, conn, sockets, calls, overlap>>

(* real_close(sock), then the stub decodes the response and returns; the   *)
(* response is not decoded when close() fails.                             *)
Close(t) ==
    /\ pc[t] = "close"
    /\ CloseSock
    /\ \/ Current # 0 /\ Goto(t, "idle") /\ UNCHANGED result
       \/ /\ Current = 0 \/ "close" \in Faults
          /\ result' = [result EXCEPT ![t] = -1]
          /\ Goto(t, "idle")
    /\ UNCHANGED <<stub, call, on, sock, conn, sockets, calls, overlap>>

-----------------------------------------------------------------------------
(* The server. *)

(* A connection that main() would wait on in recv(): it is open at the     *)
(* client's end, and no request has come.                                  *)
Silent(c) ==
    /\ conn[c].state = "connected" /\ conn[c].requests = <<>> /\ conn[c].reply = "none"
    /\ \/ \E d \in Fds : table[d] = c
       \/ \E t \in Threads : pc[t] = "receiving" /\ on[t] = c

(* main() has come to the connection, whose first request is answered.     *)
Answer(c) ==
    /\ conn[c].requests # <<>> /\ conn[c].reply = "none"
    /\ \A e \in 1..(c - 1) : ~Silent(e)
    /\ conn' = [conn EXCEPT ![c].reply = "sent"]
    /\ UNCHANGED <<pc, stub, call, result, on, sock, table, sockets, calls, overlap>>

(* The request is never answered, and its connection stays open: the call  *)
(* it asks for blocks, client_handler() takes one of its goto cleanup, its *)
(* thread finds another connection in argument, or main() waits for such a *)
(* thread at the barrier.                                                  *)
Stranded(c) ==
    /\ conn[c].requests # <<>> /\ conn[c].reply = "none"
    /\ conn' = [conn EXCEPT ![c].reply = "lost"]
    /\ UNCHANGED <<pc, stub, call, result, on, sock, table, sockets, calls, overlap>>

(* The server's end of the connection is closed before it has answered:    *)
(* the process has exited, or was killed.                                  *)
ServerGone(c) ==
    /\ "end" \in Faults
    /\ conn[c].state = "connected" /\ conn[c].reply \in {"none", "lost"}
    /\ conn' = [conn EXCEPT ![c].reply = "gone"]
    /\ UNCHANGED <<pc, stub, call, result, on, sock, table, sockets, calls, overlap>>

-----------------------------------------------------------------------------
StubStep(t) ==
    \/ Malloc(t) \/ Socket(t) \/ Setsockopt(t) \/ Connect(t) \/ Send(t) \/ Alloc(t)
    \/ Recv(t) \/ Received(t) \/ Close(t)

Next ==
    \/ \E t \in Threads : StubStep(t) \/ SendKills(t) \/ RecvFails(t)
                            \/ \E k \in Stubs : Enter(t, k)
    \/ \E c \in Calls : Answer(c) \/ Stranded(c) \/ ServerGone(c)

Spec == Init /\ [][Next]_vars

(* A thread in a stub goes on, and a request that main() comes to is       *)
(* answered, unless it is stranded or the server is gone.  No thread has   *)
(* to make a call, and nothing has to fail.                                *)
FairSpec ==
    /\ Spec
    /\ \A t \in Threads : WF_vars(StubStep(t))
    /\ \A c \in Calls : WF_vars(Answer(c))
-----------------------------------------------------------------------------
(***************************************************************************)
(* Between calls the library holds no socket: each of the ways out of a    *)
(* stub, errors included, has closed the one it opened.                    *)
(***************************************************************************)
NoSocketLeak == (\A t \in Threads : pc[t] = "idle") => FreeFds = Fds

(***************************************************************************)
(* A stub returns -1 or the answer to the very request it sent, whatever   *)
(* failed.  There is one exception: recv_data() takes 0 bytes for success, *)
(* so when the server has ended this call's own connection without an      *)
(* answer the stub returns what its buffer held.  It is said of calls that *)
(* do not overlap: when a stub has given up in recv() and the next call    *)
(* comes before the server is done, the server itself may mix the two (see *)
(* RepliesReachTheirCaller of RpcServer).                                  *)
(***************************************************************************)
OwnReply ==
    \A t \in Threads : ~overlap /\ pc[t] = "idle" =>
        \/ result[t] \in {-1, call[t]}
        \/ result[t] = 0 /\ conn[on[t]].reply = "gone" /\ conn[on[t]].requests = <<call[t]>>

(***************************************************************************)
(* recv() is called on a connection to the server, on which this call has  *)
(* sent its request: what recv_data() assumes.                             *)
(***************************************************************************)
ConnectedWhenReceiving ==
    \A t \in Threads : pc[t] \in {"recv", "receiving"} =>
        /\ Current # 0
        /\ conn[Current].state = "connected"
        /\ conn[Current].requests = <<call[t]>>

(* The thread waits for an answer the server will not give.                *)
Waits(t) == pc[t] = "receiving" /\ conn[on[t]].reply = "lost"

(***************************************************************************)
(* Every call returns, or the program ends by SIGPIPE: whichever library   *)
(* calls fail, when leaked sockets have used up the descriptors, and       *)
(* although main() waits on a connection that is left open without a       *)
(* request.  Only calls that overlap can leave one, and a call is else     *)
(* kept waiting only by a server that never answers it, since recv() has   *)
(* no timeout.                                                             *)
(***************************************************************************)
EveryCallReturns ==
    \/ \E c \in Calls : <>[](overlap /\ Silent(c))
    \/ \A t \in Threads : Inside(t) ~> ~Inside(t) \/ Waits(t)
=============================================================================
